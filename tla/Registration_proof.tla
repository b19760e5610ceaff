------------------------- MODULE Registration_proof -------------------------
(***************************************************************************)
(* Theorems about the two registrations: of a device with the cloud        *)
(* (DeviceAuth), and of slaves with their master (MasterSlave).  They hold *)
(* for any life of a token, any number of calls, failures and decisions of *)
(* the user; and for any number of slaves and addresses, any timeouts, and *)
(* any number of requests whose caller has gone.                           *)
(***************************************************************************)
EXTENDS DeviceAuth, MasterSlave, SequenceTheorems, FiniteSetTheorems, TLAPS

---------------------------------------------------------------------------
(***************************************************************************)
(* The sessions.  The main loop sends a start for each session that waits, *)
(* and a stop only when it took the device for authorized.                 *)
(***************************************************************************)

\* What the steps need of the constants.
LEMMA AuthConstants ==
  /\ ChanCap \in Nat /\ Life \in Nat /\ MaxTime \in Nat /\ MaxTime # 0
  /\ ChanCap # 0 /\ Grace \in Nat /\ MaxFaults \in Nat /\ MaxDecisions \in Nat
  /\ "register" \notin Requests /\ Requests \subseteq Callers /\ "register" \in Callers
  /\ None \in Tokens /\ Tokens \subseteq Nat /\ \A t \in 1..MaxTime : t + Life \in Tokens
BY AuthAssumption DEF Callers, None, Tokens

MainInv ==
  /\ loop \in {"receive", "start", "stop"} /\ isAuthed \in BOOLEAN
  /\ startChan \in 0..1 /\ exitChan \in 0..1
  /\ waiting \in Nat /\ starting \in Nat /\ serving \in Nat
  /\ waiting = startChan + (IF loop = "start" THEN 1 ELSE 0)
  /\ loop = "start" => ~isAuthed
  /\ loop = "stop" => isAuthed
  /\ SessionsMatch

ChannelType == registerChan \in Seq(BOOLEAN) /\ Len(registerChan) <= ChanCap

\* The steps that leave the main loop and the sessions alone.
NotMain == UNCHANGED <<main, sessions>>

LEMMA NotMainKeeps == MainInv /\ NotMain => MainInv'
BY DEF MainInv, NotMain, main, sessions, SessionsMatch

LEMMA MainStepKeeps ==
  ASSUME MainInv, ChannelType, MainStep
  PROVE  MainInv' /\ ChannelType'
<1>1. CASE Receive
  <2>1. /\ Head(registerChan) \in BOOLEAN /\ Tail(registerChan) \in Seq(BOOLEAN)
        /\ Len(Tail(registerChan)) <= ChanCap
    <3>1. registerChan \in Seq(BOOLEAN) /\ registerChan # <<>> /\ Len(registerChan) <= ChanCap
      BY <1>1 DEF Receive, ChannelType
    <3> QED  BY <3>1, AuthConstants, HeadTailProperties
  <2>2. /\ loop = "receive" /\ UNCHANGED <<isAuthed, startChan, exitChan, starting, serving>>
        /\ \/ ~isAuthed /\ loop' = "start" /\ waiting' = waiting + 1
           \/ isAuthed /\ loop' = "stop" /\ waiting' = waiting
           \/ UNCHANGED <<loop, waiting>>
    BY <1>1, Zenon DEF Receive
  <2>3. MainInv'
    BY <2>2 DEF MainInv, SessionsMatch
  <2> QED  BY <1>1, <2>1, <2>3 DEF Receive, ChannelType
<1>2. CASE SendStart
  BY <1>2 DEF SendStart, MainInv, SessionsMatch, ChannelType
<1>3. CASE SendExit
  <2>1. /\ loop = "stop" /\ exitChan = 0 /\ exitChan' = 1 /\ ~isAuthed' /\ loop' = "receive"
        /\ UNCHANGED <<registerChan, startChan, waiting, starting, serving>>
    BY <1>3, Zenon DEF SendExit
  <2>2. isAuthed /\ isAuthed' \in BOOLEAN
    BY <1>3, <2>1, Zenon DEF MainInv, SendExit
  <2> QED  BY <2>1, <2>2 DEF MainInv, SessionsMatch, ChannelType
<1> QED  BY <1>1, <1>2, <1>3 DEF MainStep

LEMMA SessionStepKeeps ==
  ASSUME MainInv, ChannelType, SessionStep
  PROVE  MainInv' /\ ChannelType'
<1>1. ChannelType'
  BY DEF SessionStep, Begin, Started, Finish, ChannelType
<1>2. CASE Begin
  BY <1>1, <1>2 DEF Begin, MainInv, SessionsMatch, main
<1>3. CASE Started
  BY <1>1, <1>3 DEF Started, MainInv, SessionsMatch, main
<1>4. CASE Finish
  BY <1>1, <1>4 DEF Finish, MainInv, SessionsMatch, main
<1> QED  BY <1>1, <1>2, <1>3, <1>4 DEF SessionStep

\* The channel is written when it has room.
LEMMA ReportFits ==
  ASSUME ChannelType, NEW m \in BOOLEAN,
         registerChan' = registerChan
           \/ (Len(registerChan) < ChanCap /\ registerChan' = Append(registerChan, m))
  PROVE  ChannelType'
BY AuthConstants DEF ChannelType

---------------------------------------------------------------------------
(***************************************************************************)
(* The token.  From the moment the goroutine finds no valid token until it *)
(* writes the expire time of the new one, no expire time is valid: it is   *)
(* the only one that writes one, and time does not go back.                *)
(***************************************************************************)

RegRecord ==
  [pc : {"sleep", "register", "saveInfo", "saveCode", "status", "checkToken",
         "exchange", "putKey", "putExp", "report", "dropExp", "dropKey", "mismatch"},
   tok : Tokens, msg : BOOLEAN, next : {"sleep", "dropExp", "mismatch"}]
RegType == reg \in RegRecord

CallRecord == [pc : {"idle", "sent", "delExp", "delKey", "notify"}, tok : Tokens]
CallType == call \in [Callers -> CallRecord]

CloudType ==
  /\ status \in {"unknown", "pending", "approved", "rejected", "deleted"}
  /\ now \in 1..MaxTime /\ decisions \in 0..MaxDecisions

DiskType == info \in BOOLEAN /\ code \in BOOLEAN /\ key \in Tokens /\ exp \in Tokens

FaultType == faults \in 0..MaxFaults

TokenInv ==
  /\ ExpiryIsOfTheToken
  /\ reg.pc \in {"exchange", "putKey", "putExp"} => ~CheckAuthToken
  /\ reg.pc = "putExp" => key \in {reg.tok, None}

AuthInv ==
  MainInv /\ ChannelType /\ RegType /\ CallType /\ CloudType /\ DiskType /\ FaultType /\ TokenInv

LEMMA CallRecords ==
  ASSUME CallType, NEW c \in Callers
  PROVE  /\ \A r \in CallRecord : [call EXCEPT ![c] = r] \in [Callers -> CallRecord]
         /\ \A p \in {"idle", "sent", "delExp", "delKey", "notify"} :
              [call EXCEPT ![c].pc = p] \in [Callers -> CallRecord]
BY DEF CallType, CallRecord

LEMMA NewRecords ==
  ASSUME DiskType
  PROVE  {NoCall, [pc |-> "sent", tok |-> key], [pc |-> "delExp", tok |-> None]} \subseteq CallRecord
BY AuthConstants DEF NoCall, CallRecord, DiskType

LEMMA FirstReg == NoReg \in RegRecord
BY AuthConstants DEF NoReg, RegRecord

FaultStep == UNCHANGED faults \/ Fault

LEMMA FaultKeeps == FaultType /\ FaultStep => FaultType'
BY AuthConstants DEF FaultType, FaultStep, Fault

\* What the goroutine of CheckOrRegisterDevice leaves alone, and how it acts on what it
\* shares: the channel, its own call, the faults.
LEMMA RegisterStepChanges ==
  ASSUME RegisterStep
  PROVE  /\ NotMain /\ FaultStep /\ UNCHANGED <<now, decisions>>
         /\ status' \in {status, "pending"}
         /\ registerChan' = registerChan
              \/ (Len(registerChan) < ChanCap /\ registerChan' = Append(registerChan, reg.msg))
         /\ \/ UNCHANGED call
            \/ call' = [call EXCEPT !["register"].pc = "delExp"]
            \/ call' = [call EXCEPT !["register"] = [pc |-> "sent", tok |-> key]]
<1> USE DEF NotMain, FaultStep, cloud
<1>1. CASE NextRound \/ RegisterDevice
  BY <1>1 DEF NextRound, RegisterDevice, CallFails
<1>2. CASE SaveInfo \/ SaveCode
  BY <1>2 DEF SaveInfo, SaveCode
<1>3. CASE CheckStatus \/ CheckToken \/ Exchange
  BY <1>3 DEF CheckStatus, CheckToken, Exchange, CallFails
<1>4. CASE PutKey \/ PutExp \/ SendReport
  BY <1>4 DEF PutKey, PutExp, SendReport
<1>5. CASE DropExp \/ DropKey \/ Mismatch
  BY <1>5 DEF DropExp, DropKey, Mismatch
<1> QED  BY <1>1, <1>2, <1>3, <1>4, <1>5 DEF RegisterStep

\* A new token is the one that is reported, or it is gone by then.
LEMMA RegisterStepKeeps ==
  ASSUME AuthInv, RegisterStep
  PROVE  AuthInv'
<1> USE AuthConstants DEF AuthInv
<1>1. MainInv'
  BY RegisterStepChanges, NotMainKeeps
<1>2. FaultType'
  BY RegisterStepChanges, FaultKeeps
<1>3. CloudType'
  BY RegisterStepChanges DEF CloudType
<1>4. ChannelType'
  <2>1. reg.msg \in BOOLEAN
    BY DEF RegType, RegRecord
  <2> QED  BY <2>1, RegisterStepChanges, ReportFits
<1>5. CallType'
  <2>1. [pc |-> "sent", tok |-> key] \in CallRecord
    BY NewRecords
  <2>2. \/ UNCHANGED call
        \/ call' = [call EXCEPT !["register"].pc = "delExp"]
        \/ call' = [call EXCEPT !["register"] = [pc |-> "sent", tok |-> key]]
    BY RegisterStepChanges
  <2>3. /\ [call EXCEPT !["register"].pc = "delExp"] \in [Callers -> CallRecord]
        /\ [call EXCEPT !["register"] = [pc |-> "sent", tok |-> key]] \in [Callers -> CallRecord]
    <3>1. "register" \in Callers /\ CallType
      BY DEF Callers
    <3> QED  BY <2>1, <3>1, CallRecords
  <2> QED  BY <2>2, <2>3 DEF CallType
<1>6. RegType' /\ DiskType' /\ TokenInv'
  <2> USE DEF RegType, RegRecord, DiskType, TokenInv, ExpiryIsOfTheToken, CheckAuthToken, CloudType, RegAt, Goto,
              Report, NoReg, None
  <2>1. CASE NextRound \/ RegisterDevice
    <3>1. UNCHANGED <<disk, now>> /\ reg'.pc \in {"register", "status", "saveInfo", "report"}
      BY <2>1 DEF NextRound, RegisterDevice, disk, cloud
    <3>2. reg' \in RegRecord
      BY <2>1 DEF NextRound, RegisterDevice
    <3> QED  BY <3>1, <3>2 DEF disk
  <2>2. CASE SaveInfo \/ SaveCode
    BY <2>2 DEF SaveInfo, SaveCode, cloud
  <2>3. CASE CheckStatus
    <3>1. UNCHANGED <<disk, now>> /\ reg'.pc \in {"checkToken", "report"}
      BY <2>3 DEF CheckStatus, cloud
    <3>2. reg' \in RegRecord
      BY <2>3 DEF CheckStatus
    <3> QED  BY <3>1, <3>2 DEF disk
  <2>10. CASE CheckToken
    BY <2>10 DEF CheckToken, disk, cloud
  <2>4. CASE Exchange
    BY <2>4 DEF Exchange, disk, cloud
  <2>5. CASE PutKey
    BY <2>5 DEF PutKey, cloud
  <2>6. CASE PutExp
    BY <2>6 DEF PutExp, cloud
  <2>7. CASE SendReport
    BY <2>7 DEF SendReport, disk, cloud
  <2>8. CASE DropExp
    BY <2>8 DEF DropExp, cloud
  <2>11. CASE DropKey
    BY <2>11 DEF DropKey, cloud
  <2>9. CASE Mismatch
    BY <2>9 DEF Mismatch, disk, cloud
  <2> QED  BY <2>1, <2>2, <2>3, <2>4, <2>5, <2>6, <2>7, <2>8, <2>9, <2>10, <2>11 DEF RegisterStep
<1> QED  BY <1>1, <1>2, <1>3, <1>4, <1>5, <1>6

\* Calls and interceptors take the token away; they never write one.
LEMMA CallStepKeeps ==
  ASSUME AuthInv, NEW c \in Callers, Send(c) \/ CallStep(c)
  PROVE  AuthInv'
<1> USE AuthConstants DEF AuthInv
<1>1. MainInv' /\ CloudType' /\ RegType'
  BY NotMainKeeps DEF NotMain, CloudType, cloud, RegType, CallStep, Send, CloudAnswers, DeleteExp, DeleteKey, Notify
<1>2. FaultType'
  <2>1. FaultStep
    BY DEF FaultStep, CallStep, Send, CloudAnswers, DeleteExp, DeleteKey, Notify
  <2> QED  BY <2>1, FaultKeeps
<1>3. ChannelType'
  <2>1. registerChan' = registerChan
          \/ (Len(registerChan) < ChanCap /\ registerChan' = Append(registerChan, FALSE))
    BY DEF CallStep, Send, CloudAnswers, DeleteExp, DeleteKey, Notify
  <2> QED  BY <2>1, ReportFits
<1>4. CallType'
  <2>1. \/ \E r \in {NoCall, [pc |-> "sent", tok |-> key], [pc |-> "delExp", tok |-> None]} :
             call' = [call EXCEPT ![c] = r]
        \/ \E p \in {"delKey", "notify"} : call' = [call EXCEPT ![c].pc = p]
    BY DEF CallStep, Send, CloudAnswers, DeleteExp, DeleteKey, Notify
  <2>2. {NoCall, [pc |-> "sent", tok |-> key], [pc |-> "delExp", tok |-> None]}
          \subseteq CallRecord
    BY NewRecords
  <2>3. ASSUME NEW p \in {"delKey", "notify"}, call' = [call EXCEPT ![c].pc = p] PROVE CallType'
    BY <2>3, CallRecords DEF CallType
  <2>4. ASSUME NEW r \in CallRecord, call' = [call EXCEPT ![c] = r] PROVE CallType'
    BY <2>4, CallRecords DEF CallType
  <2> QED  BY <2>1, <2>2, <2>3, <2>4
<1>5. DiskType' /\ TokenInv'
  <2>1. /\ UNCHANGED <<info, code, now, reg>>
        /\ \/ UNCHANGED <<key, exp>>
           \/ exp' = None /\ key' = key
           \/ key' = None /\ exp' = exp
    BY DEF CallStep, Send, CloudAnswers, DeleteExp, DeleteKey, Notify, disk, cloud
  <2> QED  BY <2>1 DEF DiskType, TokenInv, ExpiryIsOfTheToken, CheckAuthToken, None
<1> QED  BY <1>1, <1>2, <1>3, <1>4, <1>5

\* The rest, and the crash, which leaves the disk alone.
LEMMA AuthNextKeeps == AuthInv /\ [AuthNext]_authVars => AuthInv'
<1> SUFFICES ASSUME AuthInv, [AuthNext]_authVars PROVE AuthInv'
  OBVIOUS
<1> USE AuthConstants DEF AuthInv
<1>1. CASE MainStep
  <2>1. MainInv' /\ ChannelType'
    BY <1>1, MainStepKeeps
  <2>2. UNCHANGED <<disk, cloud, reg, call, faults>>
    BY <1>1 DEF MainStep, Receive, SendStart, SendExit
  <2> QED  BY <2>1, <2>2 DEF disk, cloud, RegType, CallType, CloudType, DiskType, FaultType, TokenInv,
              ExpiryIsOfTheToken, CheckAuthToken
<1>2. CASE SessionStep
  <2>1. MainInv' /\ ChannelType'
    BY <1>2, SessionStepKeeps
  <2>2. UNCHANGED <<disk, cloud, reg, call, faults>>
    BY <1>2 DEF SessionStep, Begin, Started, Finish
  <2> QED  BY <2>1, <2>2 DEF disk, cloud, RegType, CallType, CloudType, DiskType, FaultType, TokenInv,
              ExpiryIsOfTheToken, CheckAuthToken
<1>3. CASE Decide \/ Pass
  <2>1. MainInv' /\ ChannelType'
    BY <1>3, NotMainKeeps DEF NotMain, Decide, Pass, ChannelType
  <2>2. UNCHANGED <<disk, reg, call, faults>> /\ now' >= now /\ now' \in 1..MaxTime
    BY <1>3 DEF Decide, Pass, CloudType
  <2>3. CloudType'
    BY <1>3, <2>2 DEF Decide, Pass, CloudType
  <2>4. CheckAuthToken' => CheckAuthToken
    BY <2>2 DEF CheckAuthToken, disk, DiskType, CloudType
  <2> QED  BY <2>1, <2>2, <2>3, <2>4 DEF disk, RegType, CallType, DiskType, FaultType, TokenInv,
              ExpiryIsOfTheToken
<1>4. CASE AgentCrash
  <2>1. MainInv'
    <3>1. ~isAuthed' /\ isAuthed' \in BOOLEAN
      BY <1>4, Zenon DEF AgentCrash
    <3> QED  BY <1>4, <3>1 DEF AgentCrash, MainInv, SessionsMatch
  <2>2. ChannelType' /\ RegType' /\ CallType'
    BY <1>4, NewRecords, FirstReg DEF AgentCrash, ChannelType, RegType, CallType
  <2>3. FaultType'
    BY <1>4, FaultKeeps DEF AgentCrash, FaultStep
  <2>4. UNCHANGED <<disk, cloud>> /\ reg'.pc = "sleep"
    BY <1>4 DEF AgentCrash, NoReg
  <2> QED  BY <2>1, <2>2, <2>3, <2>4 DEF disk, cloud, CloudType, DiskType, TokenInv,
              ExpiryIsOfTheToken, CheckAuthToken
<1>5. CASE UNCHANGED authVars
  BY <1>5, NotMainKeeps DEF authVars, NotMain, disk, cloud, RegType, CallType, CloudType, DiskType,
     FaultType, ChannelType, TokenInv, ExpiryIsOfTheToken, CheckAuthToken
<1> QED  BY <1>1, <1>2, <1>3, <1>4, <1>5, RegisterStepKeeps, CallStepKeeps DEF AuthNext

LEMMA AuthInitHolds == AuthInit => AuthInv
<1> SUFFICES ASSUME AuthInit PROVE AuthInv
  OBVIOUS
<1> USE AuthConstants DEF AuthInit, Process
<1>1. MainInv
  <2>1. ~isAuthed /\ isAuthed \in BOOLEAN
    BY Zenon
  <2> QED  BY <2>1 DEF MainInv, SessionsMatch
<1>2. info \in BOOLEAN /\ code \in BOOLEAN
  BY Zenon
<1>3. DiskType /\ CloudType /\ FaultType /\ ChannelType
  BY <1>2 DEF ChannelType, CloudType, DiskType, FaultType
<1>4. NoReg \in RegRecord /\ NoCall \in CallRecord
  BY <1>3, NewRecords, FirstReg
<1>5. RegType /\ CallType
  BY <1>4 DEF RegType, CallType
<1>6. TokenInv
  BY DEF TokenInv, ExpiryIsOfTheToken, CheckAuthToken, NoReg, None
<1> QED  BY <1>1, <1>3, <1>5, <1>6 DEF AuthInv

LEMMA AuthInvariant == AuthSpec => []AuthInv
BY AuthInitHolds, AuthNextKeeps, PTL DEF AuthSpec

\* The messages of registerChan, the calls and the goroutines are what they may be, and
\* no more than two sessions are ever at the same stage.
THEOREM AuthTypeCorrect == AuthSpec => []AuthTypeOK
<1>1. AuthInv => AuthTypeOK
  BY AuthConstants DEF CallRecord, RegRecord, AuthInv, AuthTypeOK, MainInv, SessionsMatch, ChannelType, RegType, CallType,
     CloudType, DiskType, FaultType
<1> QED  BY <1>1, AuthInvariant, PTL

\* However messages, crashes and the sessions' steps interleave, one session stays if the
\* device is authorized and none if it is not.  A start is sent for each session that
\* waits and a stop for one that is there, because isAuthed changes only with them.
THEOREM SessionsAreMatched == AuthSpec => []SessionsMatch
<1>1. AuthInv => SessionsMatch
  BY DEF AuthInv, MainInv
<1> QED  BY <1>1, AuthInvariant, PTL

\* An expire time that passes for valid is that of the token beside it, or the token is
\* gone, whatever interceptors, failed writes and crashes come between the two writes.
THEOREM ExpiriesAreOfTheirTokens == AuthSpec => []ExpiryIsOfTheToken
<1>1. AuthInv => ExpiryIsOfTheToken
  BY DEF AuthInv, TokenInv
<1> QED  BY <1>1, AuthInvariant, PTL

---------------------------------------------------------------------------
(***************************************************************************)
(* The registry.  An entry is made by HandleRegister, changed, or removed; *)
(* the fan-out marks an entry that is there, because a step that replaces  *)
(* or removes an entry makes it forget the mark.                           *)
(***************************************************************************)

RegistryType == DOMAIN registry \subseteq Slaves /\ registry \in [DOMAIN registry -> Entry]

FanType ==
  /\ fan \in [pc : {"idle", "collect", "mark"}, waiting : SUBSET Slaves, mark : Slaves \cup {Nobody}]
  /\ fan.mark # Nobody => fan.pc = "mark" /\ Registered(fan.mark)

ProcessType ==
  /\ proc \in [Slaves -> {"down", "up", "leaving"}]
  /\ beat \in [Slaves -> {"registering", "beating"}]
  /\ addr \in [Slaves -> Addrs]

MasterInv == RegistryType /\ FanType /\ ProcessType /\ net \subseteq Request

\* An entry that is there keeps its address; one that was not is registered.
Adds ==
  \A s \in DOMAIN registry' :
    IF Registered(s) THEN registry'[s].addr = registry[s].addr
    ELSE \E q \in net \ net' : /\ q.from = s /\ q.kind = "register"
                               /\ q.addr = registry'[s].addr

\* The entries keep their identifiers and addresses.
Kept ==
  /\ DOMAIN registry' = DOMAIN registry /\ registry' \in [DOMAIN registry -> Entry]
  /\ \A s \in DOMAIN registry : registry'[s].addr = registry[s].addr

LEMMA KeptIsFine ==
  ASSUME MasterInv, Kept, fan' = fan \/ (FanType' /\ fan'.mark = Nobody)
  PROVE  RegistryType' /\ FanType' /\ Adds
<1>1. RegistryType'
  BY DEF MasterInv, RegistryType, Kept
<1>2. FanType'
  BY DEF MasterInv, FanType, Kept, Registered
<1>3. Adds
  BY DEF MasterInv, RegistryType, Kept, Adds, Registered
<1> QED  BY <1>1, <1>2, <1>3

LEMMA RegistryStep ==
  ASSUME MasterInv, [Next]_vars
  PROVE  RegistryType' /\ FanType' /\ Adds
<1>0. SlaveTimeout \in Nat /\ OnlineWindow \in Nat /\ Nobody \notin Slaves
  BY SlavesAssumption
<1>1. CASE UNCHANGED <<registry, fan>>
  BY <1>1, KeptIsFine DEF Kept, MasterInv, RegistryType
<1>2. CASE UNCHANGED vars \/ \E s \in Slaves :
             \/ \E a \in Addrs : Boot(s, a)
             \/ SendRegister(s) \/ SendHeartbeat(s) \/ Signal(s) \/ Crash(s) \/ Exit(s)
  BY <1>1, <1>2 DEF vars, Boot, SendRegister, SendHeartbeat, Signal, Crash, Exit, Stop
<1>3. CASE \E q \in net : Drop(q) \/ Abandon(q) \/ \E heard \in BOOLEAN : HandleHeartbeat(q, heard)
  BY <1>1, <1>3 DEF Drop, Abandon, HandleHeartbeat
<1>4. CASE FanoutStart \/ FanoutReturn \/ \E s \in Slaves : Answer(s) \/ Fail(s)
  <2>1. registry' = registry
    BY <1>4 DEF FanoutStart, FanoutReturn, Answer, Fail
  <2>2. FanType'
    BY <1>4 DEF FanoutStart, FanoutReturn, Answer, Fail, MasterInv, FanType, Idle, Registered
  <2> QED  BY <2>1, <2>2 DEF MasterInv, RegistryType, Adds, Registered
<1>5. ASSUME NEW q \in net, NEW heard \in BOOLEAN, HandleRegister(q, heard)
      PROVE  RegistryType' /\ FanType' /\ Adds
  <2> DEFINE e == [addr |-> q.addr, status |-> "online", age |-> 0]
  <2>1. q \in Request /\ q.kind = "register" /\ net' = net \ {q} /\ e \in Entry /\ e.addr = q.addr
    BY <1>0, <1>5 DEF HandleRegister, MasterInv, Request, Entry
  <2>2. CASE Registered(q.from) /\ registry[q.from].addr # q.addr
    BY <1>1, <1>5, <2>2 DEF HandleRegister
  <2>3. CASE Registered(q.from) => registry[q.from].addr = q.addr
    <3>1. registry' = Put(registry, q.from, e) /\ Forget(q.from)
      BY <1>5, <2>3 DEF HandleRegister
    <3> HIDE DEF e
    <3>2. /\ DOMAIN registry' = DOMAIN registry \cup {q.from}
          /\ \A s \in DOMAIN registry' : registry'[s] = IF s = q.from THEN e ELSE registry[s]
          /\ registry' = [s \in DOMAIN registry' |-> registry'[s]]
      BY <3>1 DEF Put
    <3>3. RegistryType'
      BY <2>1, <3>2 DEF MasterInv, RegistryType, Request
    <3>4. FanType'
      BY <1>0, <3>1, <3>2 DEF MasterInv, FanType, Forget, Registered
    <3>5. Adds
      BY <2>1, <2>3, <3>2 DEF Adds, Registered
    <3> QED  BY <3>3, <3>4, <3>5
  <2> QED  BY <2>2, <2>3
<1>6. ASSUME NEW q \in net, UpdateHeartbeat(q)
      PROVE  RegistryType' /\ FanType' /\ Adds
  <2>1. CASE Registered(q.from)
    <3>1. registry' = [registry EXCEPT ![q.from].status = "online", ![q.from].age = 0] /\ fan' = fan
      BY <1>6, <2>1 DEF UpdateHeartbeat
    <3>2. Kept
      BY <1>0, <3>1, <2>1 DEF MasterInv, RegistryType, Kept, Entry, Registered
    <3> QED  BY <3>1, <3>2, KeptIsFine
  <2>2. CASE ~Registered(q.from)
    BY <1>1, <1>6, <2>2 DEF UpdateHeartbeat
  <2> QED  BY <2>1, <2>2
<1>7. ASSUME NEW q \in net, HandleUnregister(q)
      PROVE  RegistryType' /\ FanType' /\ Adds
  <2>1. registry' = Without(registry, q.from) /\ Forget(q.from)
    BY <1>7 DEF HandleUnregister
  <2>2. /\ DOMAIN registry' = DOMAIN registry \ {q.from}
        /\ \A s \in DOMAIN registry' : registry'[s] = registry[s]
        /\ registry' = [s \in DOMAIN registry' |-> registry'[s]]
    BY <2>1 DEF Without
  <2>3. RegistryType'
    BY <2>2 DEF MasterInv, RegistryType
  <2>4. FanType'
    BY <1>0, <2>1, <2>2 DEF MasterInv, FanType, Forget, Registered
  <2>5. Adds
    BY <2>2 DEF Adds, Registered
  <2> QED  BY <2>3, <2>4, <2>5
<1>8. CASE Tick
  <2>1. Kept
    BY <1>0, <1>8 DEF Tick, Kept, MasterInv, RegistryType, Entry
  <2> QED  BY <1>8, <2>1, KeptIsFine DEF Tick
<1>9. CASE CheckAndCleanup
  <2>1. Kept
    BY <1>9 DEF CheckAndCleanup, Kept, MasterInv, RegistryType, Entry
  <2> QED  BY <1>9, <2>1, KeptIsFine DEF CheckAndCleanup
<1>10. CASE MasterRestart
  BY <1>10 DEF MasterRestart, RegistryType, FanType, Idle, Adds
<1>11. CASE MarkError
  <2>1. FanType' /\ fan'.mark = Nobody
    BY <1>11 DEF MarkError, MasterInv, FanType
  <2>2. CASE fan.mark = Nobody
    <3>1. Kept
      BY <1>11, <2>2 DEF MarkError, Kept, MasterInv, RegistryType
    <3> QED  BY <2>1, <3>1, KeptIsFine
  <2>3. CASE fan.mark # Nobody
    <3>1. fan.mark \in DOMAIN registry /\ registry' = [registry EXCEPT ![fan.mark].status = "error"]
      BY <1>11, <2>3 DEF MarkError, MasterInv, FanType, Registered
    <3>2. Kept
      BY <3>1 DEF Kept, MasterInv, RegistryType, Entry
    <3> QED  BY <2>1, <3>2, KeptIsFine
  <2> QED  BY <2>2, <2>3
<1> QED
  BY <1>2, <1>3, <1>4, <1>5, <1>6, <1>7, <1>8, <1>9, <1>10, <1>11 DEF Next

---------------------------------------------------------------------------
(***************************************************************************)
(* The network.  A slave has one live call of each of its two goroutines   *)
(* at most, and none when its process is down; a request goes, is          *)
(* answered by another of the same caller, loses its caller, or is new.    *)
(***************************************************************************)

Unregisters(q) == q.kind = "unregister"
SameCaller(q, r) == q.from = r.from /\ q.live = r.live /\ (Unregisters(q) <=> Unregisters(r))

NetInv ==
  /\ IsFiniteSet(net) /\ Cardinality(Strays) <= MaxStray
  /\ \A q, r \in net : q.live /\ SameCaller(q, r) => q = r

CallersLive ==
  \A q \in net : q.live => proc[q.from] # "down" /\ (Unregisters(q) => proc[q.from] = "leaving")

NetMove ==
  \/ net' \subseteq net
  \/ \E r \in Request : /\ r.live /\ net' = net \cup {r}
                        /\ \A q \in net : ~SameCaller(q, r)
  \/ \E Q \in SUBSET net : net' = (net \ Q) \cup Orphan(Q)
  \/ \E q \in net, r \in Request : SameCaller(q, r) /\ net' = (net \ {q}) \cup {r}

\* Requests that lose their caller are strays, as many as the bound allows.
LEMMA Orphans ==
  ASSUME net \subseteq Request, IsFiniteSet(net), Cardinality(Strays) <= MaxStray, NEW Q \in SUBSET net
  PROVE  /\ Orphan(Q) \subseteq {q \in Request : ~q.live} /\ IsFiniteSet(Orphan(Q))
         /\ Cardinality(Strays \cup Orphan(Q)) <= MaxStray
<1> DEFINE f == [r \in Q |-> [r EXCEPT !.live = FALSE]]
           kept == {[r EXCEPT !.live = FALSE] : r \in Q}
<1>1. IsFiniteSet(Q) /\ f \in Surjection(Q, kept)
  BY FS_Subset DEF Surjection
<1>2. IsFiniteSet(kept)
  BY <1>1, FS_Surjection
<1>3. kept \subseteq {q \in Request : ~q.live}
  BY DEF Request
<1>4. Orphan(Q) = IF Cardinality(Strays \cup kept) <= MaxStray THEN kept ELSE {}
  BY DEF Orphan
<1> HIDE DEF kept, f
<1>5. CASE Orphan(Q) = kept /\ Cardinality(Strays \cup kept) <= MaxStray
  BY <1>2, <1>3, <1>5
<1>6. CASE Orphan(Q) = {}
  <2>1. Strays \cup {} = Strays
    OBVIOUS
  <2> QED  BY <1>6, <2>1, FS_EmptySet
<1> QED
  BY <1>4, <1>5, <1>6

LEMMA MoveKeepsNet ==
  ASSUME net \subseteq Request, NetInv, NetMove
  PROVE  net' \subseteq Request /\ NetInv'
<1>0. MaxStray \in Nat /\ IsFiniteSet(Strays) /\ Cardinality(Strays) \in Nat
  BY SlavesAssumption, FS_Subset, FS_CardinalityType DEF NetInv, Strays
<1>1. CASE net' \subseteq net
  <2>1. IsFiniteSet(net') /\ Strays' \in SUBSET Strays
    BY <1>1, FS_Subset DEF NetInv, Strays
  <2>2. Cardinality(Strays') <= Cardinality(Strays) /\ Cardinality(Strays') \in Nat
    BY <1>0, <2>1, FS_Subset, FS_CardinalityType
  <2> QED  BY <1>0, <1>1, <2>1, <2>2 DEF NetInv
<1>2. ASSUME NEW r \in Request, r.live, net' = net \cup {r}, \A q \in net : ~SameCaller(q, r)
      PROVE  net' \subseteq Request /\ NetInv'
  <2>1. IsFiniteSet(net') /\ Strays' = Strays
    BY <1>2, FS_AddElement DEF NetInv, Strays
  <2>2. \A q \in net : ~SameCaller(r, q)
    BY <1>2 DEF SameCaller
  <2> QED  BY <1>2, <2>1, <2>2 DEF NetInv
<1>3. ASSUME NEW Q \in SUBSET net, net' = (net \ Q) \cup Orphan(Q)
      PROVE  net' \subseteq Request /\ NetInv'
  <2>1. /\ Orphan(Q) \subseteq {q \in Request : ~q.live} /\ IsFiniteSet(Orphan(Q))
        /\ Cardinality(Strays \cup Orphan(Q)) <= MaxStray
    BY Orphans DEF NetInv
  <2>2. IsFiniteSet(net \ Q) /\ IsFiniteSet(Strays \cup Orphan(Q))
    BY <1>0, <2>1, FS_Subset, FS_Union DEF NetInv
  <2>3. IsFiniteSet(net') /\ Strays' \in SUBSET (Strays \cup Orphan(Q))
    BY <1>3, <2>1, <2>2, FS_Union DEF Strays
  <2>4. /\ Cardinality(Strays') <= Cardinality(Strays \cup Orphan(Q)) /\ Cardinality(Strays') \in Nat
        /\ Cardinality(Strays \cup Orphan(Q)) \in Nat
    BY <2>2, <2>3, FS_Subset, FS_CardinalityType
  <2>5. Cardinality(Strays') <= MaxStray
    BY <1>0, <2>1, <2>4
  <2>6. \A q, r \in net' : q.live /\ SameCaller(q, r) => q = r
    BY <1>3, <2>1 DEF NetInv, SameCaller
  <2> QED  BY <1>3, <2>1, <2>3, <2>5, <2>6 DEF NetInv
<1>4. ASSUME NEW q \in net, NEW r \in Request, SameCaller(q, r), net' = (net \ {q}) \cup {r}
      PROVE  net' \subseteq Request /\ NetInv'
  <2>1. IsFiniteSet(net \ {q}) /\ IsFiniteSet(net')
    BY <1>4, FS_RemoveElement, FS_AddElement DEF NetInv
  <2>2. Cardinality(Strays') <= MaxStray
    <3>1. CASE q.live
      <4>1. Strays' = Strays
        BY <1>4, <3>1 DEF Strays, SameCaller
      <4> QED  BY <4>1 DEF NetInv
    <3>2. CASE ~q.live
      <4>1. q \in Strays /\ Strays' = (Strays \ {q}) \cup {r}
        BY <1>4, <3>2 DEF Strays, SameCaller, Request
      <4>2. IsFiniteSet(Strays \ {q}) /\ Cardinality(Strays \ {q}) = Cardinality(Strays) - 1
        BY <1>0, <4>1, FS_RemoveElement
      <4>3. Cardinality(Strays') <= Cardinality(Strays) /\ Cardinality(Strays') \in Nat
        <5>1. Cardinality(Strays \ {q}) \in Nat
          BY <4>2, FS_CardinalityType
        <5> DEFINE S == Strays \ {q}
        <5>2. Cardinality(S \cup {r}) = IF r \in S THEN Cardinality(S) ELSE Cardinality(S) + 1
          BY <4>2, FS_AddElement
        <5> QED  BY <1>0, <4>1, <4>2, <5>1, <5>2
      <4> QED  BY <1>0, <4>3 DEF NetInv
    <3> QED  BY <3>1, <3>2
  <2>3. \A x, y \in net' : x.live /\ SameCaller(x, y) => x = y
    <3>1. \A x \in net : SameCaller(x, r) => SameCaller(x, q)
      BY <1>4 DEF SameCaller
    <3>2. \A x \in net : SameCaller(r, x) => (SameCaller(x, q) /\ x.live = r.live)
      BY <1>4 DEF SameCaller
    <3> QED  BY <1>4, <3>1, <3>2 DEF NetInv
  <2> QED  BY <1>4, <2>1, <2>2, <2>3 DEF NetInv
<1> QED
  BY <1>1, <1>2, <1>3, <1>4 DEF NetMove

LEMMA NetStep ==
  ASSUME MasterInv, NetInv, CallersLive, [Next]_vars
  PROVE  NetMove /\ ProcessType' /\ CallersLive'
<1>0. /\ net \subseteq Request
      /\ proc \in [Slaves -> {"down", "up", "leaving"}] /\ beat \in [Slaves -> {"registering", "beating"}]
      /\ addr \in [Slaves -> Addrs]
  BY DEF MasterInv, ProcessType
<1>asked. \A s \in Slaves, kind \in {"register", "heartbeat", "unregister"} :
            /\ Ask(s, kind) \in Request /\ Ask(s, kind).from = s /\ Ask(s, kind).live
            /\ Unregisters(Ask(s, kind)) <=> kind = "unregister"
  BY <1>0 DEF Ask, Request, Unregisters
<1>1. CASE UNCHANGED <<net, slaveVars>>
  BY <1>0, <1>1 DEF slaveVars, NetMove, ProcessType, CallersLive
<1>2. CASE UNCHANGED vars \/ Tick \/ CheckAndCleanup \/ FanoutStart \/ MarkError \/ FanoutReturn
             \/ \E s \in Slaves : Answer(s) \/ Fail(s)
  BY <1>1, <1>2 DEF vars, slaveVars, Tick, CheckAndCleanup, FanoutStart, MarkError, FanoutReturn, Answer, Fail
<1>3. CASE UNCHANGED proc /\ ProcessType' /\ net' \subseteq net
  BY <1>3 DEF NetMove, CallersLive
<1>4. ASSUME NEW q \in net, \/ Drop(q) \/ UpdateHeartbeat(q) \/ HandleUnregister(q)
                            \/ \E heard \in BOOLEAN : HandleRegister(q, heard)
      PROVE  UNCHANGED proc /\ ProcessType' /\ net' \subseteq net
  BY <1>0, <1>4 DEF Drop, UpdateHeartbeat, HandleUnregister, HandleRegister, slaveVars, ProcessType, Request
<1>5. CASE MasterRestart
  BY <1>0, <1>3, <1>5 DEF MasterRestart, slaveVars, ProcessType
<1>6. ASSUME NEW q \in net, Abandon(q) PROVE NetMove /\ ProcessType' /\ CallersLive'
  <2>1. net' = (net \ {q}) \cup Orphan({q}) /\ UNCHANGED slaveVars /\ {q} \in SUBSET net
    BY <1>6 DEF Abandon
  <2>2. \A r \in Orphan({q}) : ~r.live
    BY <2>1, Orphans DEF MasterInv, NetInv
  <2> QED  BY <1>0, <2>1, <2>2 DEF NetMove, slaveVars, ProcessType, CallersLive
<1>7. ASSUME NEW q \in net, NEW heard \in BOOLEAN, HandleHeartbeat(q, heard)
      PROVE  NetMove /\ ProcessType' /\ CallersLive'
  <2>1. q \in Request /\ q.kind = "heartbeat" /\ UNCHANGED slaveVars
    BY <1>0, <1>7 DEF HandleHeartbeat
  <2>2. ASSUME NEW r \in Request, net' = (net \ {q}) \cup {r}, SameCaller(q, r)
        PROVE  NetMove /\ ProcessType' /\ CallersLive'
    <3>1. CallersLive'
      BY <2>1, <2>2 DEF CallersLive, SameCaller, slaveVars
    <3> QED  BY <1>0, <2>1, <2>2, <3>1 DEF NetMove, ProcessType, slaveVars
  <2>3. CASE Registered(q.from)
    <3>1. net' = (net \ {q}) \cup {[q EXCEPT !.seen = TRUE]}
      BY <1>7, <2>3 DEF HandleHeartbeat
    <3>2. [q EXCEPT !.seen = TRUE] \in Request /\ SameCaller(q, [q EXCEPT !.seen = TRUE])
      BY <2>1 DEF Request, SameCaller, Unregisters
    <3> QED  BY <2>2, <3>1, <3>2
  <2>4. CASE ~Registered(q.from) /\ q.live /\ heard
    <3>1. net' = (net \ {q}) \cup {Ask(q.from, "register")}
      BY <1>7, <2>4 DEF HandleHeartbeat
    <3>2. Ask(q.from, "register") \in Request /\ SameCaller(q, Ask(q.from, "register"))
      BY <1>0, <2>1, <2>4 DEF Ask, Request, SameCaller, Unregisters
    <3> QED  BY <2>2, <3>1, <3>2
  <2>5. CASE ~Registered(q.from) /\ ~(q.live /\ heard)
    <3>1. net' \subseteq net
      BY <1>7, <2>5 DEF HandleHeartbeat
    <3> QED  BY <1>0, <1>3, <2>1, <3>1 DEF ProcessType, slaveVars
  <2> QED  BY <2>3, <2>4, <2>5
<1>8. ASSUME NEW s \in Slaves, NEW a \in Addrs, Boot(s, a) PROVE NetMove /\ ProcessType' /\ CallersLive'
  BY <1>0, <1>8 DEF Boot, NetMove, ProcessType, CallersLive, Request
<1>9. ASSUME NEW s \in Slaves, SendRegister(s) \/ SendHeartbeat(s) PROVE NetMove /\ ProcessType' /\ CallersLive'
  <2>1. PICK r \in Request : /\ net' = net \cup {r} /\ r.from = s /\ r.live /\ ~Unregisters(r)
                             /\ UNCHANGED slaveVars /\ Alive(s) /\ ~Calling(s)
    BY <1>9, <1>asked DEF SendRegister, SendHeartbeat
  <2>2. \A q \in net : ~SameCaller(q, r)
    BY <2>1 DEF Calling, SameCaller, Unregisters
  <2> QED  BY <1>0, <2>1, <2>2 DEF NetMove, ProcessType, CallersLive, slaveVars, Alive
<1>10. ASSUME NEW s \in Slaves, Signal(s) PROVE NetMove /\ ProcessType' /\ CallersLive'
  <2>1. PICK r \in Request : /\ net' = net \cup {r} /\ r.from = s /\ r.live /\ Unregisters(r) /\ proc[s] = "up"
                             /\ proc' = [proc EXCEPT ![s] = "leaving"] /\ UNCHANGED <<beat, addr>>
    BY <1>10, <1>asked DEF Signal
  <2>2. \A q \in net : ~SameCaller(q, r)
    BY <2>1 DEF CallersLive, SameCaller
  <2> QED  BY <1>0, <2>1, <2>2 DEF NetMove, ProcessType, CallersLive, Request
<1>11. ASSUME NEW s \in Slaves, Crash(s) \/ Exit(s) PROVE NetMove /\ ProcessType' /\ CallersLive'
  <2> DEFINE mine == {q \in net : q.from = s /\ q.live}
  <2>1. /\ proc' = [proc EXCEPT ![s] = "down"] /\ UNCHANGED <<beat, addr>>
        /\ net' = (net \ mine) \cup Orphan(mine) /\ mine \in SUBSET net
    BY <1>11 DEF Crash, Exit, Stop
  <2>2. \A r \in Orphan(mine) : ~r.live
    BY <2>1, Orphans DEF MasterInv, NetInv
  <2>3. \A q \in net \ mine : q.live => q.from # s
    OBVIOUS
  <2> HIDE DEF mine
  <2> QED  BY <1>0, <2>1, <2>2, <2>3 DEF NetMove, ProcessType, CallersLive, Request
<1> QED
  BY <1>2, <1>3, <1>4, <1>5, <1>6, <1>7, <1>8, <1>9, <1>10, <1>11 DEF Next

---------------------------------------------------------------------------

IInv == MasterInv /\ NetInv /\ CallersLive

LEMMA MasterInit == Init => IInv
<1> SUFFICES ASSUME Init PROVE IInv
  OBVIOUS
<1>1. MasterInv
  BY DEF Init, MasterInv, RegistryType, FanType, ProcessType, Idle, Request
<1>2. NetInv /\ CallersLive
  <2>1. net = {} /\ Strays = {}
    BY DEF Init, Strays
  <2> QED  BY <2>1, FS_EmptySet, SlavesAssumption DEF NetInv, CallersLive
<1> QED  BY <1>1, <1>2 DEF IInv

LEMMA MasterNext == IInv /\ [Next]_vars => IInv' /\ Adds
<1> SUFFICES ASSUME IInv, [Next]_vars PROVE IInv' /\ Adds
  OBVIOUS
<1>1. RegistryType' /\ FanType' /\ Adds
  BY RegistryStep DEF IInv
<1>2. NetMove /\ ProcessType' /\ CallersLive'
  BY NetStep DEF IInv
<1>3. net' \subseteq Request /\ NetInv'
  BY <1>2, MoveKeepsNet DEF IInv, MasterInv
<1> QED  BY <1>1, <1>2, <1>3 DEF IInv, MasterInv

LEMMA InvHolds == Spec => []IInv
BY MasterInit, MasterNext, PTL DEF Spec

\* Every variable of the master, its slaves and the network has its type; a slave
\* has one call of each kind, and the fan-out's mark is for an entry that is there.
THEOREM TypeCorrect == Spec => []TypeOK
<1>1. IInv => TypeOK
  <2> SUFFICES ASSUME IInv PROVE TypeOK
    OBVIOUS
  <2>1. registry \in UNION {[D -> Entry] : D \in SUBSET Slaves}
    BY DEF IInv, MasterInv, RegistryType
  <2>2. \A q, r \in net : q.live /\ r.live /\ q.from = r.from
                            /\ (q.kind = "unregister" <=> r.kind = "unregister") => q = r
    BY DEF IInv, NetInv, SameCaller, Unregisters
  <2> QED
    BY <2>1, <2>2 DEF IInv, MasterInv, FanType, ProcessType, NetInv, TypeOK
<1> QED
  BY <1>1, InvHolds, PTL

\* For any number of slaves: an entry of the registry comes from a registration
\* alone, and keeps its address while it is there. No heartbeat, no mark of the
\* fan-out and no second slave of the same identifier makes or moves an entry.
THEOREM OnlyRegistrationsAdd == Spec => OnlyRegistrationAdds
<1>1. IInv /\ [Next]_vars =>
        [\A s \in DOMAIN registry' :
           IF Registered(s) THEN registry'[s].addr = registry[s].addr
           ELSE \E q \in net \ net' : /\ q.from = s /\ q.kind = "register"
                                      /\ q.addr = registry'[s].addr]_vars
  BY MasterNext DEF Adds
<1> QED
  BY <1>1, InvHolds, PTL DEF Spec, OnlyRegistrationAdds
=============================================================================

------------------------------ MODULE DeviceAuth ------------------------------
(***************************************************************************)
(* How a device registers, gets its token, loses it and gets another, and  *)
(* how the agent starts and stops with it: CheckOrRegisterDevice           *)
(* (internal/register/register.go), the AuthInterceptor of every call of   *)
(* the cloud (internal/api/interceptor/auth.go), the main loop             *)
(* (cmd/coscout/commands/daemon.go) and the life of a daemon.Run, which is *)
(* called a session here.  They share the keys of the token in the         *)
(* database and the channel registerChan, and run at the same time.        *)
(***************************************************************************)
EXTENDS Naturals, Sequences

CONSTANTS
  Requests,      \* the calls of the cloud that can be under way at once
  ChanCap,       \* the capacity of registerChan
  Life,          \* how long a token is good for
  Grace,         \* the six hours of checkAuthToken
  MaxTime,       \* the clock stops here (a bound of the model)
  MaxFaults,     \* failed calls and writes, and crashes (a bound)
  MaxDecisions   \* decisions of the user about the device (a bound)

ASSUME AuthAssumption ==
  /\ {ChanCap, Life, MaxTime} \subseteq Nat \ {0}
  /\ {Grace, MaxFaults, MaxDecisions} \subseteq Nat
  /\ "register" \notin Requests

VARIABLES
  info, code,          \* on disk: device info and exchange code (BOOLEAN: saved)
  key, exp,            \* on disk: the token and its expire time
  status,              \* the cloud: the device's authorize state
  now,                 \* the time
  reg,                 \* the goroutine of CheckOrRegisterDevice, with its locals
  call,                \* calls of the cloud with the token they were sent with
  registerChan,        \* the messages' Authorized
  loop, isAuthed,      \* the main loop
  startChan, exitChan, \* the number of messages in them
  waiting, starting, serving, \* sessions before <-startChan, before and at <-finishChan
  faults, decisions

disk     == <<info, code, key, exp>>
cloud    == <<status, now, decisions>>
sessions == <<startChan, exitChan, waiting, starting, serving>>
main     == <<loop, isAuthed>>
authVars == <<disk, cloud, reg, call, registerChan, main, sessions, faults>>

Callers == Requests \cup {"register"}

\* A token is as good as its expire time, 0 is an empty key.
None   == 0
Tokens == 0..(MaxTime + Life)

NoReg  == [pc |-> "sleep", tok |-> None, msg |-> FALSE, next |-> "sleep"]
NoCall == [pc |-> "idle", tok |-> None]

AuthTypeOK ==
  /\ {info, code} \subseteq BOOLEAN /\ {key, exp} \subseteq Tokens
  /\ status \in {"unknown", "pending", "approved", "rejected", "deleted"}
  /\ now \in 1..MaxTime
  /\ reg \in [pc : {"sleep", "register", "saveInfo", "saveCode", "status", "checkToken",
                    "exchange", "putKey", "putExp", "report", "dropExp", "dropKey", "mismatch"},
              tok : Tokens, msg : BOOLEAN, next : {"sleep", "dropExp", "mismatch"}]
  /\ call \in [Callers -> [pc : {"idle", "sent", "delExp", "delKey", "notify"}, tok : Tokens]]
  /\ registerChan \in Seq(BOOLEAN) /\ Len(registerChan) <= ChanCap
  /\ loop \in {"receive", "start", "stop"} /\ isAuthed \in BOOLEAN
  /\ {startChan, exitChan} \subseteq 0..1
  /\ {waiting, starting, serving} \subseteq 0..2
  /\ faults \in 0..MaxFaults /\ decisions \in 0..MaxDecisions

Process ==
  /\ reg = NoReg /\ call = [c \in Callers |-> NoCall] /\ registerChan = <<>>
  /\ loop = "receive" /\ isAuthed = FALSE
  /\ startChan = 0 /\ exitChan = 0 /\ waiting = 0 /\ starting = 0 /\ serving = 0

AuthInit ==
  /\ info = FALSE /\ code = FALSE /\ key = None /\ exp = None
  /\ status = "unknown" /\ now = 1 /\ faults = 0 /\ decisions = 0
  /\ Process

Fault == faults < MaxFaults /\ faults' = faults + 1

---------------------------------------------------------------------------
(***************************************************************************)
(* CheckOrRegisterDevice.  An outcome is sent to the channel, which blocks *)
(* when it is full; what follows the sending is in "next".                 *)
(***************************************************************************)

\* The goroutine is at pc and not inside a call that the interceptor handles.
RegAt(pc) == reg.pc = pc /\ call["register"] = NoCall

Goto(pc) == reg' = [reg EXCEPT !.pc = pc]
Report(msg, next) == reg' = [NoReg EXCEPT !.pc = "report", !.msg = msg, !.next = next]

\* A call that fails: the cloud is not reached, or it answers "unauthenticated" and the
\* interceptor goes to work before the caller sees the error.
CallFails ==
  \/ UNCHANGED call
  \/ call' = [call EXCEPT !["register"].pc = "delExp"]

\* A round of the ticker.  Device info that cannot be read is taken for none.
NextRound ==
  /\ RegAt("sleep")
  /\ \/ info /\ Goto("status") /\ UNCHANGED faults
     \/ ~info /\ Goto("register") /\ UNCHANGED faults
     \/ info /\ Goto("register") /\ Fault
  /\ UNCHANGED <<disk, cloud, call, registerChan, main, sessions>>

\* registerDevice, until the reply.  A new or deleted device is pending (external).
RegisterDevice ==
  /\ RegAt("register")
  /\ \/ /\ status' = IF status \in {"unknown", "deleted"} THEN "pending" ELSE status
        /\ \/ Goto("saveInfo") /\ UNCHANGED <<call, faults>>
           \/ Report(FALSE, "sleep") /\ Fault /\ UNCHANGED call   \* the reply is lost
     \/ Report(FALSE, "sleep") /\ Fault /\ CallFails /\ UNCHANGED status  \* or no serial number
  /\ UNCHANGED <<disk, now, decisions, registerChan, main, sessions>>

\* setDeviceInfo, its two writes.
SaveInfo ==
  /\ RegAt("saveInfo")
  /\ \/ info' = TRUE /\ Goto("saveCode") /\ UNCHANGED faults
     \/ Report(FALSE, "sleep") /\ Fault /\ UNCHANGED info
  /\ UNCHANGED <<code, key, exp, cloud, call, registerChan, main, sessions>>

SaveCode ==
  /\ RegAt("saveCode")
  /\ \/ code' = TRUE /\ Goto("status") /\ UNCHANGED faults
     \/ Report(FALSE, "sleep") /\ Fault /\ UNCHANGED code
  /\ UNCHANGED <<info, key, exp, cloud, call, registerChan, main, sessions>>

\* getRemoteDeviceStatus; the cloud answers only those who know the code (external).
\* Who cannot ask is taken for authorized ("keep local running when network offline").
CheckStatus ==
  /\ RegAt("status")
  /\ \/ /\ code /\ UNCHANGED <<call, faults>>
        /\ \/ status = "approved" /\ Goto("checkToken")
           \/ status = "rejected" /\ Report(FALSE, "dropExp")
           \/ status \in {"unknown", "pending", "deleted"} /\ Report(FALSE, "sleep")
     \/ /\ Report(TRUE, "sleep") /\ CallFails
        /\ \/ code /\ Fault
           \/ ~code /\ UNCHANGED faults
  /\ UNCHANGED <<disk, cloud, registerChan, main, sessions>>

\* The expire time is there and not before six hours ago.
CheckAuthToken == exp # None /\ exp + Grace >= now

\* A valid token is reported and the tag of a mismatched serial number comes after.
CheckToken ==
  /\ RegAt("checkToken")
  /\ IF CheckAuthToken THEN Report(TRUE, "mismatch") ELSE Goto("exchange")
  /\ UNCHANGED <<disk, cloud, call, registerChan, main, sessions, faults>>

\* exchangeAuthToken, until the reply: a token for an approved device with its code.
Exchange ==
  /\ RegAt("exchange")
  /\ \/ /\ code /\ status = "approved"
        /\ reg' = [reg EXCEPT !.pc = "putKey", !.tok = now + Life] /\ UNCHANGED <<call, faults>>
     \/ /\ Report(FALSE, "sleep") /\ CallFails
        /\ \/ code /\ status = "approved" /\ Fault
           \/ ~(code /\ status = "approved") /\ UNCHANGED faults
  /\ UNCHANGED <<disk, cloud, registerChan, main, sessions>>

\* The error of the first write is dropped.
BugPutKey ==
  /\ RegAt("putKey") /\ Goto("putExp")
  /\ \/ key' = reg.tok /\ UNCHANGED faults
     \/ Fault /\ UNCHANGED key
  /\ UNCHANGED <<info, code, exp, cloud, call, registerChan, main, sessions>>

\* setAuthToken, its two writes.
PutKey ==
  /\ RegAt("putKey")
  /\ \/ key' = reg.tok /\ Goto("putExp") /\ UNCHANGED faults
     \/ Report(FALSE, "sleep") /\ Fault /\ UNCHANGED key
  /\ UNCHANGED <<info, code, exp, cloud, call, registerChan, main, sessions>>

PutExp ==
  /\ RegAt("putExp")
  /\ \/ exp' = reg.tok /\ Report(TRUE, "sleep") /\ UNCHANGED faults
     \/ Report(FALSE, "sleep") /\ Fault /\ UNCHANGED exp
  /\ UNCHANGED <<info, code, key, cloud, call, registerChan, main, sessions>>

SendReport ==
  /\ RegAt("report") /\ Len(registerChan) < ChanCap
  /\ registerChan' = Append(registerChan, reg.msg)
  /\ reg' = [NoReg EXCEPT !.pc = reg.next]
  /\ UNCHANGED <<disk, cloud, call, main, sessions, faults>>

\* The token of a rejected device is deleted; a failure is only logged.
DropExp ==
  /\ RegAt("dropExp") /\ Goto("dropKey")
  /\ \/ exp' = None /\ UNCHANGED faults
     \/ Fault /\ UNCHANGED exp
  /\ UNCHANGED <<info, code, key, cloud, call, registerChan, main, sessions>>

DropKey ==
  /\ RegAt("dropKey") /\ reg' = NoReg
  /\ \/ key' = None /\ UNCHANGED faults
     \/ Fault /\ UNCHANGED key
  /\ UNCHANGED <<info, code, exp, cloud, call, registerChan, main, sessions>>

\* checkMismatchSerialNumber: its call carries the token like any other, if the serial
\* number can be read.
Mismatch ==
  /\ RegAt("mismatch") /\ reg' = NoReg
  /\ \/ call' = [call EXCEPT !["register"] = [pc |-> "sent", tok |-> key]] /\ UNCHANGED faults
     \/ Fault /\ UNCHANGED call
  /\ UNCHANGED <<disk, cloud, registerChan, main, sessions>>

RegisterStep ==
  \/ NextRound \/ RegisterDevice \/ SaveInfo \/ SaveCode \/ CheckStatus \/ CheckToken
  \/ Exchange \/ PutKey \/ PutExp \/ SendReport \/ DropExp \/ DropKey \/ Mismatch

---------------------------------------------------------------------------
(***************************************************************************)
(* The calls of a session, and the interceptor.                            *)
(***************************************************************************)

\* Some goroutine of a session calls the cloud: getAuthToken reads the key.
Send(c) ==
  /\ c \in Requests /\ starting + serving > 0 /\ call[c] = NoCall
  /\ call' = [call EXCEPT ![c] = [pc |-> "sent", tok |-> key]]
  /\ UNCHANGED <<disk, cloud, reg, registerChan, main, sessions, faults>>

Accepted(tok) == status = "approved" /\ now < tok

\* The answer: success, any other error, or "unauthenticated" (external).
CloudAnswers(c) ==
  /\ call[c].pc = "sent"
  /\ \/ Accepted(call[c].tok) /\ call' = [call EXCEPT ![c] = NoCall] /\ UNCHANGED faults
     \/ Fault /\ call' = [call EXCEPT ![c] = NoCall]
     \/ ~Accepted(call[c].tok) /\ UNCHANGED faults
        /\ call' = [call EXCEPT ![c] = [pc |-> "delExp", tok |-> None]]
  /\ UNCHANGED <<disk, cloud, reg, registerChan, main, sessions>>

\* "unauthenticated": the interceptor deletes the token, whichever it is by now...
DeleteExp(c) ==
  /\ call[c].pc = "delExp" /\ call' = [call EXCEPT ![c].pc = "delKey"]
  /\ \/ exp' = None /\ UNCHANGED faults
     \/ Fault /\ UNCHANGED exp
  /\ UNCHANGED <<info, code, key, cloud, reg, registerChan, main, sessions>>

DeleteKey(c) ==
  /\ call[c].pc = "delKey" /\ call' = [call EXCEPT ![c].pc = "notify"]
  /\ \/ key' = None /\ UNCHANGED faults
     \/ Fault /\ UNCHANGED key
  /\ UNCHANGED <<info, code, exp, cloud, reg, registerChan, main, sessions>>

\* The interceptor does not look whether the channel is full.
BugNotify(c) ==
  /\ call[c].pc = "notify" /\ call' = [call EXCEPT ![c] = NoCall]
  /\ registerChan' = Append(registerChan, FALSE)
  /\ UNCHANGED <<disk, cloud, reg, main, sessions, faults>>

\* ... and tells the main loop, unless the channel is full.
Notify(c) ==
  /\ call[c].pc = "notify" /\ call' = [call EXCEPT ![c] = NoCall]
  /\ registerChan' = IF Len(registerChan) < ChanCap THEN Append(registerChan, FALSE)
                                                   ELSE registerChan
  /\ UNCHANGED <<disk, cloud, reg, main, sessions, faults>>

CallStep(c) == CloudAnswers(c) \/ DeleteExp(c) \/ DeleteKey(c) \/ Notify(c)

---------------------------------------------------------------------------
(***************************************************************************)
(* The main loop and the sessions.                                         *)
(***************************************************************************)

\* A stop is sent although nothing runs.
BugReceive ==
  /\ loop = "receive" /\ registerChan # <<>>
  /\ registerChan' = Tail(registerChan)
  /\ \/ /\ Head(registerChan) /\ ~isAuthed
        /\ loop' = "start" /\ waiting' = waiting + 1
     \/ /\ ~Head(registerChan)
        /\ loop' = "stop" /\ UNCHANGED waiting
     \/ /\ Head(registerChan) /\ isAuthed
        /\ UNCHANGED <<loop, waiting>>
  /\ UNCHANGED <<disk, cloud, reg, call, isAuthed, startChan, exitChan, starting, serving, faults>>

\* The loop takes a message; the goroutine of a new session is there at once.
Receive ==
  /\ loop = "receive" /\ registerChan # <<>>
  /\ registerChan' = Tail(registerChan)
  /\ \/ /\ Head(registerChan) /\ ~isAuthed
        /\ loop' = "start" /\ waiting' = waiting + 1
     \/ /\ ~Head(registerChan) /\ isAuthed
        /\ loop' = "stop" /\ UNCHANGED waiting
     \/ /\ Head(registerChan) = isAuthed
        /\ UNCHANGED <<loop, waiting>>
  /\ UNCHANGED <<disk, cloud, reg, call, isAuthed, startChan, exitChan, starting, serving, faults>>

SendStart ==
  /\ loop = "start" /\ startChan = 0
  /\ startChan' = 1 /\ isAuthed' = TRUE /\ loop' = "receive"
  /\ UNCHANGED <<disk, cloud, reg, call, registerChan, exitChan, waiting, starting, serving, faults>>

\* A stop is dropped when an older one is not taken yet.
BugSendExit ==
  /\ loop = "stop"
  /\ exitChan' = 1 /\ isAuthed' = FALSE /\ loop' = "receive"
  /\ UNCHANGED <<disk, cloud, reg, call, registerChan, startChan, waiting, starting, serving, faults>>

\* Both channels have one slot: the send blocks only when an older stop is not taken.
SendExit ==
  /\ loop = "stop" /\ exitChan = 0
  /\ exitChan' = 1 /\ isAuthed' = FALSE /\ loop' = "receive"
  /\ UNCHANGED <<disk, cloud, reg, call, registerChan, startChan, waiting, starting, serving, faults>>

MainStep == Receive \/ SendStart \/ SendExit

Begin ==
  /\ waiting > 0 /\ startChan = 1
  /\ startChan' = 0 /\ waiting' = waiting - 1 /\ starting' = starting + 1
  /\ UNCHANGED <<disk, cloud, reg, call, registerChan, main, exitChan, serving, faults>>

\* The services are started; the session waits for finishChan.
Started ==
  /\ starting > 0 /\ starting' = starting - 1 /\ serving' = serving + 1
  /\ UNCHANGED <<disk, cloud, reg, call, registerChan, main, startChan, exitChan, waiting, faults>>

\* One of the sessions that wait takes the message and returns.
Finish ==
  /\ serving > 0 /\ exitChan = 1
  /\ exitChan' = 0 /\ serving' = serving - 1
  /\ UNCHANGED <<disk, cloud, reg, call, registerChan, main, startChan, waiting, starting, faults>>

SessionStep == Begin \/ Started \/ Finish

---------------------------------------------------------------------------
\* The user approves, rejects or deletes the device (external).
Decide ==
  /\ decisions < MaxDecisions /\ decisions' = decisions + 1
  /\ status \in {"pending", "approved", "rejected"}
  /\ status' \in {"approved", "rejected", "deleted"} \ {status}
  /\ UNCHANGED <<disk, now, reg, call, registerChan, main, sessions, faults>>

Pass ==
  /\ now < MaxTime /\ now' = now + 1
  /\ UNCHANGED <<disk, status, decisions, reg, call, registerChan, main, sessions, faults>>

\* The process dies and is started again.
AgentCrash ==
  /\ Fault
  /\ reg' = NoReg /\ call' = [c \in Callers |-> NoCall] /\ registerChan' = <<>>
  /\ loop' = "receive" /\ isAuthed' = FALSE
  /\ startChan' = 0 /\ exitChan' = 0 /\ waiting' = 0 /\ starting' = 0 /\ serving' = 0
  /\ UNCHANGED <<disk, cloud>>

AuthNext ==
  \/ RegisterStep \/ MainStep \/ SessionStep
  \/ \E c \in Callers : Send(c) \/ CallStep(c)
  \/ Decide \/ Pass \/ AgentCrash

\* The ticker goes on, calls have timeouts, sessions go on calling, goroutines run.
AuthFairness ==
  /\ WF_authVars(RegisterStep) /\ WF_authVars(MainStep) /\ WF_authVars(SessionStep)
  /\ \A c \in Callers : WF_authVars(CallStep(c)) /\ WF_authVars(Send(c))

AuthSpec == AuthInit /\ [][AuthNext]_authVars /\ AuthFairness

---------------------------------------------------------------------------
(***************************************************************************)
(* Properties                                                              *)
(***************************************************************************)

\* Of all sessions, those that wait to start included, one stays if the device is
\* authorized and none if it is not: for each of the others there is a message that
\* stops it, and no message waits to stop a later one.
SessionsMatch ==
  waiting + starting + serving =
    exitChan + (IF isAuthed \/ loop = "start" THEN 1 ELSE 0)

\* An expire time that passes for valid is that of the token beside it, or the token is
\* gone (and the next call finds out); never does it vouch for an older token, whatever
\* interceptors, failed writes and crashes come between the writes of the two keys.
ExpiryIsOfTheToken == CheckAuthToken => key \in {exp, None}

\* Registration was saved whole (a crash or a failed write in between loses the code,
\* and the device does not register again).
Whole == info => code

\* If the device is approved for good, the agent gets hold of a token that is accepted,
\* and runs, again and again, though refused calls delete the token at any time; if it
\* is never approved again, the agent stops for good.
DecisionIsFollowed ==
  /\ <>[](status = "approved" /\ Whole) =>
       []<>Accepted(key) /\ []<>(serving > 0)
  /\ <>[](status # "approved" /\ Whole) =>
       <>[](waiting + starting + serving = 0)
===============================================================================

-------------------------- MODULE FileStates_proof --------------------------
(***************************************************************************)
(* Theorems about FileStates, for any files, directories, threads and      *)
(* capacities: type correctness, and that a file is handed over once.      *)
(***************************************************************************)
EXTENDS FileStates, SequenceTheorems, TLAPS

-----------------------------------------------------------------------------
(* Type correctness.  TypeInv is TypeOK in parts, with the domains of all the *)
(* variables, and nothing to hand over before the states are promoted.        *)

States == UNION {[S -> FileState] : S \in SUBSET Files}
Memory == [state : States, dirs : SUBSET Dirs]
Sound(s) ==
  \A f \in DOMAIN s : s[f].unsupported => s[f].step = Unprocessed /\ ~s[f].listening

StateType ==
  /\ conf \subseteq Dirs
  /\ mem \in Memory /\ Sound(mem.state)
  /\ disk \in Memory \cup {Torn} /\ (disk # Torn => Sound(disk.state))

ScanType ==
  /\ pc \in {"idle", "walked", "next", "send"}
  /\ todo \subseteq Files
  /\ pc \in {"idle", "walked"} => todo = {}
  /\ \A f \in todo : Known(f) /\ mem.state[f].step = ReadyToProcess
  /\ pc = "send" => cur \in Files /\ Known(cur) /\ mem.state[cur].step = Processed

PipeType ==
  /\ chan \in Seq(Files) /\ Len(chan) <= ChanCap
  /\ msgs \in Seq(Files) /\ Len(msgs) <= ChanCap
  /\ held \in Files \cup {None}
  /\ thread \in [Threads -> [file : Files \cup {None}, left : Nat]]
  /\ \A t \in Threads : thread[t].left > 0 => thread[t].file \in Files
  /\ owed \subseteq Files

HandedType == handed \in [Files -> Nat] /\ renewed \in [Files -> Nat]

TypeInv == StateType /\ ScanType /\ PipeType /\ HandedType

\* The states of a set of files.
LEMMA StatesFacts ==
  /\ \A s \in States : DOMAIN s \subseteq Files /\ \A f \in DOMAIN s : s[f] \in FileState
  /\ \A S \in SUBSET Files : \A s \in [S -> FileState] : s \in States
BY DEF States

\* The invariant that is proved implies the one that TLC checks.
LEMMA TypeInvImpliesTypeOK == TypeInv => TypeOK
BY StatesFacts DEF TypeInv, TypeOK, StateType, ScanType, PipeType, Memory, Sound

\* What the operators on states return.
LEMMA OnlyIsStates ==
  ASSUME NEW s \in States, NEW S
  PROVE  /\ Only(s, S) \in States /\ DOMAIN Only(s, S) = DOMAIN s \cap S
         /\ \A f \in DOMAIN s \cap S : Only(s, S)[f] = s[f]
         /\ Sound(s) => Sound(Only(s, S))
<1>1. Only(s, S) \in [DOMAIN s \cap S -> FileState] /\ DOMAIN s \cap S \in SUBSET Files
  BY StatesFacts DEF Only
<1> QED
  BY <1>1, StatesFacts DEF Only, Sound

LEMMA ListenedState ==
  ASSUME NEW s \in States, Sound(s), NEW f \in Files
  PROVE  /\ ProcessListenFile(s, f) \in FileState
         /\ ProcessListenFile(s, f).unsupported => /\ ProcessListenFile(s, f).step = Unprocessed
                                                   /\ ~ProcessListenFile(s, f).listening
         /\ f \in DOMAIN s /\ s[f].step = Processed => ProcessListenFile(s, f) = s[f]
<1> DEFINE st == IF f \in DOMAIN s THEN s[f] ELSE Fresh
<1>1. st \in FileState
  BY StatesFacts DEF Fresh, FileState, Unprocessed, Processed
<1>2. st.unsupported => st.step = Unprocessed /\ ~st.listening
  BY DEF Fresh, Sound
<1>3. ProcessListenFile(s, f) =
        IF f \in DOMAIN s /\ ~st.unsupported /\ st.step = Processed THEN st
        ELSE IF tree[f] = "old"
             THEN [step |-> Unprocessed, listening |-> FALSE, unsupported |-> TRUE]
             ELSE [st EXCEPT !.listening = TRUE, !.unsupported = FALSE]
  BY DEF ProcessListenFile
<1>4. f \in DOMAIN s => st = s[f]
  OBVIOUS
<1> HIDE DEF st
<1>5. ProcessListenFile(s, f) \in FileState
  <2>1. [step |-> Unprocessed, listening |-> FALSE, unsupported |-> TRUE] \in FileState
    BY DEF FileState, Unprocessed, Processed
  <2>2. [st EXCEPT !.listening = TRUE, !.unsupported = FALSE] \in FileState
    BY <1>1 DEF FileState
  <2> QED  BY <1>1, <1>3, <2>1, <2>2
<1> QED
  BY <1>1, <1>2, <1>3, <1>4, <1>5 DEF FileState, Unprocessed, Processed

LEMMA WalkedStates ==
  ASSUME StateType, NEW R \in SUBSET Dirs, NEW W \in SUBSET R
  PROVE  AfterWalk(R, W) \in States /\ Sound(AfterWalk(R, W))
<1> DEFINE kept == Only(mem.state, Files \ Dropped(R))
           found == {f \in UNION {Under[d] : d \in W} : tree[f] \in {"complete", "old"}}
<1>1. kept \in States /\ Sound(kept)
  BY OnlyIsStates DEF StateType, Memory
<1>2. found \subseteq Files
  BY FileStatesAssumption
<1>3. AfterWalk(R, W) = [f \in DOMAIN kept \cup found |->
                           IF f \in found THEN ProcessListenFile(kept, f) ELSE kept[f]]
  BY DEF AfterWalk
<1> HIDE DEF kept, found
<1>4. AfterWalk(R, W) \in [DOMAIN kept \cup found -> FileState] /\ Sound(AfterWalk(R, W))
  BY <1>1, <1>2, <1>3, StatesFacts, ListenedState DEF Sound
<1> QED
  BY <1>1, <1>2, <1>4, StatesFacts

LEMMA PromotedMemory ==
  ASSUME StateType
  PROVE  /\ Promoted \in Memory /\ Sound(Promoted.state)
         /\ DOMAIN Promoted.state = DOMAIN mem.state
         /\ \A f \in DOMAIN mem.state : /\ Promoted.state[f] = Promote(mem.state[f])
                                        /\ mem.state[f].step = Processed
                                             => Promoted.state[f] = mem.state[f]
<1> DEFINE s == [f \in DOMAIN mem.state |-> Promote(mem.state[f])]
<1>1. /\ mem \in Memory /\ Sound(mem.state) /\ DOMAIN mem.state \subseteq Files
      /\ \A f \in DOMAIN mem.state : mem.state[f] \in FileState
  BY StatesFacts DEF StateType, Memory
<1>2. \A st \in FileState : /\ Promote(st) \in FileState
                            /\ Promote(st).unsupported = st.unsupported
                            /\ Promote(st).listening = st.listening
                            /\ ~st.listening \/ st.step = Processed => Promote(st) = st
  BY DEF Promote, FileState, ReadyToProcess, Unprocessed, Processed
<1>3. s \in [DOMAIN mem.state -> FileState]
  BY <1>1, <1>2
<1>4. s \in States /\ Sound(s)
  BY <1>1, <1>2, <1>3, StatesFacts DEF Sound
<1>5. Promoted = [mem EXCEPT !.state = s]
  BY DEF Promoted
<1>6. Promoted \in Memory /\ Promoted.state = s
  BY <1>1, <1>4, <1>5 DEF Memory
<1> QED
  BY <1>1, <1>2, <1>4, <1>6

LEMMA MarkedMemory ==
  ASSUME StateType, NEW f \in Files, Known(f), ~mem.state[f].unsupported
  PROVE  LET m == [mem EXCEPT !.state[f].step = Processed] IN
         /\ m \in Memory /\ Sound(m.state) /\ DOMAIN m.state = DOMAIN mem.state
         /\ m.state[f].step = Processed /\ ~m.state[f].unsupported
         /\ \A g \in DOMAIN mem.state : g # f => m.state[g] = mem.state[g]
<1> DEFINE st == [mem.state[f] EXCEPT !.step = Processed]
           s == [mem.state EXCEPT ![f] = st]
           m == [mem EXCEPT !.state[f].step = Processed]
<1>1. /\ mem \in Memory /\ Sound(mem.state) /\ DOMAIN mem.state \subseteq Files
      /\ mem.state \in [DOMAIN mem.state -> FileState] /\ f \in DOMAIN mem.state
  <2>1. mem \in Memory /\ Sound(mem.state) /\ f \in DOMAIN mem.state /\ mem.state \in States
    BY DEF StateType, Memory, Known
  <2> QED  BY <2>1 DEF States
<1>2. st \in FileState /\ st.step = Processed /\ ~st.unsupported
  BY <1>1 DEF FileState, Processed, Unprocessed
<1> HIDE DEF st
<1>3. /\ s \in [DOMAIN mem.state -> FileState] /\ s[f] = st
      /\ \A g \in DOMAIN mem.state : g # f => s[g] = mem.state[g]
  BY <1>1, <1>2
<1>4. s \in States /\ Sound(s)
  BY <1>1, <1>2, <1>3, StatesFacts DEF Sound
<1>5. m = [mem EXCEPT !.state = s]
  BY DEF st
<1>6. m \in Memory /\ m.state = s
  BY <1>1, <1>4, <1>5 DEF Memory
<1> HIDE DEF m, s
<1>7. /\ m \in Memory /\ Sound(m.state) /\ DOMAIN m.state = DOMAIN mem.state
      /\ m.state[f].step = Processed /\ ~m.state[f].unsupported
      /\ \A g \in DOMAIN mem.state : g # f => m.state[g] = mem.state[g]
  BY <1>2, <1>3, <1>4, <1>6
<1> QED
  BY <1>7 DEF m

\* A state file cut short is no memory.
LEMMA TornIsNoMemory == Torn \notin Memory
BY TornAssumption DEF Memory, States

\* A fresh memory.
LEMMA BlankMemory == Blank \in Memory /\ Sound(Blank.state)
<1>1. << >> \in [{} -> FileState]
  OBVIOUS
<1>2. << >> \in States
  BY <1>1, StatesFacts
<1> QED
  BY <1>1, <1>2 DEF Blank, Memory, Sound

\* A save writes what is in memory, or fails.
LEMMA SavedType ==
  ASSUME StateType, mem' \in Memory, Sound(mem.state)', conf' = conf,
         disk' = mem' \/ disk' \in {disk, Torn}
  PROVE  StateType'
BY DEF StateType

\* What a walk chooses, its results and its save.
LEMMA WalkChoices ==
  ASSUME StateType, UpdateListenDirs
  PROVE  \E readable \in SUBSET Dirs, walked \in SUBSET Dirs, forgotten \in SUBSET Files :
           /\ walked \subseteq readable
           /\ mem' = [state |-> Only(AfterWalk(readable, walked), Files \ forgotten), dirs |-> readable]
           /\ disk' = mem' \/ disk' \in {disk, Torn}
           /\ ~forgiven' => ~forgiven /\ disk' \in {mem', disk}
           /\ pc' \in {"walked", "idle"} /\ pc = "idle"
<1>1. PICK readable \in MayFail(conf) : \E walked \in MayFail(readable) :
        LET s == AfterWalk(readable, walked)
            gone == {f \in DOMAIN s : tree[f] = "absent"}
        IN  \E forgotten \in MayFail(gone) :
              /\ mem' = [state |-> Only(s, Files \ forgotten), dirs |-> readable]
              /\ \/ /\ forgotten = gone /\ pc' = "walked"
                    /\ \/ walked = conf /\ Saved(mem')
                       \/ walked # conf /\ Fault /\ disk' = mem' /\ UNCHANGED forgiven
                 \/ forgotten = gone /\ NotSaved /\ pc' = "idle"
                 \/ forgotten # gone /\ Fault /\ pc' = "idle" /\ UNCHANGED <<disk, forgiven>>
  BY DEF UpdateListenDirs
<1>2. PICK walked \in MayFail(readable) :
        LET s == AfterWalk(readable, walked)
            gone == {f \in DOMAIN s : tree[f] = "absent"}
        IN  \E forgotten \in MayFail(gone) :
              /\ mem' = [state |-> Only(s, Files \ forgotten), dirs |-> readable]
              /\ \/ /\ forgotten = gone /\ pc' = "walked"
                    /\ \/ walked = conf /\ Saved(mem')
                       \/ walked # conf /\ Fault /\ disk' = mem' /\ UNCHANGED forgiven
                 \/ forgotten = gone /\ NotSaved /\ pc' = "idle"
                 \/ forgotten # gone /\ Fault /\ pc' = "idle" /\ UNCHANGED <<disk, forgiven>>
  BY <1>1
<1>3. readable \subseteq Dirs /\ walked \subseteq readable
  BY <1>1, <1>2 DEF MayFail, StateType
<1> DEFINE gone == {f \in DOMAIN AfterWalk(readable, walked) : tree[f] = "absent"}
<1>4. gone \subseteq Files
  BY <1>3, WalkedStates, StatesFacts
<1>5. PICK forgotten \in MayFail(gone) :
        /\ mem' = [state |-> Only(AfterWalk(readable, walked), Files \ forgotten), dirs |-> readable]
        /\ \/ /\ forgotten = gone /\ pc' = "walked"
              /\ \/ walked = conf /\ Saved(mem')
                 \/ walked # conf /\ Fault /\ disk' = mem' /\ UNCHANGED forgiven
           \/ forgotten = gone /\ NotSaved /\ pc' = "idle"
           \/ forgotten # gone /\ Fault /\ pc' = "idle" /\ UNCHANGED <<disk, forgiven>>
  BY <1>2, Zenon
<1>6. forgotten \subseteq Files
  BY <1>4, <1>5 DEF MayFail
<1> HIDE DEF gone
<1>7. pc = "idle"
  BY DEF UpdateListenDirs
<1>8. /\ disk' = mem' \/ disk' \in {disk, Torn}
      /\ ~forgiven' => ~forgiven /\ disk' \in {mem', disk}
      /\ pc' \in {"walked", "idle"}
  BY <1>5 DEF Saved, NotSaved
<1> QED
  BY <1>3, <1>5, <1>6, <1>7, <1>8

\* A file that is put into a channel with room.
LEMMA AppendFits ==
  \A s \in Seq(Files), f \in Files :
    Len(s) < ChanCap => Append(s, f) \in Seq(Files) /\ Len(Append(s, f)) <= ChanCap
BY FileStatesAssumption

\* The steps of the scan.
LEMMA ScanTypes == TypeInv /\ Scan => TypeInv'
<1> SUFFICES ASSUME TypeInv, Scan PROVE TypeInv'
  OBVIOUS
<1> USE DEF TypeInv, envVars, pipeVars, histVars
<1>1. CASE UpdateListenDirs
  <2>1. PICK readable \in SUBSET Dirs, walked \in SUBSET Dirs, forgotten \in SUBSET Files :
          /\ walked \subseteq readable
          /\ mem' = [state |-> Only(AfterWalk(readable, walked), Files \ forgotten), dirs |-> readable]
          /\ disk' = mem' \/ disk' \in {disk, Torn}
          /\ pc' \in {"walked", "idle"} /\ pc = "idle"
    BY <1>1, WalkChoices
  <2>2. mem' \in Memory /\ Sound(mem.state)'
    BY <2>1, WalkedStates, OnlyIsStates DEF Memory
  <2>3. StateType'
    BY <1>1, <2>1, <2>2, SavedType DEF UpdateListenDirs
  <2>4. ScanType' /\ PipeType'
    BY <1>1, <2>1 DEF UpdateListenDirs, ScanType, PipeType
  <2>5. HandedType'
    BY <1>1 DEF UpdateListenDirs, HandedType
  <2> QED  BY <2>3, <2>4, <2>5
<1>2. CASE UpdateFilesProcessState
  <2>1. mem' = Promoted /\ mem' \in Memory /\ Sound(mem.state)'
    BY <1>2, PromotedMemory DEF UpdateFilesProcessState
  <2>2. StateType'
    BY <1>2, <2>1, SavedType DEF UpdateFilesProcessState, Saved, NotSaved
  <2>3. Ready(mem') \subseteq Files /\ \A f \in Ready(mem') : Known(f)' /\ mem'.state[f].step = ReadyToProcess
    BY <2>1, StatesFacts DEF Ready, Known, Memory
  <2>4. ScanType'
    BY <1>2, <2>3 DEF UpdateFilesProcessState, ScanType
  <2> QED  BY <1>2, <2>2, <2>4 DEF UpdateFilesProcessState, PipeType, HandedType
<1>3. CASE MarkProcessedFile
  <2>1. PICK f \in todo : /\ cur' = f /\ todo' = todo \ {f}
                         /\ mem' = [mem EXCEPT !.state[f].step = Processed]
                         /\ owed' = owed \cup {f}
    BY <1>3 DEF MarkProcessedFile
  <2>2. f \in Files /\ Known(f) /\ mem.state[f].step = ReadyToProcess /\ ~mem.state[f].unsupported
    BY DEF ScanType, StateType, Sound, Known, ReadyToProcess, Unprocessed
  <2>3. /\ mem' \in Memory /\ Sound(mem.state)' /\ DOMAIN mem'.state = DOMAIN mem.state
        /\ mem'.state[f].step = Processed
        /\ \A g \in DOMAIN mem.state : g # f => mem'.state[g] = mem.state[g]
    BY <2>1, <2>2, MarkedMemory
  <2>4. StateType'
    BY <1>3, <2>3, SavedType DEF MarkProcessedFile, Saved, NotSaved
  <2>5. ScanType'
    BY <1>3, <2>1, <2>2, <2>3 DEF MarkProcessedFile, ScanType, Known
  <2>6. PipeType' /\ HandedType'
    BY <1>3, <2>1, <2>2 DEF MarkProcessedFile, PipeType, HandedType
  <2> QED  BY <2>4, <2>5, <2>6
<1>4. CASE SendFile
  <2>1. cur \in Files /\ StateType' /\ ScanType'
    BY <1>4 DEF SendFile, StateType, ScanType, Known
  <2>2. PipeType'
    BY <1>4, <2>1, AppendFits DEF SendFile, PipeType
  <2>3. HandedType'
    BY <1>4, <2>1 DEF SendFile, HandedType
  <2> QED  BY <2>1, <2>2, <2>3
<1>5. CASE SendToNobody
  <2>1. cur \in Files /\ StateType' /\ ScanType'
    BY <1>5 DEF SendToNobody, StateType, ScanType, Known
  <2>2. PipeType'
    BY <1>5 DEF SendToNobody, PipeType
  <2>3. HandedType'
    BY <1>5, <2>1 DEF SendToNobody, HandedType
  <2> QED  BY <2>1, <2>2, <2>3
<1>6. CASE EndScan
  BY <1>6 DEF EndScan, StateType, ScanType, Known, PipeType, HandedType
<1> QED
  BY <1>1, <1>2, <1>3, <1>4, <1>5, <1>6 DEF Scan

\* A session that ends leaves an empty pipeline.
LEMMA PipeEnds == PipeIsLost => PipeType'
<1>1. /\ << >> \in Seq(Files) /\ Len(<< >>) = 0 /\ ChanCap >= 0
      /\ [t \in Threads |-> Rest] \in [Threads -> [file : Files \cup {None}, left : Nat]]
  BY FileStatesAssumption DEF Rest
<1> QED
  BY <1>1 DEF PipeIsLost, PipeType, Rest

\* The steps of the dispatcher, the threads and the consumer change the pipeline only.
LEMMA PipeSteps ==
  ASSUME TypeInv
  PROVE  TakeFile \/ ConsumeRuleMessage \/ (\E t \in Threads : Worker(t))
           => PipeType' /\ UNCHANGED pipeRest
<1> USE DEF TypeInv, PipeType, pipeRest
<1>1. ASSUME TakeFile PROVE PipeType' /\ UNCHANGED pipeRest
  <2>1. Head(chan) \in Files /\ Tail(chan) \in Seq(Files) /\ Len(Tail(chan)) <= ChanCap
    BY <1>1, FileStatesAssumption DEF TakeFile
  <2> QED  BY <1>1, <2>1 DEF TakeFile
<1>2. ASSUME ConsumeRuleMessage PROVE PipeType' /\ UNCHANGED pipeRest
  <2>1. Tail(msgs) \in Seq(Files) /\ Len(Tail(msgs)) <= ChanCap
    BY <1>2, FileStatesAssumption DEF ConsumeRuleMessage
  <2> QED  BY <1>2, <2>1 DEF ConsumeRuleMessage
<1>3. ASSUME NEW t \in Threads, StartThread(t) PROVE PipeType' /\ UNCHANGED pipeRest
  BY <1>3, FileStatesAssumption DEF StartThread
<1>4. ASSUME NEW t \in Threads, NextItem(t) PROVE PipeType' /\ UNCHANGED pipeRest
  <2>1. thread[t].file \in Files
    BY <1>4 DEF NextItem
  <2>2. msgs' = msgs \/ (Len(msgs) < ChanCap /\ msgs' = Append(msgs, thread[t].file))
    BY <1>4 DEF NextItem
  <2>3. msgs' \in Seq(Files) /\ Len(msgs') <= ChanCap
    BY <2>1, <2>2, AppendFits
  <2>4. /\ thread' = [thread EXCEPT ![t].left = @ - 1] /\ thread[t].left > 0
        /\ UNCHANGED <<pipeRest, chan, held, owed>>
    BY <1>4 DEF NextItem
  <2>5. /\ thread[t].left - 1 \in Nat
        /\ thread' = [thread EXCEPT ![t] = [thread[t] EXCEPT !.left = thread[t].left - 1]]
    BY <2>4
  <2>6. /\ thread' \in [Threads -> [file : Files \cup {None}, left : Nat]]
        /\ thread'[t].file = thread[t].file /\ \A u \in Threads : u # t => thread'[u] = thread[u]
    BY <2>5
  <2> QED  BY <2>1, <2>3, <2>4, <2>6
<1>5. ASSUME NEW t \in Threads, EndFile(t) PROVE PipeType' /\ UNCHANGED pipeRest
  BY <1>5 DEF EndFile, Rest
<1> QED
  BY <1>1, <1>2, <1>3, <1>4, <1>5 DEF Worker

LEMMA TypeNext == TypeInv /\ [Next]_vars => TypeInv'
<1> SUFFICES ASSUME TypeInv, [Next]_vars PROVE TypeInv'
  OBVIOUS
<1>1. CASE TakeFile \/ ConsumeRuleMessage \/ (\E t \in Threads : Worker(t))
  BY <1>1, PipeSteps DEF TypeInv, pipeRest, envVars, scanVars, histVars, StateType, ScanType, Known,
                         HandedType
<1>2. CASE Environment
  BY <1>2 DEF Environment, Configure, ChangeFile, TypeInv, scanVars, pipeVars, histVars, StateType,
              ScanType, Known, PipeType, HandedType
<1>3. CASE Restart
  <2>1. mem' \in Memory /\ Sound(mem.state)' /\ disk' \in {disk, Torn}
    BY <1>3, BlankMemory DEF Restart, LoadState, TypeInv, StateType
  <2>2. StateType'
    BY <1>3, <2>1, SavedType DEF Restart, TypeInv, envVars
  <2>3. PipeType'
    BY <1>3, PipeEnds DEF Restart
  <2> QED
    BY <1>3, <2>2, <2>3 DEF Restart, TypeInv, ScanType, HandedType, histVars
<1>4. CASE RestartSession
  <2>1. PipeType'
    BY <1>4, PipeEnds DEF RestartSession
  <2> QED
    BY <1>4, <2>1 DEF RestartSession, TypeInv, envVars, histVars, StateType, ScanType, Known, HandedType
<1>5. CASE UNCHANGED vars
  BY <1>5 DEF vars, envVars, scanVars, pipeVars, histVars, TypeInv, StateType, ScanType, Known,
              PipeType, HandedType
<1> QED
  BY <1>1, <1>2, <1>3, <1>4, <1>5, ScanTypes DEF Next

LEMMA TypeInit == Init => TypeInv
<1>1. << >> \in Seq(Files) /\ Len(<< >>) = 0 /\ ChanCap >= 0
  BY FileStatesAssumption
<1> QED
  BY <1>1, BlankMemory DEF Init, TypeInv, StateType, ScanType, PipeType, HandedType, Rest

LEMMA TypeInvariant == Spec => []TypeInv
BY TypeInit, TypeNext, PTL DEF Spec

\* The states, the scan and the pipeline hold what they may: the file in hand is
\* marked before it is sent, and a file that is not supported is never promoted.
THEOREM TypeCorrect == Spec => []TypeOK
BY TypeInvariant, TypeInvImpliesTypeOK, PTL

-----------------------------------------------------------------------------
(* A file is handed over once, and once more for each time its mark went with *)
(* a directory.  As long as no write of the state file is forgiven, a file for *)
(* which this is used up is marked both in memory and on disk, and the one in  *)
(* hand is marked and not handed over since.                                   *)

Marked(m, f) == f \in DOMAIN m.state /\ m.state[f].step = Processed

HandedInv ==
  ~forgiven =>
    /\ disk # Torn
    /\ \A f \in Files : handed[f] <= 1 + renewed[f]
    /\ \A f \in Files : handed[f] > renewed[f] => Marked(mem, f) /\ Marked(disk, f)
    /\ pc = "send" => handed[cur] <= renewed[cur] /\ Marked(mem, cur) /\ Marked(disk, cur)

\* A walk keeps the mark of every file it keeps, but of those that went with a directory.
LEMMA WalkKeepsMarks ==
  ASSUME StateType, NEW R \in SUBSET Dirs, NEW W \in SUBSET R, NEW S,
         NEW f \in Files, Marked(mem, f), f \notin Dropped(R), f \in DOMAIN Only(AfterWalk(R, W), S)
  PROVE  Only(AfterWalk(R, W), S)[f].step = Processed
<1> DEFINE kept == Only(mem.state, Files \ Dropped(R))
           found == {g \in UNION {Under[d] : d \in W} : tree[g] \in {"complete", "old"}}
<1>1. mem \in Memory /\ mem.state \in States /\ mem.dirs \subseteq Dirs /\ Sound(mem.state)
  BY DEF StateType, Memory
<1>2. /\ kept \in States /\ Sound(kept) /\ DOMAIN kept = DOMAIN mem.state \cap (Files \ Dropped(R))
      /\ \A g \in DOMAIN kept : kept[g] = mem.state[g]
  <2> DEFINE rest == Files \ Dropped(R)
  <2> HIDE DEF rest
  <2>1. /\ Only(mem.state, rest) \in States /\ Sound(Only(mem.state, rest))
        /\ DOMAIN Only(mem.state, rest) = DOMAIN mem.state \cap rest
        /\ \A g \in DOMAIN mem.state \cap rest : Only(mem.state, rest)[g] = mem.state[g]
    BY <1>1, OnlyIsStates
  <2> QED  BY <2>1 DEF rest
<1>3. AfterWalk(R, W) = [g \in DOMAIN kept \cup found |->
                           IF g \in found THEN ProcessListenFile(kept, g) ELSE kept[g]]
  BY DEF AfterWalk
<1>4. /\ f \in DOMAIN AfterWalk(R, W)
      /\ Only(AfterWalk(R, W), S)[f] = AfterWalk(R, W)[f]
  BY WalkedStates, OnlyIsStates
<1> HIDE DEF kept, found
<1>5. f \in DOMAIN kept
  BY <1>2 DEF Marked
<1>6. kept[f].step = Processed
  BY <1>2, <1>5 DEF Marked
<1>7. ProcessListenFile(kept, f) = kept[f]
  BY <1>2, <1>5, <1>6, ListenedState
<1> QED
  BY <1>3, <1>4, <1>5, <1>6, <1>7

\* The steps of the scan keep what was handed over marked.
LEMMA ScanHands == TypeInv /\ HandedInv /\ Scan => HandedInv'
<1> SUFFICES ASSUME TypeInv, HandedInv, Scan, ~forgiven' PROVE HandedInv'
  BY DEF HandedInv
<1> USE DEF TypeInv
<1>t. handed \in [Files -> Nat] /\ renewed \in [Files -> Nat]
  BY DEF HandedType
<1>1. CASE UpdateListenDirs
  <2>1. PICK readable \in SUBSET Dirs, walked \in SUBSET Dirs, forgotten \in SUBSET Files :
          /\ walked \subseteq readable
          /\ mem' = [state |-> Only(AfterWalk(readable, walked), Files \ forgotten), dirs |-> readable]
          /\ ~forgiven /\ disk' \in {mem', disk}
          /\ pc' \in {"walked", "idle"}
    BY <1>1, WalkChoices
  <2>2. mem'.dirs = readable
    BY <2>1
  <2>3. \A f \in Files :
          /\ f \notin DOMAIN mem'.state => handed'[f] = 0 /\ renewed'[f] = 0
          /\ f \in DOMAIN mem'.state =>
               /\ handed'[f] = handed[f]
               /\ renewed'[f] = IF Marked(mem, f) /\ f \in Dropped(readable)
                                THEN renewed[f] + 1 ELSE renewed[f]
    BY <1>1, <2>2 DEF UpdateListenDirs, Unmarked, Marked, Known
  <2>4. ASSUME NEW f \in Files, handed'[f] > renewed'[f] PROVE Marked(mem', f) /\ Marked(disk', f)
    <3>1. f \in DOMAIN mem'.state
      BY <2>3, <2>4
    <3>2. handed'[f] = handed[f] /\ handed[f] <= 1 + renewed[f]
      BY <2>1, <2>3, <3>1 DEF HandedInv
    <3>3. handed[f] > renewed[f] /\ ~(Marked(mem, f) /\ f \in Dropped(readable))
      BY <1>t, <2>3, <2>4, <3>1, <3>2
    <3>4. Marked(mem, f) /\ Marked(disk, f)
      BY <2>1, <3>3 DEF HandedInv
    <3>5. Marked(mem', f)
      BY <2>1, <3>1, <3>3, <3>4, WalkKeepsMarks DEF Marked
    <3> QED  BY <2>1, <3>4, <3>5
  <2>5. disk' # Torn
    <3>1. mem' \in [state : States, dirs : SUBSET Dirs] \/ disk' # mem'
      BY <2>1, WalkedStates, OnlyIsStates
    <3> QED  BY <2>1, <3>1, TornIsNoMemory DEF HandedInv, Memory
  <2>6. \A f \in Files : handed'[f] <= 1 + renewed'[f]
    BY <1>t, <2>1, <2>3 DEF HandedInv
  <2> QED  BY <2>1, <2>4, <2>5, <2>6 DEF HandedInv, Marked
<1>2. CASE UpdateFilesProcessState
  <2>1. mem' = Promoted /\ disk' = mem' /\ ~forgiven /\ pc' # "send" /\ UNCHANGED histVars
    BY <1>2 DEF UpdateFilesProcessState, Saved, NotSaved
  <2>2. \A f \in Files : Marked(mem, f) => Marked(mem', f)
    BY <2>1, PromotedMemory DEF Marked
  <2>3. disk' # Torn
    BY <2>1, PromotedMemory, TornIsNoMemory
  <2> QED  BY <2>1, <2>2, <2>3 DEF HandedInv, Marked, histVars
<1>3. CASE MarkProcessedFile
  <2>1. PICK f \in todo : cur' = f /\ mem' = [mem EXCEPT !.state[f].step = Processed]
    BY <1>3 DEF MarkProcessedFile
  <2>2. disk' = mem' /\ ~forgiven /\ handed' = handed /\ renewed' = renewed
    BY <1>3 DEF MarkProcessedFile, Saved, NotSaved, histVars
  <2>3. f \in Files /\ Known(f) /\ mem.state[f].step = ReadyToProcess /\ ~mem.state[f].unsupported
    BY DEF ScanType, StateType, Sound, Known, ReadyToProcess, Unprocessed
  <2>4. /\ mem' \in Memory /\ DOMAIN mem'.state = DOMAIN mem.state
        /\ mem'.state[f].step = Processed
        /\ \A g \in DOMAIN mem.state : g # f => mem'.state[g] = mem.state[g]
    BY <2>1, <2>3, MarkedMemory
  <2>5. handed[f] <= renewed[f]
    BY <1>t, <2>2, <2>3 DEF HandedInv, Marked, ReadyToProcess, Processed
  <2>6. Marked(mem', f) /\ \A g \in Files : Marked(mem, g) => Marked(mem', g)
    BY <2>3, <2>4 DEF Marked, Known
  <2>7. disk' # Torn
    BY <2>2, <2>4, TornIsNoMemory
  <2> QED  BY <2>1, <2>2, <2>5, <2>6, <2>7 DEF HandedInv, Marked
<1>4. CASE SendFile \/ SendToNobody
  <2>1. /\ pc = "send" /\ pc' \in {"next", "idle"} /\ cur \in Files /\ mem' = mem /\ disk' = disk
        /\ ~forgiven /\ handed' = [handed EXCEPT ![cur] = @ + 1] /\ renewed' = renewed
    BY <1>4 DEF SendFile, SendToNobody, ScanType
  <2>2. /\ handed'[cur] <= 1 + renewed[cur]
        /\ \A f \in Files : f # cur => handed'[f] = handed[f]
    BY <1>t, <2>1 DEF HandedInv
  <2> QED  BY <2>1, <2>2 DEF HandedInv, Marked
<1>5. CASE EndScan
  BY <1>5 DEF EndScan, HandedInv, Marked, histVars
<1> QED
  BY <1>1, <1>2, <1>3, <1>4, <1>5 DEF Scan

LEMMA HandedNext == TypeInv /\ HandedInv /\ [Next]_vars => HandedInv'
<1> SUFFICES ASSUME TypeInv, HandedInv, [Next]_vars PROVE HandedInv'
  OBVIOUS
<1> USE DEF histVars
<1>1. CASE TakeFile \/ ConsumeRuleMessage \/ (\E t \in Threads : Worker(t))
  BY <1>1, PipeSteps DEF pipeRest, scanVars, HandedInv, Marked
<1>2. CASE Environment
  BY <1>2 DEF Environment, Configure, ChangeFile, scanVars, HandedInv, Marked
<1>3. CASE Restart
  <2>1. ~forgiven' => ~forgiven /\ disk' = disk /\ disk # Torn /\ mem' = disk
    BY <1>3 DEF Restart, LoadState, HandedInv
  <2>2. handed' = handed /\ renewed' = renewed /\ pc' = "idle"
    BY <1>3 DEF Restart
  <2> QED  BY <2>1, <2>2 DEF HandedInv, Marked
<1>4. CASE RestartSession
  BY <1>4 DEF RestartSession, HandedInv, Marked
<1>5. CASE UNCHANGED vars
  BY <1>5 DEF vars, scanVars, HandedInv, Marked
<1> QED
  BY <1>1, <1>2, <1>3, <1>4, <1>5, ScanHands DEF Next

\* As long as every write of the state file works, a file that is known is handed
\* over once, and once more for each time a directory that begins its path was
\* dropped and took its mark with it (UpdateListenDirs forgets by prefix): for any
\* files, directories, scans, ends of the session and restarts of the process.
THEOREM FilesAreHandedOnce == Spec => []HandedOnce
<1>1. Init => HandedInv
  BY BlankMemory, TornIsNoMemory DEF Init, HandedInv
<1>2. TypeInv /\ HandedInv /\ [Next]_vars => HandedInv'
  BY HandedNext
<1>3. HandedInv => HandedOnce
  BY DEF HandedInv, HandedOnce
<1> QED
  BY <1>1, <1>2, <1>3, TypeInvariant, PTL DEF Spec

=============================================================================

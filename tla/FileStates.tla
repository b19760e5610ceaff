---------------------------- MODULE FileStates ----------------------------
(***************************************************************************)
(* From the listened directories to the rule engine: the scan goroutine    *)
(* (sendFilesToBeProcessed) keeps a state for every file                   *)
(* (internal/mod/rule/file_state_handler), saves it in one JSON file and   *)
(* hands a file that two scans have seen to listenChan; the dispatcher and *)
(* its threads turn the file into rule items, which one consumer takes     *)
(* from ruleMessageChan (internal/mod/rule/handler.go, file_handlers).     *)
(*                                                                         *)
(* Only the scan goroutine changes the states, so that each of its calls   *)
(* is one step that ends with its save.  The state file is written in      *)
(* place: a restart in such a step may leave it cut short.                 *)
(***************************************************************************)
EXTENDS Naturals, Sequences, FiniteSets

CONSTANTS
  Files, None,  \* the paths; no file
  Dirs,         \* the directories the configuration may list
  Under,        \* Under[d]: the files a walk of d finds
  Prefixed,     \* Prefixed[d]: the files whose path has d's path as a prefix, in d or not
  Torn,         \* a state file cut short
  Threads,      \* numThreadToProcessFile slots of the semaphore
  ChanCap,      \* the capacity of listenChan and of ruleMessageChan
  MaxItems,     \* the rule items of a file
  MaxFaults,    \* bound: failed calls, crashes and ends of the session
  MaxChanges    \* bound: changes of the files and of the configuration

ASSUME FileStatesAssumption ==
  /\ None \notin Files
  /\ Under \in [Dirs -> SUBSET Files] /\ Prefixed \in [Dirs -> SUBSET Files]
  /\ \A d \in Dirs : Under[d] \subseteq Prefixed[d]
  /\ ChanCap \in Nat \ {0} /\ {MaxItems, MaxFaults, MaxChanges} \subseteq Nat

VARIABLES
  tree,      \* what is at each path: "absent", "writing", "complete" or "old"
  conf,      \* modConfig.ListenDirs
  mem,       \* fileStateHandler: state and listenDirs
  disk,      \* the state file
  pc, todo, cur,      \* the scan goroutine, the files it hands over, the one in hand
  stale,     \* the session of this scan has ended: nobody reads its channel
  chan, held, thread, \* listenChan, the dispatcher, the threads
  msgs,      \* ruleMessageChan, an item under its file
  owed,      \* history: files marked whose items the engine does not have yet
  handed,    \* history: how often a file was handed over since a scan found it
  renewed,   \* history: how often its mark went with a directory and it was found anew
  forgiven,  \* history: a write of the state file failed or was cut short
  faults, changes

envVars == <<tree, conf, changes>>
scanVars == <<pc, todo, cur, stale>>
pipeVars == <<chan, held, thread, msgs>>
histVars == <<handed, renewed>>
vars == <<envVars, mem, disk, scanVars, pipeVars, owed, histVars, forgiven, faults>>

Unprocessed == 0
SeenOnce == 1
ReadyToProcess == 2
Processed == 3
FileState == [step : Unprocessed..Processed, listening : BOOLEAN, unsupported : BOOLEAN]

(* A state file that is cut short cannot be taken for the states of a memory. *)
ASSUME TornAssumption ==
  Torn \notin [state : UNION {[S -> FileState] : S \in SUBSET Files}, dirs : SUBSET Dirs]

Blank == [state |-> << >>, dirs |-> {}]
Fresh == [step |-> Unprocessed, listening |-> FALSE, unsupported |-> FALSE]
Rest == [file |-> None, left |-> 0]

Known(f) == f \in DOMAIN mem.state
Only(g, S) == [f \in DOMAIN g \cap S |-> g[f]]
Fault == faults < MaxFaults /\ faults' = faults + 1
MayFail(S) == IF faults < MaxFaults THEN SUBSET S ELSE {S}  \* those it works for

Init ==
  /\ tree \in [Files -> {"absent", "writing", "complete", "old"}]
  /\ conf = Dirs
  /\ mem = Blank /\ disk = Blank
  /\ pc = "idle" /\ todo = {} /\ cur = None /\ stale = FALSE
  /\ chan = << >> /\ held = None /\ thread = [t \in Threads |-> Rest] /\ msgs = << >>
  /\ owed = {} /\ handed = [f \in Files |-> 0] /\ renewed = [f \in Files |-> 0]
  /\ forgiven = FALSE /\ faults = 0 /\ changes = 0

---------------------------------------------------------------------------
(* The files and the configuration. *)

ChangeFile(f) ==
  /\ changes < MaxChanges /\ changes' = changes + 1
  /\ \/ tree[f] = "absent" /\ tree' = [tree EXCEPT ![f] = "writing"]
     \/ tree[f] = "writing" /\ tree' = [tree EXCEPT ![f] = "complete"]
     \/ tree[f] = "complete" /\ \E c \in {"writing", "old"} : tree' = [tree EXCEPT ![f] = c]
     \/ tree[f] = "old" /\ tree' = [tree EXCEPT ![f] = "writing"]
     \/ tree[f] # "absent" /\ tree' = [tree EXCEPT ![f] = "absent"]
  /\ UNCHANGED <<conf, mem, disk, scanVars, pipeVars, owed, histVars, forgiven, faults>>

Configure ==
  /\ changes < MaxChanges /\ changes' = changes + 1
  /\ conf' \in SUBSET Dirs \ {conf}
  /\ UNCHANGED <<tree, mem, disk, scanVars, pipeVars, owed, histVars, forgiven, faults>>

---------------------------------------------------------------------------
(* The scan goroutine. *)

(* Faulty: every walk starts the state of a file afresh. *)
BugFreshState(s, f) ==
  IF f \in DOMAIN s /\ ~s[f].unsupported /\ s[f].step = Processed THEN s[f]
  ELSE [Fresh EXCEPT !.listening = tree[f] # "old", !.unsupported = tree[f] = "old"]

(* The state a walk gives a file that is there; s are the states before it. *)
ProcessListenFile(s, f) ==
  LET st == IF f \in DOMAIN s THEN s[f] ELSE Fresh IN
  IF f \in DOMAIN s /\ ~st.unsupported /\ st.step = Processed THEN st
  ELSE IF tree[f] = "old"
       THEN [step |-> Unprocessed, listening |-> FALSE, unsupported |-> TRUE]
       ELSE [st EXCEPT !.listening = TRUE, !.unsupported = FALSE]

(* A directory that is not listed any more, or cannot be read, takes every file *)
(* with it whose path begins with its own, those of other directories too.      *)
Dropped(readable) == UNION {Prefixed[d] : d \in mem.dirs \ readable}

(* The states after these are forgotten and the other directories walked:       *)
(* "readable" are the listed directories that can be read, "walked" those whose *)
(* walk does not fail (a failed one is rolled back).                            *)
AfterWalk(readable, walked) ==
  LET kept == Only(mem.state, Files \ Dropped(readable))
      found == {f \in UNION {Under[d] : d \in walked} : tree[f] \in {"complete", "old"}}
  IN  [f \in DOMAIN kept \cup found |->
         IF f \in found THEN ProcessListenFile(kept, f) ELSE kept[f]]

(* saveState writes m, or fails and leaves the file as it was or cut short. *)
Saved(m) == disk' = m /\ UNCHANGED <<forgiven, faults>>
NotSaved == disk' \in {disk, Torn} /\ forgiven' = TRUE /\ Fault

(* Its mark goes with a directory that is dropped. *)
Unmarked(f, readable) ==
  Known(f) /\ mem.state[f].step = Processed /\ f \in Dropped(readable)

(* A stat that fails ends the scan after some of the files that are gone have *)
(* been forgotten.                                                            *)
UpdateListenDirs ==
  /\ pc = "idle" /\ conf # {}
  /\ \E readable \in MayFail(conf) : \E walked \in MayFail(readable) :
       LET s == AfterWalk(readable, walked)
           gone == {f \in DOMAIN s : tree[f] = "absent"}
       IN  \E forgotten \in MayFail(gone) :
             /\ mem' = [state |-> Only(s, Files \ forgotten), dirs |-> readable]
             /\ \/ /\ forgotten = gone /\ pc' = "walked"
                   /\ \/ walked = conf /\ Saved(mem')
                      \/ walked # conf /\ Fault /\ disk' = mem' /\ UNCHANGED forgiven
                \/ forgotten = gone /\ NotSaved /\ pc' = "idle"
                \/ forgotten # gone /\ Fault /\ pc' = "idle" /\ UNCHANGED <<disk, forgiven>>
  /\ handed' = [f \in Files |-> IF f \in DOMAIN mem'.state THEN handed[f] ELSE 0]
  /\ renewed' = [f \in Files |->
                   CASE f \notin DOMAIN mem'.state -> 0
                     [] f \in DOMAIN mem'.state /\ Unmarked(f, mem'.dirs) -> renewed[f] + 1
                     [] OTHER -> renewed[f]]
  /\ UNCHANGED <<envVars, todo, cur, stale, pipeVars, owed>>

Promote(st) == IF st.listening /\ st.step < ReadyToProcess THEN [st EXCEPT !.step = @ + 1] ELSE st
Promoted == [mem EXCEPT !.state = [f \in DOMAIN @ |-> Promote(@[f])]]

(* Files(FilterIsListening, FilterReadyToProcess). *)
Ready(m) == {f \in DOMAIN m.state : /\ ~m.state[f].unsupported /\ m.state[f].listening
                                    /\ m.state[f].step = ReadyToProcess}

UpdateFilesProcessState ==
  /\ pc = "walked" /\ mem' = Promoted
  /\ \/ Saved(mem') /\ pc' = "next" /\ todo' = Ready(mem')
     \/ NotSaved /\ pc' = "idle" /\ UNCHANGED todo
  /\ stale' = (stale /\ pc' # "idle")
  /\ UNCHANGED <<envVars, cur, pipeVars, owed, histVars>>

(* Faulty: the mark is not saved. *)
BugMarkProcessedFile ==
  /\ pc = "next" /\ pc' = "send"
  /\ \E f \in todo : /\ cur' = f /\ todo' = todo \ {f}
                     /\ mem' = [mem EXCEPT !.state[f].step = Processed]
                     /\ owed' = owed \cup {f}
  /\ UNCHANGED <<envVars, disk, stale, pipeVars, histVars, forgiven, faults>>

(* A mark that cannot be saved is only logged, and the file is sent. *)
MarkProcessedFile ==
  /\ pc = "next" /\ pc' = "send"
  /\ \E f \in todo : /\ cur' = f /\ todo' = todo \ {f}
                     /\ mem' = [mem EXCEPT !.state[f].step = Processed]
                     /\ owed' = owed \cup {f}
  /\ Saved(mem') \/ NotSaved
  /\ UNCHANGED <<envVars, stale, pipeVars, histVars>>

SendFile ==
  /\ pc = "send" /\ ~stale /\ Len(chan) < ChanCap
  /\ chan' = Append(chan, cur) /\ handed' = [handed EXCEPT ![cur] = @ + 1]
  /\ pc' = "next" /\ cur' = None
  /\ UNCHANGED <<envVars, mem, disk, todo, stale, held, thread, msgs, owed, renewed,
                 forgiven, faults>>

(* The channel of an ended session takes the file, which is lost, or is full: *)
(* then the scan waits there for good, and that of the next session goes on.  *)
SendToNobody ==
  /\ pc = "send" /\ stale
  /\ \/ pc' = "next" /\ UNCHANGED <<todo, stale>>
     \/ pc' = "idle" /\ todo' = {} /\ stale' = FALSE
  /\ handed' = [handed EXCEPT ![cur] = @ + 1] /\ owed' = owed \ {cur} /\ cur' = None
  /\ UNCHANGED <<envVars, mem, disk, pipeVars, renewed, forgiven, faults>>

EndScan ==
  /\ pc = "next" /\ todo = {} /\ pc' = "idle" /\ stale' = FALSE
  /\ UNCHANGED <<envVars, mem, disk, todo, cur, pipeVars, owed, histVars, forgiven, faults>>

Scan == \/ UpdateListenDirs \/ UpdateFilesProcessState \/ MarkProcessedFile
        \/ SendFile \/ SendToNobody \/ EndScan

---------------------------------------------------------------------------
(* The dispatcher, the threads and the consumer. *)

pipeRest == <<envVars, mem, disk, scanVars, histVars, forgiven, faults>>
InMessages(f, ms) == \E i \in DOMAIN ms : ms[i] = f
Working(f) == \E t \in Threads : thread[t].file = f

(* Faulty: a file taken while every thread is busy is dropped. *)
BugTakeFile ==
  /\ held = None /\ chan # << >>
  /\ held' = IF \E t \in Threads : thread[t] = Rest THEN Head(chan) ELSE None
  /\ chan' = Tail(chan)
  /\ UNCHANGED <<pipeRest, thread, msgs, owed>>

TakeFile ==
  /\ held = None /\ chan # << >>
  /\ held' = Head(chan) /\ chan' = Tail(chan)
  /\ UNCHANGED <<pipeRest, thread, msgs, owed>>

(* The thread opens the file; one that cannot be opened or that has no item of *)
(* an active topic gives none.                                                 *)
StartThread(t) ==
  /\ held # None /\ thread[t] = Rest
  /\ \E n \in 0..MaxItems : thread' = [thread EXCEPT ![t] = [file |-> held, left |-> n]]
  /\ held' = None
  /\ UNCHANGED <<pipeRest, chan, msgs, owed>>

(* SendRuleItems: the next item is enqueued, or skipped when it cannot be decoded. *)
NextItem(t) ==
  /\ thread[t].left > 0
  /\ thread' = [thread EXCEPT ![t].left = @ - 1]
  /\ \/ Len(msgs) < ChanCap /\ msgs' = Append(msgs, thread[t].file)
     \/ UNCHANGED msgs
  /\ UNCHANGED <<pipeRest, chan, held, owed>>

EndFile(t) ==
  /\ thread[t] # Rest /\ thread[t].left = 0
  /\ thread' = [thread EXCEPT ![t] = Rest]
  /\ owed' = IF InMessages(thread[t].file, msgs) THEN owed ELSE owed \ {thread[t].file}
  /\ UNCHANGED <<pipeRest, chan, held, msgs>>

ConsumeRuleMessage ==
  /\ msgs # << >> /\ msgs' = Tail(msgs)
  /\ owed' = IF InMessages(Head(msgs), Tail(msgs)) \/ Working(Head(msgs))
             THEN owed ELSE owed \ {Head(msgs)}
  /\ UNCHANGED <<pipeRest, chan, held, thread>>

(* What is in the channels and in the threads goes with the session. *)
PipeIsLost ==
  /\ chan' = << >> /\ held' = None /\ thread' = [t \in Threads |-> Rest] /\ msgs' = << >>
  /\ owed' = {}

(* The session ends and another one starts: New returns the same instance. A scan *)
(* under way is not stopped.                                                      *)
RestartSession ==
  /\ Fault
  /\ stale' = (pc # "idle") /\ PipeIsLost
  /\ UNCHANGED <<envVars, mem, disk, pc, todo, cur, histVars, forgiven>>

(* The process ends and starts again: New loads what is on disk. *)
LoadState == IF disk' = Torn THEN Blank ELSE disk'

(* The state file may be cut short when the scan is about to write or writing it. *)
Saving == \/ pc = "idle" /\ conf # {}
          \/ pc = "walked"
          \/ pc = "next" /\ todo # {}

Restart ==
  /\ Fault
  /\ disk' \in IF Saving THEN {disk, Torn} ELSE {disk}
  /\ forgiven' = (forgiven \/ disk' = Torn)
  /\ mem' = LoadState
  /\ pc' = "idle" /\ todo' = {} /\ cur' = None /\ stale' = FALSE /\ PipeIsLost
  /\ UNCHANGED <<envVars, histVars>>

---------------------------------------------------------------------------
Environment == Configure \/ \E f \in Files : ChangeFile(f)
Worker(t) == StartThread(t) \/ NextItem(t) \/ EndFile(t)

Next == Environment \/ Scan \/ TakeFile \/ ConsumeRuleMessage
        \/ RestartSession \/ Restart \/ \E t \in Threads : Worker(t)

Spec == Init /\ [][Next]_vars

(* The goroutines go on; a slot that is free is taken by some file that waits. *)
FairSpec == /\ Spec /\ WF_vars(Scan) /\ WF_vars(TakeFile) /\ WF_vars(ConsumeRuleMessage)
            /\ \A t \in Threads : WF_vars(Worker(t))

---------------------------------------------------------------------------
(* Type invariant: the states, the scan and the pipeline hold what they may, a *)
(* file in hand is marked (lines 383-392 of handler.go mark it before they send*)
(* it), and what is unsupported is never promoted.                             *)
TypeOK ==
  /\ DOMAIN mem.state \subseteq Files /\ mem.dirs \subseteq Dirs
  /\ \A f \in DOMAIN mem.state : mem.state[f] \in FileState
  /\ pc \in {"idle", "walked", "next", "send"}
  /\ pc = "send" => Known(cur) /\ mem.state[cur].step = Processed
  /\ \A f \in todo : Known(f) /\ mem.state[f].step = ReadyToProcess
  /\ \A f \in DOMAIN mem.state : mem.state[f].unsupported => mem.state[f].step = Unprocessed
  /\ Len(chan) <= ChanCap /\ Len(msgs) <= ChanCap
  /\ held # None => held \in Files
  /\ owed \subseteq Files

(* As long as no write of the state file fails or is cut short, a file that is *)
(* known is handed over a second time only if a directory whose path begins    *)
(* that of the file was dropped and took the mark with it, whatever the walks  *)
(* do and wherever session or process restart: the mark is saved before the    *)
(* file is sent, and nothing else takes it back.                               *)
HandedOnce == ~forgiven => \A f \in Files : handed[f] <= 1 + renewed[f]

(* A finished file that stays in a listed directory is handed over: it becomes *)
(* processed again and again, whatever fails in between.                       *)
Stays(f) == tree[f] = "complete" /\ f \in UNION {Under[d] : d \in conf}
FileIsHandedOver ==
  \A f \in Files : <>[]Stays(f) => []<>(Known(f) /\ mem.state[f].step = Processed)

(* What a file that was marked owes the engine is delivered unless the session *)
(* ends first: the scan, the dispatcher, the threads and the consumer never*)
(* wait for each other in a circle and lose no file on the way.                *)
OwedIsConsumed == \A f \in Files : f \in owed ~> f \notin owed
=============================================================================

-------------------------- MODULE RuleCollection --------------------------
(***************************************************************************)
(* From a rule item to a record cache.  The consumer evaluates the rules   *)
(* of an item (internal/mod/rule/engine.go, pkg/rule_engine); an active    *)
(* rule runs its actions, which ask the cloud for the upload limit and     *)
(* write a draft of a collect info (internal/model/collect_info.go), and   *)
(* publishes it by a rename.  The collect goroutine scans the published    *)
(* infos and, once the window of one has ended, gathers the files of the   *)
(* device and of its slaves into a record cache (handler.go).              *)
(*                                                                         *)
(* The collect directory is a tree of FileWalk, another one at each scan.  *)
(* An unreliable call has an alternative that fails, bounded by MaxFaults; *)
(* a restart may come between any two steps.                               *)
(***************************************************************************)
EXTENDS Integers, FileWalk

CONSTANTS
  Remote, None,          \* the files of the slaves; no value
  Born, Final,            \* when a file is created and last modified
  MaxTime,               \* bound: the clock
  Rules, Actions,        \* valid rules; the actions of each, in order
  Before, After,         \* the window of a rule's upload action
  DebounceTime,          \* of each rule, 0 for none
  Stamps,                \* the times of the items
  DeviceTimes, GlobalTimes,  \* the upload limits of a rule
  Shared,                \* the rules another device has too
  Lags,                  \* how far the clocks of the slaves may lag behind
  Tolerance,             \* FutureStartTolerance
  MaxInfos, MaxFaults    \* bounds: activations; failed calls and restarts

ASSUME RuleCollectionAssumption ==
  /\ Wanted \subseteq Files \cup Remote /\ Files \cap Remote = {}
  /\ None \notin Rules \cup 1..MaxInfos \cup Stamps
  /\ \A r \in Rules :
       /\ Actions[r] \in Seq({"upload", "create_moment"})
       /\ "upload" \in Range(Actions[r])      \* UpdateRules passes over the others
       /\ {Before[r], After[r]} \subseteq Int /\ DebounceTime[r] \in Nat
  /\ \A f \in Files \cup Remote : {Born[f], Final[f]} \subseteq Nat /\ Born[f] <= Final[f]
  /\ {MaxTime, MaxInfos, MaxFaults, DeviceTimes, GlobalTimes, Tolerance} \subseteq Nat
  /\ Shared \subseteq Rules /\ Stamps \subseteq Nat /\ Lags \subseteq Nat

VARIABLES
  now, faults,
  prev,      \* ruleDebounceTime: the time of the last item each rule was met by
  eng,       \* the consumer: its step, the info and the action in hand
  cloud,     \* the hits counted for each rule: of this device, of the others
  other,     \* another device on its way to a hit
  info,      \* the collect infos on disk
  birth,     \* whether the file system of the collect directory has birth times
  cache, saved,   \* collectFileStateHandler: in memory, in its file
  col,       \* the collect goroutine: its step, the infos left, what it gathered
  records,   \* the record caches saved, a sequence for each info
  missed,    \* history: the counts and hits of a rule that failed
  again,     \* history: how often an info survived the record made from it
  active     \* history: the last activation of a rule by items of HTTP alone

engVars == <<prev, eng, active>>
cloudVars == <<cloud, other, missed>>
colVars == <<cache, saved, col, records, again>>
vars == <<now, faults, birth, engVars, cloudVars, info, colVars>>

Infos == 1..MaxInfos
Fault == faults < MaxFaults /\ faults' = faults + 1
NoFault == UNCHANGED faults

Idle == [pc |-> "idle", id |-> None, rule |-> None, ts |-> 0, k |-> 0, can |-> FALSE]
Draft(r) == [at |-> "unsaved", rule |-> r, cut |-> None, skip |-> FALSE, moments |-> 0]
AtRest == [pc |-> "idle", todo |-> {}, id |-> None, files |-> {}, due |-> {}]

Init ==
  /\ now = 0 /\ faults = 0 /\ birth \in BOOLEAN
  /\ prev = [r \in Rules |-> None] /\ eng = Idle /\ active = [r \in Rules |-> None]
  /\ cloud = [r \in Rules |-> [own |-> 0, all |-> 0]] /\ other = None
  /\ missed = [r \in Rules |-> 0]
  /\ info = << >>
  /\ cache = << >> /\ saved = << >>
  /\ col = AtRest /\ records = [i \in Infos |-> << >>] /\ again = [i \in Infos |-> 0]

Tick ==
  /\ now < MaxTime /\ now' = now + 1
  /\ UNCHANGED <<faults, birth, engVars, cloudVars, info, colVars>>

---------------------------------------------------------------------------
(* The consumer: ConsumeNext. *)

(* Faulty: an item that comes too late becomes the one to compare with. *)
BugEvalConditions(r, ts, source) ==
  [active |-> \/ DebounceTime[r] = 0
              \/ prev[r] = None
              \/ ts < prev[r] /\ source # "http"
              \/ ts - prev[r] > DebounceTime[r],
   time |-> ts]

(* Whether an item that meets the conditions of r activates it, and the time *)
(* later items are compared with: a burst keeps a rule inactive as long as   *)
(* it lasts.  Only the items of HTTP have to come in order.                  *)
EvalConditions(r, ts, source) ==
  LET fresh == DebounceTime[r] = 0 \/ prev[r] = None
      late == ~fresh /\ ts < prev[r]
  IN  [active |-> \/ fresh
                  \/ late /\ source # "http"
                  \/ ~fresh /\ ~late /\ ts - prev[r] > DebounceTime[r],
       time |-> IF late /\ source = "http" THEN prev[r] ELSE ts]

ConsumeNext(r, ts, source) ==
  LET e == EvalConditions(r, ts, source) IN
  /\ eng.pc = "idle"
  /\ prev' = [prev EXCEPT ![r] = e.time]
  /\ IF e.active
     THEN /\ Len(info) < MaxInfos
          /\ info' = Append(info, Draft(r))
          /\ eng' = [Idle EXCEPT !.pc = "act", !.id = Len(info) + 1, !.rule = r, !.ts = ts, !.k = 1]
          /\ active' = [active EXCEPT ![r] = IF source = "http" THEN ts ELSE None]
     ELSE /\ UNCHANGED <<info, eng>>
          /\ active' = [active EXCEPT ![r] = IF source = "http" THEN @ ELSE None]
  /\ UNCHANGED <<now, faults, birth, cloudVars, colVars>>

NextAction(name) ==
  /\ eng.pc = "act" /\ eng.k <= Len(Actions[eng.rule]) /\ Actions[eng.rule][eng.k] = name

(* An argument cannot be evaluated for the item, or is not of its type: the *)
(* action does nothing, which is only logged.                               *)
RunFails ==
  /\ eng.pc = "act" /\ eng.k <= Len(Actions[eng.rule])
  /\ Fault /\ eng' = [eng EXCEPT !.k = @ + 1]
  /\ UNCHANGED <<now, birth, prev, active, cloudVars, info, colVars>>

(* canUpload: the count of the device, then the count of all devices.  A count *)
(* that fails allows the upload.                                               *)
Decide(can) == eng' = [eng EXCEPT !.pc = "hit", !.can = can]
Miss == Fault /\ missed' = [missed EXCEPT ![eng.rule] = @ + 1]

CountOwn ==
  /\ NextAction("upload")
  /\ \/ /\ UNCHANGED <<faults, missed>>
        /\ IF cloud[eng.rule].own >= DeviceTimes THEN Decide(FALSE)
                                                 ELSE eng' = [eng EXCEPT !.pc = "global"]
     \/ Miss /\ Decide(TRUE)
  /\ UNCHANGED <<now, birth, prev, active, cloud, other, info, colVars>>

CountGlobal ==
  /\ eng.pc = "global"
  /\ \/ Decide(cloud[eng.rule].all < GlobalTimes) /\ UNCHANGED <<faults, missed>>
     \/ Miss /\ Decide(TRUE)
  /\ UNCHANGED <<now, birth, prev, active, cloud, other, info, colVars>>

(* Faulty: the hit of an upload that was allowed is left out. *)
BugHitDiagnosisRule ==
  /\ eng.pc = "hit" /\ eng' = [eng EXCEPT !.pc = "cut"]
  /\ UNCHANGED <<now, faults, birth, prev, active, cloudVars, info, colVars>>

(* Its failure is only logged. *)
HitDiagnosisRule ==
  /\ eng.pc = "hit" /\ eng' = [eng EXCEPT !.pc = "cut"]
  /\ \/ /\ UNCHANGED <<faults, missed>>
        /\ cloud' = IF eng.can THEN [cloud EXCEPT ![eng.rule] = [own |-> @.own + 1, all |-> @.all + 1]]
                               ELSE cloud
     \/ Miss /\ UNCHANGED cloud
  /\ UNCHANGED <<now, birth, prev, active, other, info, colVars>>

(* LoadDraft, SaveDraft: the draft is replaced, or kept when the save fails. *)
SaveDraft(d) ==
  /\ \/ info' = [info EXCEPT ![eng.id] = [d EXCEPT !.at = "draft"]] /\ NoFault
     \/ Fault /\ UNCHANGED info
  /\ eng' = [eng EXCEPT !.pc = "act", !.k = @ + 1]
  /\ UNCHANGED <<now, birth, prev, active, cloudVars, colVars>>

SaveCut ==
  /\ eng.pc = "cut"
  /\ SaveDraft([info[eng.id] EXCEPT
       !.cut = [start |-> eng.ts - Before[eng.rule], end |-> eng.ts + After[eng.rule]],
       !.skip = ~eng.can])

CreateMoment ==
  /\ NextAction("create_moment")
  /\ SaveDraft([info[eng.id] EXCEPT !.moments = @ + 1])

(* A draft without a cut stays a draft. *)
PublishCollectInfo ==
  /\ eng.pc = "act" /\ eng.k > Len(Actions[eng.rule])
  /\ \/ /\ info[eng.id].at = "draft" /\ info[eng.id].cut # None /\ NoFault
        /\ info' = [info EXCEPT ![eng.id].at = "published"]
     \/ info[eng.id].cut = None /\ NoFault /\ UNCHANGED info
     \/ Fault /\ UNCHANGED info
  /\ eng' = Idle
  /\ UNCHANGED <<now, birth, prev, active, cloudVars, colVars>>

---------------------------------------------------------------------------
(* Another device with the same rule. *)

OtherCounts(r) ==
  /\ other = None /\ cloud[r].all < GlobalTimes
  /\ other' = r
  /\ UNCHANGED <<now, faults, birth, engVars, cloud, missed, info, colVars>>
OtherHits ==
  /\ other # None /\ other' = None
  /\ cloud' = [cloud EXCEPT ![other].all = @ + 1]
  /\ UNCHANGED <<now, faults, birth, engVars, missed, info, colVars>>

---------------------------------------------------------------------------
(* The collect goroutine: scanCollectInfosAndHandle. *)

Published == {i \in DOMAIN info : info[i].at = "published"}
Cut == info[col.id].cut
NextInfo == col' = [AtRest EXCEPT !.pc = "list", !.todo = col.todo]

ScanCollectInfos ==
  /\ col.pc = "idle" /\ Published # {}
  /\ col' = [AtRest EXCEPT !.pc = "list", !.todo = Published]
  /\ UNCHANGED <<now, faults, birth, engVars, cloudVars, info, cache, saved, records, again>>

EndScan ==
  /\ col.pc = "list" /\ col.todo = {} /\ col' = AtRest
  /\ UNCHANGED <<now, faults, birth, engVars, cloudVars, info, cache, saved, records, again>>

(* Faulty: a window counts as over once it has started. *)
BugWindowIsOver(cut) == cut.start <= now

WindowIsOver(cut) == cut.end <= now

(* ValidateTimeWindow: permanently invalid. *)
Invalid(cut) == cut.start > cut.end

(* An info that has to be skipped, or never can be collected, is cleaned; one *)
(* whose window is not over waits for a later scan.                           *)
HandleCollectInfo(i) ==
  /\ col.pc = "list" /\ i \in col.todo
  /\ LET c == info[i].cut
         taken == [col EXCEPT !.todo = @ \ {i}, !.id = i]
     IN  \/ /\ info[i].skip \/ Invalid(c)
            /\ col' = [taken EXCEPT !.id = None] /\ NoFault
            /\ info' = [info EXCEPT ![i].at = "cleaned"]
         \/ /\ ~info[i].skip /\ ~Invalid(c) /\ WindowIsOver(c)
            /\ col' = [taken EXCEPT !.pc = "scan"] /\ NoFault /\ UNCHANGED info
         \/ /\ ~info[i].skip /\ ~Invalid(c) /\ ~WindowIsOver(c)
            /\ col' = [taken EXCEPT !.id = None] /\ NoFault /\ UNCHANGED info
         \/ /\ info[i].skip \/ Invalid(c)
            /\ col' = [taken EXCEPT !.id = None] /\ Fault /\ UNCHANGED info
  /\ UNCHANGED <<now, birth, engVars, cloudVars, cache, saved, records, again>>

Lesser(a, b) == IF a < b THEN a ELSE b
ModTime(f) == Lesser(now, Final[f])
Present(S) == {f \in S : Born[f] <= now}
Overlaps(from, to, cut) == from <= cut.end /\ to >= cut.start
InWindow(S) == {f \in Present(S) \cap Wanted : Overlaps(Born[f], ModTime(f), Cut)}


(* What a record should hold of the files S: those of its window, as they were *)
(* when it ended; nothing is owed if not all of them could be looked at.       *)
Owed(S, flawed) ==
  IF flawed THEN {} ELSE {f \in S \cap Wanted : Overlaps(Born[f], Lesser(Cut.end, Final[f]), Cut)}

Gather(files, due) == col' = [col EXCEPT !.pc = "slaves", !.files = files, !.due = due]

(* With birth times, ComputeUploadFiles walks the directory; a failed walk *)
(* contributes nothing.                                                    *)
ComputeUploadFiles ==
  /\ col.pc = "scan" /\ birth
  /\ \E w \in UploadWalks :
       Gather(IF w.end = "failed" THEN {} ELSE InWindow(w.found), Owed(w.reach, w.end # "done"))
  /\ UNCHANGED <<now, faults, birth, engVars, cloudVars, info, cache, saved, records, again>>

(* The state of a file: read from the file again when it was modified.  A file *)
(* that could not be read stays unsupported until it is modified.              *)
ProcessCollectFile(f, readable) ==
  IF f \in DOMAIN cache /\ cache[f].modified = ModTime(f) THEN cache[f]
  ELSE [modified |-> ModTime(f), unsupported |-> ~readable]

(* Without birth times, UpdateCollectDirs brings the cached states up to date. *)
(* A failed walk is rolled back; one that stops at a file it may not read ends *)
(* the update without an error and without a save.                             *)
UpdateCollectDirs ==
  /\ col.pc = "scan" /\ ~birth
  /\ \E w \in CacheWalks : \E bad \in {{}} \cup {{f} : f \in w.found} :
       LET seen == IF w.end = "failed" THEN {} ELSE Present(w.found) \cap Wanted
           states == [f \in DOMAIN cache \cup seen |->
                        IF f \in seen THEN ProcessCollectFile(f, f \notin bad) ELSE cache[f]]
           files == {f \in DOMAIN states : /\ ~states[f].unsupported
                                           /\ Overlaps(Born[f], states[f].modified, Cut)}
           flawed == w.end # "done" \/ \E f \in seen : states[f].unsupported
       IN  /\ IF bad = {} THEN NoFault ELSE Fault
           /\ cache' = states
           /\ saved' = IF w.end = "stopped" THEN saved ELSE states
           /\ Gather(files, Owed(w.reach, flawed))
  /\ UNCHANGED <<now, birth, engVars, cloudVars, info, records, again>>

(* The update returns an error: the info waits for a later scan. *)
UpdateCollectDirsFails ==
  /\ col.pc = "scan" /\ ~birth /\ Fault /\ NextInfo
  /\ UNCHANGED <<now, birth, engVars, cloudVars, info, cache, saved, records, again>>

(* A slave whose clock lags so far that the window has not started there, or   *)
(* whose walk fails, answers with no files and no error.                       *)
ScanFilesByContent(lag, walked) ==
  IF walked /\ Cut.start <= now - lag + Tolerance
  THEN [files |-> InWindow(Remote), due |-> Owed(Remote, FALSE)]
  ELSE [files |-> {}, due |-> {}]

(* RequestAllSlaveFilesByContent: slaves that cannot be reached are left out. *)
AskSlaves ==
  /\ col.pc = "slaves"
  /\ \/ /\ NoFault
        /\ \E lag \in Lags, walked \in BOOLEAN :
             LET answer == ScanFilesByContent(lag, walked) IN
             col' = [col EXCEPT !.pc = "save", !.files = @ \cup answer.files,
                                !.due = @ \cup answer.due]
     \/ Fault /\ col' = [col EXCEPT !.pc = "save"]
  /\ UNCHANGED <<now, birth, engVars, cloudVars, info, cache, saved, records, again>>

(* Of a record: the files it lacks, those it should not have, its moments. *)
Record == [lacks |-> col.due \ col.files,
           strays |-> {f \in col.files : f \notin Wanted \/ ~Overlaps(Born[f], Final[f], Cut)},
           moments |-> info[col.id].moments]

SaveRecord ==
  /\ col.pc = "save"
  /\ \/ /\ records' = [records EXCEPT ![col.id] = Append(@, Record)]
        /\ col' = [col EXCEPT !.pc = "clean"] /\ NoFault
     \/ Fault /\ NextInfo /\ UNCHANGED records
  /\ UNCHANGED <<now, birth, engVars, cloudVars, info, cache, saved, again>>

(* The message that is published then only wakes the record collector. *)
Clean ==
  /\ col.pc = "clean" /\ NextInfo
  /\ \/ info' = [info EXCEPT ![col.id].at = "cleaned"] /\ NoFault /\ UNCHANGED again
     \/ Fault /\ again' = [again EXCEPT ![col.id] = @ + 1] /\ UNCHANGED info
  /\ UNCHANGED <<now, birth, engVars, cloudVars, cache, saved, records>>

---------------------------------------------------------------------------
(* A restart loses what is in memory; the debounce times start afresh. *)
Restart ==
  /\ Fault
  /\ prev' = [r \in Rules |-> None] /\ eng' = Idle /\ active' = [r \in Rules |-> None]
  /\ cache' = saved /\ col' = AtRest
  /\ again' = IF col.pc = "clean" THEN [again EXCEPT ![col.id] = @ + 1] ELSE again
  /\ UNCHANGED <<now, birth, cloudVars, info, saved, records>>

Next ==
  \/ Tick \/ Restart
  \/ \E r \in Rules, ts \in Stamps, source \in {"http", "file"} : ConsumeNext(r, ts, source)
  \/ RunFails \/ CountOwn \/ CountGlobal \/ HitDiagnosisRule \/ SaveCut \/ CreateMoment \/ PublishCollectInfo
  \/ \E r \in Shared : OtherCounts(r)
  \/ OtherHits
  \/ ScanCollectInfos \/ EndScan
  \/ \E i \in Infos : HandleCollectInfo(i)
  \/ ComputeUploadFiles \/ UpdateCollectDirs \/ UpdateCollectDirsFails
  \/ AskSlaves \/ SaveRecord \/ Clean

Spec == Init /\ [][Next]_vars

---------------------------------------------------------------------------
TypeOK ==
  /\ now \in 0..MaxTime /\ faults \in 0..MaxFaults /\ birth \in BOOLEAN
  /\ prev \in [Rules -> Stamps \cup {None}] /\ active \in [Rules -> Stamps \cup {None}]
  /\ eng.pc \in {"idle", "act", "global", "hit", "cut"} /\ eng.id \in Infos \cup {None}
  /\ cloud \in [Rules -> [own : Nat, all : Nat]] /\ other \in Rules \cup {None}
  /\ missed \in [Rules -> 0..MaxFaults]
  /\ Len(info) <= MaxInfos
  /\ \A i \in DOMAIN info :
       /\ info[i].at \in {"unsaved", "draft", "published", "cleaned"}
       /\ info[i].at \in {"published", "cleaned"} => info[i].cut # None
  /\ {DOMAIN cache, DOMAIN saved} \subseteq SUBSET Wanted
  /\ col.pc \in {"idle", "list", "scan", "slaves", "save", "clean"}
  /\ col.todo \cup ({col.id} \ {None}) \subseteq Published /\ col.id \notin col.todo

Moments(r) == {k \in DOMAIN Actions[r] : Actions[r][k] = "create_moment"}

(* A record is made only from a collect info whose upload was allowed and whose  *)
(* window is valid; it has the moments of all the actions of the rule (but those *)
(* that failed) and, of the files of the device and of its slaves that are *)
(* reachable, readable, not empty and wanted, exactly those of the window as it  *)
(* was when it ended (unless a walk, a file or a slave could not be read); and   *)
(* there is one record for an info unless a crash or a failed removal let the    *)
(* info survive it.                                                              *)
RecordIsWhole ==
  \A i \in DOMAIN info :
    /\ Len(records[i]) <= 1 + again[i]
    /\ records[i] # << >> => ~info[i].skip /\ ~Invalid(info[i].cut)
    /\ \A n \in DOMAIN records[i] :
         /\ records[i][n].lacks = {} /\ records[i][n].strays = {}
         /\ records[i][n].moments + faults >= Cardinality(Moments(info[i].rule))

Allowed(r) == Cardinality({i \in DOMAIN info : info[i].rule = r /\ info[i].cut # None /\ ~info[i].skip})
Others(r) == cloud[r].all - cloud[r].own + (IF other = r THEN 1 ELSE 0)

(* The limits of a rule hold although they are read, compared and counted in    *)
(* separate calls, and although a call may fail: this device exceeds its own    *)
(* only by the calls that failed, and all devices together by these and by one  *)
(* upload for each other device.                                                *)
WithinLimit ==
  \A r \in Rules :
    /\ Allowed(r) <= DeviceTimes + missed[r]
    /\ Allowed(r) + Others(r) <= GlobalTimes + 1 + missed[r]

(* While its items come from HTTP alone, and in whatever order they come, a rule *)
(* with a debounce time is activated again only by an item that much later than  *)
(* the one that activated it before.                                             *)
BurstActivatesOnce ==
  [][\A r \in Rules :
       (eng.pc = "idle" /\ eng'.pc = "act" /\ eng'.rule = r /\ DebounceTime[r] > 0
        /\ active[r] # None /\ active'[r] # None)
       => active'[r] - active[r] > DebounceTime[r]]_vars
===========================================================================

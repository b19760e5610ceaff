---------------------------- MODULE RecordPipeline ----------------------------
(***************************************************************************)
(* The record pipeline of internal/collector: the collector goroutine      *)
(* scans the record caches on disk, creates the cloud record, and hands    *)
(* the path of a record to the upload side through a bounded channel; the  *)
(* receiver loop moves it to a bounded DedupQueue; the upload worker pops  *)
(* it, uploads its files one by one, and finalises it.  The task handler   *)
(* cancels records by marking their cache Skipped.  All of them share the  *)
(* record cache files (state.json, one lock per path) and the              *)
(* recordRegistry, which holds one token per record that is in flight.     *)
(*                                                                         *)
(* Every record of this model belongs to an upload task.  A record cache   *)
(* is a file that is present or not, with the fields the pipeline reads    *)
(* and writes.  UpdateRecordCache is two steps, load and write, both under *)
(* the lock of the path: the deletion of an expired record does not take   *)
(* that lock.                                                              *)
(*                                                                         *)
(* An operator whose name starts with Bug is a faulty variant of the one   *)
(* after it; no behaviour uses it.  With it in the other's place one of    *)
(* the properties at the end of the module fails.                          *)
(***************************************************************************)
EXTENDS Naturals, Sequences, Functions

CONSTANTS Records,     \* record caches, numbered in the order of their paths
          Files,       \* the OriginalFiles of each of them
          SlaveFiles,  \* those of them that a slave has
          NoRecord, NoFile,
          ChanCap,     \* capacity of uploadChan (5 in the code)
          QueueCap,    \* capacity of the DedupQueue (8 in the code)
          Expirable,   \* bound: the records that may become expired
          Cancellable, \* bound: the records whose task the user may cancel
          MaxFaults    \* bound: crashes, failed saves and lost replies

ASSUME RecordsAssumption == Records \subseteq Nat /\ NoRecord \notin Records
ASSUME FilesAssumption == NoFile \notin Files /\ SlaveFiles \subseteq Files
ASSUME CapAssumption == ChanCap \in Nat /\ QueueCap \in Nat /\ MaxFaults \in Nat

VARIABLES
  present,   \* the records whose state.json exists
  cache,     \* its content, for each record
  lock,      \* the goroutine inside UpdateRecordCache of that path
  loaded,    \* the RecordCache object each goroutine loaded inside it
  reg,       \* recordRegistry.active
  chan,      \* uploadChan
  queue,     \* the DedupQueue
  trigger,   \* triggerChan holds its one message
  cpc, crec, crc, ctodo,          \* the collector goroutine; crc is its object
  rpc, rrec,                      \* the receiver loop of Upload
  wpc, wrec, wtodo, wfile, wall,  \* the worker goroutine of Upload
  kpc, krec, ktodo, ktasks,       \* the task handler, cancelling
  created,   \* number of cloud records created for a record cache
  objects,   \* files of a record whose object is complete in the cloud
  task,      \* cloud state of the upload task of a record
  expired,   \* records older than deleteAfterIntervalInHours
  vanished,  \* local files of a record that are no longer readable
  refused,   \* files of a record that its slave once refused to send
  faults

disk == <<present, cache, lock, loaded>>
handoff == <<reg, chan, queue, trigger>>
collector == <<cpc, crec, crc, ctodo>>
receiver == <<rpc, rrec>>
worker == <<wpc, wrec, wtodo, wfile, wall>>
canceller == <<kpc, krec, ktodo, ktasks>>
cloud == <<created, objects, task>>
env == <<expired, vanished, refused, faults>>
vars == <<disk, handoff, collector, receiver, worker, canceller, cloud, env>>

Goroutines == {"collector", "worker", "canceller"}
Cache == [named: BOOLEAN, sent: SUBSET Files, uploaded: BOOLEAN, skipped: BOOLEAN]
TaskStates == {"none", "PROCESSING", "CANCELLING", "CANCELLED", "SUCCEEDED"}

\* A record cache as the task handler saves it: no cloud record, no progress.
NewCache == [named |-> FALSE, sent |-> {}, uploaded |-> FALSE, skipped |-> FALSE]

Settled(c) == c.uploaded \/ c.skipped

Init ==
  /\ present = {} /\ cache = [r \in Records |-> NewCache]
  /\ lock = [r \in Records |-> "free"] /\ loaded = [g \in Goroutines |-> NewCache]
  /\ reg = {} /\ chan = <<>> /\ queue = <<>> /\ trigger = FALSE
  /\ cpc = "idle" /\ crec = NoRecord /\ crc = NewCache /\ ctodo = {}
  /\ rpc = "idle" /\ rrec = NoRecord
  /\ wpc = "idle" /\ wrec = NoRecord /\ wtodo = {} /\ wfile = NoFile /\ wall = TRUE
  /\ kpc = "idle" /\ krec = NoRecord /\ ktodo = {} /\ ktasks = {}
  /\ created = [r \in Records |-> 0] /\ objects = [r \in Records |-> {}]
  /\ task = [r \in Records |-> "none"]
  /\ expired = {} /\ vanished = [r \in Records |-> {}] /\ refused = [r \in Records |-> {}]
  /\ faults = 0

-----------------------------------------------------------------------------
(***************************************************************************)
(* Record cache files.                                                     *)
(***************************************************************************)

BugNoLock(r) == r \in Records

Unlocked(r) == lock[r] = "free"

\* LoadRecordCache and Reload: read the file while holding its lock.
Load(r) == Unlocked(r) /\ r \in present /\ UNCHANGED disk

\* CheckReadPath finds no file; it does not take the lock.
Missing(r) == r \notin present /\ UNCHANGED disk

\* The file is gone: Reload and UpdateRecordCache return an error.
LoadFails(r) == Unlocked(r) /\ Missing(r)

\* First half of UpdateRecordCache: take the lock and load.
BeginUpdate(g, r) ==
  /\ Unlocked(r) /\ r \in present
  /\ lock' = [lock EXCEPT ![r] = g]
  /\ loaded' = [loaded EXCEPT ![g] = cache[r]]
  /\ UNCHANGED <<present, cache>>

Unlock(g, r) ==
  /\ lock' = [lock EXCEPT ![r] = "free"]
  /\ loaded' = [loaded EXCEPT ![g] = NewCache]

\* Second half: write the mutated object and release the lock.  The write makes
\* the directory again when it was deleted since the load, then renames the new
\* file over the old one.
EndUpdate(g, r, new) ==
  /\ present' = present \cup {r} /\ cache' = [cache EXCEPT ![r] = new]
  /\ Unlock(g, r)

\* The write fails (the disk is full, say): the file keeps its content.
UpdateFails(g, r) ==
  /\ faults < MaxFaults /\ faults' = faults + 1
  /\ Unlock(g, r)
  /\ UNCHANGED <<present, cache>>

\* os.RemoveAll of the record's directory.
DeleteDir(r) == present' = present \ {r} /\ UNCHANGED <<cache, lock, loaded>>

BugAcquireTaken(r) == reg' = reg \cup {r}

TryAcquire(r) == r \notin reg /\ reg' = reg \cup {r}

Release(r) == reg' = reg \ {r}

-----------------------------------------------------------------------------
(***************************************************************************)
(* The collector goroutine: handleRecordCaches, once per trigger.          *)
(***************************************************************************)

First(S) == {r \in S : \A s \in S : r <= s}

\* The ticker, or a message on TopicCollectMsg; skipped when one is pending.
Tick == 
  /\ ~trigger /\ trigger' = TRUE
  /\ UNCHANGED <<disk, reg, chan, queue, collector, receiver, worker, canceller, cloud, env>>

CollectStart ==
  /\ cpc = "idle" /\ trigger
  /\ trigger' = FALSE
  /\ cpc' = "scan" /\ ctodo' = present /\ UNCHANGED <<crec, crc>>
  /\ UNCHANGED <<disk, reg, chan, queue, receiver, worker, canceller, cloud, env>>

CollectEnd ==
  /\ cpc = "scan" /\ ctodo = {}
  /\ cpc' = "idle" /\ UNCHANGED <<crec, crc, ctodo>>
  /\ UNCHANGED <<disk, handoff, receiver, worker, canceller, cloud, env>>

\* The loop goes on to its next record.
NextRecord(r) ==
  cpc' = "scan" /\ crec' = NoRecord /\ crc' = NewCache /\ ctodo' = ctodo \ {r}

CollectorGoto(pc) == cpc' = pc /\ UNCHANGED <<crec, crc, ctodo>>

\* The record is gone, expired, settled, or to be collected.
CollectLoad ==
  /\ cpc = "scan"
  /\ \E r \in First(ctodo) :
       \/ Missing(r) /\ NextRecord(r)
       \/ Load(r) /\ r \notin expired /\ Settled(cache[r]) /\ NextRecord(r)
       \/ /\ Load(r) /\ (r \in expired \/ ~Settled(cache[r]))
          /\ cpc' = IF r \in expired THEN "expire" ELSE "acquire"
          /\ crec' = r /\ crc' = cache[r] /\ UNCHANGED ctodo
  /\ UNCHANGED <<handoff, receiver, worker, canceller, cloud, env>>

\* checkRecordCacheExpired deletes the directory without the lock of the file.
\* When that fails the record is treated as one that is not expired.
CollectExpire ==
  /\ cpc = "expire"
  /\ \/ DeleteDir(crec) /\ NextRecord(crec)
     \/ /\ UNCHANGED disk
        /\ \/ Settled(crc) /\ NextRecord(crec)
           \/ ~Settled(crc) /\ CollectorGoto("acquire")
  /\ UNCHANGED <<handoff, receiver, worker, canceller, cloud, env>>

BugAlwaysCreate ==
  /\ cpc = "acquire"
  /\ \/ TryAcquire(crec) /\ CollectorGoto("create")
     \/ crec \in reg /\ NextRecord(crec) /\ UNCHANGED reg
  /\ UNCHANGED <<disk, chan, queue, trigger, receiver, worker, canceller, cloud, env>>

CollectAcquire ==
  /\ cpc = "acquire"
  /\ \/ TryAcquire(crec) /\ CollectorGoto(IF crc.named THEN "send" ELSE "create")
     \/ crec \in reg /\ NextRecord(crec) /\ UNCHANGED reg
  /\ UNCHANGED <<disk, chan, queue, trigger, receiver, worker, canceller, cloud, env>>

\* CreateRecord succeeds in the cloud; the name is then to be saved.
CollectCreate ==
  /\ cpc = "create"
  /\ created' = [created EXCEPT ![crec] = @ + 1]
  /\ CollectorGoto("name")
  /\ UNCHANGED <<disk, handoff, receiver, worker, canceller, objects, task, env>>

BugKeepTokenOfUnnamed ==
  /\ cpc = "create" /\ NextRecord(crec)
  /\ UNCHANGED <<disk, handoff, receiver, worker, canceller, cloud, env>>

\* CreateRecord fails, or its reply is lost: the record has no name, and the
\* rest of the round does nothing for it.
CollectCreateFails ==
  /\ cpc = "create"
  /\ \/ UNCHANGED <<created, faults>>
     \/ /\ faults < MaxFaults /\ faults' = faults + 1
        /\ created' = [created EXCEPT ![crec] = @ + 1]
  /\ Release(crec) /\ NextRecord(crec)
  /\ UNCHANGED <<disk, chan, queue, trigger, receiver, worker, canceller,
                 objects, task, expired, vanished, refused>>

\* createRecord saves the name; whether that works or not, the object in memory
\* has it.
CollectorNamed == cpc' = "send" /\ crc' = [crc EXCEPT !.named = TRUE] /\ UNCHANGED <<crec, ctodo>>

CollectNameBegin ==
  /\ cpc = "name"
  /\ IF crec \in present
       THEN BeginUpdate("collector", crec) /\ CollectorGoto("nameWrite")
       ELSE LoadFails(crec) /\ CollectorNamed
  /\ UNCHANGED <<handoff, receiver, worker, canceller, cloud, env>>

\* A name that was saved before is kept.
CollectNameWrite ==
  /\ cpc = "nameWrite"
  /\ \/ /\ EndUpdate("collector", crec, [loaded["collector"] EXCEPT !.named = TRUE])
        /\ UNCHANGED faults
     \/ UpdateFails("collector", crec)
  /\ CollectorNamed
  /\ UNCHANGED <<handoff, receiver, worker, canceller, cloud, expired, vanished, refused>>

\* createRecordRelatedUploadTasks reloads the object (when the file is there);
\* a record with a name is then sent on uploadChan, unless the channel is full.
CollectSend ==
  /\ cpc = "send" /\ Unlocked(crec)
  /\ LET rc == IF crec \in present THEN cache[crec] ELSE crc
     IN  IF rc.named /\ Len(chan) < ChanCap
           THEN chan' = Append(chan, crec) /\ UNCHANGED reg
           ELSE Release(crec) /\ UNCHANGED chan
  /\ NextRecord(crec)
  /\ UNCHANGED <<disk, queue, trigger, receiver, worker, canceller, cloud, env>>

Collector ==
  \/ CollectStart \/ CollectEnd \/ CollectLoad \/ CollectExpire \/ CollectAcquire
  \/ CollectCreate \/ CollectCreateFails \/ CollectNameBegin \/ CollectNameWrite
  \/ CollectSend

-----------------------------------------------------------------------------
(***************************************************************************)
(* The receiver loop of Upload: from uploadChan to the DedupQueue.  Each   *)
(* call on the queue is atomic, so the worker may pop between them.        *)
(***************************************************************************)

BugFullOneLate == Len(queue) > QueueCap

IsFull == Len(queue) >= QueueCap

ReceiverDone == rpc' = "idle" /\ rrec' = NoRecord

ReceiverTake ==
  /\ rpc = "idle" /\ chan # <<>>
  /\ rrec' = Head(chan) /\ chan' = Tail(chan) /\ rpc' = "check"
  /\ UNCHANGED <<disk, reg, queue, trigger, collector, worker, canceller, cloud, env>>

BugDropWithoutRelease ==
  /\ rpc = "check"
  /\ \/ IsFull /\ ReceiverDone
     \/ ~IsFull /\ rpc' = "push" /\ UNCHANGED rrec
  /\ UNCHANGED <<disk, handoff, collector, worker, canceller, cloud, env>>

BugPushUnchecked ==
  /\ rpc = "check" /\ rpc' = "push" /\ UNCHANGED rrec
  /\ UNCHANGED <<disk, handoff, collector, worker, canceller, cloud, env>>

ReceiverCheck ==
  /\ rpc = "check"
  /\ \/ IsFull /\ Release(rrec) /\ ReceiverDone
     \/ ~IsFull /\ rpc' = "push" /\ UNCHANGED <<rrec, reg>>
  /\ UNCHANGED <<disk, chan, queue, trigger, collector, worker, canceller, cloud, env>>

\* DedupQueue.Push refuses when the queue is full or holds the element.
PushRefused(r) == IsFull \/ r \in Range(queue)

ReceiverPush ==
  /\ rpc = "push"
  /\ IF PushRefused(rrec)
       THEN Release(rrec) /\ UNCHANGED queue
       ELSE queue' = Append(queue, rrec) /\ UNCHANGED reg
  /\ ReceiverDone
  /\ UNCHANGED <<disk, chan, trigger, collector, worker, canceller, cloud, env>>

Receiver == ReceiverTake \/ ReceiverCheck \/ ReceiverPush

-----------------------------------------------------------------------------
(***************************************************************************)
(* The worker goroutine of Upload and uploadFiles.                         *)
(***************************************************************************)

\* The deferred Release when the worker's function returns.
WorkerReturns ==
  /\ Release(wrec)
  /\ wpc' = "idle" /\ wrec' = NoRecord /\ wtodo' = {} /\ wfile' = NoFile /\ wall' = TRUE

WorkerGoto(pc) == wpc' = pc /\ UNCHANGED <<reg, wrec, wtodo, wfile, wall>>

WorkerPop ==
  /\ wpc = "idle" /\ queue # <<>>
  /\ wrec' = Head(queue) /\ queue' = Tail(queue) /\ wpc' = "load"
  /\ UNCHANGED <<wtodo, wfile, wall>>
  /\ UNCHANGED <<disk, reg, chan, trigger, collector, receiver, canceller, cloud, env>>

WorkerLoad ==
  /\ wpc = "load"
  /\ \/ Missing(wrec) /\ WorkerReturns
     \/ Load(wrec) /\ Settled(cache[wrec]) /\ WorkerReturns
     \/ Load(wrec) /\ ~Settled(cache[wrec]) /\ WorkerGoto("gate")
  /\ UNCHANGED <<chan, queue, trigger, collector, receiver, canceller, cloud, env>>

\* The network is blacklisted or uploads are disabled: the record is left for a
\* later round.  The same test is made before every file.
WorkerDeclines ==
  /\ wpc \in {"gate", "fileGate"} /\ WorkerReturns
  /\ UNCHANGED <<disk, chan, queue, trigger, collector, receiver, canceller, cloud, env>>

WorkerAccepts ==
  /\ wpc = "gate" /\ WorkerGoto("start")
  /\ UNCHANGED <<disk, chan, queue, trigger, collector, receiver, canceller, cloud, env>>

WorkerAcceptsFile ==
  /\ wpc = "fileGate" /\ WorkerGoto("put")
  /\ UNCHANGED <<disk, chan, queue, trigger, collector, receiver, canceller, cloud, env>>

\* uploadFiles reloads the record and lists the files that are not sent yet.
WorkerStart ==
  /\ wpc = "start"
  /\ \/ LoadFails(wrec) /\ WorkerReturns
     \/ Load(wrec) /\ ~cache[wrec].named /\ WorkerReturns
     \/ /\ Load(wrec) /\ cache[wrec].named
        /\ wtodo' = Files \ cache[wrec].sent /\ wall' = TRUE
        /\ wpc' = "next" /\ UNCHANGED <<reg, wrec, wfile>>
  /\ UNCHANGED <<chan, queue, trigger, collector, receiver, canceller, cloud, env>>

\* The next file: the record is reloaded, and the file skipped when it is local and
\* cannot be read, or was sent meanwhile.  allCompleted is left alone in both cases.
WorkerNextFile ==
  /\ wpc = "next" /\ wtodo # {}
  /\ \/ LoadFails(wrec) /\ WorkerReturns
     \/ Load(wrec) /\ Settled(cache[wrec]) /\ WorkerReturns
     \/ /\ Load(wrec) /\ ~Settled(cache[wrec])
        /\ \E f \in wtodo :
             /\ wtodo' = wtodo \ {f}
             /\ IF f \in vanished[wrec] \cup cache[wrec].sent
                  THEN UNCHANGED <<wpc, wfile>>
                  ELSE wpc' = "fileGate" /\ wfile' = f
        /\ UNCHANGED <<reg, wrec, wall>>
  /\ UNCHANGED <<chan, queue, trigger, collector, receiver, canceller, cloud, env>>

\* uploadFile returns nil: the object is in the cloud, or the slave refused the file
\* as too large or unavailable and there is none.
WorkerPut ==
  /\ wpc = "put"
  /\ \/ /\ objects' = [objects EXCEPT ![wrec] = @ \cup {wfile}]
        /\ UNCHANGED refused
     \/ /\ wfile \in SlaveFiles
        /\ refused' = [refused EXCEPT ![wrec] = @ \cup {wfile}]
        /\ UNCHANGED objects
  /\ WorkerGoto("progress")
  /\ UNCHANGED <<disk, chan, queue, trigger, collector, receiver, canceller,
                 created, task, expired, vanished, faults>>

BugForgetFailedFile ==
  /\ wpc = "put"
  /\ \/ WorkerReturns
     \/ wpc' = "next" /\ wfile' = NoFile /\ UNCHANGED <<reg, wrec, wtodo, wall>>
  /\ UNCHANGED <<disk, chan, queue, trigger, collector, receiver, canceller, cloud, env>>

\* uploadFile returns an error; the loop stops when it is a network, cache or
\* disk problem, and goes on with the next file otherwise.
WorkerPutFails ==
  /\ wpc = "put"
  /\ \/ WorkerReturns
     \/ wall' = FALSE /\ wpc' = "next" /\ wfile' = NoFile /\ UNCHANGED <<reg, wrec, wtodo>>
  /\ UNCHANGED <<disk, chan, queue, trigger, collector, receiver, canceller, cloud, env>>

\* The progress is saved with UpdateRecordCache.
WorkerProgressBegin ==
  /\ wpc = "progress"
  /\ \/ LoadFails(wrec) /\ WorkerReturns
     \/ BeginUpdate("worker", wrec) /\ WorkerGoto("progressWrite")
  /\ UNCHANGED <<chan, queue, trigger, collector, receiver, canceller, cloud, env>>

AddProgress(c, f) == IF Settled(c) THEN c ELSE [c EXCEPT !.sent = @ \cup {f}]

\* The loop stops when the record is settled or the tag of the task is refused.
WorkerProgressWrite ==
  /\ wpc = "progressWrite"
  /\ \/ /\ EndUpdate("worker", wrec, AddProgress(loaded["worker"], wfile)) /\ UNCHANGED faults
        /\ \/ WorkerReturns
           \/ /\ ~Settled(loaded["worker"])
              /\ wpc' = "next" /\ wfile' = NoFile /\ UNCHANGED <<reg, wrec, wtodo, wall>>
     \/ UpdateFails("worker", wrec) /\ WorkerReturns
  /\ UNCHANGED <<chan, queue, trigger, collector, receiver, canceller, cloud,
                 expired, vanished, refused>>

\* Every file was tried: finalise the record when none failed.
WorkerAllTried ==
  /\ wpc = "next" /\ wtodo = {}
  /\ \/ ~wall /\ WorkerReturns /\ UNCHANGED disk
     \/ wall /\ LoadFails(wrec) /\ WorkerReturns
     \/ wall /\ Load(wrec) /\ Settled(cache[wrec]) /\ WorkerReturns
     \/ wall /\ Load(wrec) /\ ~Settled(cache[wrec]) /\ WorkerGoto("label")
  /\ UNCHANGED <<chan, queue, trigger, collector, receiver, canceller, cloud, env>>

\* UpdateRecordLabels; an error ends this attempt.
WorkerLabel ==
  /\ wpc = "label" /\ WorkerGoto("report")
  /\ UNCHANGED <<disk, chan, queue, trigger, collector, receiver, canceller, cloud, env>>

WorkerLabelFails ==
  /\ wpc = "label" /\ WorkerReturns
  /\ UNCHANGED <<disk, chan, queue, trigger, collector, receiver, canceller, cloud, env>>

\* UpdateTaskState SUCCEEDED; an error is only logged.
WorkerReport ==
  /\ wpc = "report"
  /\ \/ task' = [task EXCEPT ![wrec] = "SUCCEEDED"]
     \/ UNCHANGED task
  /\ WorkerGoto("finish")
  /\ UNCHANGED <<disk, chan, queue, trigger, collector, receiver, canceller,
                 created, objects, env>>

WorkerFinishBegin ==
  /\ wpc = "finish"
  /\ \/ LoadFails(wrec) /\ WorkerReturns
     \/ BeginUpdate("worker", wrec) /\ WorkerGoto("finishWrite")
  /\ UNCHANGED <<chan, queue, trigger, collector, receiver, canceller, cloud, env>>

BugMarkSkipped(c) == [c EXCEPT !.uploaded = TRUE]

MarkUploaded(c) == IF c.skipped THEN c ELSE [c EXCEPT !.uploaded = TRUE]

WorkerFinishWrite ==
  /\ wpc = "finishWrite"
  /\ \/ /\ EndUpdate("worker", wrec, MarkUploaded(loaded["worker"])) /\ UNCHANGED faults
        /\ IF loaded["worker"].skipped THEN WorkerReturns ELSE WorkerGoto("clean")
     \/ UpdateFails("worker", wrec) /\ WorkerReturns
  /\ UNCHANGED <<chan, queue, trigger, collector, receiver, canceller, cloud,
                 expired, vanished, refused>>

BugCleanWithoutLock ==
  /\ wpc = "clean" /\ DeleteDir(wrec) /\ WorkerReturns
  /\ UNCHANGED <<chan, queue, trigger, collector, receiver, canceller, cloud, env>>

\* Clean deletes the directory under the lock of the file; a failure is ignored.
WorkerClean ==
  /\ wpc = "clean" /\ Unlocked(wrec)
  /\ \/ DeleteDir(wrec)
     \/ UNCHANGED disk
  /\ WorkerReturns
  /\ UNCHANGED <<chan, queue, trigger, collector, receiver, canceller, cloud, env>>

Worker ==
  \/ WorkerPop \/ WorkerLoad \/ WorkerDeclines \/ WorkerAccepts
  \/ WorkerAcceptsFile \/ WorkerStart
  \/ WorkerNextFile \/ WorkerPut \/ WorkerPutFails
  \/ WorkerProgressBegin \/ WorkerProgressWrite \/ WorkerAllTried
  \/ WorkerLabel \/ WorkerLabelFails \/ WorkerReport \/ WorkerFinishBegin \/ WorkerFinishWrite \/ WorkerClean

-----------------------------------------------------------------------------
(***************************************************************************)
(* The task handler goroutine.  It saves the record caches of new tasks    *)
(* and handles the tasks being cancelled, one after the other.             *)
(***************************************************************************)

\* handleUploadTask: the task becomes PROCESSING in the cloud ...
AcceptTask(r) ==
  /\ kpc = "idle" /\ task[r] = "none"
  /\ task' = [task EXCEPT ![r] = "PROCESSING"]
  /\ kpc' = "save" /\ krec' = r /\ UNCHANGED <<ktodo, ktasks>>
  /\ UNCHANGED <<disk, handoff, collector, receiver, worker, created, objects, env>>

\* ... then its record cache is saved, under a path that is new, and the collector
\* is triggered.  When saving fails the task is not listed again.
SaveRecord ==
  /\ kpc = "save" /\ kpc' = "idle" /\ krec' = NoRecord /\ UNCHANGED <<ktodo, ktasks>>
  /\ \/ /\ present' = present \cup {krec} /\ cache' = [cache EXCEPT ![krec] = NewCache]
        /\ trigger' = TRUE /\ UNCHANGED faults
     \/ /\ faults < MaxFaults /\ faults' = faults + 1
        /\ UNCHANGED <<present, cache, trigger>>
  /\ UNCHANGED <<lock, loaded, reg, chan, queue, collector, receiver, worker, cloud,
                 expired, vanished, refused>>

\* ListDeviceTasks(CANCELLING), then FindAllRecordCaches.
CancelStart ==
  /\ kpc = "idle"
  /\ ktasks' = {r \in Records : task[r] = "CANCELLING"} /\ ktasks' # {}
  /\ ktodo' = present /\ kpc' = "scan" /\ UNCHANGED krec
  /\ UNCHANGED <<disk, handoff, collector, receiver, worker, cloud, env>>

CancelNext(r) == kpc' = "scan" /\ krec' = NoRecord /\ ktodo' = ktodo \ {r} /\ UNCHANGED ktasks

BugLeaveRecordsInFlight ==
  /\ kpc = "scan"
  /\ \E r \in First(ktodo) :
       \/ Missing(r) /\ CancelNext(r)
       \/ Load(r) /\ (r \notin ktasks \/ r \in reg) /\ CancelNext(r)
       \/ /\ Load(r) /\ r \in ktasks \ reg
          /\ kpc' = "skip" /\ krec' = r /\ UNCHANGED <<ktodo, ktasks>>
  /\ UNCHANGED <<handoff, collector, receiver, worker, cloud, env>>

BugStopAtMissing ==
  /\ kpc = "scan"
  /\ \E r \in First(ktodo) :
       \/ Load(r) /\ r \notin ktasks /\ CancelNext(r)
       \/ /\ Load(r) /\ r \in ktasks
          /\ kpc' = "skip" /\ krec' = r /\ UNCHANGED <<ktodo, ktasks>>
  /\ UNCHANGED <<handoff, collector, receiver, worker, cloud, env>>

\* The record of a task that is being cancelled is to be skipped.
CancelLoad ==
  /\ kpc = "scan"
  /\ \E r \in First(ktodo) :
       \/ Missing(r) /\ CancelNext(r)
       \/ Load(r) /\ r \notin ktasks /\ CancelNext(r)
       \/ /\ Load(r) /\ r \in ktasks
          /\ kpc' = "skip" /\ krec' = r /\ UNCHANGED <<ktodo, ktasks>>
  /\ UNCHANGED <<handoff, collector, receiver, worker, cloud, env>>

CancelSkipBegin ==
  /\ kpc = "skip"
  /\ \/ LoadFails(krec) /\ CancelNext(krec)
     \/ BeginUpdate("canceller", krec) /\ kpc' = "skipWrite" /\ UNCHANGED <<krec, ktodo, ktasks>>
  /\ UNCHANGED <<handoff, collector, receiver, worker, cloud, env>>

CancelSkipWrite ==
  /\ kpc = "skipWrite"
  /\ \/ /\ EndUpdate("canceller", krec, [loaded["canceller"] EXCEPT !.skipped = TRUE])
        /\ UNCHANGED faults
     \/ UpdateFails("canceller", krec)
  /\ CancelNext(krec)
  /\ UNCHANGED <<handoff, collector, receiver, worker, cloud, expired, vanished, refused>>

CancelScanned ==
  /\ kpc = "scan" /\ ktodo = {}
  /\ kpc' = "report" /\ UNCHANGED <<krec, ktodo, ktasks>>
  /\ UNCHANGED <<disk, handoff, collector, receiver, worker, cloud, env>>

\* UpdateTaskState CANCELLED, for every listed task.
CancelReported(r) ==
  /\ ktasks' = ktasks \ {r}
  /\ kpc' = IF ktasks' = {} THEN "idle" ELSE "report"
  /\ UNCHANGED <<krec, ktodo>>
  /\ UNCHANGED <<disk, handoff, collector, receiver, worker, created, objects, env>>

CancelReport(r) ==
  /\ kpc = "report" /\ r \in ktasks
  /\ task' = [task EXCEPT ![r] = "CANCELLED"]
  /\ CancelReported(r)

\* An error is only logged: the task is listed again in the next round.
CancelReportFails(r) ==
  /\ kpc = "report" /\ r \in ktasks
  /\ UNCHANGED task
  /\ CancelReported(r)

Canceller ==
  \/ SaveRecord \/ CancelStart \/ CancelLoad \/ CancelSkipBegin \/ CancelSkipWrite
  \/ CancelScanned
  \/ \E r \in Records : CancelReport(r) \/ CancelReportFails(r)

-----------------------------------------------------------------------------
(***************************************************************************)
(* The environment: the user, the clock, the file system, and crashes.     *)
(***************************************************************************)

\* The user cancels the task in the cloud.
UserCancels(r) ==
  /\ r \in Cancellable /\ task[r] = "PROCESSING"
  /\ task' = [task EXCEPT ![r] = "CANCELLING"]
  /\ UNCHANGED <<disk, handoff, collector, receiver, worker, canceller, created, objects, env>>

\* deleteAfterIntervalInHours have passed since the record's timestamp.
Expires(r) ==
  /\ r \in Expirable \ expired /\ task[r] # "none"
  /\ expired' = expired \cup {r}
  /\ UNCHANGED <<disk, handoff, collector, receiver, worker, canceller, cloud,
                 vanished, refused, faults>>

\* The robot's own software deletes a local file before it is sent.
FileVanishes(r, f) ==
  /\ r \in Expirable /\ task[r] # "none" /\ f \notin SlaveFiles \cup vanished[r]
  /\ vanished' = [vanished EXCEPT ![r] = @ \cup {f}]
  /\ UNCHANGED <<disk, handoff, collector, receiver, worker, canceller, cloud,
                 expired, refused, faults>>

\* The process dies and is restarted: the files and the cloud remain.
Crash ==
  /\ faults < MaxFaults /\ faults' = faults + 1
  /\ lock' = [r \in Records |-> "free"] /\ loaded' = [g \in Goroutines |-> NewCache]
  /\ reg' = {} /\ chan' = <<>> /\ queue' = <<>> /\ trigger' = FALSE
  /\ cpc' = "idle" /\ crec' = NoRecord /\ crc' = NewCache /\ ctodo' = {}
  /\ rpc' = "idle" /\ rrec' = NoRecord
  /\ wpc' = "idle" /\ wrec' = NoRecord /\ wtodo' = {} /\ wfile' = NoFile /\ wall' = TRUE
  /\ kpc' = "idle" /\ krec' = NoRecord /\ ktodo' = {} /\ ktasks' = {}
  /\ UNCHANGED <<present, cache, cloud, expired, vanished, refused>>

Next ==
  \/ Tick \/ Collector \/ Receiver \/ Worker \/ Canceller \/ Crash
  \/ \E r \in Records : AcceptTask(r) \/ UserCancels(r) \/ Expires(r)
  \/ \E r \in Records, f \in Files : FileVanishes(r, f)

Spec == Init /\ [][Next]_vars

\* Every goroutine keeps running, the ticker ticks, and what may fail does not
\* fail for ever: the cloud answers and uploads are allowed again and again.
Fairness ==
  /\ WF_vars(Tick) /\ WF_vars(Collector) /\ WF_vars(Receiver) /\ WF_vars(Worker)
  /\ WF_vars(Canceller)
  /\ SF_vars(CollectCreate) /\ SF_vars(WorkerAccepts) /\ SF_vars(WorkerAcceptsFile)
  /\ SF_vars(WorkerPut) /\ SF_vars(WorkerLabel)
  /\ \A r \in Records : SF_vars(CancelReport(r))

FairSpec == Spec /\ Fairness

-----------------------------------------------------------------------------
(***************************************************************************)
(* Safety.                                                                 *)
(***************************************************************************)

\* Every variable keeps its type; the two buffers never exceed their capacity.
TypeOK ==
  /\ present \subseteq Records /\ cache \in [Records -> Cache]
  /\ lock \in [Records -> Goroutines \cup {"free"}] /\ loaded \in [Goroutines -> Cache]
  /\ reg \subseteq Records /\ trigger \in BOOLEAN
  /\ chan \in Seq(Records) /\ Len(chan) <= ChanCap
  /\ queue \in Seq(Records) /\ Len(queue) <= QueueCap
  /\ cpc \in {"idle", "scan", "expire", "acquire", "create", "name", "nameWrite", "send"}
  /\ rpc \in {"idle", "check", "push"}
  /\ wpc \in {"idle", "load", "gate", "start", "next", "fileGate", "put", "progress",
              "progressWrite", "label", "report", "finish", "finishWrite", "clean"}
  /\ kpc \in {"idle", "save", "scan", "skip", "skipWrite", "report"}
  /\ crc \in Cache
  /\ {crec, rrec, wrec, krec} \subseteq Records \cup {NoRecord}
  /\ ctodo \subseteq Records /\ ktodo \subseteq Records /\ ktasks \subseteq Records
  /\ wtodo \subseteq Files /\ wfile \in Files \cup {NoFile} /\ wall \in BOOLEAN
  /\ created \in [Records -> Nat] /\ objects \in [Records -> SUBSET Files]
  /\ task \in [Records -> TaskStates]
  /\ expired \subseteq Records /\ vanished \in [Records -> SUBSET (Files \ SlaveFiles)]
  /\ refused \in [Records -> SUBSET SlaveFiles]
  /\ faults \in 0..MaxFaults

\* Where a record is in flight: with the collector once it holds the token, in
\* the channel, with the receiver, in the queue, with the worker.
WithCollector == IF cpc \in {"create", "name", "nameWrite", "send"} THEN {crec} ELSE {}
WithReceiver == IF rpc # "idle" THEN {rrec} ELSE {}
WithWorker == IF wpc # "idle" THEN {wrec} ELSE {}

NoDuplicates(s) == \A i, j \in 1..Len(s) : s[i] = s[j] => i = j

\* A record has its token exactly while it is in flight, and is then in one place
\* only: no path through the four goroutines leaks a token (the record would
\* never be uploaded again) or lets two of them work on one record.
TokenAccounting ==
  /\ reg = WithCollector \cup Range(chan) \cup WithReceiver \cup Range(queue) \cup WithWorker
  /\ NoDuplicates(chan) /\ NoDuplicates(queue)
  /\ WithCollector \cap (Range(chan) \cup WithReceiver \cup Range(queue) \cup WithWorker) = {}
  /\ Range(chan) \cap (WithReceiver \cup Range(queue) \cup WithWorker) = {}
  /\ WithReceiver \cap (Range(queue) \cup WithWorker) = {}
  /\ Range(queue) \cap WithWorker = {}

\* Once the receiver saw room in the queue its Push succeeds: the branch that
\* releases the token of an element it did not push is never taken.
PushNeverRefused == rpc = "push" => ~PushRefused(rrec)

\* While a goroutine is inside UpdateRecordCache, between its load and its write,
\* the file holds what it loaded, so that the write loses no other update; only a
\* deletion can come in between.
UpdateIsSerialized ==
  /\ cpc = "nameWrite" => cache[crec] = loaded["collector"]
  /\ wpc \in {"progressWrite", "finishWrite"} => cache[wrec] = loaded["worker"]
  /\ kpc = "skipWrite" => cache[krec] = loaded["canceller"]

\* Nothing is reported or marked as done that is not: when a task is SUCCEEDED
\* or a record Uploaded, each of its files is in the cloud, is local and gone, or was
\* refused by its slave; and a file is saved as sent only when it is in the cloud or
\* was refused.  (A refused file counts as sent: no later round asks for it again.)
CompletionIsTruthful ==
  \A r \in Records :
    /\ cache[r].sent \subseteq objects[r] \cup refused[r]
    /\ task[r] = "SUCCEEDED" \/ cache[r].uploaded
         => Files \subseteq objects[r] \cup vanished[r] \cup refused[r]

\* A record cache gets one cloud record, and one more at most for each crash,
\* failed save or lost reply.
CloudRecordsBounded == \A r \in Records : created[r] <= 1 + faults

\* When the device reports a task as CANCELLED, its record is skipped or gone
\* (if no save failed and the record did not expire meanwhile).
CancelledIsSkipped ==
  \A r \in Records :
    task[r] = "CANCELLED" /\ r \in present /\ r \notin expired /\ faults = 0
      => cache[r].skipped

\* A skipped record is never marked Uploaded afterwards, gains no progress, and
\* stays skipped.
SkippedIsFinal ==
  [][\A r \in Records : cache[r].skipped =>
       /\ cache'[r].skipped
       /\ cache'[r].uploaded = cache[r].uploaded
       /\ cache'[r].sent = cache[r].sent]_vars

\* Saved progress and the name of the cloud record are never lost again.
ProgressNeverLost ==
  [][\A r \in Records : task[r] # "none" =>
       /\ cache[r].sent \subseteq cache'[r].sent
       /\ cache[r].named => cache'[r].named
       /\ cache[r].uploaded => cache'[r].uploaded]_vars

\* The file of a record that was cleaned up does not come back: Clean deletes it
\* under the lock.  (A record that expired may, see UpdateIsSerialized.)
CleanedStaysCleaned ==
  [][\A r \in Records :
       r \notin present /\ r \in present' => (kpc = "save" /\ krec = r) \/ r \in expired]_vars

-----------------------------------------------------------------------------
(***************************************************************************)
(* The pipeline implements the abstract hand-over of RecordHandoff.        *)
(***************************************************************************)

\* The stage a record is in, from the state of the four goroutines.
stageOf == [r \in Records |->
  IF r \in WithCollector THEN "collecting"
  ELSE IF r \in Range(chan) THEN "sent"
  ELSE IF r \in WithReceiver THEN "received"
  ELSE IF r \in Range(queue) THEN "queued"
  ELSE IF r \in WithWorker THEN "uploading"
  ELSE "free"]

Handoff == INSTANCE RecordHandoff WITH stage <- stageOf

\* A record moves from the collector to the worker one stage at a time, and is
\* free again before it is taken a second time.
HandoffSpec == Handoff!Spec

-----------------------------------------------------------------------------
(***************************************************************************)
(* Liveness.                                                               *)
(***************************************************************************)

\* A record cache on disk is eventually uploaded, skipped or gone, whatever
\* rounds were declined, dropped for a full buffer or interrupted by a crash.
EventuallySettled ==
  \A r \in Records : r \in present ~> (r \notin present \/ Settled(cache[r]))

\* A cancellation is answered in the end.
CancellationIsAnswered ==
  \A r \in Records : task[r] = "CANCELLING" ~> task[r] \in {"CANCELLED", "SUCCEEDED"}

=============================================================================

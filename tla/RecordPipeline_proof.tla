------------------------ MODULE RecordPipeline_proof ------------------------
(***************************************************************************)
(* Theorems about RecordPipeline, for any number of records, any buffer     *)
(* capacities, any number of crashes and faults.                           *)
(***************************************************************************)
EXTENDS RecordPipeline, SequenceTheorems, TLAPS

-----------------------------------------------------------------------------
(***************************************************************************)
(* Type correctness.  TypeInv is TypeOK, in one part for each group of     *)
(* variables, with the record and the file a goroutine works on at each of *)
(* its steps.                                                              *)
(***************************************************************************)

DiskType ==
  /\ present \subseteq Records
  /\ cache \in [Records -> Cache]
  /\ lock \in [Records -> Goroutines \cup {"free"}]
  /\ loaded \in [Goroutines -> Cache]

HandoffType ==
  /\ reg \subseteq Records /\ trigger \in BOOLEAN
  /\ chan \in Seq(Records) /\ Len(chan) <= ChanCap
  /\ queue \in Seq(Records) /\ Len(queue) <= QueueCap

CollectorType ==
  /\ cpc \in {"idle", "scan", "expire", "acquire", "create", "name", "nameWrite", "send"}
  /\ crec \in Records \cup {NoRecord} /\ crc \in Cache /\ ctodo \subseteq Records
  /\ cpc \notin {"idle", "scan"} => crec \in Records

ReceiverType ==
  /\ rpc \in {"idle", "check", "push"}
  /\ rrec \in Records \cup {NoRecord}
  /\ rpc # "idle" => rrec \in Records

WorkerType ==
  /\ wpc \in {"idle", "load", "gate", "start", "next", "fileGate", "put", "progress",
              "progressWrite", "label", "report", "finish", "finishWrite", "clean"}
  /\ wrec \in Records \cup {NoRecord}
  /\ wtodo \subseteq Files /\ wfile \in Files \cup {NoFile} /\ wall \in BOOLEAN
  /\ wpc # "idle" => wrec \in Records
  /\ wpc \in {"fileGate", "put", "progress", "progressWrite"} => wfile \in Files

CancellerType ==
  /\ kpc \in {"idle", "save", "scan", "skip", "skipWrite", "report"}
  /\ krec \in Records \cup {NoRecord} /\ ktodo \subseteq Records /\ ktasks \subseteq Records
  /\ kpc \in {"save", "skip", "skipWrite"} => krec \in Records

CloudType ==
  /\ created \in [Records -> Nat] /\ objects \in [Records -> SUBSET Files]
  /\ task \in [Records -> TaskStates]

EnvType ==
  /\ expired \subseteq Records /\ vanished \in [Records -> SUBSET (Files \ SlaveFiles)]
  /\ refused \in [Records -> SUBSET SlaveFiles]
  /\ faults \in 0..MaxFaults

TypeInv ==
  /\ DiskType /\ HandoffType /\ CollectorType /\ ReceiverType /\ WorkerType
  /\ CancellerType /\ CloudType /\ EnvType

\* The invariant that is proved implies the one that TLC checks.
LEMMA TypeInvImpliesTypeOK == TypeInv => TypeOK
BY DEF TypeInv, TypeOK, DiskType, HandoffType, CollectorType, ReceiverType, WorkerType,
       CancellerType, CloudType, EnvType

\* A group of variables that does not change keeps its type.
LEMMA TypeUnchanged ==
  /\ DiskType /\ UNCHANGED disk => DiskType'
  /\ HandoffType /\ UNCHANGED handoff => HandoffType'
  /\ CollectorType /\ UNCHANGED collector => CollectorType'
  /\ ReceiverType /\ UNCHANGED receiver => ReceiverType'
  /\ WorkerType /\ UNCHANGED worker => WorkerType'
  /\ CancellerType /\ UNCHANGED canceller => CancellerType'
  /\ CloudType /\ UNCHANGED cloud => CloudType'
  /\ EnvType /\ UNCHANGED env => EnvType'
<1>1. DiskType /\ UNCHANGED disk => DiskType'
  BY DEF DiskType, disk
<1>2. HandoffType /\ UNCHANGED handoff => HandoffType'
  BY DEF HandoffType, handoff
<1>3. CollectorType /\ UNCHANGED collector => CollectorType'
  BY DEF CollectorType, collector
<1>4. ReceiverType /\ UNCHANGED receiver => ReceiverType'
  BY DEF ReceiverType, receiver
<1>5. WorkerType /\ UNCHANGED worker => WorkerType'
  BY DEF WorkerType, worker
<1>6. CancellerType /\ UNCHANGED canceller => CancellerType'
  BY DEF CancellerType, canceller
<1>7. CloudType /\ UNCHANGED cloud => CloudType'
  BY DEF CloudType, cloud
<1>8. EnvType /\ UNCHANGED env => EnvType'
  BY DEF EnvType, env
<1> QED
  BY <1>1, <1>2, <1>3, <1>4, <1>5, <1>6, <1>7, <1>8

\* What is written to a record cache file is a record cache.
LEMMA CacheFields ==
  /\ NewCache \in Cache
  /\ \A c \in Cache :
       /\ [c EXCEPT !.named = TRUE] \in Cache
       /\ [c EXCEPT !.skipped = TRUE] \in Cache
       /\ MarkUploaded(c) \in Cache
       /\ \A f \in Files : AddProgress(c, f) \in Cache
BY DEF NewCache, Cache, MarkUploaded, AddProgress

\* The operations on the files keep their type.
LEMMA DiskOperations ==
  ASSUME DiskType, NEW g \in Goroutines, NEW r \in Records, NEW c \in Cache
  PROVE  /\ BeginUpdate(g, r) => DiskType'
         /\ EndUpdate(g, r, c) => DiskType'
         /\ UpdateFails(g, r) => DiskType'
         /\ DeleteDir(r) => DiskType'
<1> USE CacheFields DEF DiskType
<1>1. BeginUpdate(g, r) => DiskType'
  BY DEF BeginUpdate
<1>2. EndUpdate(g, r, c) => DiskType'
  BY DEF EndUpdate, Unlock
<1>3. UpdateFails(g, r) => DiskType'
  BY DEF UpdateFails, Unlock
<1>4. DeleteDir(r) => DiskType'
  BY DEF DeleteDir
<1> QED
  BY <1>1, <1>2, <1>3, <1>4

\* A buffer with room takes one more record, and one that is not empty loses one.
LEMMA BufferAppend ==
  ASSUME NEW s \in Seq(Records), NEW r \in Records, NEW cap \in Nat
  PROVE  /\ Append(s, r) \in Seq(Records)
         /\ Len(s) < cap => Len(Append(s, r)) <= cap
BY AppendProperties, LenProperties

LEMMA BufferTail ==
  ASSUME NEW s \in Seq(Records), s # <<>>, NEW cap \in Nat, Len(s) <= cap
  PROVE  Head(s) \in Records /\ Tail(s) \in Seq(Records) /\ Len(Tail(s)) <= cap
BY HeadTailProperties, LenProperties

LEMMA TypeInit == Init => TypeInv
<1> SUFFICES ASSUME Init PROVE TypeInv
  OBVIOUS
<1> USE DEF Init
<1>0. NewCache \in Cache
  BY CacheFields
<1>1. DiskType
  BY <1>0 DEF DiskType
<1>2. HandoffType
  <2>1. /\ chan \in Seq(Records) /\ Len(chan) = 0
        /\ queue \in Seq(Records) /\ Len(queue) = 0
    BY EmptySeq
  <2>2. reg \subseteq Records /\ trigger \in BOOLEAN
    OBVIOUS
  <2> QED
    BY <2>1, <2>2, CapAssumption, LenProperties DEF HandoffType
<1>3. CollectorType
  BY <1>0 DEF CollectorType
<1>4. ReceiverType /\ WorkerType /\ CancellerType
  BY DEF ReceiverType, WorkerType, CancellerType
<1>5. CloudType
  BY DEF CloudType, TaskStates
<1>6. EnvType
  BY CapAssumption DEF EnvType
<1> QED
  BY <1>1, <1>2, <1>3, <1>4, <1>5, <1>6 DEF TypeInv

\* Every step of the collector keeps the types.
LEMMA TypeCollector == TypeInv /\ Collector => TypeInv'
<1> SUFFICES ASSUME TypeInv, Collector PROVE TypeInv'
  OBVIOUS
<1> USE TypeUnchanged DEF TypeInv
<1>1. CASE CollectStart
  <2>1. HandoffType'
    BY <1>1 DEF HandoffType, CollectStart
  <2>2. CollectorType'
    BY <1>1 DEF CollectorType, CollectStart, DiskType
  <2> QED
    BY <1>1, <2>1, <2>2 DEF CollectStart
<1>2. CASE CollectEnd
  <2>1. CollectorType'
    BY <1>2 DEF CollectorType, CollectEnd
  <2> QED
    BY <1>2, <2>1 DEF CollectEnd
<1>3. CASE CollectLoad
  <2>1. CollectorType'
    BY <1>3, CacheFields DEF CollectorType, CollectLoad, First, NextRecord, DiskType, Load,
       Missing
  <2> QED
    BY <1>3, <2>1 DEF CollectLoad, Load, Missing
<1>4. CASE CollectExpire
  <2>1. DiskType'
    BY <1>4 DEF DiskType, CollectExpire, DeleteDir, disk, CollectorType
  <2>2. CollectorType'
    BY <1>4, CacheFields DEF CollectorType, CollectExpire, NextRecord, CollectorGoto
  <2> QED
    BY <1>4, <2>1, <2>2 DEF CollectExpire
<1>5. CASE CollectAcquire
  <2>1. HandoffType'
    BY <1>5 DEF HandoffType, CollectAcquire, TryAcquire, CollectorType
  <2>2. CollectorType'
    BY <1>5, CacheFields DEF CollectorType, CollectAcquire, NextRecord, CollectorGoto
  <2> QED
    BY <1>5, <2>1, <2>2 DEF CollectAcquire
<1>6. CASE CollectCreate
  <2>1. CollectorType'
    BY <1>6 DEF CollectorType, CollectCreate, CollectorGoto
  <2>2. CloudType'
    BY <1>6 DEF CloudType, CollectCreate, CollectorType
  <2> QED
    BY <1>6, <2>1, <2>2 DEF CollectCreate
<1>7. CASE CollectCreateFails
  <2>1. HandoffType'
    BY <1>7 DEF HandoffType, CollectCreateFails, Release
  <2>2. CollectorType'
    BY <1>7, CacheFields DEF CollectorType, CollectCreateFails, NextRecord
  <2>3. CloudType'
    BY <1>7 DEF CloudType, CollectCreateFails, CollectorType
  <2>4. EnvType'
    BY <1>7, CapAssumption DEF EnvType, CollectCreateFails, env
  <2> QED
    BY <1>7, <2>1, <2>2, <2>3, <2>4 DEF CollectCreateFails
<1>8. CASE CollectNameBegin
  <2>1. DiskType'
    BY <1>8, DiskOperations DEF DiskType, CollectNameBegin, LoadFails, Missing, disk,
       CollectorType, Goroutines, BeginUpdate
  <2>2. CollectorType'
    BY <1>8, CacheFields DEF CollectorType, CollectNameBegin, CollectorNamed, CollectorGoto
  <2> QED
    BY <1>8, <2>1, <2>2 DEF CollectNameBegin
<1>9. CASE CollectNameWrite
  <2>1. DiskType'
    BY <1>9, CacheFields, DiskOperations DEF DiskType, CollectNameWrite, Goroutines,
       CollectorType
  <2>2. CollectorType'
    BY <1>9, CacheFields DEF CollectorType, CollectNameWrite, CollectorNamed
  <2>3. EnvType'
    BY <1>9, CapAssumption DEF EnvType, CollectNameWrite, UpdateFails, env
  <2> QED
    BY <1>9, <2>1, <2>2, <2>3 DEF CollectNameWrite
<1>10. CASE CollectSend
  <2>1. HandoffType'
    BY <1>10, BufferAppend, CapAssumption DEF HandoffType, CollectSend, Release,
       CollectorType
  <2>2. CollectorType'
    BY <1>10, CacheFields DEF CollectorType, CollectSend, NextRecord
  <2> QED
    BY <1>10, <2>1, <2>2 DEF CollectSend
<1> QED
  BY <1>1, <1>2, <1>3, <1>4, <1>5, <1>6, <1>7, <1>8, <1>9, <1>10 DEF Collector

\* Every step of the receiver keeps the types.
LEMMA TypeReceiver == TypeInv /\ Receiver => TypeInv'
<1> SUFFICES ASSUME TypeInv, Receiver PROVE TypeInv'
  OBVIOUS
<1> USE TypeUnchanged DEF TypeInv
<1>1. CASE ReceiverTake
  <2>1. HandoffType'
    BY <1>1, BufferTail, CapAssumption DEF HandoffType, ReceiverTake
  <2>2. ReceiverType'
    BY <1>1, BufferTail, CapAssumption DEF ReceiverType, ReceiverTake, HandoffType
  <2> QED
    BY <1>1, <2>1, <2>2 DEF ReceiverTake
<1>2. CASE ReceiverCheck
  <2>1. HandoffType'
    BY <1>2 DEF HandoffType, ReceiverCheck, Release
  <2>2. ReceiverType'
    BY <1>2 DEF ReceiverType, ReceiverCheck, ReceiverDone
  <2> QED
    BY <1>2, <2>1, <2>2 DEF ReceiverCheck
<1>3. CASE ReceiverPush
  <2>1. HandoffType'
    <3>1. CASE PushRefused(rrec)
      BY <1>3, <3>1 DEF HandoffType, ReceiverPush, Release
    <3>2. CASE ~PushRefused(rrec)
      <4>1. Len(queue) < QueueCap /\ rrec \in Records
        BY <1>3, <3>2, CapAssumption, LenProperties
        DEF ReceiverPush, PushRefused, IsFull, HandoffType, ReceiverType
      <4>2. queue' = Append(queue, rrec) /\ UNCHANGED <<reg, chan, trigger>>
        BY <1>3, <3>2 DEF ReceiverPush
      <4> QED
        BY <4>1, <4>2, BufferAppend, CapAssumption DEF HandoffType
    <3> QED
      BY <3>1, <3>2
  <2>2. ReceiverType'
    BY <1>3 DEF ReceiverType, ReceiverPush, ReceiverDone
  <2> QED
    BY <1>3, <2>1, <2>2 DEF ReceiverPush
<1> QED
  BY <1>1, <1>2, <1>3 DEF Receiver

\* Every step of the worker keeps the types.
LEMMA TypeWorker == TypeInv /\ Worker => TypeInv'
<1> SUFFICES ASSUME TypeInv, Worker PROVE TypeInv'
  OBVIOUS
<1> USE TypeUnchanged DEF TypeInv
<1>1. CASE WorkerPop
  <2>1. HandoffType'
    BY <1>1, BufferTail, CapAssumption DEF HandoffType, WorkerPop
  <2>2. WorkerType'
    BY <1>1, BufferTail, CapAssumption DEF WorkerType, WorkerPop, HandoffType
  <2> QED
    BY <1>1, <2>1, <2>2 DEF WorkerPop
<1>2. CASE WorkerLoad
  <2>1. HandoffType'
    BY <1>2 DEF HandoffType, WorkerLoad, WorkerReturns, WorkerGoto, Release
  <2>2. WorkerType'
    BY <1>2 DEF WorkerType, WorkerLoad, WorkerReturns, WorkerGoto
  <2> QED
    BY <1>2, <2>1, <2>2 DEF WorkerLoad, Missing, Load
<1>3. CASE WorkerDeclines
  <2>1. HandoffType'
    BY <1>3 DEF HandoffType, WorkerDeclines, WorkerReturns, WorkerGoto, Release
  <2>2. WorkerType'
    BY <1>3 DEF WorkerType, WorkerDeclines, WorkerReturns, WorkerGoto
  <2> QED
    BY <1>3, <2>1, <2>2 DEF WorkerDeclines
<1>4. CASE WorkerAccepts
  <2>1. HandoffType'
    BY <1>4 DEF HandoffType, WorkerAccepts, WorkerReturns, WorkerGoto, Release
  <2>2. WorkerType'
    BY <1>4 DEF WorkerType, WorkerAccepts, WorkerReturns, WorkerGoto
  <2> QED
    BY <1>4, <2>1, <2>2 DEF WorkerAccepts
<1>5. CASE WorkerAcceptsFile
  <2>1. HandoffType'
    BY <1>5 DEF HandoffType, WorkerAcceptsFile, WorkerReturns, WorkerGoto, Release
  <2>2. WorkerType'
    BY <1>5 DEF WorkerType, WorkerAcceptsFile, WorkerReturns, WorkerGoto
  <2> QED
    BY <1>5, <2>1, <2>2 DEF WorkerAcceptsFile
<1>6. CASE WorkerStart
  <2>1. HandoffType'
    BY <1>6 DEF HandoffType, WorkerStart, WorkerReturns, WorkerGoto, Release
  <2>2. WorkerType'
    BY <1>6 DEF WorkerType, WorkerStart, WorkerReturns, WorkerGoto
  <2> QED
    BY <1>6, <2>1, <2>2 DEF WorkerStart, LoadFails, Missing, Load
<1>7. CASE WorkerNextFile
  <2>1. HandoffType'
    BY <1>7 DEF HandoffType, WorkerNextFile, WorkerReturns, WorkerGoto, Release
  <2>2. WorkerType'
    BY <1>7 DEF WorkerType, WorkerNextFile, WorkerReturns, WorkerGoto
  <2> QED
    BY <1>7, <2>1, <2>2 DEF WorkerNextFile, LoadFails, Missing, Load
<1>8. CASE WorkerPut
  <2>1. HandoffType'
    BY <1>8 DEF HandoffType, WorkerPut, WorkerReturns, WorkerGoto, Release
  <2>2. WorkerType'
    BY <1>8 DEF WorkerType, WorkerPut, WorkerReturns, WorkerGoto
  <2>3. CloudType'
    BY <1>8 DEF CloudType, WorkerPut, WorkerType
  <2>4. EnvType'
    BY <1>8 DEF EnvType, WorkerPut
  <2> QED
    BY <1>8, <2>1, <2>2, <2>3, <2>4 DEF WorkerPut
<1>9. CASE WorkerPutFails
  <2>1. HandoffType'
    BY <1>9 DEF HandoffType, WorkerPutFails, WorkerReturns, WorkerGoto, Release
  <2>2. WorkerType'
    BY <1>9 DEF WorkerType, WorkerPutFails, WorkerReturns, WorkerGoto
  <2> QED
    BY <1>9, <2>1, <2>2 DEF WorkerPutFails
<1>10. CASE WorkerProgressBegin
  <2>1. DiskType'
    BY <1>10, DiskOperations DEF DiskType, WorkerProgressBegin, LoadFails, Missing, disk,
       WorkerType, Goroutines, BeginUpdate
  <2>2. HandoffType'
    BY <1>10 DEF HandoffType, WorkerProgressBegin, WorkerReturns, WorkerGoto, Release
  <2>3. WorkerType'
    BY <1>10 DEF WorkerType, WorkerProgressBegin, WorkerReturns, WorkerGoto
  <2> QED
    BY <1>10, <2>1, <2>2, <2>3 DEF WorkerProgressBegin
<1>11. CASE WorkerProgressWrite
  <2>1. DiskType'
    BY <1>11, CacheFields, DiskOperations DEF DiskType, WorkerProgressWrite, Goroutines,
       WorkerType
  <2>2. HandoffType'
    BY <1>11 DEF HandoffType, WorkerProgressWrite, WorkerReturns, WorkerGoto, Release
  <2>3. WorkerType'
    BY <1>11 DEF WorkerType, WorkerProgressWrite, WorkerReturns, WorkerGoto
  <2>4. EnvType'
    BY <1>11, CapAssumption DEF EnvType, WorkerProgressWrite, UpdateFails, env
  <2> QED
    BY <1>11, <2>1, <2>2, <2>3, <2>4 DEF WorkerProgressWrite
<1>12. CASE WorkerAllTried
  <2>1. HandoffType'
    BY <1>12 DEF HandoffType, WorkerAllTried, WorkerReturns, WorkerGoto, Release
  <2>2. WorkerType'
    BY <1>12 DEF WorkerType, WorkerAllTried, WorkerReturns, WorkerGoto
  <2> QED
    BY <1>12, <2>1, <2>2 DEF WorkerAllTried, LoadFails, Missing, Load
<1>13. CASE WorkerLabel
  <2>1. HandoffType'
    BY <1>13 DEF HandoffType, WorkerLabel, WorkerReturns, WorkerGoto, Release
  <2>2. WorkerType'
    BY <1>13 DEF WorkerType, WorkerLabel, WorkerReturns, WorkerGoto
  <2> QED
    BY <1>13, <2>1, <2>2 DEF WorkerLabel
<1>14. CASE WorkerLabelFails
  <2>1. HandoffType'
    BY <1>14 DEF HandoffType, WorkerLabelFails, WorkerReturns, WorkerGoto, Release
  <2>2. WorkerType'
    BY <1>14 DEF WorkerType, WorkerLabelFails, WorkerReturns, WorkerGoto
  <2> QED
    BY <1>14, <2>1, <2>2 DEF WorkerLabelFails
<1>15. CASE WorkerReport
  <2>1. HandoffType'
    BY <1>15 DEF HandoffType, WorkerReport, WorkerReturns, WorkerGoto, Release
  <2>2. WorkerType'
    BY <1>15 DEF WorkerType, WorkerReport, WorkerReturns, WorkerGoto
  <2>3. CloudType'
    BY <1>15 DEF CloudType, WorkerReport, WorkerType, TaskStates
  <2> QED
    BY <1>15, <2>1, <2>2, <2>3 DEF WorkerReport
<1>16. CASE WorkerFinishBegin
  <2>1. DiskType'
    BY <1>16, DiskOperations DEF DiskType, WorkerFinishBegin, LoadFails, Missing, disk,
       WorkerType, Goroutines, BeginUpdate
  <2>2. HandoffType'
    BY <1>16 DEF HandoffType, WorkerFinishBegin, WorkerReturns, WorkerGoto, Release
  <2>3. WorkerType'
    BY <1>16 DEF WorkerType, WorkerFinishBegin, WorkerReturns, WorkerGoto
  <2> QED
    BY <1>16, <2>1, <2>2, <2>3 DEF WorkerFinishBegin
<1>17. CASE WorkerFinishWrite
  <2>1. DiskType'
    BY <1>17, CacheFields, DiskOperations DEF DiskType, WorkerFinishWrite, Goroutines,
       WorkerType
  <2>2. HandoffType'
    BY <1>17 DEF HandoffType, WorkerFinishWrite, WorkerReturns, WorkerGoto, Release
  <2>3. WorkerType'
    BY <1>17 DEF WorkerType, WorkerFinishWrite, WorkerReturns, WorkerGoto
  <2>4. EnvType'
    BY <1>17, CapAssumption DEF EnvType, WorkerFinishWrite, UpdateFails, env
  <2> QED
    BY <1>17, <2>1, <2>2, <2>3, <2>4 DEF WorkerFinishWrite
<1>18. CASE WorkerClean
  <2>1. DiskType'
    BY <1>18, DiskOperations DEF DiskType, WorkerClean, disk, WorkerType, Goroutines,
       DeleteDir
  <2>2. HandoffType'
    BY <1>18 DEF HandoffType, WorkerClean, WorkerReturns, WorkerGoto, Release
  <2>3. WorkerType'
    BY <1>18 DEF WorkerType, WorkerClean, WorkerReturns, WorkerGoto
  <2> QED
    BY <1>18, <2>1, <2>2, <2>3 DEF WorkerClean
<1> QED
  BY <1>1, <1>2, <1>3, <1>4, <1>5, <1>6, <1>7, <1>8, <1>9, <1>10, <1>11, <1>12, <1>13,
     <1>14, <1>15, <1>16, <1>17, <1>18 DEF Worker

\* Every step of the task handler, but for accepting a task, keeps the types.
LEMMA TypeCanceller == TypeInv /\ Canceller => TypeInv'
<1> SUFFICES ASSUME TypeInv, Canceller PROVE TypeInv'
  OBVIOUS
<1> USE TypeUnchanged DEF TypeInv
<1>1. CASE CancelStart
  <2>1. CancellerType'
    BY <1>1 DEF CancellerType, CancelStart, DiskType
  <2> QED
    BY <1>1, <2>1 DEF CancelStart
<1>2. CASE CancelLoad
  <2>1. CancellerType'
    BY <1>2 DEF CancellerType, CancelLoad, CancelNext, First, Load, Missing, DiskType
  <2> QED
    BY <1>2, <2>1 DEF CancelLoad, Load, Missing
<1>3. CASE CancelSkipBegin
  <2>1. DiskType'
    BY <1>3, DiskOperations DEF DiskType, CancelSkipBegin, LoadFails, Missing, disk,
       CancellerType, Goroutines, BeginUpdate
  <2>2. CancellerType'
    BY <1>3 DEF CancellerType, CancelSkipBegin, CancelNext
  <2> QED
    BY <1>3, <2>1, <2>2 DEF CancelSkipBegin
<1>4. CASE CancelSkipWrite
  <2>1. DiskType'
    BY <1>4, CacheFields, DiskOperations DEF DiskType, CancelSkipWrite, Goroutines,
       CancellerType
  <2>2. CancellerType'
    BY <1>4 DEF CancellerType, CancelSkipWrite, CancelNext
  <2>3. EnvType'
    BY <1>4, CapAssumption DEF EnvType, CancelSkipWrite, UpdateFails, env
  <2> QED
    BY <1>4, <2>1, <2>2, <2>3 DEF CancelSkipWrite
<1>5. CASE CancelScanned
  <2>1. CancellerType'
    BY <1>5 DEF CancellerType, CancelScanned
  <2> QED
    BY <1>5, <2>1 DEF CancelScanned
<1>6. CASE \E r \in Records : CancelReport(r)
  <2>1. CancellerType'
    BY <1>6 DEF CancellerType, CancelReport, CancelReported
  <2>2. CloudType'
    BY <1>6 DEF CloudType, CancelReport, CancelReported, TaskStates
  <2> QED
    BY <1>6, <2>1, <2>2 DEF CancelReport, CancelReported
<1>7. CASE \E r \in Records : CancelReportFails(r)
  <2>1. CancellerType'
    BY <1>7 DEF CancellerType, CancelReportFails, CancelReported
  <2>2. CloudType'
    BY <1>7 DEF CloudType, CancelReportFails, CancelReported
  <2> QED
    BY <1>7, <2>1, <2>2 DEF CancelReportFails, CancelReported
<1>8. CASE SaveRecord
  <2>1. DiskType'
    BY <1>8, CacheFields DEF DiskType, CancellerType, SaveRecord
  <2>2. HandoffType'
    BY <1>8 DEF HandoffType, SaveRecord
  <2>3. CancellerType'
    BY <1>8 DEF CancellerType, SaveRecord
  <2>4. EnvType'
    BY <1>8, CapAssumption DEF EnvType, SaveRecord
  <2> QED
    BY <1>8, <2>1, <2>2, <2>3, <2>4 DEF SaveRecord
<1> QED
  BY <1>1, <1>2, <1>3, <1>4, <1>5, <1>6, <1>7, <1>8 DEF Canceller

\* What the steps of the environment are: the ticker, new tasks, the user, the
\* clock, the file system and crashes.
Environment ==
  \/ Tick \/ Crash
  \/ \E r \in Records : AcceptTask(r) \/ UserCancels(r) \/ Expires(r)
  \/ \E r \in Records, f \in Files : FileVanishes(r, f)

\* Every step of the environment keeps the types.
LEMMA TypeEnvironment == TypeInv /\ Environment => TypeInv'
<1> SUFFICES ASSUME TypeInv, Environment PROVE TypeInv'
  OBVIOUS
<1> USE TypeUnchanged DEF TypeInv
<1>1. CASE Tick
  <2>1. HandoffType'
    BY <1>1 DEF HandoffType, Tick
  <2> QED
    BY <1>1, <2>1 DEF Tick
<1>2. CASE Crash
  <2>1. NewCache \in Cache
    BY CacheFields
  <2>2. DiskType'
    BY <1>2, <2>1 DEF DiskType, Crash
  <2>3. HandoffType'
    <3>1. /\ chan' \in Seq(Records) /\ Len(chan') = 0
          /\ queue' \in Seq(Records) /\ Len(queue') = 0
      BY <1>2, EmptySeq DEF Crash
    <3>2. reg' \subseteq Records /\ trigger' \in BOOLEAN
      BY <1>2 DEF Crash
    <3> QED
      BY <3>1, <3>2, CapAssumption, LenProperties DEF HandoffType
  <2>4. CollectorType' /\ ReceiverType'
    BY <1>2, <2>1 DEF CollectorType, ReceiverType, Crash
  <2>5. WorkerType' /\ CancellerType'
    BY <1>2 DEF WorkerType, CancellerType, Crash
  <2>6. EnvType'
    BY <1>2, CapAssumption DEF EnvType, Crash
  <2> QED
    BY <1>2, <2>2, <2>3, <2>4, <2>5, <2>6 DEF Crash
<1>3. ASSUME NEW r \in Records, AcceptTask(r) PROVE TypeInv'
  <2>1. CancellerType'
    BY <1>3 DEF CancellerType, AcceptTask
  <2>2. CloudType'
    BY <1>3 DEF CloudType, AcceptTask, TaskStates
  <2> QED
    BY <1>3, <2>1, <2>2 DEF AcceptTask
<1>4. ASSUME NEW r \in Records, UserCancels(r) PROVE TypeInv'
  <2>1. CloudType'
    BY <1>4 DEF CloudType, UserCancels, TaskStates
  <2> QED
    BY <1>4, <2>1 DEF UserCancels
<1>5. ASSUME NEW r \in Records, Expires(r) PROVE TypeInv'
  <2>1. EnvType'
    BY <1>5 DEF EnvType, Expires
  <2> QED
    BY <1>5, <2>1 DEF Expires
<1>6. ASSUME NEW r \in Records, NEW f \in Files, FileVanishes(r, f) PROVE TypeInv'
  <2>1. EnvType'
    BY <1>6 DEF EnvType, FileVanishes
  <2> QED
    BY <1>6, <2>1 DEF FileVanishes
<1> QED
  BY <1>1, <1>2, <1>3, <1>4, <1>5, <1>6 DEF Environment

LEMMA TypeInductive == Spec => []TypeInv
<1>1. TypeInv /\ [Next]_vars => TypeInv'
  <2> SUFFICES ASSUME TypeInv, [Next]_vars PROVE TypeInv'
    OBVIOUS
  <2>1. CASE Next
    BY <2>1, TypeCollector, TypeReceiver, TypeWorker, TypeCanceller, TypeEnvironment
    DEF Next, Environment
  <2>2. CASE UNCHANGED vars
    BY <2>2, TypeUnchanged DEF vars, TypeInv
  <2> QED
    BY <2>1, <2>2
<1> QED
  BY <1>1, TypeInit, PTL DEF Spec

\* Every variable keeps its type, and uploadChan and the DedupQueue never exceed
\* their capacities, whatever these are.
THEOREM TypeCorrect == Spec => []TypeOK
BY TypeInductive, TypeInvImpliesTypeOK, PTL

-----------------------------------------------------------------------------
(***************************************************************************)
(* The record cache files.  A goroutine inside UpdateRecordCache holds the *)
(* lock of the record, the file is as it was loaded, and is there unless   *)
(* the record expired.  The file of a record that is not saved yet is      *)
(* nobody's, so that the task handler needs no lock to write it.           *)
(***************************************************************************)

Updating(g) ==
  IF g = "collector" /\ cpc = "nameWrite" THEN {crec}
  ELSE IF g = "worker" /\ wpc \in {"progressWrite", "finishWrite"} THEN {wrec}
  ELSE IF g = "canceller" /\ kpc = "skipWrite" THEN {krec}
  ELSE {}

Unsaved == {r \in Records : task[r] = "none"} \cup (IF kpc = "save" THEN {krec} ELSE {})

UpdateInv ==
  /\ \A g \in Goroutines : \A r \in Updating(g) :
       lock[r] = g /\ cache[r] = loaded[g] /\ r \in present \cup expired
  /\ \A r \in Unsaved : r \notin present /\ cache[r] = NewCache /\ lock[r] = "free"
  /\ kpc = "save" => task[krec] \notin {"none", "CANCELLED"}
  /\ cpc = "expire" => crec \in expired

\* What an update may make of a record cache.
Revised(c) ==
  {[c EXCEPT !.named = TRUE], [c EXCEPT !.skipped = TRUE], MarkUploaded(c)}
    \cup {AddProgress(c, f) : f \in Files}

\* What a step does to the files: nothing, but perhaps a deletion ...
FilesKept ==
  /\ UNCHANGED <<cache, lock, loaded>> /\ present' \subseteq present
  /\ \A r \in present \ present' : r \in expired \/ lock[r] = "free"
  /\ \A h \in Goroutines : Updating(h)' = Updating(h)

\* ... the first half of an update, the second half, or an update that fails ...
Begun(g, r) ==
  /\ BeginUpdate(g, r) /\ Updating(g)' = {r}
  /\ \A h \in Goroutines \ {g} : Updating(h)' = Updating(h)

Written(g, r, c) ==
  /\ EndUpdate(g, r, c) /\ c \in Revised(loaded[g])
  /\ Updating(g) = {r} /\ Updating(g)' = {}
  /\ \A h \in Goroutines \ {g} : Updating(h)' = Updating(h)

Abandoned(g, r) ==
  /\ Unlock(g, r) /\ UNCHANGED <<present, cache>>
  /\ Updating(g) = {r} /\ Updating(g)' = {}
  /\ \A h \in Goroutines \ {g} : Updating(h)' = Updating(h)

\* ... a record that is saved for the first time, or a restart.
Saved ==
  /\ kpc = "save" /\ krec \notin Unsaved'
  /\ present' = present \cup {krec} /\ cache' = [cache EXCEPT ![krec] = NewCache]
  /\ UNCHANGED <<lock, loaded>> /\ \A h \in Goroutines : Updating(h)' = Updating(h)

LocksFreed ==
  /\ UNCHANGED <<present, cache>> /\ lock' = [r \in Records |-> "free"]
  /\ \A h \in Goroutines : Updating(h)' = {}

FileMove ==
  \/ FilesKept \/ Saved \/ LocksFreed
  \/ \E g \in Goroutines, r \in Records :
       \/ Begun(g, r) \/ Abandoned(g, r)
       \/ \E c \in Cache : Written(g, r, c)

\* What a goroutine updates depends on its own variables.
LEMMA UpdatingUnchanged ==
  /\ Updating("collector") = IF cpc = "nameWrite" THEN {crec} ELSE {}
  /\ Updating("worker") = IF wpc \in {"progressWrite", "finishWrite"} THEN {wrec} ELSE {}
  /\ Updating("canceller") = IF kpc = "skipWrite" THEN {krec} ELSE {}
  /\ Updating("collector")' = IF cpc' = "nameWrite" THEN {crec'} ELSE {}
  /\ Updating("worker")' = IF wpc' \in {"progressWrite", "finishWrite"} THEN {wrec'} ELSE {}
  /\ Updating("canceller")' = IF kpc' = "skipWrite" THEN {krec'} ELSE {}
BY DEF Updating

\* The records that are not saved yet become fewer, the expired ones more.
Onwards ==
  /\ expired \subseteq expired' /\ Unsaved' \subseteq Unsaved
  /\ kpc' = "save" => task'[krec'] \notin {"none", "CANCELLED"}
  /\ cpc' = "expire" => crec' \in expired'

LEMMA StepIsOnwards == TypeInv /\ UpdateInv /\ [Next]_vars => Onwards
<1> SUFFICES ASSUME TypeInv, UpdateInv, [Next]_vars PROVE Onwards
  OBVIOUS
<1>0. /\ task \in [Records -> TaskStates]
      /\ kpc = "save" => task[krec] \notin {"none", "CANCELLED"}
      /\ cpc = "expire" => crec \in expired
  BY DEF TypeInv, CloudType, UpdateInv
<1>1. CASE Collector
  <2>1. UNCHANGED <<canceller, task, expired>>
    BY <1>1 DEF Collector, CollectStart, CollectEnd, CollectLoad, CollectExpire, CollectAcquire, CollectCreate,
       CollectCreateFails, CollectNameBegin, CollectNameWrite, CollectSend, cloud, env
  <2>2. cpc' = "expire" => crec' \in expired
    BY <1>0, <1>1 DEF Collector, CollectStart, CollectEnd, CollectLoad, CollectExpire, CollectAcquire, CollectCreate,
       CollectCreateFails, CollectNameBegin, CollectNameWrite, CollectSend, NextRecord, CollectorGoto, CollectorNamed
  <2> QED  BY <1>0, <2>1, <2>2 DEF Onwards, canceller, Unsaved
<1>2. CASE Receiver \/ Tick \/ UNCHANGED vars
  <2>1. UNCHANGED <<canceller, collector, task, expired>>
    BY <1>2 DEF Receiver, ReceiverTake, ReceiverCheck, ReceiverPush, Tick, vars, cloud, env
  <2> QED  BY <1>0, <2>1 DEF Onwards, canceller, collector, Unsaved
<1>3. CASE Worker
  <2>1. UNCHANGED <<canceller, collector, expired>>
        /\ task' \in {task, [task EXCEPT ![wrec] = "SUCCEEDED"]}
    BY <1>3 DEF Worker, WorkerPop, WorkerLoad, WorkerDeclines, WorkerAccepts, WorkerAcceptsFile, WorkerStart,
       WorkerNextFile, WorkerPut, WorkerPutFails, WorkerProgressBegin, WorkerProgressWrite, WorkerAllTried,
       WorkerLabel, WorkerLabelFails, WorkerReport, WorkerFinishBegin, WorkerFinishWrite, WorkerClean, cloud, env
  <2>2. \A r \in Records : task'[r] \in {task[r], "SUCCEEDED"}
    BY <1>0, <2>1
  <2>3. kpc = "save" => krec \in Records
    BY DEF TypeInv, CancellerType
  <2> QED  BY <1>0, <2>1, <2>2, <2>3 DEF Onwards, canceller, collector, Unsaved
<1>4. CASE Canceller
  <2>1. UNCHANGED <<collector, expired>> /\ kpc' # "save"
    BY <1>4 DEF Canceller, SaveRecord, CancelStart, CancelLoad, CancelSkipBegin, CancelSkipWrite, CancelScanned,
       CancelReport, CancelReportFails, CancelReported, CancelNext, cloud, env
  <2>2. \A r \in Records : task'[r] \in {task[r], "CANCELLED"}
    BY <1>0, <1>4 DEF Canceller, SaveRecord, CancelStart, CancelLoad, CancelSkipBegin, CancelSkipWrite,
       CancelScanned, CancelReport, CancelReportFails, CancelReported, cloud
  <2> QED  BY <1>0, <2>1, <2>2 DEF Onwards, collector, Unsaved
<1>5. CASE Crash
  BY <1>5 DEF Crash, Onwards, Unsaved, cloud
<1>6. ASSUME NEW r \in Records, AcceptTask(r) PROVE Onwards
  <2>1. /\ UNCHANGED <<collector, expired>> /\ kpc = "idle" /\ task[r] = "none" /\ kpc' = "save" /\ krec' = r
        /\ task' = [task EXCEPT ![r] = "PROCESSING"]
    BY <1>6 DEF AcceptTask, env
  <2>2. task'[r] = "PROCESSING" /\ \A s \in Records : s # r => task'[s] = task[s]
    BY <1>0, <2>1
  <2> QED  BY <1>0, <2>1, <2>2 DEF Onwards, collector, Unsaved
<1>7. ASSUME NEW r \in Records, UserCancels(r) PROVE Onwards
  <2>1. UNCHANGED <<collector, canceller, expired>> /\ task' = [task EXCEPT ![r] = "CANCELLING"]
    BY <1>7 DEF UserCancels, env
  <2>2. task'[r] = "CANCELLING" /\ \A s \in Records : s # r => task'[s] = task[s]
    BY <1>0, <2>1
  <2>3. kpc = "save" => krec \in Records
    BY DEF TypeInv, CancellerType
  <2> QED  BY <1>0, <2>1, <2>2, <2>3 DEF Onwards, collector, canceller, Unsaved
<1>8. ASSUME NEW r \in Records, Expires(r) \/ \E f \in Files : FileVanishes(r, f) PROVE Onwards
  <2>1. UNCHANGED <<collector, canceller, task>> /\ expired \subseteq expired'
    BY <1>8 DEF Expires, FileVanishes, cloud
  <2> QED  BY <1>0, <2>1 DEF Onwards, collector, canceller, Unsaved
<1> QED
  BY <1>1, <1>2, <1>3, <1>4, <1>5, <1>6, <1>7, <1>8 DEF Next

LEMMA CollectorFiles == TypeInv /\ UpdateInv /\ Collector => FileMove
<1> SUFFICES ASSUME TypeInv, UpdateInv, Collector PROVE FileMove
  OBVIOUS
<1>1. UNCHANGED <<worker, canceller>> /\ crec \in Records \cup {NoRecord}
  BY DEF Collector, CollectStart, CollectEnd, CollectLoad, CollectExpire, CollectAcquire, CollectCreate,
     CollectCreateFails, CollectNameBegin, CollectNameWrite, CollectSend, TypeInv, CollectorType
<1>2. Updating("worker")' = Updating("worker") /\ Updating("canceller")' = Updating("canceller")
  BY <1>1, UpdatingUnchanged DEF worker, canceller
<1>3. ASSUME UNCHANGED disk, cpc # "nameWrite", cpc' # "nameWrite" PROVE FileMove
  <2>1. Updating("collector")' = Updating("collector")
    BY <1>3, UpdatingUnchanged
  <2> QED  BY <1>2, <1>3, <2>1 DEF FileMove, FilesKept, disk, Goroutines
<1>4. CASE CollectStart \/ CollectEnd \/ CollectLoad \/ CollectAcquire \/ CollectCreate \/ CollectCreateFails
           \/ CollectSend
  <2>1. UNCHANGED disk /\ cpc # "nameWrite" /\ cpc' # "nameWrite"
    BY <1>4 DEF CollectStart, CollectEnd, CollectLoad, CollectAcquire, CollectCreate, CollectCreateFails,
       CollectSend, Load, Missing, NextRecord, CollectorGoto
  <2> QED  BY <1>3, <2>1
<1>5. CASE CollectExpire
  <2>1. cpc = "expire" /\ cpc' # "nameWrite" /\ (DeleteDir(crec) \/ UNCHANGED disk)
    BY <1>5 DEF CollectExpire, NextRecord, CollectorGoto
  <2>2. CASE UNCHANGED disk
    BY <1>3, <2>1, <2>2
  <2>3. CASE DeleteDir(crec)
    <3>1. Updating("collector")' = Updating("collector")
      BY <2>1, UpdatingUnchanged
    <3>2. crec \in expired
      BY <2>1 DEF UpdateInv
    <3> QED  BY <1>2, <2>3, <3>1, <3>2 DEF FileMove, FilesKept, DeleteDir, Goroutines
  <2> QED  BY <2>1, <2>2, <2>3
<1>6. CASE CollectNameBegin
  <2>1. CASE crec \in present
    <3>1. /\ BeginUpdate("collector", crec) /\ cpc' = "nameWrite" /\ crec' = crec /\ crec \in Records
      BY <1>6, <2>1 DEF CollectNameBegin, CollectorGoto, TypeInv, DiskType
    <3>2. Updating("collector")' = {crec}
      BY <3>1, UpdatingUnchanged
    <3>3. Begun("collector", crec)
      BY <1>2, <3>1, <3>2 DEF Begun, Goroutines
    <3> QED  BY <3>1, <3>3 DEF FileMove, Goroutines
  <2>2. CASE crec \notin present
    <3>1. UNCHANGED disk /\ cpc # "nameWrite" /\ cpc' # "nameWrite"
      BY <1>6, <2>2 DEF CollectNameBegin, LoadFails, Missing, CollectorNamed
    <3> QED  BY <1>3, <3>1
  <2> QED  BY <2>1, <2>2
<1>7. CASE CollectNameWrite
  <2> DEFINE c == [loaded["collector"] EXCEPT !.named = TRUE]
  <2>1. /\ cpc = "nameWrite" /\ cpc' = "send" /\ crec \in Records /\ loaded["collector"] \in Cache
    BY <1>7 DEF CollectNameWrite, CollectorNamed, TypeInv, CollectorType, DiskType, Goroutines
  <2>2. Updating("collector") = {crec} /\ Updating("collector")' = {}
    BY <2>1, UpdatingUnchanged
  <2>3. c \in Cache /\ c \in Revised(loaded["collector"])
    BY <2>1, CacheFields DEF Revised
  <2>4. EndUpdate("collector", crec, c) \/ UpdateFails("collector", crec)
    BY <1>7 DEF CollectNameWrite
  <2> HIDE DEF c
  <2>5. Written("collector", crec, c) \/ Abandoned("collector", crec)
    BY <1>2, <2>2, <2>3, <2>4 DEF Written, Abandoned, UpdateFails, Goroutines
  <2> QED  BY <2>1, <2>3, <2>5 DEF FileMove, Goroutines
<1> QED
  BY <1>4, <1>5, <1>6, <1>7 DEF Collector

LEMMA WorkerFiles == TypeInv /\ UpdateInv /\ Worker => FileMove
<1> SUFFICES ASSUME TypeInv, UpdateInv, Worker PROVE FileMove
  OBVIOUS
<1> DEFINE Inside == {"progressWrite", "finishWrite"}
<1>1. UNCHANGED <<collector, canceller>> /\ loaded["worker"] \in Cache /\ (wpc \in Inside => wrec \in Records)
  BY DEF Worker, WorkerPop, WorkerLoad, WorkerDeclines, WorkerAccepts, WorkerAcceptsFile, WorkerStart,
     WorkerNextFile, WorkerPut, WorkerPutFails, WorkerProgressBegin, WorkerProgressWrite, WorkerAllTried,
     WorkerLabel, WorkerLabelFails, WorkerReport, WorkerFinishBegin, WorkerFinishWrite, WorkerClean,
     TypeInv, WorkerType, DiskType, Goroutines
<1>2. Updating("collector")' = Updating("collector") /\ Updating("canceller")' = Updating("canceller")
  BY <1>1, UpdatingUnchanged DEF collector, canceller
<1>3. ASSUME UNCHANGED disk, wpc \notin Inside, wpc' \notin Inside PROVE FileMove
  <2>1. Updating("worker")' = Updating("worker")
    BY <1>3, UpdatingUnchanged
  <2> QED  BY <1>2, <1>3, <2>1 DEF FileMove, FilesKept, disk, Goroutines
<1>4. CASE \/ WorkerPop \/ WorkerLoad \/ WorkerDeclines \/ WorkerAccepts \/ WorkerAcceptsFile \/ WorkerStart
           \/ WorkerNextFile \/ WorkerPut \/ WorkerPutFails \/ WorkerAllTried \/ WorkerLabel
           \/ WorkerLabelFails \/ WorkerReport
  <2>1. UNCHANGED disk
    BY <1>4 DEF WorkerPop, WorkerLoad, WorkerDeclines, WorkerAccepts, WorkerAcceptsFile, WorkerStart,
       WorkerNextFile, WorkerPut, WorkerPutFails, WorkerAllTried, WorkerLabel, WorkerLabelFails, WorkerReport,
       Load, LoadFails, Missing
  <2>2. wpc \notin Inside /\ wpc' \notin Inside
    BY <1>4 DEF WorkerPop, WorkerLoad, WorkerDeclines, WorkerAccepts, WorkerAcceptsFile, WorkerStart,
       WorkerNextFile, WorkerPut, WorkerPutFails, WorkerAllTried, WorkerLabel, WorkerLabelFails, WorkerReport,
       WorkerReturns, WorkerGoto
  <2> QED  BY <1>3, <2>1, <2>2
<1>5. CASE WorkerProgressBegin \/ WorkerFinishBegin
  <2>1. CASE LoadFails(wrec) /\ WorkerReturns
    <3>1. UNCHANGED disk /\ wpc \notin Inside /\ wpc' \notin Inside
      BY <1>5, <2>1 DEF WorkerProgressBegin, WorkerFinishBegin, LoadFails, Missing, WorkerReturns
    <3> QED  BY <1>3, <3>1
  <2>2. CASE BeginUpdate("worker", wrec) /\ \E pc \in Inside : WorkerGoto(pc)
    <3>1. Updating("worker")' = {wrec} /\ wrec \in Records
      <4>1. wpc' \in Inside /\ wrec' = wrec
        BY <2>2 DEF WorkerGoto
      <4>2. wrec \in Records
        BY <2>2 DEF BeginUpdate, TypeInv, DiskType
      <4> QED  BY <4>1, <4>2, UpdatingUnchanged
    <3>2. Begun("worker", wrec)
      BY <1>2, <2>2, <3>1 DEF Begun, Goroutines
    <3> QED  BY <3>1, <3>2 DEF FileMove, Goroutines
  <2> QED  BY <1>5, <2>1, <2>2 DEF WorkerProgressBegin, WorkerFinishBegin
<1>6. CASE WorkerProgressWrite \/ WorkerFinishWrite
  <2>1. wpc \in Inside /\ wpc' \notin Inside
    BY <1>6 DEF WorkerProgressWrite, WorkerFinishWrite, WorkerReturns, WorkerGoto
  <2>2. Updating("worker") = {wrec} /\ Updating("worker")' = {}
    BY <2>1, UpdatingUnchanged
  <2>3. PICK c \in Cache \cap Revised(loaded["worker"]) :
          EndUpdate("worker", wrec, c) \/ UpdateFails("worker", wrec)
    <3>1. CASE WorkerProgressWrite
      <4>1. wfile \in Files
        BY <3>1 DEF WorkerProgressWrite, TypeInv, WorkerType
      <4>2. AddProgress(loaded["worker"], wfile) \in Cache \cap Revised(loaded["worker"])
        BY <1>1, <4>1, CacheFields DEF Revised
      <4> QED  BY <3>1, <4>2 DEF WorkerProgressWrite
    <3>2. CASE WorkerFinishWrite
      <4>1. MarkUploaded(loaded["worker"]) \in Cache \cap Revised(loaded["worker"])
        BY <1>1, CacheFields DEF Revised
      <4> QED  BY <3>2, <4>1 DEF WorkerFinishWrite
    <3> QED  BY <1>6, <3>1, <3>2
  <2>4. Written("worker", wrec, c) \/ Abandoned("worker", wrec)
    BY <1>2, <2>2, <2>3 DEF Written, Abandoned, UpdateFails, Goroutines
  <2> QED  BY <1>1, <2>1, <2>3, <2>4 DEF FileMove, Goroutines
<1>7. CASE WorkerClean
  <2>1. /\ wpc \notin Inside /\ wpc' \notin Inside /\ lock[wrec] = "free"
        /\ DeleteDir(wrec) \/ UNCHANGED disk
    BY <1>7 DEF WorkerClean, WorkerReturns, Unlocked
  <2>2. CASE UNCHANGED disk
    BY <1>3, <2>1, <2>2
  <2>3. CASE DeleteDir(wrec)
    <3>1. Updating("worker")' = Updating("worker")
      BY <2>1, UpdatingUnchanged
    <3> QED  BY <1>2, <2>1, <2>3, <3>1 DEF FileMove, FilesKept, DeleteDir, Goroutines
  <2> QED  BY <2>1, <2>2, <2>3
<1> QED
  BY <1>4, <1>5, <1>6, <1>7 DEF Worker

LEMMA CancellerFiles == TypeInv /\ UpdateInv /\ Canceller => FileMove
<1> SUFFICES ASSUME TypeInv, UpdateInv, Canceller PROVE FileMove
  OBVIOUS
<1>1. UNCHANGED <<collector, worker>> /\ loaded["canceller"] \in Cache
  BY DEF Canceller, SaveRecord, CancelStart, CancelLoad, CancelSkipBegin, CancelSkipWrite, CancelScanned,
     CancelReport, CancelReportFails, CancelReported, TypeInv, DiskType, Goroutines
<1>2. Updating("collector")' = Updating("collector") /\ Updating("worker")' = Updating("worker")
  BY <1>1, UpdatingUnchanged DEF collector, worker
<1>3. ASSUME UNCHANGED <<present, cache, lock, loaded>>, kpc # "skipWrite", kpc' # "skipWrite" PROVE FileMove
  <2>1. Updating("canceller")' = Updating("canceller")
    BY <1>3, UpdatingUnchanged
  <2> QED  BY <1>2, <1>3, <2>1 DEF FileMove, FilesKept, Goroutines
<1>4. CASE CancelStart \/ CancelLoad \/ CancelScanned \/ \E r \in Records : CancelReport(r) \/ CancelReportFails(r)
  <2>1. UNCHANGED disk /\ kpc # "skipWrite" /\ kpc' # "skipWrite"
    BY <1>4 DEF CancelStart, CancelLoad, CancelScanned, CancelReport, CancelReportFails, CancelReported, CancelNext,
       Load, Missing
  <2> QED  BY <1>3, <2>1 DEF disk
<1>5. CASE SaveRecord
  <2>1. kpc = "save" /\ kpc' = "idle" /\ krec' = NoRecord /\ UNCHANGED <<task, lock, loaded>>
    BY <1>5 DEF SaveRecord, cloud
  <2>2. CASE UNCHANGED <<present, cache>>
    BY <1>3, <2>1, <2>2
  <2>3. CASE present' = present \cup {krec} /\ cache' = [cache EXCEPT ![krec] = NewCache]
    <3>1. Updating("canceller")' = Updating("canceller")
      BY <2>1, UpdatingUnchanged
    <3>2. krec \notin Unsaved'
      BY <2>1 DEF Unsaved, UpdateInv
    <3> QED  BY <1>2, <2>1, <2>3, <3>1, <3>2 DEF FileMove, Saved, Goroutines
  <2> QED  BY <1>5, <2>2, <2>3 DEF SaveRecord
<1>6. CASE CancelSkipBegin
  <2>1. CASE LoadFails(krec) /\ CancelNext(krec)
    <3>1. UNCHANGED disk /\ kpc # "skipWrite" /\ kpc' # "skipWrite"
      BY <1>6, <2>1 DEF CancelSkipBegin, LoadFails, Missing, CancelNext
    <3> QED  BY <1>3, <3>1 DEF disk
  <2>2. CASE BeginUpdate("canceller", krec) /\ kpc' = "skipWrite" /\ krec' = krec
    <3>1. Updating("canceller")' = {krec} /\ krec \in Records
      BY <2>2, UpdatingUnchanged DEF BeginUpdate, TypeInv, DiskType
    <3>2. Begun("canceller", krec)
      BY <1>2, <2>2, <3>1 DEF Begun, Goroutines
    <3> QED  BY <3>1, <3>2 DEF FileMove, Goroutines
  <2> QED  BY <1>6, <2>1, <2>2 DEF CancelSkipBegin
<1>7. CASE CancelSkipWrite
  <2> DEFINE c == [loaded["canceller"] EXCEPT !.skipped = TRUE]
  <2>1. kpc = "skipWrite" /\ kpc' = "scan" /\ krec \in Records
    BY <1>7 DEF CancelSkipWrite, CancelNext, TypeInv, CancellerType
  <2>2. Updating("canceller") = {krec} /\ Updating("canceller")' = {}
    BY <2>1, UpdatingUnchanged
  <2>3. c \in Cache /\ c \in Revised(loaded["canceller"])
    BY <1>1, CacheFields DEF Revised
  <2>4. EndUpdate("canceller", krec, c) \/ UpdateFails("canceller", krec)
    BY <1>7 DEF CancelSkipWrite
  <2> HIDE DEF c
  <2>5. Written("canceller", krec, c) \/ Abandoned("canceller", krec)
    BY <1>2, <2>2, <2>3, <2>4 DEF Written, Abandoned, UpdateFails, Goroutines
  <2> QED  BY <2>1, <2>3, <2>5 DEF FileMove, Goroutines
<1> QED
  BY <1>4, <1>5, <1>6, <1>7 DEF Canceller

LEMMA StepIsFileMove == TypeInv /\ UpdateInv /\ [Next]_vars => FileMove
<1> SUFFICES ASSUME TypeInv, UpdateInv, [Next]_vars PROVE FileMove
  OBVIOUS
<1>1. ASSUME UNCHANGED <<disk, collector, worker>>, UNCHANGED canceller \/ (kpc # "skipWrite" /\ kpc' # "skipWrite")
      PROVE  FileMove
  <2>1. \A h \in Goroutines : Updating(h)' = Updating(h)
    BY <1>1, UpdatingUnchanged DEF Goroutines, collector, worker, canceller
  <2> QED  BY <1>1, <2>1 DEF FileMove, FilesKept, disk
<1>2. CASE Receiver \/ Tick \/ UNCHANGED vars
  BY <1>1, <1>2 DEF Receiver, ReceiverTake, ReceiverCheck, ReceiverPush, Tick, vars
<1>3. CASE \/ \E r \in Records : AcceptTask(r) \/ UserCancels(r) \/ Expires(r)
           \/ \E r \in Records, f \in Files : FileVanishes(r, f)
  BY <1>1, <1>3 DEF AcceptTask, UserCancels, Expires, FileVanishes
<1>4. CASE Crash
  <2>1. \A h \in Goroutines : Updating(h)' = {}
    BY <1>4, UpdatingUnchanged DEF Crash, Goroutines
  <2> QED  BY <1>4, <2>1 DEF Crash, FileMove, LocksFreed
<1> QED
  BY <1>2, <1>3, <1>4, CollectorFiles, WorkerFiles, CancellerFiles DEF Next


LEMMA UpdateInit == Init => UpdateInv
<1> SUFFICES ASSUME Init PROVE UpdateInv
  OBVIOUS
<1>1. \A g \in Goroutines : Updating(g) = {}
  BY DEF Init, Updating, Goroutines
<1>2. Unsaved = Records /\ present = {}
  BY DEF Init, Unsaved
<1> QED  BY <1>1, <1>2 DEF UpdateInv, Init

LEMMA UpdateNext == TypeInv /\ UpdateInv /\ [Next]_vars => UpdateInv'
<1> SUFFICES ASSUME TypeInv, UpdateInv, [Next]_vars PROVE UpdateInv'
  OBVIOUS
<1> DEFINE Held(g, r) == lock[r] = g /\ cache[r] = loaded[g] /\ r \in present \cup expired
           Fresh(r) == r \notin present /\ cache[r] = NewCache /\ lock[r] = "free"
<1>1. Onwards /\ FileMove
  BY StepIsOnwards, StepIsFileMove
<1>2. /\ \A g \in Goroutines : \A r \in Updating(g) : Held(g, r)
      /\ \A r \in Unsaved : Fresh(r)
      /\ expired \subseteq expired' /\ Unsaved' \subseteq Unsaved
  BY <1>1 DEF UpdateInv, Onwards
<1>3. /\ lock \in [Records -> Goroutines \cup {"free"}] /\ loaded \in [Goroutines -> Cache]
      /\ cache \in [Records -> Cache]
      /\ "free" \notin Goroutines /\ Unsaved \subseteq Records
      /\ \A g \in Goroutines : Updating(g) \subseteq Records
  BY DEF TypeInv, DiskType, CollectorType, WorkerType, CancellerType, Goroutines, Unsaved, Updating
<1> DEFINE Kept == /\ \A g \in Goroutines : \A r \in Updating(g)' : Held(g, r)'
                   /\ \A r \in Unsaved' : Fresh(r)'
<1>4. SUFFICES Kept
  BY <1>1 DEF UpdateInv, Onwards
<1>5. CASE FilesKept
  BY <1>2, <1>3, <1>5 DEF FilesKept
<1>6. CASE Saved
  <2>1. /\ krec \in Unsaved \ Unsaved' /\ Fresh(krec)
        /\ present' = present \cup {krec} /\ cache' = [cache EXCEPT ![krec] = NewCache]
        /\ UNCHANGED <<lock, loaded>> /\ \A h \in Goroutines : Updating(h)' = Updating(h)
    BY <1>2, <1>6 DEF Saved, Unsaved
  <2>2. cache' = cache
    BY <2>1, <1>3
  <2> QED  BY <1>2, <1>3, <2>1, <2>2
<1>7. CASE LocksFreed
  <2>1. \A g \in Goroutines : Updating(g)' = {}
    BY <1>7 DEF LocksFreed
  <2>2. \A r \in Unsaved' : Fresh(r)'
    BY <1>2, <1>3, <1>7 DEF LocksFreed
  <2> QED  BY <2>1, <2>2
<1>8. ASSUME NEW g \in Goroutines, NEW r \in Records, Begun(g, r) PROVE Kept
  <2>1. /\ lock[r] = "free" /\ r \in present /\ UNCHANGED <<present, cache>> /\ Updating(g)' = {r}
        /\ lock'[r] = g /\ loaded'[g] = cache[r]
        /\ \A s \in Records : s # r => lock'[s] = lock[s]
        /\ \A h \in Goroutines : h # g => (loaded'[h] = loaded[h] /\ Updating(h)' = Updating(h))
    BY <1>3, <1>8 DEF Begun, BeginUpdate, Unlocked
  <2>2. \A s \in Unsaved' : Fresh(s)'
    BY <1>2, <1>3, <2>1
  <2>3. Held(g, r)'
    BY <2>1
  <2>4. ASSUME NEW h \in Goroutines, h # g, NEW s \in Updating(h)' PROVE Held(h, s)'
    <3>1. s \in Updating(h) /\ s \in Records /\ Held(h, s)
      BY <1>2, <1>3, <2>1, <2>4
    <3> QED  BY <1>2, <1>3, <2>1, <2>4, <3>1
  <2> QED  BY <2>1, <2>2, <2>3, <2>4
<1>9. ASSUME NEW g \in Goroutines, NEW r \in Records, NEW c \in Cache, Written(g, r, c) \/ Abandoned(g, r)
      PROVE  Kept
  <2>1. /\ Updating(g) = {r} /\ Updating(g)' = {} /\ present \subseteq present'
        /\ present' \subseteq present \cup {r} /\ lock'[r] = "free"
        /\ \A s \in Records : s # r => (lock'[s] = lock[s] /\ cache'[s] = cache[s])
        /\ \A h \in Goroutines : h # g => (loaded'[h] = loaded[h] /\ Updating(h)' = Updating(h))
    BY <1>3, <1>9 DEF Written, Abandoned, EndUpdate, Unlock
  <2>2. lock[r] = g
    BY <1>2, <2>1
  <2>3. \A s \in Unsaved' : Fresh(s)'
    BY <1>2, <1>3, <2>1, <2>2
  <2>4. ASSUME NEW h \in Goroutines, h # g, NEW s \in Updating(h)' PROVE Held(h, s)'
    <3>1. s \in Updating(h) /\ s \in Records /\ Held(h, s)
      BY <1>2, <1>3, <2>1, <2>4
    <3>2. s # r
      BY <2>2, <2>4, <3>1
    <3> QED  BY <1>2, <1>3, <2>1, <2>4, <3>1, <3>2
  <2> QED  BY <2>1, <2>3, <2>4
<1> HIDE DEF Kept, Held, Fresh
<1> QED
  BY <1>1, <1>5, <1>6, <1>7, <1>8, <1>9, CacheFields DEF FileMove

LEMMA UpdateSafety == Spec => [](TypeInv /\ UpdateInv)
BY TypeInductive, UpdateInit, UpdateNext, PTL DEF Spec

\* Between the load and the write of an update the file holds what was loaded:
\* the lock of the path keeps every other update out, and only Clean, under the
\* lock, and the task handler, for a record nobody knows yet, write without one.
THEOREM UpdatesAreSerialized == Spec => []UpdateIsSerialized
<1>1. UpdateInv => UpdateIsSerialized
  <2> SUFFICES ASSUME UpdateInv PROVE UpdateIsSerialized
    OBVIOUS
  <2>1. \A g \in Goroutines : \A r \in Updating(g) : cache[r] = loaded[g]
    BY DEF UpdateInv
  <2> QED  BY <2>1, UpdatingUnchanged DEF UpdateIsSerialized, Goroutines
<1> QED
  BY <1>1, UpdateSafety, PTL

\* What a step does to the content of one record cache.
LEMMA CacheChanges ==
  ASSUME TypeInv, UpdateInv, [Next]_vars, NEW r \in Records
  PROVE  cache'[r] = cache[r] \/ cache'[r] \in Revised(cache[r])
<1>1. FileMove /\ cache \in [Records -> Cache] /\ \A g \in Goroutines : \A s \in Updating(g) : cache[s] = loaded[g]
  BY StepIsFileMove DEF TypeInv, DiskType, UpdateInv
<1>2. CASE Saved
  <2>1. cache[krec] = NewCache /\ cache' = [cache EXCEPT ![krec] = NewCache]
    BY <1>2 DEF Saved, UpdateInv, Unsaved
  <2> QED  BY <1>1, <2>1
<1>3. CASE FilesKept \/ LocksFreed
  BY <1>3 DEF FilesKept, LocksFreed
<1>4. ASSUME NEW g \in Goroutines, NEW s \in Records, Begun(g, s) \/ Abandoned(g, s)
      PROVE  cache' = cache
  BY <1>4 DEF Begun, BeginUpdate, Abandoned
<1>5. ASSUME NEW g \in Goroutines, NEW s \in Records, NEW c \in Cache, Written(g, s, c)
      PROVE  cache'[r] = cache[r] \/ cache'[r] \in Revised(cache[r])
  <2>1. cache' = [cache EXCEPT ![s] = c] /\ c \in Revised(loaded[g]) /\ loaded[g] = cache[s]
    BY <1>1, <1>5 DEF Written, EndUpdate
  <2> QED  BY <1>1, <2>1
<1> QED
  BY <1>1, <1>2, <1>3, <1>4, <1>5 DEF FileMove

\* An update undoes nothing, and leaves a skipped record as it is.
LEMMA RevisedKeeps ==
  ASSUME NEW c \in Cache, NEW d \in Revised(c)
  PROVE  /\ c.sent \subseteq d.sent
         /\ c.named => d.named
         /\ c.uploaded => d.uploaded
         /\ c.skipped => (d.skipped /\ d.uploaded = c.uploaded /\ d.sent = c.sent)
BY DEF Revised, MarkUploaded, AddProgress, Settled, Cache

LEMMA CacheMoves ==
  ASSUME TypeInv, UpdateInv, [Next]_vars, NEW r \in Records
  PROVE  /\ cache[r].sent \subseteq cache'[r].sent
         /\ cache[r].named => cache'[r].named
         /\ cache[r].uploaded => cache'[r].uploaded
         /\ cache[r].skipped =>
              (cache'[r].skipped /\ cache'[r].uploaded = cache[r].uploaded /\ cache'[r].sent = cache[r].sent)
<1>1. cache[r] \in Cache
  BY DEF TypeInv, DiskType
<1> QED
  BY <1>1, CacheChanges, RevisedKeeps

\* A record that was skipped by a cancellation stays skipped, is not marked
\* uploaded by the worker that still holds it, and gains no progress.
THEOREM SkippedRecordsAreFinal == Spec => SkippedIsFinal
<1>1. TypeInv /\ UpdateInv /\ [Next]_vars =>
        [\A r \in Records : cache[r].skipped =>
           /\ cache'[r].skipped
           /\ cache'[r].uploaded = cache[r].uploaded
           /\ cache'[r].sent = cache[r].sent]_vars
  BY CacheMoves
<1> QED
  BY <1>1, UpdateSafety, PTL DEF Spec, SkippedIsFinal

\* No interleaving of the three goroutines that write a record cache undoes the
\* progress, the name or the mark another one has saved.
THEOREM ProgressIsKept == Spec => ProgressNeverLost
<1>1. TypeInv /\ UpdateInv /\ [Next]_vars =>
        [\A r \in Records : task[r] # "none" =>
           /\ cache[r].sent \subseteq cache'[r].sent
           /\ cache[r].named => cache'[r].named
           /\ cache[r].uploaded => cache'[r].uploaded]_vars
  BY CacheMoves
<1> QED
  BY <1>1, UpdateSafety, PTL DEF Spec, ProgressNeverLost

\* A file that is not there comes back only when it is saved for the first time,
\* or with an update of a record that expired meanwhile.
LEMMA CleanedStep ==
  ASSUME TypeInv, UpdateInv, [Next]_vars, NEW r \in Records, r \notin present, r \in present'
  PROVE  (kpc = "save" /\ krec = r) \/ r \in expired
<1>1. FileMove /\ \A g \in Goroutines : \A s \in Updating(g) : s \in present \cup expired
  BY StepIsFileMove DEF UpdateInv
<1>2. CASE Saved
  BY <1>2 DEF Saved
<1>3. ~FilesKept /\ ~LocksFreed
  BY DEF FilesKept, LocksFreed
<1>4. ASSUME NEW g \in Goroutines, NEW s \in Records, Begun(g, s) \/ Abandoned(g, s) PROVE FALSE
  BY <1>4 DEF Begun, BeginUpdate, Abandoned
<1>5. ASSUME NEW g \in Goroutines, NEW s \in Records, NEW c \in Cache, Written(g, s, c)
      PROVE  r \in expired
  BY <1>1, <1>5 DEF Written, EndUpdate
<1> QED
  BY <1>1, <1>2, <1>3, <1>4, <1>5 DEF FileMove

\* The file of a record that was cleaned up is not made again by an update that
\* was under way: the worker waits for the lock.
THEOREM CleanedRecordsStayAway == Spec => CleanedStaysCleaned
<1>1. TypeInv /\ UpdateInv /\ [Next]_vars =>
        [\A r \in Records :
           r \notin present /\ r \in present' => (kpc = "save" /\ krec = r) \/ r \in expired]_vars
  BY CleanedStep
<1> QED
  BY <1>1, UpdateSafety, PTL DEF Spec, CleanedStaysCleaned

-----------------------------------------------------------------------------
(***************************************************************************)
(* Completion.  A file the worker has taken from its list and not failed   *)
(* on is in the cloud, gone or refused, so that nothing is missing when    *)
(* the list is empty and allCompleted still holds.                         *)
(***************************************************************************)

Done(r) == objects[r] \cup vanished[r] \cup refused[r]

WorkerKnows ==
  /\ wpc \in {"progress", "progressWrite"} => wfile \in objects[wrec] \cup refused[wrec]
  /\ wpc \in {"next", "progress", "progressWrite"} /\ wall => Files \ wtodo \subseteq Done(wrec)
  /\ wpc \in {"fileGate", "put"} /\ wall => Files \ wtodo \subseteq Done(wrec) \cup {wfile}
  /\ wpc \in {"label", "report", "finish", "finishWrite"} => Files \subseteq Done(wrec)

\* Objects are not deleted and files do not come back; progress, the mark and the
\* report come from the worker's own steps.
Growth ==
  /\ UNCHANGED worker \/ wpc' = "idle" \/ Worker
  /\ \A r \in Records :
       /\ objects[r] \subseteq objects'[r] /\ vanished[r] \subseteq vanished'[r]
       /\ refused[r] \subseteq refused'[r]
       /\ task'[r] = "SUCCEEDED" => task[r] = "SUCCEEDED" \/ (wpc = "report" /\ r = wrec)
       /\ cache'[r].sent \subseteq cache[r].sent \cup (IF wpc = "progressWrite" /\ r = wrec THEN {wfile} ELSE {})
       /\ cache'[r].uploaded => cache[r].uploaded \/ (wpc = "finishWrite" /\ r = wrec)

LEMMA StepIsGrowth == TypeInv /\ UpdateInv /\ [Next]_vars => Growth
<1> SUFFICES ASSUME TypeInv, UpdateInv, [Next]_vars PROVE Growth
  OBVIOUS
<1>0. /\ cache \in [Records -> Cache] /\ loaded \in [Goroutines -> Cache]
      /\ task \in [Records -> TaskStates] /\ objects \in [Records -> SUBSET Files]
      /\ vanished \in [Records -> SUBSET (Files \ SlaveFiles)]
      /\ refused \in [Records -> SUBSET SlaveFiles]
      /\ \A g \in Goroutines : \A s \in Updating(g) : cache[s] = loaded[g]
  BY DEF TypeInv, DiskType, CloudType, EnvType, UpdateInv
<1>1. CASE Collector
  <2>1. /\ UNCHANGED <<worker, objects, task, vanished, refused>>
        /\ \/ UNCHANGED cache
           \/ /\ cpc = "nameWrite"
              /\ cache' = [cache EXCEPT ![crec] = [loaded["collector"] EXCEPT !.named = TRUE]]
    BY <1>1 DEF Collector, CollectStart, CollectEnd, CollectLoad, CollectExpire, CollectAcquire, CollectCreate,
       CollectCreateFails, CollectNameBegin, CollectNameWrite, CollectSend, cloud, env, disk, Load, LoadFails,
       Missing, BeginUpdate, EndUpdate, UpdateFails, DeleteDir
  <2>2. ASSUME NEW r \in Records
        PROVE  cache'[r].sent = cache[r].sent /\ cache'[r].uploaded = cache[r].uploaded
    <3>1. cpc = "nameWrite" => cache[crec] = loaded["collector"]
      BY <1>0, UpdatingUnchanged DEF Goroutines
    <3>2. cache \in [Records -> Cache] /\ cache[r] \in Cache
      BY <1>0
    <3>3. cache'[r] = cache[r] \/ cache'[r] = [cache[r] EXCEPT !.named = TRUE]
      BY <2>1, <3>1, <3>2
    <3> QED  BY <3>2, <3>3 DEF Cache
  <2> QED  BY <2>1, <2>2 DEF Growth
<1>2. CASE Canceller
  <2>1. /\ UNCHANGED <<worker, objects, vanished, refused>>
        /\ \A r \in Records : task'[r] = "SUCCEEDED" => task[r] = "SUCCEEDED"
        /\ \/ UNCHANGED cache
           \/ cache' = [cache EXCEPT ![krec] = NewCache]
           \/ /\ kpc = "skipWrite"
              /\ cache' = [cache EXCEPT ![krec] = [loaded["canceller"] EXCEPT !.skipped = TRUE]]
    BY <1>0, <1>2 DEF Canceller, SaveRecord, CancelStart, CancelLoad, CancelSkipBegin, CancelSkipWrite, CancelScanned,
       CancelReport, CancelReportFails, CancelReported, CancelNext, cloud, env, disk, Load, LoadFails,
       Missing, BeginUpdate, EndUpdate, UpdateFails
  <2>2. ASSUME NEW r \in Records
        PROVE  cache'[r].sent \subseteq cache[r].sent /\ (cache'[r].uploaded => cache[r].uploaded)
    <3>1. kpc = "skipWrite" => cache[krec] = loaded["canceller"]
      BY <1>0, UpdatingUnchanged DEF Goroutines
    <3>2. cache \in [Records -> Cache] /\ cache[r] \in Cache
      BY <1>0
    <3>3. \/ cache'[r] = cache[r]
          \/ cache'[r] = NewCache
          \/ cache'[r] = [cache[r] EXCEPT !.skipped = TRUE]
      BY <2>1, <3>1, <3>2
    <3> QED  BY <3>2, <3>3 DEF Cache, NewCache
  <2> QED  BY <2>1, <2>2 DEF Growth
<1>3. CASE Worker
  <2>1. /\ UNCHANGED vanished
        /\ objects' = objects \/ objects' = [objects EXCEPT ![wrec] = @ \cup {wfile}]
        /\ refused' = refused \/ refused' = [refused EXCEPT ![wrec] = @ \cup {wfile}]
        /\ task' = task \/ (wpc = "report" /\ task' = [task EXCEPT ![wrec] = "SUCCEEDED"])
        /\ \/ UNCHANGED cache
           \/ wpc = "progressWrite" /\ cache' = [cache EXCEPT ![wrec] = AddProgress(loaded["worker"], wfile)]
           \/ wpc = "finishWrite" /\ cache' = [cache EXCEPT ![wrec] = MarkUploaded(loaded["worker"])]
    BY <1>3 DEF Worker, WorkerPop, WorkerLoad, WorkerDeclines, WorkerAccepts, WorkerAcceptsFile, WorkerStart,
       WorkerNextFile, WorkerPut, WorkerPutFails, WorkerProgressBegin, WorkerProgressWrite, WorkerAllTried,
       WorkerLabel, WorkerLabelFails, WorkerReport, WorkerFinishBegin, WorkerFinishWrite, WorkerClean,
       cloud, env, disk, Load, LoadFails, Missing, BeginUpdate, EndUpdate, UpdateFails, DeleteDir
  <2>2. ASSUME NEW r \in Records
        PROVE  /\ objects[r] \subseteq objects'[r] /\ refused[r] \subseteq refused'[r]
               /\ task'[r] = "SUCCEEDED" => task[r] = "SUCCEEDED" \/ (wpc = "report" /\ r = wrec)
    BY <1>0, <2>1
  <2>3. ASSUME NEW r \in Records
        PROVE  /\ cache'[r].sent
                    \subseteq cache[r].sent \cup (IF wpc = "progressWrite" /\ r = wrec THEN {wfile} ELSE {})
               /\ cache'[r].uploaded => cache[r].uploaded \/ (wpc = "finishWrite" /\ r = wrec)
    <3>1. wpc \in {"progressWrite", "finishWrite"} => cache[wrec] = loaded["worker"]
      BY <1>0, UpdatingUnchanged DEF Goroutines
    <3>2. cache[r] \in Cache
      BY <1>0
    <3>3. \A c \in Cache : /\ AddProgress(c, wfile).sent \subseteq c.sent \cup {wfile}
                           /\ AddProgress(c, wfile).uploaded = c.uploaded /\ MarkUploaded(c).sent = c.sent
      BY DEF AddProgress, MarkUploaded, Settled, Cache
    <3>4. cache \in [Records -> Cache]
      BY <1>0
    <3>5. \/ cache'[r] = cache[r]
          \/ wpc = "progressWrite" /\ r = wrec /\ cache'[r] = AddProgress(cache[r], wfile)
          \/ wpc = "finishWrite" /\ r = wrec /\ cache'[r] = MarkUploaded(cache[r])
      BY <2>1, <3>1, <3>4
    <3> QED  BY <3>2, <3>3, <3>5
  <2> QED  BY <1>3, <2>1, <2>2, <2>3 DEF Growth
<1>4. CASE Receiver \/ Tick \/ UNCHANGED vars
  <2>1. UNCHANGED <<worker, cache, objects, task, vanished, refused>>
    BY <1>4 DEF Receiver, ReceiverTake, ReceiverCheck, ReceiverPush, Tick, vars, cloud, env, disk
  <2> QED  BY <2>1 DEF Growth
<1>5. CASE Crash
  <2>1. wpc' = "idle" /\ UNCHANGED <<cache, objects, task, vanished, refused>>
    BY <1>5 DEF Crash, cloud
  <2> QED  BY <2>1 DEF Growth
<1>6. CASE \/ \E r \in Records : AcceptTask(r) \/ UserCancels(r) \/ Expires(r)
           \/ \E r \in Records, f \in Files : FileVanishes(r, f)
  <2>1. /\ UNCHANGED <<worker, cache, objects, refused>>
        /\ \A r \in Records : task'[r] = "SUCCEEDED" => task[r] = "SUCCEEDED"
        /\ \A r \in Records : vanished[r] \subseteq vanished'[r]
    BY <1>0, <1>6 DEF AcceptTask, UserCancels, Expires, FileVanishes, cloud, env, disk
  <2> QED  BY <2>1 DEF Growth
<1> QED
  BY <1>1, <1>2, <1>3, <1>4, <1>5, <1>6 DEF Next

LEMMA WorkerKnowsNext == TypeInv /\ CompletionIsTruthful /\ WorkerKnows /\ Growth /\ Worker => WorkerKnows'
<1> SUFFICES ASSUME TypeInv, CompletionIsTruthful, WorkerKnows, Growth, Worker PROVE WorkerKnows'
  OBVIOUS
<1>1. /\ wpc # "idle" => wrec \in Records
      /\ objects \in [Records -> SUBSET Files] /\ wtodo \subseteq Files /\ wall \in BOOLEAN
      /\ \A r \in Records : /\ cache[r].sent \subseteq objects[r] \cup refused[r]
                            /\ Done(r) \subseteq Done(r)' /\ refused[r] \subseteq refused'[r]
                            /\ objects[r] \subseteq objects'[r] /\ vanished[r] \subseteq vanished'[r]
  BY DEF TypeInv, WorkerType, CloudType, CompletionIsTruthful, Growth, Done
<1>2. CASE \/ WorkerPop \/ WorkerLoad \/ WorkerDeclines \/ WorkerAccepts \/ WorkerLabelFails \/ WorkerFinishWrite
           \/ WorkerClean
  <2>1. wpc' \in {"idle", "load", "gate", "start", "clean"}
    BY <1>2 DEF WorkerPop, WorkerLoad, WorkerDeclines, WorkerAccepts, WorkerLabelFails, WorkerFinishWrite,
       WorkerClean, WorkerReturns, WorkerGoto
  <2> QED  BY <2>1 DEF WorkerKnows
<1>3. CASE wpc' = "idle"
  BY <1>3 DEF WorkerKnows
<1>4. CASE WorkerAcceptsFile \/ WorkerLabel \/ WorkerReport
  <2>1. /\ UNCHANGED <<wrec, wtodo, wfile, wall>> /\ wrec \in Records
        /\ \/ wpc = "fileGate" /\ wpc' = "put"
           \/ wpc = "label" /\ wpc' = "report"
           \/ wpc = "report" /\ wpc' = "finish"
    BY <1>1, <1>4 DEF WorkerAcceptsFile, WorkerLabel, WorkerReport, WorkerGoto
  <2> QED  BY <1>1, <2>1 DEF WorkerKnows
<1>5. CASE WorkerStart /\ wpc' # "idle"
  <2>1. wrec' = wrec /\ wrec \in Records /\ wpc' = "next" /\ wtodo' = Files \ cache[wrec].sent
    BY <1>1, <1>5 DEF WorkerStart, WorkerReturns
  <2>2. cache[wrec].sent \subseteq Done(wrec)'
    BY <1>1, <2>1 DEF Done
  <2> QED  BY <2>1, <2>2 DEF WorkerKnows
<1>6. CASE WorkerNextFile /\ wpc' # "idle"
  <2>1. PICK f \in wtodo :
          /\ wtodo' = wtodo \ {f} /\ UNCHANGED <<wrec, wall>> /\ wrec \in Records /\ wpc = "next"
          /\ IF f \in vanished[wrec] \cup cache[wrec].sent
               THEN UNCHANGED <<wpc, wfile>>
               ELSE wpc' = "fileGate" /\ wfile' = f
    BY <1>1, <1>6 DEF WorkerNextFile, WorkerReturns
  <2>2. vanished[wrec] \cup cache[wrec].sent \subseteq Done(wrec)
    BY <1>1, <2>1 DEF Done
  <2>3. wall => Files \ wtodo \subseteq Done(wrec)'
    BY <1>1, <2>1 DEF WorkerKnows
  <2> QED  BY <1>1, <2>1, <2>2, <2>3 DEF WorkerKnows
<1>7. CASE WorkerPut
  <2>1. /\ wpc = "put" /\ wpc' = "progress" /\ UNCHANGED <<wrec, wtodo, wfile, wall>> /\ wrec \in Records
        /\ wfile \in objects'[wrec] \cup refused'[wrec]
    <3>1. refused \in [Records -> SUBSET SlaveFiles]
      BY DEF TypeInv, EnvType
    <3> QED  BY <1>1, <1>7, <3>1 DEF WorkerPut, WorkerGoto
  <2>2. wfile \in Done(wrec)'
    BY <2>1 DEF Done
  <2>3. wall => Files \ wtodo \subseteq Done(wrec)'
    BY <1>1, <2>1, <2>2 DEF WorkerKnows
  <2> QED  BY <2>1, <2>3 DEF WorkerKnows
<1>8. CASE WorkerPutFails /\ wpc' # "idle"
  BY <1>8 DEF WorkerPutFails, WorkerReturns, WorkerKnows
<1>9. CASE (WorkerProgressBegin \/ WorkerProgressWrite) /\ wpc' # "idle"
  <2>1. /\ UNCHANGED <<wrec, wtodo, wall>> /\ wrec \in Records /\ wpc \in {"progress", "progressWrite"}
        /\ \/ wpc' = "progressWrite" /\ wfile' = wfile
           \/ wpc' = "next"
    BY <1>1, <1>9 DEF WorkerProgressBegin, WorkerProgressWrite, WorkerReturns, WorkerGoto
  <2> QED  BY <1>1, <2>1 DEF WorkerKnows
<1>10. CASE (WorkerAllTried \/ WorkerFinishBegin) /\ wpc' # "idle"
  <2>1. /\ UNCHANGED wrec /\ wrec \in Records
        /\ \/ wpc = "next" /\ wtodo = {} /\ wall /\ wpc' = "label"
           \/ wpc = "finish" /\ wpc' = "finishWrite"
    BY <1>1, <1>10 DEF WorkerAllTried, WorkerFinishBegin, WorkerReturns, WorkerGoto
  <2> QED  BY <1>1, <2>1 DEF WorkerKnows
<1> QED
  BY <1>2, <1>3, <1>4, <1>5, <1>6, <1>7, <1>8, <1>9, <1>10 DEF Worker

LEMMA CompletionNext ==
  TypeInv /\ UpdateInv /\ CompletionIsTruthful /\ WorkerKnows /\ [Next]_vars => (CompletionIsTruthful /\ WorkerKnows)'
<1> SUFFICES ASSUME TypeInv, UpdateInv, CompletionIsTruthful, WorkerKnows, [Next]_vars
             PROVE  (CompletionIsTruthful /\ WorkerKnows)'
  OBVIOUS
<1>1. Growth
  BY StepIsGrowth
<1>2. CompletionIsTruthful'
  <2> SUFFICES ASSUME NEW r \in Records
               PROVE  /\ cache'[r].sent \subseteq objects'[r] \cup refused'[r]
                      /\ task'[r] = "SUCCEEDED" \/ cache'[r].uploaded => Files \subseteq Done(r)'
    BY DEF CompletionIsTruthful, Done
  <2>1. /\ cache[r].sent \subseteq objects[r] \cup refused[r]
        /\ wpc = "progressWrite" /\ r = wrec => wfile \in objects[r] \cup refused[r]
    BY DEF CompletionIsTruthful, WorkerKnows
  <2>2. cache'[r].sent \subseteq objects'[r] \cup refused'[r]
    BY <1>1, <2>1 DEF Growth
  <2>3. task[r] = "SUCCEEDED" \/ cache[r].uploaded \/ (wpc \in {"report", "finishWrite"} /\ r = wrec)
          => Files \subseteq Done(r)
    BY DEF CompletionIsTruthful, WorkerKnows, Done
  <2>4. task'[r] = "SUCCEEDED" \/ cache'[r].uploaded => Files \subseteq Done(r)'
    BY <1>1, <2>3 DEF Growth, Done
  <2> QED  BY <2>2, <2>4
<1>3. WorkerKnows'
  <2>1. CASE UNCHANGED worker
    <3>1. wpc # "idle" => wrec \in Records
      BY DEF TypeInv, WorkerType
    <3>2. wpc # "idle" => /\ objects[wrec] \subseteq objects'[wrec] /\ refused[wrec] \subseteq refused'[wrec]
                          /\ Done(wrec) \subseteq Done(wrec)'
      BY <1>1, <2>1, <3>1 DEF Growth, Done, worker
    <3> QED  BY <2>1, <3>2 DEF WorkerKnows, worker
  <2>2. CASE wpc' = "idle"
    BY <2>2 DEF WorkerKnows
  <2> QED  BY <1>1, <2>1, <2>2, WorkerKnowsNext DEF Growth
<1> QED
  BY <1>2, <1>3

\* A task is reported SUCCEEDED, and a record marked uploaded, only when each of
\* its files is in the cloud, is local and gone, or was refused by its slave as too
\* large or unavailable, over any number of attempts, interruptions and crashes.
THEOREM CompletionsAreTruthful == Spec => []CompletionIsTruthful
<1>1. Init => CompletionIsTruthful /\ WorkerKnows
  BY DEF Init, CompletionIsTruthful, WorkerKnows, NewCache
<1> QED
  BY <1>1, UpdateSafety, CompletionNext, PTL DEF Spec

-----------------------------------------------------------------------------
(***************************************************************************)
(* Cancellation.  The records the task handler has to see to are those of  *)
(* the tasks it has reported, and of the tasks it is cancelling once the   *)
(* scan has passed them: without a fault each is skipped, gone or expired. *)
(***************************************************************************)

Bound(r) ==
  task[r] = "CANCELLED" \/ (kpc \in {"scan", "skip", "skipWrite", "report"} /\ r \in ktasks \ ktodo)

Excused(r) == r \notin present \/ r \in expired \/ cache[r].skipped

CancelInv ==
  /\ kpc = "report" => ktodo = {}
  /\ faults = 0 => \A r \in Records : Bound(r) => Excused(r)

LEMMA ExcusedStays ==
  ASSUME TypeInv, UpdateInv, [Next]_vars, NEW r \in Records, Bound(r), Excused(r)
  PROVE  Excused(r)'
<1>1. expired \subseteq expired' /\ (cache[r].skipped => cache'[r].skipped)
  BY CacheMoves, StepIsOnwards DEF Onwards
<1>2. ~(kpc = "save" /\ krec = r)
  BY DEF Bound, UpdateInv
<1>3. r \notin present /\ r \in present' => r \in expired
  BY <1>2, CleanedStep
<1> QED
  BY <1>1, <1>3 DEF Excused

\* What becomes bound in a step without a fault was bound before, or is excused.
LEMMA BoundBefore ==
  ASSUME TypeInv, CancelInv, [Next]_vars
  PROVE  /\ kpc' = "report" => ktodo' = {}
         /\ faults' = 0 => faults = 0
         /\ faults' = 0 => \A r \in Records : Bound(r)' => Bound(r) \/ Excused(r)'
<1>0. /\ task \in [Records -> TaskStates] /\ faults \in Nat /\ cache \in [Records -> Cache]
      /\ loaded \in [Goroutines -> Cache] /\ ktodo \subseteq Records
      /\ kpc \in {"save", "skip", "skipWrite"} => krec \in Records
  BY CapAssumption DEF TypeInv, CloudType, EnvType, CancellerType, DiskType
<1> DEFINE Kept == \A r \in Records : Bound(r)' => Bound(r) \/ Excused(r)'
<1>1. CASE /\ UNCHANGED canceller /\ (faults' = 0 => faults = 0)
           /\ \A r \in Records : task'[r] = "CANCELLED" => task[r] = "CANCELLED"
  BY <1>1 DEF CancelInv, Bound, canceller
<1>2. CASE Collector \/ Receiver \/ Tick \/ Worker \/ UNCHANGED vars
  <2>1. UNCHANGED canceller /\ (faults' = 0 => faults = 0)
    BY <1>0, <1>2 DEF Collector, CollectStart, CollectEnd, CollectLoad, CollectExpire, CollectAcquire, CollectCreate,
       CollectCreateFails, CollectNameBegin, CollectNameWrite, CollectSend, UpdateFails, env,
       Receiver, ReceiverTake, ReceiverCheck, ReceiverPush, Tick, vars,
       Worker, WorkerPop, WorkerLoad, WorkerDeclines, WorkerAccepts, WorkerAcceptsFile, WorkerStart,
       WorkerNextFile, WorkerPut, WorkerPutFails, WorkerProgressBegin, WorkerProgressWrite, WorkerAllTried,
       WorkerLabel, WorkerLabelFails, WorkerReport, WorkerFinishBegin, WorkerFinishWrite, WorkerClean
  <2>2. task' = task \/ task' = [task EXCEPT ![wrec] = "SUCCEEDED"]
    BY <1>2 DEF Collector, CollectStart, CollectEnd, CollectLoad, CollectExpire, CollectAcquire, CollectCreate,
       CollectCreateFails, CollectNameBegin, CollectNameWrite, CollectSend, cloud,
       Receiver, ReceiverTake, ReceiverCheck, ReceiverPush, Tick, vars,
       Worker, WorkerPop, WorkerLoad, WorkerDeclines, WorkerAccepts, WorkerAcceptsFile, WorkerStart,
       WorkerNextFile, WorkerPut, WorkerPutFails, WorkerProgressBegin, WorkerProgressWrite, WorkerAllTried,
       WorkerLabel, WorkerLabelFails, WorkerReport, WorkerFinishBegin, WorkerFinishWrite, WorkerClean
  <2> QED  BY <1>0, <1>1, <2>1, <2>2
<1>3. CASE \/ \E r \in Records : UserCancels(r) \/ Expires(r)
           \/ \E r \in Records, f \in Files : FileVanishes(r, f)
  BY <1>0, <1>1, <1>3 DEF UserCancels, Expires, FileVanishes, env, cloud
<1>4. ASSUME NEW r \in Records, AcceptTask(r)
      PROVE  kpc' = "save" /\ faults' = faults /\ Kept
  BY <1>0, <1>4 DEF AcceptTask, env, Bound
<1>5. CASE Crash
  BY <1>0, <1>5 DEF Crash
<1>6. CASE SaveRecord
  BY <1>0, <1>6 DEF SaveRecord, Bound, cloud
<1>7. CASE CancelStart
  BY <1>7 DEF CancelStart, Bound, Excused, cloud, disk, env
<1>8. CASE CancelLoad
  BY <1>8 DEF CancelLoad, CancelNext, Missing, Load, Bound, Excused, cloud, disk, env
<1>9. CASE CancelSkipBegin
  BY <1>9 DEF CancelSkipBegin, CancelNext, LoadFails, Missing, BeginUpdate, Bound, Excused, cloud, disk, env
<1>10. CASE CancelSkipWrite
  <2>1. /\ kpc = "skipWrite" /\ kpc' = "scan" /\ krec \in Records /\ UNCHANGED <<task, ktasks>>
        /\ ktodo' = ktodo \ {krec} /\ faults' \in {faults, faults + 1}
    BY <1>0, <1>10 DEF CancelSkipWrite, CancelNext, UpdateFails, cloud
  <2>2. ASSUME faults' = 0 PROVE cache'[krec].skipped
    <3>1. cache' = [cache EXCEPT ![krec] = [loaded["canceller"] EXCEPT !.skipped = TRUE]]
      BY <1>0, <1>10, <2>2 DEF CancelSkipWrite, UpdateFails, EndUpdate
    <3>2. loaded["canceller"] \in Cache
      BY <1>0 DEF Goroutines
    <3> QED  BY <1>0, <2>1, <3>1, <3>2 DEF Cache
  <2> QED  BY <1>0, <2>1, <2>2 DEF Bound, Excused
<1>11. CASE CancelScanned
  BY <1>11 DEF CancelScanned, Bound, cloud, env
<1>12. ASSUME NEW r \in Records, CancelReport(r) \/ CancelReportFails(r)
       PROVE  (kpc' = "report" => ktodo' = {}) /\ faults' = faults /\ Kept
  <2>1. /\ kpc = "report" /\ r \in ktasks /\ UNCHANGED <<ktodo, faults>> /\ ktasks' \subseteq ktasks
        /\ task' = task \/ task' = [task EXCEPT ![r] = "CANCELLED"]
    BY <1>12 DEF CancelReport, CancelReportFails, CancelReported, env
  <2>2. Bound(r) /\ ktodo = {}
    BY <2>1 DEF Bound, CancelInv
  <2>3. \A s \in Records : Bound(s)' => Bound(s)
    BY <1>0, <2>1, <2>2 DEF Bound
  <2> QED  BY <2>1, <2>2, <2>3
<1> HIDE DEF Kept
<1>13. ASSUME Canceller \/ \E r \in Records : AcceptTask(r)
       PROVE  (kpc' = "report" => ktodo' = {}) /\ (faults' = 0 => faults = 0) /\ (faults' = 0 => Kept)
  BY <1>4, <1>6, <1>7, <1>8, <1>9, <1>10, <1>11, <1>12, <1>13 DEF Canceller, Kept
<1> QED
  BY <1>2, <1>3, <1>5, <1>13 DEF Next, Kept

\* When the device reports a task as CANCELLED its record is skipped, gone or
\* expired, wherever in the pipeline the record was when the user cancelled it,
\* as long as no save failed and the device did not restart.
THEOREM CancelledRecordsAreSkipped == Spec => []CancelledIsSkipped
<1>1. Init => CancelInv
  BY DEF Init, CancelInv, Bound
<1>2. TypeInv /\ UpdateInv /\ CancelInv /\ [Next]_vars => CancelInv'
  <2> SUFFICES ASSUME TypeInv, UpdateInv, CancelInv, [Next]_vars PROVE CancelInv'
    OBVIOUS
  <2>1. ASSUME faults' = 0, NEW r \in Records, Bound(r)' PROVE Excused(r)'
    BY <2>1, BoundBefore, ExcusedStays DEF CancelInv
  <2> QED  BY <2>1, BoundBefore DEF CancelInv
<1>3. CancelInv => CancelledIsSkipped
  BY DEF CancelInv, CancelledIsSkipped, Bound, Excused
<1> QED
  BY <1>1, <1>2, <1>3, UpdateSafety, PTL DEF Spec

-----------------------------------------------------------------------------
(***************************************************************************)
(* Cloud records.  A record cache without a name, one that no createRecord *)
(* is about to name, has a cloud record for each fault at most; so has the *)
(* unnamed object of the collector, that is about to create one.           *)
(***************************************************************************)

Naming(r) == cpc \in {"name", "nameWrite"} /\ crec = r

\* The record's file can be read or written: it is there, or about to be.
Backed(r) == r \in present \/ lock[r] # "free"

CreatedInv ==
  /\ \A r \in Records :
       /\ created[r] <= 1 + faults
       /\ Backed(r) /\ ~cache[r].named /\ ~Naming(r) => created[r] <= faults
       /\ r \in Unsaved => created[r] = 0
  /\ cpc \notin {"idle", "scan"} => crec \notin Unsaved
  /\ cpc = "create" => ~crc.named
  /\ cpc \in {"expire", "acquire", "create"} /\ ~crc.named => created[crec] <= faults

\* Only CreateRecord creates: the collector then names the record, or it failed.
Creating ==
  /\ cpc = "create" /\ created' = [created EXCEPT ![crec] = @ + 1]
  /\ (cpc' = "name" /\ crec' = crec) \/ (cpc' = "scan" /\ faults' = faults + 1)

\* How a step moves the collector: by itself, by a crash, or not at all.
LEMMA WhoCreates ==
  ASSUME TypeInv, [Next]_vars
  PROVE  /\ faults \in Nat /\ faults' \in {faults, faults + 1}
         /\ Collector \/ (created' = created /\ (cpc' = "idle" \/ UNCHANGED collector))
         /\ created' = created \/ Creating
<1>0. faults \in Nat
  BY CapAssumption DEF TypeInv, EnvType
<1>1. CASE Collector
  <2>1. faults' \in {faults, faults + 1}
    BY <1>1 DEF Collector, CollectStart, CollectEnd, CollectLoad, CollectExpire, CollectAcquire, CollectCreate,
       CollectCreateFails, CollectNameBegin, CollectNameWrite, CollectSend, UpdateFails, env
  <2>2. created' = created \/ Creating
    BY <1>1 DEF Collector, CollectStart, CollectEnd, CollectLoad, CollectExpire, CollectAcquire, CollectCreate,
       CollectCreateFails, CollectNameBegin, CollectNameWrite, CollectSend, NextRecord, CollectorGoto, cloud, Creating
  <2> QED  BY <1>0, <1>1, <2>1, <2>2
<1>2. CASE Crash \/ Receiver \/ Tick \/ UNCHANGED vars
  BY <1>0, <1>2 DEF Crash, Receiver, ReceiverTake, ReceiverCheck, ReceiverPush, Tick, vars, cloud, env
<1>3. CASE \/ \E r \in Records : AcceptTask(r) \/ UserCancels(r) \/ Expires(r)
           \/ \E r \in Records, f \in Files : FileVanishes(r, f)
  BY <1>0, <1>3 DEF AcceptTask, UserCancels, Expires, FileVanishes, cloud, env
<1>4. CASE Worker
  BY <1>0, <1>4 DEF Worker, WorkerPop, WorkerLoad, WorkerDeclines, WorkerAccepts, WorkerAcceptsFile, WorkerStart,
     WorkerNextFile, WorkerPut, WorkerPutFails, WorkerProgressBegin, WorkerProgressWrite, WorkerAllTried,
     WorkerLabel, WorkerLabelFails, WorkerReport, WorkerFinishBegin, WorkerFinishWrite, WorkerClean,
     UpdateFails, cloud, env
<1>5. CASE Canceller
  BY <1>0, <1>5 DEF Canceller, SaveRecord, CancelStart, CancelLoad, CancelSkipBegin, CancelSkipWrite,
     CancelScanned, CancelReport, CancelReportFails, CancelReported, UpdateFails, cloud, env
<1> QED
  BY <1>1, <1>2, <1>3, <1>4, <1>5 DEF Next

\* A file is written for the first time when the record is saved.
LEMMA BackedBefore ==
  ASSUME TypeInv, UpdateInv, [Next]_vars, NEW r \in Records, Backed(r)'
  PROVE  Backed(r) \/ (kpc = "save" /\ krec = r)
<1>1. FileMove /\ lock \in [Records -> Goroutines \cup {"free"}] /\ "free" \notin Goroutines
      /\ \A g \in Goroutines : \A s \in Updating(g) : lock[s] = g
  BY StepIsFileMove DEF UpdateInv, TypeInv, DiskType, Goroutines
<1>2. CASE FilesKept \/ LocksFreed \/ Saved
  BY <1>2 DEF FilesKept, LocksFreed, Saved, Backed
<1>3. ASSUME NEW g \in Goroutines, NEW s \in Records, Begun(g, s) PROVE Backed(r)
  BY <1>1, <1>3 DEF Begun, BeginUpdate, Backed
<1>4. ASSUME NEW g \in Goroutines, NEW s \in Records, Abandoned(g, s) PROVE Backed(r)
  BY <1>1, <1>4 DEF Abandoned, Unlock, Backed
<1>5. ASSUME NEW g \in Goroutines, NEW s \in Records, NEW c \in Cache, Written(g, s, c) PROVE Backed(r)
  BY <1>1, <1>5 DEF Written, EndUpdate, Unlock, Backed
<1> QED
  BY <1>1, <1>2, <1>3, <1>4, <1>5 DEF FileMove

\* createRecord ends with the name in the file, without a file, or with a fault.
LEMMA NamingEnds ==
  ASSUME TypeInv, UpdateInv, [Next]_vars, NEW r \in Records, Naming(r), ~Naming(r)', Backed(r)', ~cache'[r].named
  PROVE  faults' = faults + 1
<1>1. CASE UNCHANGED collector
  BY <1>1 DEF Naming, collector
<1>2. CASE CollectNameBegin
  <2>1. CASE crec \in present
    BY <1>2, <2>1 DEF CollectNameBegin, CollectorGoto, Naming
  <2>2. CASE crec \notin present
    BY <1>2, <2>2 DEF CollectNameBegin, LoadFails, Unlocked, Missing, disk, Naming, Backed
  <2> QED  BY <2>1, <2>2
<1>3. CASE CollectNameWrite
  <2>1. cache' = [cache EXCEPT ![r] = [loaded["collector"] EXCEPT !.named = TRUE]] \/ faults' = faults + 1
    BY <1>3 DEF CollectNameWrite, EndUpdate, UpdateFails, Naming
  <2>2. cache \in [Records -> Cache] /\ loaded["collector"] \in Cache
    BY DEF TypeInv, DiskType, Goroutines
  <2> QED  BY <2>1, <2>2 DEF Cache
<1>4. CASE Crash
  BY <1>4 DEF Crash
<1>5. CASE Collector
  BY <1>2, <1>3, <1>5 DEF Naming, Collector, CollectStart, CollectEnd, CollectLoad, CollectExpire, CollectAcquire,
     CollectCreate, CollectCreateFails, CollectSend
<1>6. ~Collector /\ ~Crash => UNCHANGED collector
  BY DEF Next, vars, Receiver, ReceiverTake, ReceiverCheck, ReceiverPush, Tick,
     AcceptTask, UserCancels, Expires, FileVanishes,
     Worker, WorkerPop, WorkerLoad, WorkerDeclines, WorkerAccepts, WorkerAcceptsFile, WorkerStart,
     WorkerNextFile, WorkerPut, WorkerPutFails, WorkerProgressBegin, WorkerProgressWrite, WorkerAllTried,
     WorkerLabel, WorkerLabelFails, WorkerReport, WorkerFinishBegin, WorkerFinishWrite, WorkerClean,
     Canceller, SaveRecord, CancelStart, CancelLoad, CancelSkipBegin, CancelSkipWrite,
     CancelScanned, CancelReport, CancelReportFails, CancelReported
<1> QED
  BY <1>1, <1>4, <1>5, <1>6

LEMMA CreatedNext == TypeInv /\ UpdateInv /\ CreatedInv /\ [Next]_vars => CreatedInv'
<1> SUFFICES ASSUME TypeInv, UpdateInv, CreatedInv, [Next]_vars PROVE CreatedInv'
  OBVIOUS
<1>0. /\ created \in [Records -> Nat] /\ faults \in Nat /\ faults' \in {faults, faults + 1}
      /\ Unsaved \subseteq Records /\ Unsaved' \subseteq Unsaved
      /\ cpc \notin {"idle", "scan"} => crec \in Records
  BY StepIsOnwards, WhoCreates DEF TypeInv, CloudType, CollectorType, Onwards, CancellerType, Unsaved
<1>1. created' = created \/ Creating
  BY WhoCreates
<1>2. Creating => (crec \in Records \ Unsaved /\ created[crec] <= faults /\ created'[crec] = created[crec] + 1)
  BY <1>0 DEF Creating, CreatedInv
<1>3. \A r \in Records : created'[r] = created[r] \/ (Creating /\ r = crec)
  BY <1>0, <1>1 DEF Creating
<1>4. ASSUME NEW r \in Records
      PROVE  /\ created'[r] <= 1 + faults'
             /\ r \in Unsaved' => created'[r] = 0
  <2>1. created[r] \in Nat /\ created[r] <= 1 + faults /\ (r \in Unsaved => created[r] = 0)
    BY <1>0 DEF CreatedInv
  <2>2. CASE created'[r] = created[r]
    BY <1>0, <2>1, <2>2
  <2>3. CASE Creating /\ r = crec
    BY <1>0, <1>2, <2>1, <2>3
  <2> QED  BY <1>3, <2>2, <2>3
<1>5. ASSUME NEW r \in Records, Backed(r)', ~cache'[r].named, ~Naming(r)'
      PROVE  created'[r] <= faults'
  <2>1. created[r] \in Nat /\ created[r] <= 1 + faults /\ ~cache[r].named
    BY <1>0, <1>5, CacheMoves DEF CreatedInv
  <2>2. CASE Creating /\ r = crec
    <3>1. faults' = faults + 1
      BY <1>5, <2>2 DEF Creating, Naming
    <3> QED  BY <1>0, <1>2, <2>2, <3>1
  <2>3. CASE created'[r] = created[r]
    <3>1. CASE r \in Unsaved
      BY <1>0, <2>3, <3>1 DEF CreatedInv
    <3>2. CASE Naming(r)
      <4>1. faults' = faults + 1
        BY <1>5, <3>2, NamingEnds
      <4> QED  BY <1>0, <2>1, <2>3, <4>1
    <3>3. CASE r \notin Unsaved /\ ~Naming(r)
      <4>1. Backed(r)
        BY <1>5, <3>3, BackedBefore DEF Unsaved
      <4>2. created[r] <= faults
        BY <2>1, <3>3, <4>1 DEF CreatedInv
      <4> QED  BY <1>0, <2>1, <2>3, <4>2
    <3> QED  BY <3>1, <3>2, <3>3
  <2> QED  BY <1>3, <2>2, <2>3
<1> DEFINE About == {"expire", "acquire", "create"}
<1>6. /\ cpc' \notin {"idle", "scan"} => crec' \notin Unsaved'
      /\ cpc' = "create" => ~crc'.named
      /\ cpc' \in About /\ ~crc'.named => (created'[crec'] <= faults' /\ crec' \in Records)
  <2>1. CASE cpc' = "idle" \/ UNCHANGED collector
    <3>1. CASE UNCHANGED collector /\ ~Creating
      BY <1>0, <1>1, <3>1 DEF CreatedInv, collector
    <3>2. CASE UNCHANGED collector /\ Creating
      BY <3>2 DEF Creating, collector
    <3> QED  BY <2>1, <3>1, <3>2
  <2>2. CASE CollectLoad
    <3>1. created' = created /\ cpc = "scan"
      BY <2>2 DEF CollectLoad, cloud
    <3>2. CASE cpc' # "scan"
      <4>1. /\ crec' \in Records /\ crec' \in present /\ crc' = cache[crec'] /\ cpc' \in {"expire", "acquire"}
        BY <2>2, <3>2 DEF CollectLoad, Load, NextRecord, TypeInv, DiskType
      <4>2. crec' \notin Unsaved
        BY <4>1 DEF UpdateInv
      <4>3. Backed(crec') /\ ~Naming(crec')
        BY <3>1, <4>1 DEF Backed, Naming
      <4>4. ~crc'.named => created[crec'] <= faults
        BY <4>1, <4>3 DEF CreatedInv
      <4>5. created[crec'] \in Nat
        BY <1>0, <4>1
      <4> QED  BY <1>0, <3>1, <4>1, <4>2, <4>4, <4>5
    <3> QED  BY <3>2
  <2>3. CASE CollectExpire \/ CollectAcquire
    <3>1. created' = created /\ cpc \in About
      BY <2>3 DEF CollectExpire, CollectAcquire, cloud
    <3>2. CASE cpc' # "scan"
      <4>1. /\ UNCHANGED <<crec, crc>> /\ cpc' \in {"acquire", "create", "send"} /\ (cpc' = "create" => ~crc.named)
        BY <2>3, <3>2 DEF CollectExpire, CollectAcquire, CollectorGoto, NextRecord
      <4>2. crec \in Records /\ crec \notin Unsaved /\ created[crec] \in Nat
        BY <1>0, <3>1 DEF CreatedInv
      <4> QED  BY <1>0, <3>1, <4>1, <4>2 DEF CreatedInv
    <3> QED  BY <3>2
  <2>4. CASE CollectStart \/ CollectEnd \/ CollectCreateFails \/ CollectSend
    <3>1. cpc' \in {"idle", "scan"}
      BY <2>4 DEF CollectStart, CollectEnd, CollectCreateFails, CollectSend, NextRecord
    <3> QED  BY <3>1
  <2>5. CASE CollectCreate \/ CollectNameBegin \/ CollectNameWrite
    <3>1. cpc \notin {"idle", "scan"} /\ cpc' \in {"name", "nameWrite", "send"} /\ crec' = crec
      BY <2>5 DEF CollectCreate, CollectNameBegin, CollectNameWrite, CollectorNamed, CollectorGoto
    <3> QED  BY <1>0, <3>1 DEF CreatedInv
  <2> QED
    BY <2>1, <2>2, <2>3, <2>4, <2>5, WhoCreates DEF Collector
<1> QED
  BY <1>4, <1>5, <1>6 DEF CreatedInv

\* A record cache gets one cloud record, and one more at most for each crash,
\* failed save or lost reply: two rounds of the collector never create one each.
THEOREM CloudRecordsAreBounded == Spec => []CloudRecordsBounded
<1>1. Init => CreatedInv
  BY DEF Init, CreatedInv, Backed, Naming, NewCache, Unsaved
<1>2. CreatedInv => CloudRecordsBounded
  BY DEF CreatedInv, CloudRecordsBounded
<1> QED
  BY <1>1, <1>2, UpdateSafety, CreatedNext, PTL DEF Spec

-----------------------------------------------------------------------------
(***************************************************************************)
(* The hand-over of records.  Every step of the pipeline is one of ten     *)
(* moves, which only speak of the token registry and of the five places a  *)
(* record can be in.  The accounting of tokens and the refinement of       *)
(* RecordHandoff are proved for the moves.                                 *)
(***************************************************************************)

StaysPut == UNCHANGED <<reg, WithCollector, chan, WithReceiver, queue, WithWorker>>

\* The collector takes the token of a record ...
Acquired(r) ==
  /\ r \notin reg /\ reg' = reg \cup {r}
  /\ WithCollector = {} /\ WithCollector' = {r}
  /\ UNCHANGED <<chan, WithReceiver, queue, WithWorker>>

\* ... and sends the record, or gives it up.
Sent(r) ==
  /\ WithCollector = {r} /\ WithCollector' = {}
  /\ chan' = Append(chan, r)
  /\ UNCHANGED <<reg, WithReceiver, queue, WithWorker>>

GivenUp(r) ==
  /\ WithCollector = {r} /\ WithCollector' = {} /\ reg' = reg \ {r}
  /\ UNCHANGED <<chan, WithReceiver, queue, WithWorker>>

\* The receiver takes it from the channel, and pushes or drops it.
Taken(r) ==
  /\ chan # <<>> /\ r = Head(chan) /\ chan' = Tail(chan)
  /\ WithReceiver = {} /\ WithReceiver' = {r}
  /\ UNCHANGED <<reg, WithCollector, queue, WithWorker>>

Pushed(r) ==
  /\ WithReceiver = {r} /\ WithReceiver' = {}
  /\ queue' = Append(queue, r)
  /\ UNCHANGED <<reg, WithCollector, chan, WithWorker>>

Dropped(r) ==
  /\ WithReceiver = {r} /\ WithReceiver' = {} /\ reg' = reg \ {r}
  /\ UNCHANGED <<WithCollector, chan, queue, WithWorker>>

\* The worker pops it, and returns in the end.
Popped(r) ==
  /\ queue # <<>> /\ r = Head(queue) /\ queue' = Tail(queue)
  /\ WithWorker = {} /\ WithWorker' = {r}
  /\ UNCHANGED <<reg, WithCollector, chan, WithReceiver>>

Returned(r) ==
  /\ WithWorker = {r} /\ WithWorker' = {} /\ reg' = reg \ {r}
  /\ UNCHANGED <<WithCollector, chan, WithReceiver, queue>>

\* The process is restarted: every place is empty.
Restarted ==
  /\ reg' = {} /\ chan' = <<>> /\ queue' = <<>>
  /\ WithCollector' = {} /\ WithReceiver' = {} /\ WithWorker' = {}

Moves(r) ==
  \/ Acquired(r) \/ Sent(r) \/ GivenUp(r) \/ Taken(r) \/ Pushed(r) \/ Dropped(r)
  \/ Popped(r) \/ Returned(r)

Move == StaysPut \/ Restarted \/ \E r \in Records : Moves(r)

\* A place does not change when the variables it depends on do not.
LEMMA PlacesUnchanged ==
  /\ UNCHANGED collector => UNCHANGED WithCollector
  /\ UNCHANGED receiver => UNCHANGED WithReceiver
  /\ UNCHANGED worker => UNCHANGED WithWorker
BY DEF collector, receiver, worker, WithCollector, WithReceiver, WithWorker

LEMMA CollectorMoves == TypeInv /\ Collector => Move
<1> SUFFICES ASSUME TypeInv, Collector PROVE Move
  OBVIOUS
<1> USE PlacesUnchanged DEF Move
<1>1. CASE CollectStart \/ CollectEnd \/ CollectLoad \/ CollectExpire
  <2>1. WithCollector = {} /\ WithCollector' = {}
    BY <1>1 DEF CollectStart, CollectEnd, CollectLoad, CollectExpire, NextRecord, CollectorGoto,
       WithCollector
  <2>2. UNCHANGED <<reg, chan, queue, receiver, worker>>
    BY <1>1 DEF CollectStart, CollectEnd, CollectLoad, CollectExpire, handoff
  <2> QED
    BY <2>1, <2>2 DEF StaysPut
<1>2. CASE CollectAcquire
  <2>1. UNCHANGED <<chan, queue, receiver, worker>> /\ WithCollector = {} /\ crec \in Records
    BY <1>2 DEF CollectAcquire, WithCollector, TypeInv, CollectorType
  <2>2. CASE TryAcquire(crec) /\ CollectorGoto(IF crc.named THEN "send" ELSE "create")
    <3>1. WithCollector' = {crec}
      BY <2>2 DEF CollectorGoto, WithCollector
    <3> QED
      BY <2>1, <2>2, <3>1 DEF Acquired, Moves, TryAcquire
  <2>3. CASE crec \in reg /\ NextRecord(crec) /\ UNCHANGED reg
    BY <2>1, <2>3 DEF StaysPut, NextRecord, WithCollector
  <2> QED
    BY <1>2, <2>2, <2>3 DEF CollectAcquire
<1>3. CASE CollectCreate \/ CollectNameBegin \/ CollectNameWrite
  <2>1. UNCHANGED WithCollector
    BY <1>3 DEF CollectCreate, CollectNameBegin, CollectNameWrite, CollectorGoto, CollectorNamed,
       WithCollector
  <2>2. UNCHANGED <<reg, chan, queue, receiver, worker>>
    BY <1>3 DEF CollectCreate, CollectNameBegin, CollectNameWrite, handoff
  <2> QED
    BY <2>1, <2>2 DEF StaysPut
<1>4. CASE CollectCreateFails
  <2>1. WithCollector = {crec} /\ WithCollector' = {} /\ crec \in Records
    BY <1>4 DEF CollectCreateFails, NextRecord, WithCollector, TypeInv, CollectorType
  <2> QED
    BY <1>4, <2>1 DEF CollectCreateFails, Release, GivenUp, Moves
<1>5. CASE CollectSend
  <2>1. WithCollector = {crec} /\ WithCollector' = {} /\ crec \in Records
    BY <1>5 DEF CollectSend, NextRecord, WithCollector, TypeInv, CollectorType
  <2>2. \/ chan' = Append(chan, crec) /\ UNCHANGED reg
        \/ Release(crec) /\ UNCHANGED chan
    BY <1>5 DEF CollectSend
  <2> QED
    BY <1>5, <2>1, <2>2 DEF CollectSend, Release, Sent, GivenUp, Moves
<1> QED
  BY <1>1, <1>2, <1>3, <1>4, <1>5 DEF Collector

LEMMA ReceiverMoves == TypeInv /\ Receiver => Move
<1> SUFFICES ASSUME TypeInv, Receiver PROVE Move
  OBVIOUS
<1> USE PlacesUnchanged DEF Move
<1>1. CASE ReceiverTake
  <2>1. WithReceiver = {} /\ WithReceiver' = {Head(chan)}
    BY <1>1 DEF ReceiverTake, WithReceiver
  <2>2. Head(chan) \in Records
    BY <1>1, HeadTailProperties DEF ReceiverTake, TypeInv, HandoffType
  <2> QED
    BY <1>1, <2>1, <2>2 DEF ReceiverTake, Taken, Moves
<1>2. CASE ReceiverCheck
  <2>1. WithReceiver = {rrec} /\ rrec \in Records
    BY <1>2 DEF ReceiverCheck, WithReceiver, TypeInv, ReceiverType
  <2>2. CASE Release(rrec) /\ ReceiverDone
    BY <1>2, <2>1, <2>2 DEF ReceiverCheck, ReceiverDone, Release, Dropped, Moves, WithReceiver
  <2>3. CASE rpc' = "push" /\ UNCHANGED <<rrec, reg>>
    BY <1>2, <2>1, <2>3 DEF ReceiverCheck, StaysPut, WithReceiver
  <2> QED
    BY <1>2, <2>2, <2>3 DEF ReceiverCheck
<1>3. CASE ReceiverPush
  <2>1. WithReceiver = {rrec} /\ WithReceiver' = {} /\ rrec \in Records
    BY <1>3 DEF ReceiverPush, ReceiverDone, WithReceiver, TypeInv, ReceiverType
  <2>2. \/ queue' = Append(queue, rrec) /\ UNCHANGED reg
        \/ Release(rrec) /\ UNCHANGED queue
    BY <1>3 DEF ReceiverPush
  <2> QED
    BY <1>3, <2>1, <2>2 DEF ReceiverPush, Release, Pushed, Dropped, Moves
<1> QED
  BY <1>1, <1>2, <1>3 DEF Receiver

\* A step of the worker after its pop: it goes on with its record, or returns.
LEMMA WorkerGoesOnOrReturns ==
  ASSUME TypeInv, wpc # "idle", UNCHANGED <<chan, queue, collector, receiver>>,
         \/ wpc' # "idle" /\ UNCHANGED <<wrec, reg>>
         \/ WorkerReturns
  PROVE  Move
<1>1. WithWorker = {wrec} /\ wrec \in Records
  BY DEF WithWorker, TypeInv, WorkerType
<1>2. CASE wpc' # "idle" /\ UNCHANGED <<wrec, reg>>
  BY <1>1, <1>2, PlacesUnchanged DEF WithWorker, StaysPut, Move
<1>3. CASE WorkerReturns
  BY <1>1, <1>3, PlacesUnchanged DEF WorkerReturns, Release, WithWorker, Returned, Moves, Move
<1> QED
  BY <1>2, <1>3

LEMMA WorkerMoves == TypeInv /\ Worker => Move
<1> SUFFICES ASSUME TypeInv, Worker PROVE Move
  OBVIOUS
<1>1. CASE WorkerPop
  <2>1. WithWorker = {} /\ WithWorker' = {Head(queue)}
    BY <1>1 DEF WorkerPop, WithWorker
  <2>2. Head(queue) \in Records
    BY <1>1, HeadTailProperties DEF WorkerPop, TypeInv, HandoffType
  <2> QED
    BY <1>1, <2>1, <2>2, PlacesUnchanged DEF WorkerPop, Popped, Moves, Move
<1>2. CASE ~WorkerPop
  <2>1. wpc # "idle" /\ UNCHANGED <<chan, queue, collector, receiver>>
    BY <1>2 DEF Worker, WorkerLoad, WorkerDeclines, WorkerAccepts, WorkerAcceptsFile, WorkerStart,
       WorkerNextFile, WorkerPut, WorkerPutFails, WorkerProgressBegin, WorkerProgressWrite,
       WorkerAllTried, WorkerLabel, WorkerLabelFails, WorkerReport, WorkerFinishBegin,
       WorkerFinishWrite, WorkerClean
  <2>2. \/ wpc' # "idle" /\ UNCHANGED <<wrec, reg>>
        \/ WorkerReturns
    BY <1>2, <2>1 DEF Worker, WorkerGoto, WorkerLoad, WorkerDeclines, WorkerAccepts,
       WorkerAcceptsFile, WorkerStart, WorkerNextFile, WorkerPut, WorkerPutFails,
       WorkerProgressBegin, WorkerProgressWrite, WorkerAllTried, WorkerLabel, WorkerLabelFails,
       WorkerReport, WorkerFinishBegin, WorkerFinishWrite, WorkerClean
  <2> QED
    BY <2>1, <2>2, WorkerGoesOnOrReturns
<1> QED
  BY <1>1, <1>2

LEMMA OthersMove == Canceller \/ Environment \/ UNCHANGED vars => Move
<1>1. CASE Crash
  BY <1>1 DEF Crash, WithCollector, WithReceiver, WithWorker, Restarted, Move
<1>2. ASSUME Canceller \/ Environment \/ UNCHANGED vars, ~Crash
      PROVE  UNCHANGED <<reg, chan, queue, collector, receiver, worker>>
  BY <1>2 DEF Canceller, CancelStart, CancelLoad, CancelSkipBegin, CancelSkipWrite, CancelScanned,
     CancelReport, CancelReportFails, CancelReported, Environment, Tick, SaveRecord, AcceptTask,
     UserCancels, Expires, FileVanishes, vars, handoff
<1> QED
  BY <1>1, <1>2, PlacesUnchanged DEF StaysPut, Move

LEMMA EveryStepMoves == TypeInv /\ [Next]_vars => Move
BY CollectorMoves, ReceiverMoves, WorkerMoves, OthersMove DEF Next, Environment

-----------------------------------------------------------------------------
(***************************************************************************)
(* The invariant.                                                          *)
(***************************************************************************)

\* What appending an element to a sequence, and removing its head, does to the
\* set of its elements.
LEMMA RangeOfAppend ==
  ASSUME NEW S, NEW s \in Seq(S), NEW e \in S
  PROVE  /\ Range(Append(s, e)) = Range(s) \cup {e}
         /\ NoDuplicates(s) /\ e \notin Range(s) => NoDuplicates(Append(s, e))
<1>1. /\ Append(s, e) \in Seq(S)
      /\ Len(Append(s, e)) = Len(s) + 1 /\ Len(s) \in Nat
      /\ \A i \in 1..Len(s) : Append(s, e)[i] = s[i]
      /\ Append(s, e)[Len(s) + 1] = e
  BY AppendProperties, LenProperties
<1>2. DOMAIN Append(s, e) = 1..(Len(s) + 1) /\ DOMAIN s = 1..Len(s)
  BY <1>1, LenProperties
<1>3. Range(Append(s, e)) = Range(s) \cup {e}
  <2>1. ASSUME NEW x \in Range(Append(s, e)) PROVE x \in Range(s) \cup {e}
    BY <1>1, <1>2 DEF Range
  <2>2. ASSUME NEW x \in Range(s) \cup {e} PROVE x \in Range(Append(s, e))
    <3>1. CASE x = e
      <4>1. Len(s) + 1 \in DOMAIN Append(s, e)
        BY <1>1, <1>2
      <4> QED
        BY <1>1, <3>1, <4>1 DEF Range
    <3>2. CASE x \in Range(s)
      <4>1. PICK i \in 1..Len(s) : x = s[i]
        BY <1>2, <3>2 DEF Range
      <4>2. i \in DOMAIN Append(s, e) /\ Append(s, e)[i] = x
        BY <1>1, <1>2, <4>1
      <4> QED
        BY <4>2 DEF Range
    <3> QED
      BY <2>2, <3>1, <3>2
  <2> QED
    BY <2>1, <2>2
<1>4. ASSUME NoDuplicates(s), e \notin Range(s) PROVE NoDuplicates(Append(s, e))
  <2>1. \A i \in 1..Len(s) : s[i] # e
    BY <1>2, <1>4 DEF Range
  <2> QED
    BY <1>1, <1>4, <2>1 DEF NoDuplicates
<1> QED
  BY <1>3, <1>4

LEMMA RangeOfTail ==
  ASSUME NEW S, NEW s \in Seq(S), s # <<>>
  PROVE  /\ Head(s) \in Range(s)
         /\ NoDuplicates(s) => /\ Range(Tail(s)) = Range(s) \ {Head(s)}
                               /\ NoDuplicates(Tail(s))
<1>1. /\ Tail(s) \in Seq(S) /\ Len(Tail(s)) = Len(s) - 1 /\ Len(s) \in Nat \ {0}
      /\ \A i \in 1..Len(Tail(s)) : Tail(s)[i] = s[i + 1]
      /\ Head(s) = s[1]
  BY HeadTailProperties, EmptySeq
<1>2. DOMAIN Tail(s) = 1..(Len(s) - 1) /\ DOMAIN s = 1..Len(s)
  BY <1>1, LenProperties
<1>3. Head(s) \in Range(s)
  <2>1. 1 \in DOMAIN s
    BY <1>1, <1>2
  <2> QED
    BY <1>1, <2>1 DEF Range
<1>4. ASSUME NoDuplicates(s) PROVE Range(Tail(s)) = Range(s) \ {Head(s)}
  <2>1. ASSUME NEW x \in Range(Tail(s)) PROVE x \in Range(s) \ {Head(s)}
    <3>1. PICK i \in 1..(Len(s) - 1) : x = Tail(s)[i]
      BY <1>2, <2>1 DEF Range
    <3>2. i + 1 \in 1..Len(s) /\ 1 \in 1..Len(s) /\ i + 1 # 1 /\ x = s[i + 1]
      BY <1>1, <3>1
    <3>3. x # s[1]
      BY <1>4, <3>2 DEF NoDuplicates
    <3> QED
      BY <1>1, <1>2, <3>2, <3>3 DEF Range
  <2>2. ASSUME NEW x \in Range(s) \ {Head(s)} PROVE x \in Range(Tail(s))
    <3>1. PICK i \in 1..Len(s) : x = s[i]
      BY <1>2, <2>2 DEF Range
    <3>2. i # 1
      BY <1>1, <2>2, <3>1
    <3>3. i - 1 \in 1..(Len(s) - 1) /\ (i - 1) + 1 = i
      BY <1>1, <3>1, <3>2
    <3>4. i - 1 \in DOMAIN Tail(s) /\ Tail(s)[i - 1] = x
      BY <1>1, <1>2, <3>1, <3>3
    <3> QED
      BY <3>4 DEF Range
  <2> QED
    BY <2>1, <2>2
<1>5. ASSUME NoDuplicates(s) PROVE NoDuplicates(Tail(s))
  <2> SUFFICES ASSUME NEW i \in 1..Len(Tail(s)), NEW j \in 1..Len(Tail(s)), Tail(s)[i] = Tail(s)[j]
               PROVE  i = j
    BY DEF NoDuplicates
  <2>1. i + 1 \in 1..Len(s) /\ j + 1 \in 1..Len(s) /\ s[i + 1] = s[j + 1]
    BY <1>1
  <2>2. i + 1 = j + 1
    BY <1>5, <2>1 DEF NoDuplicates
  <2> QED
    BY <2>2
<1> QED
  BY <1>3, <1>4, <1>5

\* Every move keeps the accounting of the tokens.
LEMMA MoveKeepsAccounting ==
  ASSUME TypeInv, TokenAccounting, Move
  PROVE  TokenAccounting'
<1> USE DEF TokenAccounting
<1>a. chan \in Seq(Records) /\ queue \in Seq(Records)
  BY DEF TypeInv, HandoffType
<1>1. CASE StaysPut
  <2>1. Range(chan)' = Range(chan) /\ Range(queue)' = Range(queue)
    BY <1>1 DEF StaysPut
  <2>2. NoDuplicates(chan)' /\ NoDuplicates(queue)'
    BY <1>1 DEF StaysPut, NoDuplicates
  <2> QED
    BY <1>1, <2>1, <2>2 DEF StaysPut
<1>2. CASE Restarted
  <2>1. Range(<<>>) = {} /\ NoDuplicates(<<>>)
    BY EmptySeq DEF Range, NoDuplicates
  <2> QED
    BY <1>2, <2>1 DEF Restarted
<1>3. ASSUME NEW r \in Records, Moves(r) PROVE TokenAccounting'
  <2>1. CASE Acquired(r)
    BY <2>1 DEF Acquired
  <2>2. CASE Sent(r)
    <3>1. r \notin Range(chan)
      BY <2>2 DEF Sent
    <3>2. Range(chan') = Range(chan) \cup {r} /\ NoDuplicates(chan')
      BY <1>a, <2>2, <3>1, RangeOfAppend DEF Sent
    <3> QED
      BY <2>2, <3>2 DEF Sent
  <2>3. CASE GivenUp(r)
    BY <2>3 DEF GivenUp
  <2>4. CASE Taken(r)
    <3>1. r \in Range(chan) /\ Range(chan') = Range(chan) \ {r} /\ NoDuplicates(chan')
      BY <1>a, <2>4, RangeOfTail DEF Taken
    <3> QED
      BY <2>4, <3>1 DEF Taken
  <2>5. CASE Pushed(r)
    <3>1. r \notin Range(queue)
      BY <2>5 DEF Pushed
    <3>2. Range(queue') = Range(queue) \cup {r} /\ NoDuplicates(queue')
      BY <1>a, <2>5, <3>1, RangeOfAppend DEF Pushed
    <3> QED
      BY <2>5, <3>2 DEF Pushed
  <2>6. CASE Dropped(r)
    BY <2>6 DEF Dropped
  <2>7. CASE Popped(r)
    <3>1. r \in Range(queue) /\ Range(queue') = Range(queue) \ {r} /\ NoDuplicates(queue')
      BY <1>a, <2>7, RangeOfTail DEF Popped
    <3> QED
      BY <2>7, <3>1 DEF Popped
  <2>8. CASE Returned(r)
    BY <2>8 DEF Returned
  <2> QED
    BY <1>3, <2>1, <2>2, <2>3, <2>4, <2>5, <2>6, <2>7, <2>8 DEF Moves
<1> QED
  BY <1>1, <1>2, <1>3 DEF Move

LEMMA TokenInit == Init => TokenAccounting
<1> SUFFICES ASSUME Init PROVE TokenAccounting
  OBVIOUS
<1>1. Range(<<>>) = {} /\ NoDuplicates(<<>>)
  BY EmptySeq DEF Range, NoDuplicates
<1> QED
  BY <1>1 DEF Init, TokenAccounting, WithCollector, WithReceiver, WithWorker

\* A record holds its token in recordRegistry exactly while it is in flight, and is
\* then with one goroutine or in one buffer only: whatever the four goroutines do
\* and whenever the process dies, no token leaks and no record is worked on twice.
THEOREM TokensAreAccountedFor == Spec => []TokenAccounting
<1>1. TypeInv /\ TokenAccounting /\ [Next]_vars => TokenAccounting'
  BY EveryStepMoves, MoveKeepsAccounting
<1> QED
  BY <1>1, TokenInit, TypeInductive, PTL DEF Spec

\* The receiver saw room, and nobody else pushes: the queue can only get shorter
\* until the receiver does.
RoomIsLeft == rpc = "push" => ~IsFull

LEMMA RoomNext == TypeInv /\ RoomIsLeft /\ [Next]_vars => RoomIsLeft'
<1> SUFFICES ASSUME TypeInv, RoomIsLeft, [Next]_vars PROVE RoomIsLeft'
  OBVIOUS
<1>1. queue \in Seq(Records) /\ QueueCap \in Nat
  BY CapAssumption DEF TypeInv, HandoffType
<1>2. CASE Receiver
  BY <1>2 DEF Receiver, ReceiverTake, ReceiverCheck, ReceiverPush, ReceiverDone, RoomIsLeft, IsFull
<1>3. CASE UNCHANGED <<receiver, queue>>
  BY <1>3 DEF RoomIsLeft, IsFull, receiver
<1>4. CASE Worker
  <2>1. UNCHANGED receiver /\ (queue' = queue \/ (queue # <<>> /\ queue' = Tail(queue)))
    BY <1>4 DEF Worker, WorkerPop, WorkerLoad, WorkerDeclines, WorkerAccepts, WorkerAcceptsFile, WorkerStart,
       WorkerNextFile, WorkerPut, WorkerPutFails, WorkerProgressBegin, WorkerProgressWrite, WorkerAllTried,
       WorkerLabel, WorkerLabelFails, WorkerReport, WorkerFinishBegin, WorkerFinishWrite, WorkerClean
  <2>2. queue # <<>> => Len(Tail(queue)) = Len(queue) - 1 /\ Len(queue) \in Nat
    BY <1>1
  <2> QED  BY <1>1, <2>1, <2>2 DEF RoomIsLeft, IsFull, receiver
<1>5. CASE Crash
  BY <1>5 DEF Crash, RoomIsLeft
<1>6. CASE Collector \/ Canceller \/ (Environment /\ ~Crash) \/ UNCHANGED vars
  <2>1. UNCHANGED <<receiver, queue>>
    BY <1>6 DEF Collector, CollectStart, CollectEnd, CollectLoad, CollectExpire, CollectAcquire, CollectCreate,
       CollectCreateFails, CollectNameBegin, CollectNameWrite, CollectSend, vars, handoff,
       Canceller, SaveRecord, CancelStart, CancelLoad, CancelSkipBegin, CancelSkipWrite, CancelScanned,
       CancelReport, CancelReportFails, CancelReported,
       Environment, Tick, AcceptTask, UserCancels, Expires, FileVanishes
  <2> QED  BY <1>3, <2>1
<1> QED
  BY <1>2, <1>4, <1>5, <1>6 DEF Next, Environment

\* The Push after a look at IsFull is never refused, although the worker may pop
\* in between: there is room left, and a record that is still in the queue holds
\* its token, so that the collector did not send it a second time.
THEOREM PushesAreNotRefused == Spec => []PushNeverRefused
<1>1. Init => RoomIsLeft
  BY DEF Init, RoomIsLeft
<1>2. RoomIsLeft /\ TokenAccounting => PushNeverRefused
  BY DEF RoomIsLeft, TokenAccounting, WithReceiver, PushNeverRefused, PushRefused
<1> QED
  BY <1>1, <1>2, RoomNext, TypeInductive, TokensAreAccountedFor, PTL DEF Spec

-----------------------------------------------------------------------------
(***************************************************************************)
(* The refinement.                                                         *)
(***************************************************************************)

\* A record has another stage than "free" exactly when it is in that place.
LEMMA StagesArePlaces ==
  ASSUME TokenAccounting, NEW r \in Records
  PROVE  /\ stageOf[r] = "collecting" <=> r \in WithCollector
         /\ stageOf[r] = "sent" <=> r \in Range(chan)
         /\ stageOf[r] = "received" <=> r \in WithReceiver
         /\ stageOf[r] = "queued" <=> r \in Range(queue)
         /\ stageOf[r] = "uploading" <=> r \in WithWorker
         /\ stageOf[r] = "free" <=> r \notin reg
BY DEF stageOf, TokenAccounting

\* When no other record changes its stage, the stage function changes for r only.
LEMMA OneStageChanges ==
  ASSUME NEW r \in Records, NEW to,
         stageOf'[r] = to,
         \A x \in Records \ {r} : stageOf'[x] = stageOf[x]
  PROVE  stageOf' = [stageOf EXCEPT ![r] = to]
BY DEF stageOf

\* Every move is a step of RecordHandoff, or changes no stage.
LEMMA MoveIsAHandoff ==
  ASSUME TypeInv, TokenAccounting, Move
  PROVE  [Handoff!Next]_stageOf
<1>1. TokenAccounting'
  BY MoveKeepsAccounting
<1>2. chan \in Seq(Records) /\ queue \in Seq(Records)
  BY DEF TypeInv, HandoffType
<1>3. CASE StaysPut
  <2>1. Range(chan') = Range(chan) /\ Range(queue') = Range(queue)
    BY <1>3 DEF StaysPut
  <2> QED
    BY <1>3, <2>1 DEF StaysPut, stageOf
<1>4. CASE Restarted
  <2>1. Range(<<>>) = {}
    BY EmptySeq DEF Range
  <2>2. stageOf' = [r \in Records |-> "free"]
    BY <1>4, <2>1 DEF Restarted, stageOf
  <2> QED
    BY <2>2 DEF Handoff!Next, Handoff!Crash
<1>5. ASSUME NEW r \in Records, Moves(r) PROVE Handoff!Next
  <2>1. CASE Acquired(r)
    <3>1. Handoff!Nobody("collecting") /\ stageOf[r] = "free"
      BY <2>1, StagesArePlaces DEF Acquired, Handoff!Nobody
    <3>2. stageOf' = [stageOf EXCEPT ![r] = "collecting"]
      BY <2>1, OneStageChanges DEF Acquired, stageOf
    <3> QED
      BY <3>1, <3>2 DEF Handoff!Next, Handoff!Acquire, Handoff!Move
  <2>2. CASE Sent(r)
    <3>1. Range(chan') = Range(chan) \cup {r}
      BY <1>2, <2>2, RangeOfAppend DEF Sent
    <3>2. stageOf[r] = "collecting" /\ stageOf' = [stageOf EXCEPT ![r] = "sent"]
      BY <2>2, <3>1, OneStageChanges DEF Sent, stageOf
    <3> QED
      BY <3>2 DEF Handoff!Next, Handoff!Send, Handoff!Move
  <2>3. CASE GivenUp(r)
    <3>1. stageOf[r] = "collecting" /\ stageOf' = [stageOf EXCEPT ![r] = "free"]
      BY <2>3, OneStageChanges DEF GivenUp, stageOf, TokenAccounting
    <3> QED
      BY <3>1 DEF Handoff!Next, Handoff!Release, Handoff!Move
  <2>4. CASE Taken(r)
    <3>1. r \in Range(chan) /\ Range(chan') = Range(chan) \ {r}
      BY <1>2, <2>4, RangeOfTail DEF Taken, TokenAccounting
    <3>2. Handoff!Nobody("received") /\ stageOf[r] = "sent"
      BY <2>4, <3>1, StagesArePlaces DEF Taken, Handoff!Nobody
    <3>3. stageOf' = [stageOf EXCEPT ![r] = "received"]
      BY <2>4, <3>1, OneStageChanges DEF Taken, stageOf, TokenAccounting
    <3> QED
      BY <3>2, <3>3 DEF Handoff!Next, Handoff!Take, Handoff!Move
  <2>5. CASE Pushed(r)
    <3>1. Range(queue') = Range(queue) \cup {r}
      BY <1>2, <2>5, RangeOfAppend DEF Pushed
    <3>2. stageOf[r] = "received" /\ stageOf' = [stageOf EXCEPT ![r] = "queued"]
      BY <2>5, <3>1, OneStageChanges DEF Pushed, stageOf, TokenAccounting
    <3> QED
      BY <3>2 DEF Handoff!Next, Handoff!Push, Handoff!Move
  <2>6. CASE Dropped(r)
    <3>1. stageOf[r] = "received" /\ stageOf' = [stageOf EXCEPT ![r] = "free"]
      BY <2>6, OneStageChanges DEF Dropped, stageOf, TokenAccounting
    <3> QED
      BY <3>1 DEF Handoff!Next, Handoff!Release, Handoff!Move
  <2>7. CASE Popped(r)
    <3>1. r \in Range(queue) /\ Range(queue') = Range(queue) \ {r}
      BY <1>2, <2>7, RangeOfTail DEF Popped, TokenAccounting
    <3>2. Handoff!Nobody("uploading") /\ stageOf[r] = "queued"
      BY <2>7, <3>1, StagesArePlaces DEF Popped, Handoff!Nobody
    <3>3. stageOf' = [stageOf EXCEPT ![r] = "uploading"]
      BY <2>7, <3>1, OneStageChanges DEF Popped, stageOf, TokenAccounting
    <3> QED
      BY <3>2, <3>3 DEF Handoff!Next, Handoff!Pop, Handoff!Move
  <2>8. CASE Returned(r)
    <3>1. stageOf[r] = "uploading" /\ stageOf' = [stageOf EXCEPT ![r] = "free"]
      BY <2>8, OneStageChanges DEF Returned, stageOf, TokenAccounting
    <3> QED
      BY <3>1 DEF Handoff!Next, Handoff!Release, Handoff!Move
  <2> QED
    BY <1>5, <2>1, <2>2, <2>3, <2>4, <2>5, <2>6, <2>7, <2>8 DEF Moves
<1> QED
  BY <1>3, <1>4, <1>5 DEF Move

LEMMA HandoffInit == Init => Handoff!Init
<1> SUFFICES ASSUME Init PROVE Handoff!Init
  OBVIOUS
<1>1. Range(<<>>) = {}
  BY EmptySeq DEF Range
<1> QED
  BY <1>1 DEF Init, Handoff!Init, stageOf, WithCollector, WithReceiver, WithWorker

\* The pipeline implements the abstract hand-over: a record moves from the collector
\* through the channel, the receiver and the queue to the worker one stage at a time,
\* and is free again before it is taken a second time.
THEOREM PipelineImplementsHandoff == Spec => HandoffSpec
<1>1. TypeInv /\ TokenAccounting /\ [Next]_vars => [Handoff!Next]_stageOf
  BY EveryStepMoves, MoveIsAHandoff
<1> QED
  BY <1>1, HandoffInit, TypeInductive, TokensAreAccountedFor, PTL DEF Spec, HandoffSpec, Handoff!Spec

=============================================================================

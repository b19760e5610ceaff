------------------------ MODULE MultipartUpload_proof ------------------------
(***************************************************************************)
(* Theorems about MultipartUpload, for any number of parts, of goroutines  *)
(* and of uploads, crashes and failed writes: type correctness, that what  *)
(* is resumed is sound until the three keys come apart, and that only keys *)
(* that did come apart make a call succeed without an object.              *)
(***************************************************************************)
EXTENDS MultipartUpload, Functions, FiniteSetTheorems, TLAPS

-----------------------------------------------------------------------------
(* Type correctness: the call has an upload id whenever it gathers parts. *)

HasId == pc \in {"gather", "putId", "putParts", "putSize"}

TypeInv ==
  /\ storedId \in UploadIds \cup {NoId} /\ storedParts \subseteq CompletePart
  /\ storedSize \in Nat /\ size \in Nat
  /\ pc \in {"idle", "read", "reread", "new", "plan", "gather", "putId", "putParts", "putSize",
             "complete", "cleanId", "cleanParts", "cleanSize", "returned"}
  /\ then \in {"idle", "read", "reread", "returned"}
  /\ id \in UploadIds \cup {NoId} /\ parts \subseteq CompletePart
  /\ todo \subseteq PartNumbers /\ uploading \subseteq PartNumbers /\ results \subseteq PartNumbers
  /\ open \subseteq UploadIds /\ received \subseteq CompletePart /\ object \in BOOLEAN
  /\ changed \in BOOLEAN /\ recorded \in BOOLEAN /\ torn \in BOOLEAN
  /\ faults \in 0..MaxFaults
  /\ HasId \/ pc \in {"plan", "complete"} => id \in UploadIds

\* Each step of the upload keeps the types.
LEMMA UploadTypes == TypeInv /\ Upload => TypeInv'
<1> SUFFICES ASSUME TypeInv, Upload PROVE TypeInv'
  OBVIOUS
<1> USE MultipartAssumption DEF TypeInv, HasId, stored, call, goroutines, store, caller, Goto
<1>1. CASE Call \/ Record \/ CleanId \/ CleanParts
  <2>1. CASE Call
    BY <2>1 DEF Call, CleanThen
  <2>2. CASE Record
    BY <2>2 DEF Record
  <2>3. CASE CleanId
    BY <2>3 DEF CleanId
  <2>4. CASE CleanParts
    BY <2>4 DEF CleanParts
  <2> QED  BY <1>1, <2>1, <2>2, <2>3, <2>4
<1>2. CASE CleanSize
  BY <1>2 DEF CleanSize, Return
<1>3. CASE ReadStored
  BY <1>3 DEF ReadStored, CleanThen
<1>4. CASE NewUpload
  BY <1>4 DEF NewUpload, FreeIds, Without
<1>5. CASE NewUploadFails \/ PartFails
  <2>1. /\ pc' = "idle" /\ UNCHANGED <<then, stored, store, caller, torn, faults>>
        /\ id' = NoId /\ parts' = {} /\ size' = 0
        /\ todo' = {} /\ uploading' = {} /\ results' = {}
    BY <1>5 DEF NewUploadFails, PartFails, Return
  <2> QED  BY <2>1
<1>6. CASE Plan
  BY <1>6 DEF Plan, CleanThen
<1>7. CASE TakePart
  BY <1>7 DEF TakePart, Gathering
<1>8. CASE PartUnknown \/ CompleteUnknown
  BY <1>8 DEF PartUnknown, CompleteUnknown, CleanThen
<1>9. CASE PutId \/ PutParts \/ PutSize
  BY <1>9 DEF PutId, PutParts, PutSize, Put
<1>10. CASE Verify
  BY <1>10 DEF Verify, Return
<1>11. CASE Complete
  BY <1>11 DEF Complete, StoreCompletes, Without, CleanThen
<1>12. CASE CompleteFails
  BY <1>12 DEF CompleteFails, StoreCompletes, Without, Return
<1>13. ASSUME NEW p \in PartNumbers, PutPart(p) PROVE TypeInv'
  BY <1>13 DEF PutPart, Gathering, CompletePart
<1>14. ASSUME NEW p \in PartNumbers, Gather(p) PROVE TypeInv'
  BY <1>14 DEF Gather, CompletePart
<1> QED
  BY <1>1, <1>2, <1>3, <1>4, <1>5, <1>6, <1>7, <1>8, <1>9, <1>10, <1>11, <1>12, <1>13, <1>14
     DEF Upload

LEMMA TypeNext == TypeInv /\ [Next]_vars => TypeInv'
<1> SUFFICES ASSUME TypeInv, [Next]_vars PROVE TypeInv'
  OBVIOUS
<1> USE MultipartAssumption DEF TypeInv, HasId, stored, call, goroutines, store, caller, Fault
<1>1. CASE PutFails
  <2>1. /\ pc \in {"putId", "putParts", "putSize"} /\ pc' \in {"putParts", "putSize", "gather"}
        /\ UNCHANGED <<stored, then, call, goroutines, store, caller>> /\ Fault
    BY <1>1 DEF PutFails, Put, Goto, AfterPut
  <2>2. torn' \in BOOLEAN
    BY <1>1 DEF PutFails
  <2> QED  BY <2>1, <2>2
<1>2. CASE FileChanges
  BY <1>2 DEF FileChanges
<1>3. CASE Crash
  BY <1>3 DEF Crash
<1>4. CASE Finished \/ UNCHANGED vars
  <2>1. UNCHANGED vars
    BY <1>4 DEF Finished
  <2> QED  BY <2>1 DEF vars
<1>5. ASSUME NEW u \in UploadIds, Expire(u) PROVE TypeInv'
  BY <1>5 DEF Expire, Without
<1>6. CASE CleanFails
  BY <1>6 DEF CleanFails, Return, Goto
<1> QED
  BY <1>1, <1>2, <1>3, <1>4, <1>5, <1>6, UploadTypes DEF Next

LEMMA TypeInvariant == Spec => []TypeInv
<1>1. 0 \in 0..MaxFaults
  BY MultipartAssumption
<1>2. Init => TypeInv
  <2>1. Init => /\ changed \in BOOLEAN /\ recorded \in BOOLEAN /\ object \in BOOLEAN
                /\ torn \in BOOLEAN
    BY Zenon DEF Init
  <2> QED  BY <1>1, <2>1 DEF Init, TypeInv, HasId
<1> QED
  BY <1>2, TypeNext, PTL DEF Spec

\* The keys, the call, the goroutines and the store hold what they may.
THEOREM TypeCorrect == Spec => []TypeOK
<1>1. TypeInv => TypeOK
  BY DEF TypeInv, TypeOK
<1> QED
  BY <1>1, TypeInvariant, PTL

-----------------------------------------------------------------------------
(* Soundness, while the three keys have not come apart.  What is stored and     *)
(* what the call works with are each a set of parts of one upload, with their   *)
(* number as size, all of them with the store as long as it knows the upload;   *)
(* the stored upload is that of the call or none.  Between the writes of the    *)
(* parts and of the size, and while the keys are deleted, the stored half of    *)
(* that is suspended.  No part is with two goroutines or twice in the list, so  *)
(* that sizes add up.                                                           *)

SoundParts(u, ps, n) ==
  /\ IsFiniteSet(ps) /\ n = Cardinality(ps)
  /\ \A p \in ps : p[2] = u
  /\ u \in open => ps \subseteq received

StoredInv ==
  /\ ~MidWrite => SoundParts(storedId, storedParts, storedSize)
  /\ pc \in {"putParts", "putSize"} => storedId = id
  /\ pc = "putSize" => storedParts = parts
  /\ pc \in {"cleanParts", "cleanSize"} => storedId = NoId
  /\ pc = "cleanSize" => storedParts = {}
  /\ pc = "reread" => storedSize = 0
  /\ pc = "new" => storedId = NoId
  /\ HasId \/ pc = "plan" => storedId \in {NoId, id}

CallInv ==
  /\ HasId \/ pc \in {"plan", "complete"} => SoundParts(id, parts, size)
  /\ pc = "new" => parts = {} /\ size = 0

GoroutinesInv ==
  /\ pc \in {"idle", "read", "reread", "new", "plan", "returned"} => todo = {} /\ uploading = {} /\ results = {}
  /\ HasId => /\ \A p \in parts : p[1] \notin todo \cup uploading \cup results
              /\ todo \cap uploading = {} /\ todo \cap results = {} /\ uploading \cap results = {}
              /\ id \in open => \A p \in results : <<p, id>> \in received

SuccessInv == Succeeded => object

SoundInv == StoredInv /\ CallInv /\ GoroutinesInv /\ SuccessInv

\* Whether or not the keys have come apart: a call is made only until the file is
\* recorded, and the keys are deleted after a success only when there is an object.
TailInv ==
  /\ pc # "idle" => ~recorded
  /\ pc \in {"cleanId", "cleanParts", "cleanSize"} /\ then = "returned" => object

LEMMA TailNext == TypeInv /\ TailInv /\ [Next]_vars => TailInv'
<1> SUFFICES ASSUME TypeInv, TailInv, [Next]_vars PROVE TailInv'
  OBVIOUS
<1> USE DEF TailInv, Goto, CleanThen, Return, caller, store
<1>1. CASE Call \/ Record \/ FileChanges
  BY <1>1 DEF Call, Record, FileChanges
<1>2. CASE CleanId \/ CleanParts \/ CleanSize \/ CleanFails
  BY <1>2 DEF CleanId, CleanParts, CleanSize, CleanFails
<1>3. CASE ReadStored \/ NewUpload \/ NewUploadFails \/ Plan \/ PartFails \/ PartUnknown
  BY <1>3 DEF ReadStored, NewUpload, NewUploadFails, Plan, PartFails, PartUnknown
<1>4. CASE TakePart \/ (\E p \in PartNumbers : PutPart(p) \/ Gather(p))
  BY <1>4 DEF TakePart, PutPart, Gather, Gathering
<1>5. CASE PutId \/ PutParts \/ PutSize \/ PutFails
  <2>1. /\ pc \in {"putId", "putParts", "putSize"} /\ pc' \in {"putParts", "putSize", "gather"}
        /\ UNCHANGED <<caller>>
    BY <1>5 DEF PutId, PutParts, PutSize, PutFails, Put, AfterPut
  <2> QED  BY <2>1
<1>6. CASE Verify \/ Complete \/ CompleteFails \/ CompleteUnknown
  BY <1>6 DEF Verify, Complete, CompleteFails, CompleteUnknown, StoreCompletes
<1>7. CASE Crash \/ (\E u \in UploadIds : Expire(u)) \/ Finished \/ UNCHANGED vars
  BY <1>7 DEF Crash, Expire, Finished, vars
<1> QED
  BY <1>1, <1>2, <1>3, <1>4, <1>5, <1>6, <1>7 DEF Next, Upload

\* No part, and a part more.
LEMMA SoundNone == \A u : SoundParts(u, {}, 0)
BY FS_EmptySet DEF SoundParts

LEMMA SoundMore ==
  ASSUME NEW u, NEW ps, NEW n, SoundParts(u, ps, n), NEW p,
         \A q \in ps : q[1] # p, u \in open => <<p, u>> \in received
  PROVE  SoundParts(u, ps \cup {<<p, u>>}, n + 1)
<1>1. <<p, u>> \notin ps
  OBVIOUS
<1>2. /\ IsFiniteSet(ps \cup {<<p, u>>})
      /\ Cardinality(ps \cup {<<p, u>>}) = Cardinality(ps) + 1
  BY <1>1, FS_AddElement DEF SoundParts
<1> QED
  BY <1>2 DEF SoundParts

\* Parts with all the numbers have the size of the file.
LEMMA AllParts ==
  ASSUME TypeInv, SoundParts(id, parts, size), Numbers(parts) = PartNumbers
  PROVE  size = NumParts
<1> DEFINE f == [p \in parts |-> p[1]]
<1>1. \A p \in parts : p[1] \in PartNumbers /\ p[2] = id /\ p = <<p[1], p[2]>>
  BY DEF TypeInv, CompletePart, SoundParts
<1>2. f \in Surjection(parts, PartNumbers)
  <2>1. f \in [parts -> PartNumbers]
    BY <1>1
  <2>2. \A n \in PartNumbers : \E p \in parts : f[p] = n
    BY DEF Numbers
  <2> QED  BY <2>1, <2>2 DEF Surjection
<1>3. f \in Injection(parts, PartNumbers)
  <2>1. f \in [parts -> PartNumbers]
    BY <1>1
  <2>2. \A p, q \in parts : f[p] = f[q] => p = q
    BY <1>1
  <2> QED  BY <2>1, <2>2 DEF Injection, IsInjective
<1>4. Cardinality(PartNumbers) = Cardinality(parts)
  BY <1>2, <1>3, FS_Surjection DEF SoundParts
<1>5. Cardinality(PartNumbers) = NumParts
  BY FS_Interval, MultipartAssumption DEF PartNumbers
<1> QED
  BY <1>4, <1>5 DEF SoundParts

\* The store forgets an upload, or gets a part: what is sound stays so.
LEMMA SoundAfter ==
  ASSUME NEW u, NEW ps, NEW n, SoundParts(u, ps, n),
         \/ \E v : open' = open \ {v} /\ received' = Without(v)
         \/ \E v : v # u /\ open' = open \cup {v} /\ received' = Without(v)
         \/ open' = open /\ received \subseteq received'
  PROVE  SoundParts(u, ps, n)'
BY DEF SoundParts, Without

\* The steps that leave the store alone.
LEMMA Quiet ==
  ASSUME UNCHANGED store, NEW u, NEW ps, NEW n, SoundParts(u, ps, n)
  PROVE  SoundParts(u, ps, n)'
BY DEF SoundParts, store

LEMMA CallerSteps ==
  ASSUME TypeInv, TailInv, SoundInv, Call \/ Record \/ CleanId \/ CleanParts \/ CleanSize \/ FileChanges
  PROVE  SoundInv'
<1> USE DEF SoundInv, StoredInv, CallInv, GoroutinesInv, SuccessInv, Succeeded, MidWrite, HasId, Goto,
            stored, call, goroutines, store, caller
<1>0. UNCHANGED store
  BY DEF Call, Record, CleanId, CleanParts, CleanSize, FileChanges
<1>1. CASE Call
  BY <1>1, Quiet DEF Call, CleanThen
<1>2. CASE Record \/ FileChanges
  <2>1. /\ pc \in {"returned", "idle"} /\ pc' = "idle" /\ (recorded' => recorded \/ pc = "returned")
        /\ UNCHANGED <<stored, then, call, goroutines, store>>
    BY <1>2 DEF Record, FileChanges
  <2> QED  BY <2>1, Quiet
<1>3. CASE CleanId
  BY <1>3 DEF CleanId
<1>4. CASE CleanParts
  BY <1>4 DEF CleanParts
<1>5. CASE CleanSize
  <2>1. /\ pc' = then /\ then' = then /\ id' = NoId /\ parts' = {} /\ size' = 0
        /\ todo' = {} /\ uploading' = {} /\ results' = {}
        /\ storedSize' = 0 /\ storedId' = NoId /\ storedParts' = {}
        /\ UNCHANGED <<store, caller>>
    BY <1>5 DEF CleanSize, Return
  <2>2. SoundParts(NoId, {}, 0)'
    BY <1>0, SoundNone, Quiet
  <2>3. then \in {"idle", "read", "reread", "returned"}
    BY DEF TypeInv
  <2>4. then = "returned" => object
    BY <1>5 DEF CleanSize, TailInv
  <2> QED  BY <1>5, <2>1, <2>2, <2>3, <2>4 DEF CleanSize
<1> QED
  BY <1>1, <1>2, <1>3, <1>4, <1>5

\* The steps before the parts are uploaded, and those that give up.
LEMMA StartSteps ==
  ASSUME TypeInv, SoundInv, ReadStored \/ NewUpload \/ NewUploadFails \/ Plan \/ PartFails
                              \/ PartUnknown \/ CompleteUnknown
  PROVE  SoundInv'
<1> USE DEF SoundInv, StoredInv, CallInv, GoroutinesInv, SuccessInv, Succeeded, MidWrite, HasId, Goto,
            stored, call, goroutines, store, caller
<1>1. CASE ReadStored
  <2>1. UNCHANGED store
    BY <1>1 DEF ReadStored
  <2>2. storedId = NoId => storedParts = {} /\ storedSize = 0
    BY <1>1, MultipartAssumption, FS_EmptySet DEF ReadStored, TypeInv, CompletePart, SoundParts
  <2>3. CASE pc = "read" /\ storedSize > NumParts
    BY <1>1, <2>1, <2>3, Quiet DEF ReadStored, CleanThen
  <2>4. CASE ~(pc = "read" /\ storedSize > NumParts)
    <3>1. /\ pc \in {"read", "reread"} /\ id' = storedId /\ parts' = storedParts /\ size' = storedSize
          /\ pc' = IF storedId = NoId THEN "new" ELSE "plan"
          /\ UNCHANGED <<then, stored, goroutines, store, caller>>
      BY <1>1, <2>4 DEF ReadStored
    <3> QED  BY <2>1, <2>2, <3>1, Quiet
  <2> QED  BY <2>3, <2>4
<1>2. CASE NewUpload
  <2>1. PICK u \in FreeIds : id' = u /\ open' = open \cup {u} /\ received' = Without(u)
    BY <1>2 DEF NewUpload
  <2>2. SoundParts(storedId, storedParts, storedSize)'
    BY <1>2, <2>1, SoundAfter DEF NewUpload, FreeIds
  <2>3. SoundParts(u, {}, 0)'
    BY FS_EmptySet DEF SoundParts
  <2> QED  BY <1>2, <2>1, <2>2, <2>3 DEF NewUpload
<1>3. CASE NewUploadFails \/ PartFails
  <2>1. /\ pc' = "idle" /\ UNCHANGED <<then, stored, store, caller>>
        /\ todo' = {} /\ uploading' = {} /\ results' = {} /\ ~MidWrite
    BY <1>3 DEF NewUploadFails, PartFails, Return
  <2> QED  BY <2>1, Quiet
<1>4. CASE Plan
  <2>1. /\ pc = "plan" /\ UNCHANGED <<stored, call, store, caller>>
        /\ \/ /\ todo' = PartNumbers \ Numbers(parts) /\ pc' = "gather"
              /\ UNCHANGED <<uploading, results, then>>
           \/ pc' = "complete" /\ UNCHANGED <<goroutines, then>>
           \/ pc' = "cleanId" /\ then' = "idle" /\ UNCHANGED goroutines
    BY <1>4 DEF Plan, CleanThen
  <2>2. \A p \in parts : p[1] \in Numbers(parts)
    BY DEF Numbers
  <2> QED  BY <2>1, <2>2, Quiet
<1>5. CASE PartUnknown \/ CompleteUnknown
  <2>1. /\ pc \in {"gather", "complete"} /\ pc' = "cleanId" /\ then' = "idle"
        /\ UNCHANGED <<stored, call, goroutines, store, caller>>
    BY <1>5 DEF PartUnknown, CompleteUnknown, CleanThen
  <2> QED  BY <2>1, Quiet
<1> QED
  BY <1>1, <1>2, <1>3, <1>4, <1>5

\* The parts: taken, put, gathered; and the three keys.
LEMMA GatherSteps ==
  ASSUME TypeInv, SoundInv, TakePart \/ PutId \/ PutParts \/ PutSize
                              \/ (\E p \in PartNumbers : PutPart(p) \/ Gather(p))
  PROVE  SoundInv'
<1> USE DEF SoundInv, StoredInv, CallInv, GoroutinesInv, SuccessInv, Succeeded, MidWrite, HasId, Goto,
            stored, call, goroutines, store, caller
<1>1. CASE TakePart
  BY <1>1, Quiet DEF TakePart, Gathering
<1>2. CASE PutId
  <2>1. /\ pc = "putId" /\ pc' = "putParts" /\ storedId' = id
        /\ UNCHANGED <<then, storedParts, storedSize, call, goroutines, store, caller>>
    BY <1>2 DEF PutId, Put
  <2>2. SoundParts(id, storedParts, storedSize)
    <3>1. CASE storedId = id
      BY <2>1, <3>1
    <3>2. CASE storedId = NoId
      <4>1. storedParts = {} /\ storedSize = 0
        BY <2>1, <3>2, MultipartAssumption, FS_EmptySet DEF TypeInv, CompletePart, SoundParts
      <4> QED  BY <4>1, SoundNone
    <3> QED  BY <2>1, <3>1, <3>2
  <2> QED  BY <2>1, <2>2, Quiet
<1>3. CASE PutParts
  BY <1>3, Quiet DEF PutParts, Put
<1>4. CASE PutSize
  BY <1>4, Quiet DEF PutSize, Put
<1>5. ASSUME NEW p \in PartNumbers, PutPart(p) PROVE SoundInv'
  <2>1. /\ HasId /\ p \in uploading /\ open' = open /\ received' = received \cup {<<p, id>>}
        /\ uploading' = uploading \ {p} /\ results' = results \cup {p}
        /\ UNCHANGED <<stored, pc, then, call, todo, object, caller>>
    BY <1>5 DEF PutPart, Gathering
  <2>2. \A u, ps, n : SoundParts(u, ps, n) => SoundParts(u, ps, n)'
    BY <2>1, SoundAfter
  <2> QED  BY <2>1, <2>2
<1>6. ASSUME NEW p \in PartNumbers, Gather(p) PROVE SoundInv'
  <2>1. /\ pc = "gather" /\ p \in results /\ results' = results \ {p}
        /\ parts' = parts \cup {<<p, id>>} /\ size' = size + 1 /\ pc' = "putId"
        /\ UNCHANGED <<then, stored, id, todo, uploading, store, caller>>
    BY <1>6 DEF Gather
  <2>2. SoundParts(id, parts \cup {<<p, id>>}, size + 1)
    BY <2>1, SoundMore
  <2>3. SoundParts(id, parts, size)'
    BY <2>1, <2>2, Quiet
  <2> QED  BY <2>1, <2>3, Quiet
<1> QED
  BY <1>1, <1>2, <1>3, <1>4, <1>5, <1>6

\* The end of the call.
LEMMA EndSteps ==
  ASSUME TypeInv, SoundInv, Verify \/ Complete \/ CompleteFails
  PROVE  SoundInv'
<1> USE DEF SoundInv, StoredInv, CallInv, GoroutinesInv, SuccessInv, Succeeded, MidWrite, HasId, Goto,
            stored, call, goroutines, store, caller
<1>1. CASE Verify
  <2>1. size = NumParts
    BY <1>1, AllParts DEF Verify
  <2>2. /\ pc = "gather" /\ pc' = "complete"
        /\ UNCHANGED <<then, stored, call, goroutines, store, caller>>
    BY <1>1, <2>1 DEF Verify
  <2> QED  BY <2>2, Quiet
<1>2. CASE Complete
  <2>1. /\ pc = "complete" /\ pc' = "cleanId" /\ object' = TRUE
        /\ open' = open \ {id} /\ received' = Without(id)
        /\ UNCHANGED <<stored, call, goroutines, caller>>
    BY <1>2 DEF Complete, StoreCompletes, CleanThen
  <2>2. SoundParts(storedId, storedParts, storedSize)'
    BY <2>1, SoundAfter
  <2> QED  BY <2>1, <2>2
<1>3. CASE CompleteFails
  <2>1. /\ pc = "complete" /\ pc' = "idle" /\ todo' = {} /\ uploading' = {} /\ results' = {}
        /\ object => object'
        /\ UNCHANGED <<then, stored, caller>>
        /\ \/ open' = open /\ received' = received
           \/ open' = open \ {id} /\ received' = Without(id)
    BY <1>3 DEF CompleteFails, StoreCompletes, Return
  <2>2. SoundParts(storedId, storedParts, storedSize)'
    BY <2>1, SoundAfter
  <2> QED  BY <2>1, <2>2
<1> QED
  BY <1>1, <1>2, <1>3

\* The keys are sound again when the three of them are deleted.
LEMMA SoundAgain ==
  ASSUME TypeInv, TailInv, CleanSize, torn, ~torn'
  PROVE  SoundInv'
<1>1. /\ pc = "cleanSize" /\ pc' = then /\ then \in {"idle", "read", "reread", "returned"}
      /\ id' = NoId /\ parts' = {} /\ size' = 0
      /\ todo' = {} /\ uploading' = {} /\ results' = {}
      /\ storedSize' = 0 /\ storedId' = NoId /\ storedParts' = {}
      /\ UNCHANGED <<object, recorded>>
  BY DEF CleanSize, Return, TypeInv, store, caller
<1>2. SoundParts(NoId, {}, 0)'
  BY SoundNone, FS_EmptySet DEF SoundParts
<1>3. Succeeded' => object'
  BY <1>1 DEF TailInv, Succeeded
<1> QED
  BY <1>1, <1>2, <1>3 DEF SoundInv, StoredInv, CallInv, GoroutinesInv, SuccessInv, MidWrite, HasId

LEMMA SoundNext == TypeInv /\ TailInv /\ (~torn => SoundInv) /\ [Next]_vars => (~torn' => SoundInv')
<1> SUFFICES ASSUME TypeInv, TailInv, ~torn => SoundInv, [Next]_vars, ~torn' PROVE SoundInv'
  OBVIOUS
<1>1. CASE torn
  <2>1. CleanSize
    BY <1>1 DEF Next, Upload, Call, Record, CleanId, CleanParts, CleanFails, ReadStored, NewUpload,
       NewUploadFails, Plan, TakePart, PutPart, PartFails, PartUnknown, Gather, PutFails, PutId, PutParts,
       PutSize, Verify, Complete, CompleteFails, CompleteUnknown, FileChanges, Expire, Crash, Finished, vars
  <2> QED  BY <1>1, <2>1, SoundAgain
<1> SUFFICES ASSUME ~torn PROVE SoundInv'
  BY <1>1
<1>2. CASE Upload
  BY <1>2, CallerSteps, StartSteps, GatherSteps, EndSteps DEF Upload
<1>3. CASE FileChanges
  BY <1>3, CallerSteps
<1>4. CASE CleanFails
  BY <1>4 DEF CleanFails
<1> USE DEF SoundInv, StoredInv, CallInv, GoroutinesInv, SuccessInv, Succeeded, MidWrite, HasId,
            stored, call, goroutines, store, caller
<1>5. CASE PutFails
  <2>1. /\ pc = "putId" /\ pc' \in {"gather", "putParts"} /\ (pc' = "putParts" => storedId = id)
        /\ UNCHANGED <<then, stored, call, goroutines, store, caller>>
    <3>1. CASE pc = "putId" /\ Put("gather")
      BY <1>5, <3>1 DEF PutFails, Put, Goto
    <3>2. CASE pc \in DOMAIN AfterPut /\ Put(AfterPut[pc]) /\ torn' = (torn \/ pc # "putId" \/ storedId # id)
      <4>1. pc = "putId" /\ storedId = id
        BY <3>2
      <4> QED  BY <1>5, <3>2, <4>1 DEF PutFails, Put, Goto, AfterPut
    <3> QED  BY <1>5, <3>1, <3>2 DEF PutFails
  <2> QED  BY <2>1, Quiet
<1>6. CASE Crash
  <2>1. /\ ~MidWrite /\ pc' = "idle" /\ then' = "idle"
        /\ todo' = {} /\ uploading' = {} /\ results' = {}
        /\ UNCHANGED <<stored, store, caller>>
    BY <1>6 DEF Crash
  <2> QED  BY <2>1, Quiet
<1>7. ASSUME NEW u \in UploadIds, Expire(u) PROVE SoundInv'
  <2>1. /\ open' = open \ {u} /\ received' = Without(u)
        /\ UNCHANGED <<stored, pc, then, call, goroutines, object, caller>>
    BY <1>7 DEF Expire
  <2>2. \A v, ps, n : SoundParts(v, ps, n) => SoundParts(v, ps, n)'
    BY <2>1, SoundAfter
  <2>3. \A n : <<n, id>> \in received /\ id # u => <<n, id>> \in received'
    BY <2>1 DEF Without
  <2> QED  BY <2>1, <2>2, <2>3
<1>8. CASE Finished \/ UNCHANGED vars
  <2>1. UNCHANGED vars
    BY <1>8 DEF Finished
  <2> QED  BY <2>1, Quiet DEF vars
<1> QED
  BY <1>2, <1>3, <1>4, <1>5, <1>6, <1>7, <1>8 DEF Next

LEMMA SoundInvariant == Spec => [](~torn => SoundInv)
<1>1. Init => SoundInv /\ TailInv
  BY SoundNone DEF Init, SoundInv, StoredInv, CallInv, GoroutinesInv, SuccessInv, Succeeded, MidWrite, HasId,
     TailInv
<1>2. TypeInv /\ TailInv /\ (~torn => SoundInv) /\ [Next]_vars => (~torn => SoundInv)'
  BY SoundNext
<1> QED
  BY <1>1, <1>2, TailNext, TypeInvariant, PTL DEF Spec

\* Until a crash, a failed Put or a failed Delete separates the three keys, and again
\* once they are all deleted, what a later call resumes from is sound, whatever
\* fails, expires or crashes.
THEOREM ResumesAreSound == Spec => []ResumeIsSound
<1>1. (~torn => SoundInv) => ResumeIsSound
  BY DEF SoundInv, StoredInv, SoundParts, MidWrite, ResumeIsSound
<1> QED
  BY <1>1, SoundInvariant, PTL

\* FPutObject returns nil without an object only if the three keys came apart: the
\* sizes match whenever all parts are gathered from keys that did not.
THEOREM SuccessesAreComplete == Spec => []OnlyTornKeysDeceive
<1>1. (~torn => SoundInv) => OnlyTornKeysDeceive
  BY DEF SoundInv, SuccessInv, OnlyTornKeysDeceive
<1> QED
  BY <1>1, SoundInvariant, PTL

=============================================================================

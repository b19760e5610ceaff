--------------------------- MODULE MultipartUpload ---------------------------
(***************************************************************************)
(* pkg/upload/upload_manager.go: FMultipartPutObject uploads a large file  *)
(* in parts and keeps, in three keys of the local database, what is needed *)
(* to resume after an error or a crash: the upload id, the list of         *)
(* completed parts and the uploaded size.  The three keys are written and  *)
(* deleted one after the other, each in a transaction of its own, and an   *)
(* error of one is only logged: a crash or an error between them leaves    *)
(* keys that do not belong together.  The history variable torn tells      *)
(* whether that has happened since the keys were last all deleted.         *)
(*                                                                         *)
(* Sizes are counted in parts: fileSize is NumParts, each part adds 1.     *)
(* The object store is external: it keeps open multipart uploads, the      *)
(* parts it received for each, and the completed object.  Upload ids are   *)
(* numbers, and one that nothing refers to any more is used again, which   *)
(* bounds how many there are.                                              *)
(*                                                                         *)
(* An operator whose name starts with Bug is a faulty variant of the one   *)
(* after it; no behaviour uses it.                                         *)
(***************************************************************************)
EXTENDS Naturals, FiniteSets

CONSTANTS NumParts,    \* totalPartsCount, and fileSize
          NumWorkers,  \* NumThreads (2 in FPutObject)
          UploadIds,   \* bound: the multipart uploads the store can tell apart
          NoId,        \* no upload id: the key is absent, Get returns ""
          MaxFaults    \* bound: crashes, failed writes, changes of the file, expiries

ASSUME MultipartAssumption ==
  /\ NumParts \in Nat \ {0} /\ NumWorkers \in Nat \ {0} /\ MaxFaults \in Nat
  /\ UploadIds \subseteq Nat /\ NoId \notin UploadIds

VARIABLES
  storedId, storedParts, storedSize,   \* the three keys of the local database
  pc, then,                            \* FPutObject; where to go after a cleanup
  id, parts, size,                     \* uploadId, parts, uploadedSize
  todo, uploading, results,            \* the part goroutines and their channels
  open, received, object,              \* the object store
  changed,                             \* the file has no matching cached file info
  recorded,                            \* the caller saved the file as uploaded
  torn,                                \* history: the keys have come apart
  faults

stored == <<storedId, storedParts, storedSize>>
call == <<id, parts, size>>
goroutines == <<todo, uploading, results>>
store == <<open, received, object>>
caller == <<changed, recorded>>
vars == <<stored, pc, then, call, goroutines, store, caller, torn, faults>>

PartNumbers == 1..NumParts
\* A completed part: its number and the upload it was sent to (its ETag is only
\* known to that upload).
CompletePart == PartNumbers \X UploadIds
Numbers(ps) == {p[1] : p \in ps}

Init ==
  /\ storedId = NoId /\ storedParts = {} /\ storedSize = 0
  /\ pc = "idle" /\ then = "idle"
  /\ id = NoId /\ parts = {} /\ size = 0
  /\ todo = {} /\ uploading = {} /\ results = {}
  /\ open = {} /\ received = {} /\ object = FALSE
  /\ changed = TRUE /\ recorded = FALSE /\ torn = FALSE /\ faults = 0

Fault == faults < MaxFaults /\ faults' = faults + 1

Goto(l) == pc' = l /\ UNCHANGED then

\* The function returns: the part goroutines are cancelled and waited for.
Return(l) ==
  /\ pc' = l /\ UNCHANGED then
  /\ id' = NoId /\ parts' = {} /\ size' = 0
  /\ todo' = {} /\ uploading' = {} /\ results' = {}

CleanThen(l) == pc' = "cleanId" /\ then' = l

-----------------------------------------------------------------------------
(***************************************************************************)
(* The caller, uploadLocalFile, and the cleanup of the three keys.         *)
(***************************************************************************)

\* FPutObject is called until it succeeds; cleanCache is set when the size of the
\* file is not that of the cached file info.
Call ==
  /\ pc = "idle" /\ ~recorded
  /\ IF changed THEN CleanThen("read") ELSE Goto("read")
  /\ changed' = FALSE
  /\ UNCHANGED <<stored, call, goroutines, store, recorded, torn, faults>>

\* The file is replaced by one of another size, with as many parts.
FileChanges ==
  /\ pc = "idle" /\ ~recorded /\ ~changed /\ Fault
  /\ changed' = TRUE
  /\ UNCHANGED <<stored, pc, then, call, goroutines, store, recorded, torn>>

\* The caller saves the path in UploadedFilePaths.
Record ==
  /\ pc = "returned" /\ Goto("idle")
  /\ recorded' = TRUE
  /\ UNCHANGED <<stored, call, goroutines, store, changed, torn, faults>>

\* cleanUploadCache: three Deletes.
CleanId ==
  /\ pc = "cleanId" /\ Goto("cleanParts")
  /\ storedId' = NoId
  /\ UNCHANGED <<storedParts, storedSize, call, goroutines, store, caller, torn, faults>>

CleanParts ==
  /\ pc = "cleanParts" /\ Goto("cleanSize")
  /\ storedParts' = {}
  /\ UNCHANGED <<storedId, storedSize, call, goroutines, store, caller, torn, faults>>

BugKeepSize ==
  /\ pc = "cleanSize" /\ Return(then)
  /\ torn' = (torn /\ ~(storedId = NoId /\ storedParts = {}))
  /\ UNCHANGED <<stored, store, caller, faults>>

CleanSize ==
  /\ pc = "cleanSize" /\ Return(then)
  /\ storedSize' = 0
  /\ torn' = (torn /\ ~(storedId = NoId /\ storedParts = {}))
  /\ UNCHANGED <<storedId, storedParts, store, caller, faults>>

\* One of the Deletes fails: the key is kept, and the next one is deleted.
CleanFails ==
  /\ \/ pc = "cleanId" /\ Goto("cleanParts") /\ UNCHANGED <<call, goroutines>>
     \/ pc = "cleanParts" /\ Goto("cleanSize") /\ UNCHANGED <<call, goroutines>>
     \/ pc = "cleanSize" /\ Return(then)
  /\ Fault /\ torn' = TRUE
  /\ UNCHANGED <<stored, store, caller>>

-----------------------------------------------------------------------------
(***************************************************************************)
(* FMultipartPutObject.                                                    *)
(***************************************************************************)

\* Fetch the previous upload.  A size that is too large counts as none, and the
\* keys are deleted before the other two are read.
ReadStored ==
  /\ pc \in {"read", "reread"}
  /\ IF pc = "read" /\ storedSize > NumParts
       THEN CleanThen("reread") /\ UNCHANGED call
       ELSE /\ id' = storedId /\ parts' = storedParts
            /\ size' = IF pc = "read" THEN storedSize ELSE 0
            /\ Goto(IF storedId = NoId THEN "new" ELSE "plan")
  /\ UNCHANGED <<stored, goroutines, store, caller, torn, faults>>

FreeIds == UploadIds \ ({storedId} \cup {p[2] : p \in storedParts})
Without(u) == {p \in received : p[2] # u}

\* NewMultipartUpload.
NewUpload ==
  /\ pc = "new"
  /\ \E u \in FreeIds :
       /\ \A v \in FreeIds : u <= v
       /\ id' = u /\ open' = open \cup {u} /\ received' = Without(u)
  /\ Goto("plan")
  /\ UNCHANGED <<stored, parts, size, goroutines, object, caller, torn, faults>>

NewUploadFails ==
  /\ pc = "new" /\ Return("idle")
  /\ UNCHANGED <<stored, store, caller, torn, faults>>

BugPartsFromZero ==
  /\ pc = "plan"
  /\ LET left == (0..NumParts) \ Numbers(parts)
     IN  \/ left # {} /\ todo' = left /\ Goto("gather") /\ UNCHANGED <<uploading, results>>
         \/ left = {} /\ size = NumParts /\ Goto("complete") /\ UNCHANGED goroutines
         \/ left = {} /\ size # NumParts /\ CleanThen("idle") /\ UNCHANGED goroutines
  /\ UNCHANGED <<stored, call, store, caller, torn, faults>>

\* Which parts are left; none: complete, or start again when the size does not fit.
Plan ==
  /\ pc = "plan"
  /\ LET left == PartNumbers \ Numbers(parts)
     IN  \/ left # {} /\ todo' = left /\ Goto("gather") /\ UNCHANGED <<uploading, results>>
         \/ left = {} /\ size = NumParts /\ Goto("complete") /\ UNCHANGED goroutines
         \/ left = {} /\ size # NumParts /\ CleanThen("idle") /\ UNCHANGED goroutines
  /\ UNCHANGED <<stored, call, store, caller, torn, faults>>

Gathering == pc \in {"gather", "putId", "putParts", "putSize"}

\* One of the worker goroutines takes the next part.
TakePart ==
  /\ Gathering /\ Cardinality(uploading) < NumWorkers
  /\ \E p \in todo :
       /\ \A q \in todo : p <= q
       /\ todo' = todo \ {p} /\ uploading' = uploading \cup {p}
  /\ UNCHANGED <<stored, pc, then, call, results, store, caller, torn, faults>>

\* PutObjectPart succeeds.
PutPart(p) ==
  /\ Gathering /\ p \in uploading /\ id \in open
  /\ received' = received \cup {<<p, id>>}
  /\ uploading' = uploading \ {p} /\ results' = results \cup {p}
  /\ UNCHANGED <<stored, pc, then, call, todo, open, object, caller, torn, faults>>

\* A part fails, or the context times out: the call returns the error.
PartFails ==
  /\ pc = "gather" /\ Return("idle")
  /\ UNCHANGED <<stored, store, caller, torn, faults>>

BugKeepUnknownUpload ==
  /\ pc = "gather" /\ uploading # {} /\ id \notin open /\ Return("idle")
  /\ UNCHANGED <<stored, store, caller, torn, faults>>

\* A part fails because the store does not know the upload any more: the keys are
\* cleaned, so that the next call begins a new one (shouldResetMultipartUpload).
PartUnknown ==
  /\ pc = "gather" /\ uploading # {} /\ id \notin open /\ CleanThen("idle")
  /\ UNCHANGED <<stored, call, goroutines, store, caller, torn, faults>>

\* The result of a part is gathered, and the three keys are written.
Gather(p) ==
  /\ pc = "gather" /\ p \in results
  /\ results' = results \ {p}
  /\ parts' = parts \cup {<<p, id>>} /\ size' = size + 1
  /\ Goto("putId")
  /\ UNCHANGED <<stored, id, todo, uploading, store, caller, torn, faults>>

\* storage.Put of one key; its error is only logged.
Put(next) ==
  /\ Goto(next)
  /\ UNCHANGED <<call, goroutines, store, caller>>

AfterPut == [putId |-> "putParts", putParts |-> "putSize", putSize |-> "gather"]

\* A Put fails.  Without an upload id or a size that belong to them the stored parts
\* are of no use; when the three Puts fail together nothing comes apart.
PutFails ==
  /\ \/ pc = "putId" /\ Put("gather") /\ UNCHANGED torn
     \/ pc \in DOMAIN AfterPut /\ Put(AfterPut[pc])
        /\ torn' = (torn \/ pc # "putId" \/ storedId # id)
  /\ Fault /\ UNCHANGED stored

PutId ==
  /\ pc = "putId" /\ Put("putParts")
  /\ storedId' = id /\ UNCHANGED <<storedParts, storedSize, torn, faults>>

PutParts ==
  /\ pc = "putParts" /\ Put("putSize")
  /\ storedParts' = parts /\ UNCHANGED <<storedId, storedSize, torn, faults>>

PutSize ==
  /\ pc = "putSize" /\ Put("gather")
  /\ storedSize' = size /\ UNCHANGED <<storedId, storedParts, torn, faults>>

\* All parts are gathered.  When the sizes do not match the error that is wrapped
\* is nil, and so is what errors.Wrapf returns: the caller sees a success.
Verify ==
  /\ pc = "gather" /\ Numbers(parts) = PartNumbers
  /\ IF size # NumParts
       THEN Return("returned")
       ELSE Goto("complete") /\ UNCHANGED <<call, goroutines>>
  /\ UNCHANGED <<stored, store, caller, torn, faults>>

Acceptable == id \in open /\ parts \subseteq received /\ \A p \in parts : p[2] = id
StoreCompletes ==
  object' = TRUE /\ open' = open \ {id} /\ received' = Without(id)

BugCompleteAssumed ==
  /\ pc = "complete" /\ id \in open
  /\ CleanThen("returned")
  /\ UNCHANGED <<stored, call, goroutines, store, caller, torn, faults>>

\* CompleteMultipartUpload succeeds when the upload is open and received the parts.
Complete ==
  /\ pc = "complete" /\ Acceptable
  /\ StoreCompletes /\ CleanThen("returned")
  /\ UNCHANGED <<stored, call, goroutines, caller, torn, faults>>

\* It fails, before or after its effect: the error is returned.
CompleteFails ==
  /\ pc = "complete" /\ Return("idle")
  /\ \/ UNCHANGED store
     \/ Acceptable /\ StoreCompletes
  /\ UNCHANGED <<stored, caller, torn, faults>>

\* It fails because the store does not know the upload, or misses a part of it and
\* says so in the words shouldResetMultipartUpload looks for: the keys are cleaned.
CompleteUnknown ==
  /\ pc = "complete" /\ ~Acceptable /\ CleanThen("idle")
  /\ UNCHANGED <<stored, call, goroutines, store, caller, torn, faults>>

-----------------------------------------------------------------------------
(***************************************************************************)
(* The object store and the process.                                       *)
(***************************************************************************)

\* The store drops an upload that is not completed.
Expire(u) ==
  /\ u \in open /\ Fault
  /\ open' = open \ {u} /\ received' = Without(u)
  /\ UNCHANGED <<stored, pc, then, call, goroutines, object, caller, torn>>

\* The steps between which the three keys do not belong together.
MidWrite == pc \in {"putSize", "cleanParts", "cleanSize"}

Crash ==
  /\ Fault /\ torn' = (torn \/ MidWrite)
  /\ pc' = "idle" /\ then' = "idle"
  /\ id' = NoId /\ parts' = {} /\ size' = 0
  /\ todo' = {} /\ uploading' = {} /\ results' = {}
  /\ UNCHANGED <<stored, store, caller>>

Upload ==
  \/ Call \/ Record \/ CleanId \/ CleanParts \/ CleanSize
  \/ ReadStored \/ NewUpload \/ NewUploadFails \/ Plan
  \/ TakePart \/ PartFails \/ PartUnknown \/ PutId \/ PutParts \/ PutSize \/ Verify
  \/ Complete \/ CompleteFails \/ CompleteUnknown
  \/ \E p \in PartNumbers : PutPart(p) \/ Gather(p)

\* The file is uploaded, and nothing is left to do.
Finished == recorded /\ UNCHANGED vars

Next ==
  \/ Upload \/ PutFails \/ CleanFails \/ FileChanges \/ Crash \/ Finished
  \/ \E u \in UploadIds : Expire(u)

Spec == Init /\ [][Next]_vars

\* The calls go on, and the network and the store do not fail for ever: what is
\* tried again and again succeeds, or is answered, in the end.
Fairness ==
  /\ WF_vars(Upload)
  /\ SF_vars(NewUpload) /\ SF_vars(TakePart) /\ SF_vars(PartUnknown)
  /\ SF_vars(Complete) /\ SF_vars(id \notin open /\ CompleteUnknown)
  /\ SF_vars(\E p \in PartNumbers : PutPart(p)) /\ SF_vars(\E p \in PartNumbers : Gather(p))

FairSpec == Spec /\ Fairness

-----------------------------------------------------------------------------
(***************************************************************************)
(* Properties.                                                             *)
(***************************************************************************)

\* Every variable keeps its type.
TypeOK ==
  /\ storedId \in UploadIds \cup {NoId} /\ storedParts \subseteq CompletePart
  /\ storedSize \in Nat /\ size \in Nat
  /\ pc \in {"idle", "read", "reread", "new", "plan", "gather", "putId", "putParts", "putSize",
             "complete", "cleanId", "cleanParts", "cleanSize", "returned"}
  /\ then \in {"idle", "read", "reread", "returned"}
  /\ id \in UploadIds \cup {NoId} /\ parts \subseteq CompletePart
  /\ todo \subseteq PartNumbers /\ uploading \subseteq PartNumbers /\ results \subseteq PartNumbers
  /\ open \subseteq UploadIds /\ received \subseteq CompletePart /\ object \in BOOLEAN
  /\ changed \in BOOLEAN /\ recorded \in BOOLEAN /\ torn \in BOOLEAN
  /\ faults \in 0..MaxFaults

Succeeded == pc = "returned" \/ recorded

\* FPutObject returns nil only when the object is in the store ("Verify if we
\* uploaded all the data", before the upload is completed).  The code breaks this.
SuccessMeansComplete == Succeeded => object

\* It breaks it in one way only: whatever fails, expires, is resumed or crashes, a
\* success without an object is that of a call that resumed from keys torn apart.
OnlyTornKeysDeceive == Succeeded /\ ~object => torn

\* What a later call resumes from is sound, unless the keys are torn apart: the
\* stored parts were received by the store for the stored upload, and the stored
\* size is theirs.
ResumeIsSound ==
  /\ ~torn
  /\ pc \in {"idle", "read", "reread", "new", "plan", "gather", "putId", "putParts",
             "complete", "returned"}
  => /\ storedSize = Cardinality(storedParts)
     /\ storedId \in open => storedParts \subseteq received
     /\ \A p \in storedParts : p[2] = storedId

\* The upload is completed in the end, after errors, expired uploads and crashes,
\* if the keys do not stay torn apart.
EventuallyUploaded == <>[]~torn => <>(object /\ recorded)

=============================================================================

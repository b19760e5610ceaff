--------------------------- MODULE UploadContent ---------------------------
(***************************************************************************)
(* What ends up in the objects of one record: uploadFile and its helpers   *)
(* (internal/collector/upload.go), the download of a slave's file by the   *)
(* master (internal/master/file_manager.go, internal/slave/server.go), the *)
(* cached sizes and checksums, and the resumable upload of FPutObject.     *)
(*                                                                         *)
(* A content is the first "size" units of the file "of". A file may have   *)
(* any size when it is first tried, whatever was recorded, and grows then. *)
(* It is not rewritten after that: getFileInfoFromCacheOrFile cannot tell  *)
(* a rewrite that keeps the size from no change, and says so.              *)
(* Copies, cached file information, saved parts and objects survive a      *)
(* crash; the work on the current file does not.                           *)
(***************************************************************************)
EXTENDS Naturals

CONSTANTS
  Files,       \* the files of the record
  Slave,       \* those that are on a slave
  Copies,      \* the paths of their copies in the cache directory of the master
  CopyPath,    \* getSlaveFileCachePath, which keeps the base name only
  None, Torn,  \* no file, content or information; a mix of two contents
  MaxSize,     \* bound: the size of a file
  Small,       \* bound: files that never have more than one unit
  MaxFaults    \* bound: attempts and rounds that end early

ASSUME ContentAssumption ==
  /\ Slave \subseteq Files /\ None \notin Files /\ Copies \cap Files = {}
  /\ CopyPath \in [Slave -> Copies]
  /\ Small \subseteq Files /\ MaxSize \in Nat \ {0} /\ MaxFaults \in Nat

VARIABLES
  src,       \* per file: its size where it is
  expected,  \* per file: the size recorded when the record was collected
  copy,      \* per path of the slave cache directory: the content of the copy
  info,      \* FileInfoBucket: per local path, the cached size and checksum
  parts,     \* MultiPartUploadBucket: per file, what its saved parts were read from
  object,    \* per file: the content of its object in the record
  done,      \* UploadedFilePaths
  skipped,   \* files taken as done because the slave refuses or has lost them
  lost,      \* history: files for which a decision to clean saved parts was lost
  job,       \* the round: its step, its current file, what is left of it
  faults

vars == <<src, expected, copy, info, parts, object, done, skipped, lost, job, faults>>
disk == <<copy, info, parts, object>>
world == <<src, expected>>

Sizes == 0..MaxSize
Bound(f) == IF f \in Small THEN 1 ELSE MaxSize
Content == [of : Files, size : Sizes]

ASSUME ContentNamesAssumption ==
  /\ None # Torn /\ None \notin Content /\ Torn \notin Content
  /\ None \notin [size : Sizes, sha : Content]

Paths == (Files \ Slave) \cup Copies
(* The path the upload of f reads. *)
Path(f) == IF f \in Slave THEN CopyPath[f] ELSE f
(* No other file of the slave has its base name. *)
Alone(f) == \A g \in Files : Path(g) = Path(f) => g = f
Source(f, n) == [of |-> f, size |-> n]
(* What is at the path the upload of f reads. *)
Local(f) == IF f \in Slave THEN copy[Path(f)] ELSE Source(f, src[f])
Prefix(c, n) == [c EXCEPT !.size = IF n < @ THEN n ELSE @]

Idle == [pc |-> "idle", todo |-> {}, file |-> None, size |-> 0, sha |-> None, clean |-> FALSE]
To(step) == job' = [job EXCEPT !.pc = step]
Stored(step) == job' = [job EXCEPT !.pc = step, !.size = 0, !.sha = None]
NextFile == job' = [Idle EXCEPT !.pc = "pick", !.todo = job.todo \ {job.file}]
Fault == faults < MaxFaults /\ faults' = faults + 1
At(step, f) == job.pc = step /\ job.file = f

Init ==
  /\ src \in {n \in [Files -> Sizes] : \A f \in Files : n[f] <= Bound(f)}
  /\ expected \in {n \in [Files -> Sizes] : \A f \in Files : n[f] <= Bound(f)}
  /\ copy = [p \in Copies |-> None]
  /\ info = [p \in Paths |-> None]
  /\ parts = [f \in Files |-> None]
  /\ object = [f \in Files |-> None]
  /\ done = {} /\ skipped = {} /\ lost = {} /\ job = Idle /\ faults = 0

---------------------------------------------------------------------------
(* A file is still being written, external to the program. *)
Grow(f) ==
  /\ src[f] < Bound(f) /\ f \notin done
  /\ src' = [src EXCEPT ![f] = @ + 1]
  /\ UNCHANGED <<expected, disk, done, skipped, lost, job, faults>>

---------------------------------------------------------------------------
(* uploadFiles: the files that are not done, the smallest ones first. *)

StartRound ==
  /\ job.pc = "idle" /\ done # Files
  /\ job' = [Idle EXCEPT !.pc = "pick", !.todo = Files \ done]
  /\ UNCHANGED <<world, disk, done, skipped, lost, faults>>

Pick(f) ==
  /\ job.pc = "pick" /\ f \in job.todo
  /\ \A g \in job.todo : expected[f] <= expected[g]
  /\ job' = [job EXCEPT !.pc = IF f \in Slave THEN "copy" ELSE "info",
                        !.file = f, !.size = expected[f]]
  /\ UNCHANGED <<world, disk, done, skipped, lost, faults>>

(* What becomes of the decision to clean when the attempt ends before Put. *)
LostNow ==
  lost' = IF job.clean /\ parts[job.file] # None THEN lost \cup {job.file} ELSE lost

(* The round is over, a check before a file stops it, or the process dies. *)
EndRound ==
  /\ job.pc # "idle"
  /\ job' = Idle /\ LostNow
  /\ IF job.todo = {} THEN UNCHANGED faults ELSE Fault
  /\ UNCHANGED <<world, disk, done, skipped>>

---------------------------------------------------------------------------
(* uploadSlaveFile. *)

(* A copy of the recorded size is taken for the file, whichever left it there. *)
Usable(f) == copy[Path(f)] # None /\ copy[Path(f)].size = job.size
UseCopy(f) ==
  /\ At("copy", f) /\ Usable(f)
  /\ To("info")
  /\ UNCHANGED <<world, disk, done, skipped, lost, faults>>

NeedsDownload(f) == At("copy", f) /\ ~Usable(f)

(* calcDirSize, or the free space, leaves no room for the copy: the round ends. *)
CacheInsufficient(f) ==
  /\ NeedsDownload(f) /\ job.size > 0 /\ Fault
  /\ job' = Idle
  /\ UNCHANGED <<world, disk, done, skipped, lost>>

(* The whole file is copied, or what the slave sent before its own read failed *)
(* (the response then ends as if complete); the size becomes the copy's.       *)
Download(f) ==
  /\ NeedsDownload(f)
  /\ \E n \in 0..src[f] :
       /\ copy' = [copy EXCEPT ![Path(f)] = Source(f, n)]
       /\ job' = [job EXCEPT !.pc = "info", !.size = n]
  /\ UNCHANGED <<world, info, parts, object, done, skipped, lost, faults>>

(* Unreachable, or broken off: then the copy is removed, or, if the process *)
(* dies in the middle, left as it is.                                       *)
DownloadFails(f) ==
  /\ NeedsDownload(f) /\ Fault
  /\ \/ NextFile /\ copy' \in {copy, [copy EXCEPT ![Path(f)] = None]}
     \/ job' = Idle /\ \E n \in 0..src[f] :
                          copy' = [copy EXCEPT ![Path(f)] = Source(f, n)]
  /\ UNCHANGED <<world, info, parts, object, done, skipped, lost>>

(* Too large (204), unreadable or gone (400, 403, 404): not an error. *)
Refused(f) ==
  /\ NeedsDownload(f)
  /\ skipped' = skipped \cup {f}
  /\ Stored("mark")
  /\ UNCHANGED <<world, disk, done, lost, faults>>

---------------------------------------------------------------------------
(* uploadLocalFile. *)

(* getFileInfoFromCacheOrFile: the size to upload, the checksum if it is *)
(* known, and whether what an earlier attempt saved has to be dropped.   *)
FileInfo(f) ==
  LET now == Local(f).size
      size == job.size
      cached == info[Path(f)]
      known == cached # None /\ cached.size = now
      Use == [size |-> now, sha |-> cached.sha, clean |-> FALSE]
      Fresh(n) == [size |-> n, sha |-> None, clean |-> TRUE]
  IN  CASE size = 0 -> IF known /\ now > 0 THEN Use ELSE Fresh(now)
        [] size > 0 /\ now < size -> Fresh(now)
        [] size > 0 /\ now >= size -> IF known /\ size = now THEN Use ELSE Fresh(size)

(* The information is dropped if needed, completed with the checksum of what *)
(* is to be read, and saved, before anything is uploaded.                    *)
GetInfo(f) ==
  LET i == FileInfo(f)
      sha == IF i.sha = None THEN Prefix(Local(f), i.size) ELSE i.sha
  IN  /\ At("info", f)
      /\ info' = [info EXCEPT ![Path(f)] = [size |-> i.size, sha |-> sha]]
      /\ job' = [job EXCEPT !.pc = "clone", !.size = i.size, !.sha = sha, !.clean = i.clean]
      /\ UNCHANGED <<world, copy, parts, object, done, skipped, lost, faults>>

(* The file cannot be read, or the process dies, when its information may be *)
(* dropped already.                                                          *)
InfoFails(f) ==
  /\ At("info", f) /\ Fault
  /\ NextFile \/ job' = Idle
  /\ info' \in {info} \cup IF FileInfo(f).clean THEN {[info EXCEPT ![Path(f)] = None]} ELSE {}
  /\ UNCHANGED <<world, copy, parts, object, done, skipped, lost>>

(* CheckCloneFile: the cloud may already have a content with this checksum. *)
Clone(f) ==
  /\ At("clone", f)
  /\ \/ /\ object' = [object EXCEPT ![f] = job.sha]
        /\ Stored("remove")
     \/ To("token") /\ UNCHANGED object
  /\ UNCHANGED <<world, copy, info, parts, done, skipped, lost, faults>>

(* GenerateSecurityToken: a network error ends the round (EndRound). *)
Token(f) ==
  /\ At("token", f)
  /\ To("put")
  /\ UNCHANGED <<world, disk, done, skipped, lost, faults>>

TokenFails(f) ==
  /\ At("token", f) /\ Fault
  /\ NextFile /\ LostNow
  /\ UNCHANGED <<world, disk, done, skipped>>

(* The deletion of saved parts fails, which is only logged: they are resumed from. *)
CleanFails(f) ==
  /\ At("put", f) /\ job.clean /\ parts[f] # None /\ Fault
  /\ job' = [job EXCEPT !.clean = FALSE] /\ LostNow
  /\ UNCHANGED <<world, disk, done, skipped>>

(* FPutObject resumes from the parts that were saved, unless told to clean. *)
BugSaved(f) == parts[f]

Saved(f) == IF job.clean THEN None ELSE parts[f]

Put(f) ==
  LET read == Prefix(Local(f), job.size)
  IN  /\ At("put", f)
      /\ Local(f).size >= job.size
      /\ object' = [object EXCEPT ![f] = IF Saved(f) \in {None, read} THEN read ELSE Torn]
      /\ parts' = [parts EXCEPT ![f] = None]
      /\ lost' = IF job.clean THEN lost \ {f} ELSE lost
      /\ Stored("remove")
      /\ UNCHANGED <<world, copy, info, done, skipped, faults>>

(* The upload breaks off, with or without parts that were saved. *)
PutFails(f) ==
  LET read == Prefix(Local(f), job.size)
  IN  /\ At("put", f) /\ Fault
      /\ parts' \in {[parts EXCEPT ![f] = Saved(f)],
                     [parts EXCEPT ![f] = IF Saved(f) = None /\ read.size > 0
                                          THEN read ELSE Saved(f)]}
      /\ NextFile
      /\ UNCHANGED <<world, copy, info, object, done, skipped, lost>>

(* cleanSlaveCacheFile: the copy goes, the information about it stays. *)
BugRemoveCopy(f) ==
  /\ At("remove", f)
  /\ Stored("mark")
  /\ UNCHANGED <<world, disk, done, skipped, lost, faults>>

RemoveCopy(f) ==
  /\ At("remove", f)
  /\ copy' = IF f \in Slave THEN [copy EXCEPT ![Path(f)] = None] ELSE copy
  /\ Stored("mark")
  /\ UNCHANGED <<world, info, parts, object, done, skipped, lost, faults>>

Mark(f) ==
  /\ At("mark", f)
  /\ done' = done \cup {f}
  /\ NextFile
  /\ UNCHANGED <<world, disk, skipped, lost, faults>>

(* cleanSlaveCacheDir: nothing of a finished record is left, whatever was refused. *)
CleanCacheDir ==
  /\ job.pc = "idle" /\ done = Files
  /\ copy' = [p \in Copies |-> None]
  /\ UNCHANGED <<world, info, parts, object, done, skipped, lost, job, faults>>

(* cleanCacheFileInfo, between rounds: information about paths with no file. *)
CleanInfo ==
  /\ job.pc = "idle"
  /\ info' = [p \in DOMAIN info |->
                IF p \in Copies /\ copy[p] = None THEN None ELSE info[p]]
  /\ UNCHANGED <<world, copy, parts, object, done, skipped, lost, job, faults>>

---------------------------------------------------------------------------
Attempt(f) ==
  \/ UseCopy(f) \/ CacheInsufficient(f) \/ Download(f) \/ DownloadFails(f) \/ Refused(f)
  \/ GetInfo(f) \/ InfoFails(f) \/ Clone(f) \/ Token(f) \/ TokenFails(f)
  \/ CleanFails(f) \/ Put(f) \/ PutFails(f) \/ RemoveCopy(f) \/ Mark(f)

Next ==
  \/ \E f \in Files : Grow(f) \/ Pick(f) \/ Attempt(f)
  \/ StartRound \/ EndRound \/ CleanInfo \/ CleanCacheDir

Spec == Init /\ [][Next]_vars

---------------------------------------------------------------------------
(* Every variable has its type, and the checksum of cached information is of *)
(* as many units as the size it is kept with.                                *)
TypeOK ==
  /\ src \in [Files -> Sizes] /\ expected \in [Files -> Sizes]
  /\ copy \in [Copies -> Content \cup {None}]
  /\ \A p \in Paths :
       info[p] # None => info[p].sha \in Content /\ info[p].sha.size = info[p].size
  /\ parts \in [Files -> Content \cup {None}]
  /\ object \in [Files -> Content \cup {None, Torn}]
  /\ done \subseteq Files /\ skipped \subseteq Slave /\ lost \subseteq Files
  /\ faults \in 0..MaxFaults
  /\ job.todo \subseteq Files /\ job.size \in Sizes /\ job.clean \in BOOLEAN

(* The object of a file holds the beginning of that file, read in one go, or of *)
(* a file whose copy has the same path; a mix of two contents only if there is   *)
(* such a file or a decision to clean was lost.  A file counts as uploaded only  *)
(* with an object, or if its slave refused it.                                   *)
ObjectIsTheFile ==
  \A f \in Files :
    /\ object[f] \notin {None, Torn} => Path(object[f].of) = Path(f)
    /\ object[f] = Torn => f \in lost \/ ~Alone(f)
    /\ f \in done => object[f] # None \/ f \in skipped

(* A file that is uploaded leaves no copy of itself on the master's disk, even  *)
(* if another one takes its place there, wherever the process died: the copy    *)
(* goes before the file is marked.                                              *)
UploadedLeavesNoCopy ==
  \A p \in Copies : copy[p] # None => copy[p].of \notin done \ skipped
=============================================================================

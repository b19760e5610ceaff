------------------------ MODULE UploadContent_proof ------------------------
(***************************************************************************)
(* Theorems about UploadContent, for any files, sizes, paths of copies and *)
(* failures: type correctness, what an object holds, and that no copy of   *)
(* an uploaded file is left behind.                                        *)
(***************************************************************************)
EXTENDS UploadContent, TLAPS

-----------------------------------------------------------------------------
(* Type correctness.  What is read at a step must be there: TypeInv adds the *)
(* file in hand and its local content to TypeOK.                             *)

Info == {i \in [size : Sizes, sha : Content] : i.sha.size = i.size}

Steps == {"idle", "pick", "copy", "info", "clone", "token", "put", "remove", "mark"}
Job == [pc : Steps, todo : SUBSET Files, file : Files \cup {None}, size : Sizes,
        sha : Content \cup {None}, clean : BOOLEAN]

DiskType ==
  /\ src \in [Files -> Sizes] /\ expected \in [Files -> Sizes]
  /\ copy \in [Copies -> Content \cup {None}]
  /\ info \in [Paths -> Info \cup {None}]
  /\ parts \in [Files -> Content \cup {None}]
  /\ object \in [Files -> Content \cup {None, Torn}]
  /\ done \subseteq Files /\ skipped \subseteq Slave /\ lost \subseteq Files
  /\ faults \in 0..MaxFaults

JobType ==
  /\ job \in Job
  /\ job.pc \notin {"idle", "pick"} => job.file \in Files
  /\ job.pc = "copy" => job.file \in Slave
  /\ job.clean => job.pc \in {"clone", "token", "put", "remove", "mark"}

CopyIsThere == job.pc \in {"info", "clone", "token", "put"} => Local(job.file) \in Content

TypeInv == DiskType /\ JobType /\ CopyIsThere

\* The invariant that is proved implies the one that TLC checks.
LEMMA TypeInvImpliesTypeOK == TypeInv => TypeOK
BY DEF TypeInv, TypeOK, DiskType, JobType, Job, Info

\* Every file reads a path that the cached information knows, a file of a slave
\* that of a copy.
LEMMA PathIsPath == \A f \in Files : Path(f) \in Paths /\ (f \in Slave <=> Path(f) \in Copies)
BY ContentAssumption DEF Path, Paths

\* A prefix of a content is a content of its file, of the size that is asked
\* for if there is that much.
LEMMA PrefixIsContent ==
  ASSUME NEW c \in Content, NEW n \in Sizes
  PROVE  /\ Prefix(c, n) \in Content
         /\ Prefix(c, n).of = c.of
         /\ n <= c.size => Prefix(c, n).size = n
BY ContentAssumption DEF Prefix, Content, Sizes

\* The information getFileInfoFromCacheOrFile gives is of a size that the local
\* file has; a cached checksum is used only for the size it was computed for.
LEMMA FileInfoFacts ==
  ASSUME TypeInv, NEW f \in Files, At("info", f)
  PROVE  LET i == FileInfo(f) IN
         /\ i \in [size : Sizes, sha : Content \cup {None}, clean : BOOLEAN]
         /\ i.size <= Local(f).size
         /\ ~i.clean => info[Path(f)] # None /\ i.size = info[Path(f)].size
                          /\ i.sha = info[Path(f)].sha
         /\ i.clean => i.sha = None
         /\ i.sha # None => i.sha.size = i.size
<1>1. Local(f) \in Content /\ job.size \in Sizes
  BY DEF TypeInv, CopyIsThere, At, JobType, Job
<1>2. info[Path(f)] \in Info \cup {None}
  BY PathIsPath DEF TypeInv, DiskType
<1>3. Local(f).size \in Sizes
  BY <1>1 DEF Content
<1> HIDE DEF Local, Path
<1> QED
  BY <1>1, <1>2, <1>3, ContentAssumption, ContentNamesAssumption
  DEF FileInfo, Info, Content, Sizes


\* The bookkeeping of the round.
LEMMA JobSteps ==
  ASSUME JobType
  PROVE  /\ NextFile => JobType' /\ job'.pc = "pick"
         /\ job' = Idle => JobType' /\ job'.pc = "idle"
         /\ \A step \in Steps \ {"idle", "pick", "copy"} :
              /\ job.pc \notin {"idle", "pick"} /\ (To(step) \/ Stored(step))
              /\ step = "info" => job.pc = "copy"
              => JobType' /\ job'.pc = step /\ job'.file = job.file
<1>1. 0 \in Sizes
  BY ContentAssumption DEF Sizes
<1>2. ASSUME NextFile PROVE JobType' /\ job'.pc = "pick"
  <2>1. Idle \in Job
    BY <1>1 DEF Idle, Job, Steps
  <2>2. job.todo \ {job.file} \in SUBSET Files
    BY DEF JobType, Job
  <2>3. job'.pc = "pick" /\ ~job'.clean
    BY <1>2 DEF NextFile, Idle
  <2>4. job' \in Job
    BY <1>2, <2>1, <2>2 DEF NextFile, Job, Steps
  <2> QED  BY <2>3, <2>4 DEF JobType
<1>3. job' = Idle => JobType' /\ job'.pc = "idle"
  BY <1>1 DEF Idle, JobType, Job, Steps
<1>4. ASSUME NEW step \in Steps \ {"idle", "pick", "copy"}, job.pc \notin {"idle", "pick"},
             To(step) \/ Stored(step), step = "info" => job.pc = "copy"
      PROVE  JobType' /\ job'.pc = step /\ job'.file = job.file
  BY <1>1, <1>4 DEF To, Stored, JobType, Job, Steps
<1> QED
  BY <1>2, <1>3, <1>4

\* A failure counts, and a lost decision is about the file in hand.
LEMMA Counts ==
  ASSUME TypeInv
  PROVE  /\ Fault => faults' \in 0..MaxFaults
         /\ LostNow => lost' \subseteq Files
<1>1. Fault => faults' \in 0..MaxFaults
  BY ContentAssumption DEF Fault, TypeInv, DiskType
<1>2. job.clean => job.file \in Files
  BY DEF TypeInv, JobType
<1>3. LostNow => lost' \subseteq Files
  BY <1>2 DEF LostNow, TypeInv, DiskType
<1> QED
  BY <1>1, <1>3

\* What is read changes only with the source or the copy.
LEMMA SameLocal == src' = src /\ copy' = copy => \A f \in Files : Local(f)' = Local(f)
BY DEF Local, Source, Path

\* A step that leaves the file in hand as it is, or has none, keeps CopyIsThere.
LEMMA CopyStays ==
  ASSUME TypeInv, src' = src, copy' = copy,
         \/ job'.pc \notin {"info", "clone", "token", "put"}
         \/ job.pc \in {"info", "clone", "token", "put"} /\ job'.file = job.file
  PROVE  CopyIsThere'
BY SameLocal DEF TypeInv, JobType, CopyIsThere

\* The first steps of a file.
LEMMA TypeBegins ==
  ASSUME TypeInv, NEW f \in Files
  PROVE  (Grow(f) \/ Pick(f) \/ UseCopy(f) \/ CacheInsufficient(f) \/ Download(f)
            \/ DownloadFails(f) \/ Refused(f)) => TypeInv'
<1> USE DEF TypeInv, disk, world
<1>1. CASE Grow(f)
  <2>0. src[f] + 1 \in Sizes
    BY <1>1, ContentAssumption DEF Grow, DiskType, Sizes, Bound
  <2>1. DiskType' /\ JobType'
    BY <1>1, <2>0 DEF Grow, DiskType, JobType
  <2>2. src'[job.file] \in Sizes \/ job.file \notin Files
    BY <2>1 DEF DiskType
  <2>3. CopyIsThere'
    BY <1>1, <2>2 DEF Grow, JobType, CopyIsThere, Local, Source, Path, Content
  <2> QED  BY <2>1, <2>3
<1>2. CASE Pick(f)
  <2>1. DiskType' /\ job'.pc \in {"copy", "info"} /\ job'.file = f
    BY <1>2 DEF Pick, DiskType, Idle
  <2>2. JobType'
    BY <1>2 DEF Pick, Idle, DiskType, JobType, Job, Steps
  <2>3. f \notin Slave => Local(f)' \in Content
    BY <2>1 DEF Local, Source, Content, DiskType
  <2>4. f \in Slave => job'.pc = "copy"
    BY <1>2 DEF Pick, Idle
  <2> QED  BY <2>1, <2>2, <2>3, <2>4 DEF CopyIsThere
<1>3. CASE UseCopy(f)
  <2>1. DiskType' /\ JobType' /\ job'.file = f
    BY <1>3, JobSteps DEF UseCopy, At, DiskType, Steps
  <2>2. Local(f)' \in Content
    BY <1>3, <2>1, PathIsPath DEF UseCopy, Usable, DiskType, Local, Source, Content, Path
  <2> QED  BY <2>1, <2>2 DEF CopyIsThere
<1>4. CASE CacheInsufficient(f)
  BY <1>4, JobSteps, CopyStays, Counts DEF CacheInsufficient, DiskType
<1>5. CASE Download(f)
  <2>1. PICK n \in 0..src[f] :
          /\ copy' = [copy EXCEPT ![Path(f)] = Source(f, n)]
          /\ job' = [job EXCEPT !.pc = "info", !.size = n]
    BY <1>5 DEF Download
  <2>2. n \in Sizes
    BY ContentAssumption DEF DiskType, Sizes
  <2>3. Source(f, n) \in Content
    BY <2>2 DEF Source, Content
  <2>4. DiskType'
    BY <1>5, <2>1, <2>3 DEF Download, DiskType
  <2>5. JobType' /\ job'.file = f
    BY <1>5, <2>1, <2>2 DEF Download, NeedsDownload, At, JobType, Job, Steps
  <2>6. Local(f)' \in Content
    BY <2>1, <2>3, <2>4, PathIsPath DEF DiskType, Local, Source, Content, Path
  <2> QED  BY <2>4, <2>5, <2>6 DEF CopyIsThere
<1>6. CASE DownloadFails(f)
  <2>1. \A n \in 0..src[f] : Source(f, n) \in Content
    BY ContentAssumption DEF DiskType, Sizes, Source, Content
  <2>2. DiskType'
    BY <1>6, <2>1, Counts DEF DownloadFails, DiskType
  <2> QED  BY <1>6, <2>2, JobSteps DEF DownloadFails, CopyIsThere
<1>7. CASE Refused(f)
  <2>1. f \in Slave
    BY <1>7 DEF Refused, NeedsDownload, At, JobType
  <2> QED  BY <1>7, <2>1, JobSteps, CopyStays DEF Refused, NeedsDownload, At, DiskType, Steps
<1> QED
  BY <1>1, <1>2, <1>3, <1>4, <1>5, <1>6, <1>7

\* The steps of an upload.
LEMMA TypeUploads ==
  ASSUME TypeInv, NEW f \in Files
  PROVE  (GetInfo(f) \/ InfoFails(f) \/ Clone(f) \/ Token(f) \/ TokenFails(f)
            \/ CleanFails(f) \/ Put(f) \/ PutFails(f) \/ RemoveCopy(f) \/ Mark(f)) => TypeInv'
<1> USE DEF TypeInv, disk, world
<1>1. CASE GetInfo(f)
  <2> DEFINE i == FileInfo(f)
             sha == IF i.sha = None THEN Prefix(Local(f), i.size) ELSE i.sha
  <2>1. Local(f) \in Content
    BY <1>1 DEF GetInfo, At, CopyIsThere
  <2>2. /\ i \in [size : Sizes, sha : Content \cup {None}, clean : BOOLEAN]
        /\ i.size <= Local(f).size
        /\ i.sha # None => i.sha.size = i.size
    BY <1>1, FileInfoFacts DEF GetInfo
  <2>3. sha \in Content /\ sha.size = i.size
    <3> HIDE DEF i
    <3> QED  BY <2>1, <2>2, PrefixIsContent
  <2>4. [size |-> i.size, sha |-> sha] \in Info
    <3> HIDE DEF i, sha
    <3> QED  BY <2>2, <2>3 DEF Info
  <2>5. /\ info' = [info EXCEPT ![Path(f)] = [size |-> i.size, sha |-> sha]]
        /\ job' = [job EXCEPT !.pc = "clone", !.size = i.size, !.sha = sha, !.clean = i.clean]
    BY <1>1 DEF GetInfo
  <2> HIDE DEF i, sha
  <2>6. DiskType'
    <3>1. info' \in [Paths -> Info \cup {None}]
      BY <2>4, <2>5 DEF DiskType
    <3> QED  BY <1>1, <3>1 DEF GetInfo, DiskType
  <2>7. JobType' /\ job'.file = job.file /\ job.pc = "info"
    BY <1>1, <2>2, <2>3, <2>5 DEF GetInfo, At, JobType, Job, Steps
  <2> QED  BY <1>1, <2>6, <2>7, CopyStays DEF GetInfo
<1>2. CASE InfoFails(f)
  <2>1. info' \in {info, [info EXCEPT ![Path(f)] = None]}
    BY <1>2 DEF InfoFails
  <2>2. DiskType'
    BY <1>2, <2>1, Counts DEF InfoFails, DiskType
  <2> QED  BY <1>2, <2>2, JobSteps, CopyStays DEF InfoFails
<1>3. CASE Clone(f)
  <2>1. DiskType'
    BY <1>3 DEF Clone, DiskType, JobType, Job
  <2> QED  BY <1>3, <2>1, JobSteps, CopyStays DEF Clone, At, Steps
<1>4. CASE Token(f)
  BY <1>4, JobSteps, CopyStays DEF Token, At, DiskType, Steps
<1>5. CASE TokenFails(f)
  BY <1>5, JobSteps, CopyStays, Counts DEF TokenFails, DiskType
<1>6. CASE Put(f)
  <2>1. Local(f) \in Content /\ job.size \in Sizes
    BY <1>6 DEF Put, At, CopyIsThere, JobType, Job
  <2>2. Prefix(Local(f), job.size) \in Content
    BY <2>1, PrefixIsContent
  <2>3. DiskType'
    BY <1>6, <2>2 DEF Put, DiskType
  <2> QED  BY <1>6, <2>3, JobSteps, CopyStays DEF Put, At, Steps
<1>7. CASE PutFails(f)
  <2>1. Local(f) \in Content /\ job.size \in Sizes
    BY <1>7 DEF PutFails, At, CopyIsThere, JobType, Job
  <2>2. Prefix(Local(f), job.size) \in Content
    BY <2>1, PrefixIsContent
  <2>3. Saved(f) \in Content \cup {None}
    BY DEF Saved, DiskType
  <2>4. DiskType'
    BY <1>7, <2>2, <2>3, Counts DEF PutFails, DiskType
  <2> QED  BY <1>7, <2>4, JobSteps, CopyStays DEF PutFails
<1>8. CASE RemoveCopy(f)
  <2>1. DiskType'
    BY <1>8 DEF RemoveCopy, DiskType
  <2> QED  BY <1>8, <2>1, JobSteps DEF RemoveCopy, At, Steps, CopyIsThere
<1>9. CASE Mark(f)
  BY <1>9, JobSteps, CopyStays DEF Mark, DiskType
<1>10. CASE CleanFails(f)
  <2>1. DiskType'
    BY <1>10, Counts DEF CleanFails, DiskType
  <2>2. JobType' /\ job'.file = job.file /\ job.pc = "put"
    BY <1>10 DEF CleanFails, At, JobType, Job, Steps
  <2> QED  BY <1>10, <2>1, <2>2, CopyStays DEF CleanFails
<1> QED
  BY <1>1, <1>2, <1>3, <1>4, <1>5, <1>6, <1>7, <1>8, <1>9, <1>10

\* The steps of the round.
LEMMA TypeRound ==
  ASSUME TypeInv
  PROVE  (StartRound \/ EndRound \/ CleanInfo \/ CleanCacheDir \/ UNCHANGED vars) => TypeInv'
<1> USE DEF TypeInv, disk, world
<1>1. CASE StartRound
  <2>1. Idle \in Job
    BY ContentAssumption DEF Idle, Job, Steps, Sizes
  <2>2. job'.pc = "pick" /\ ~job'.clean
    BY <1>1 DEF StartRound, Idle
  <2>3. job' \in Job
    BY <1>1, <2>1 DEF StartRound, Job, Steps
  <2>4. JobType'
    BY <2>2, <2>3 DEF JobType
  <2> QED  BY <1>1, <2>2, <2>4, CopyStays DEF StartRound, DiskType
<1>2. CASE EndRound
  BY <1>2, JobSteps, CopyStays, Counts DEF EndRound, DiskType
<1>3. CASE CleanInfo
  <2>1. DiskType'
    BY <1>3 DEF CleanInfo, DiskType
  <2> QED  BY <1>3, <2>1, CopyStays DEF CleanInfo, JobType
<1>4. CASE CleanCacheDir
  BY <1>4 DEF CleanCacheDir, DiskType, JobType, CopyIsThere
<1>5. CASE UNCHANGED vars
  BY <1>5, CopyStays DEF vars, DiskType, JobType
<1> QED
  BY <1>1, <1>2, <1>3, <1>4, <1>5

LEMMA TypeInit == Init => TypeInv
BY ContentAssumption, ContentNamesAssumption
DEF Init, TypeInv, DiskType, JobType, Job, Steps, CopyIsThere, Idle, Sizes

LEMMA TypeInvariant == Spec => []TypeInv
<1>1. TypeInv /\ [Next]_vars => TypeInv'
  BY TypeBegins, TypeUploads, TypeRound DEF Next, Attempt
<1> QED
  BY <1>1, TypeInit, PTL DEF Spec

\* Every variable keeps its type, and a cached checksum is always of as many
\* units as the size it is cached with, whatever fails in between (GetInfo).
THEOREM TypeCorrect == Spec => []TypeOK
BY TypeInvariant, TypeInvImpliesTypeOK, PTL

-----------------------------------------------------------------------------
(* What an object holds.  The invariant follows a content from the copy, by the *)
(* cached information and the saved parts, to the object: each is of a file     *)
(* that has the path it is kept for.  That the saved parts are of the size that *)
(* is cached, or about to be dropped, is what makes a resumed upload sound; it  *)
(* holds for a file that shares its path with no other, until a decision to     *)
(* drop its parts is lost.                                                      *)

Dropped(f) ==
  \/ f \in done
  \/ /\ job.pc \in {"clone", "token", "put", "remove", "mark"}
     /\ job.file = f /\ job.clean

OwnInv ==
  /\ \A p \in Copies : copy[p] # None => Path(copy[p].of) = p
  /\ \A p \in Paths : info[p] # None => Path(info[p].sha.of) = p
  /\ \A f \in Files : parts[f] # None => Path(parts[f].of) = Path(f)
  /\ \A f \in Files : object[f] \notin {None, Torn} => Path(object[f].of) = Path(f)

TornInv == \A f \in Files : object[f] = Torn => f \in lost \/ ~Alone(f)

TodoInv ==
  /\ job.pc # "idle" => job.todo \cap done = {}
  /\ job.pc \notin {"idle", "pick"} => job.file \in job.todo

HandInv ==
  job.pc \in {"clone", "token", "put"} =>
    /\ job.sha \in Content
    /\ info[Path(job.file)] = [size |-> job.size, sha |-> job.sha]
    /\ job.size <= Local(job.file).size

PartsInv ==
  \A f \in Files :
    /\ Alone(f) /\ f \notin lost /\ ~Dropped(f)
    /\ parts[f] # None /\ info[Path(f)] # None
    => parts[f].size = info[Path(f)].size

DoneInv ==
  /\ job.pc = "remove" => object[job.file] # None
  /\ job.pc = "mark" =>
       \/ job.file \in skipped
       \/ /\ object[job.file] # None
          /\ \A p \in Copies : copy[p] # None => copy[p].of # job.file
  /\ \A f \in done : f \in skipped \/ object[f] # None
  /\ \A p \in Copies : copy[p] # None => copy[p].of \notin done \ skipped

ContentInv == TypeInv /\ OwnInv /\ TornInv /\ TodoInv /\ HandInv /\ PartsInv /\ DoneInv

\* What is read of a file is a content of a file with its path, and of itself if
\* it shares the path with no other.
LEMMA LocalIsOwn ==
  ASSUME ContentInv, NEW f \in Files, Local(f) \in Content
  PROVE  Path(Local(f).of) = Path(f)
<1>1. CASE f \in Slave
  <2>1. Local(f) = copy[Path(f)] /\ Path(f) \in Copies
    BY <1>1, PathIsPath DEF Local
  <2> QED  BY <2>1, ContentNamesAssumption DEF ContentInv, OwnInv
<1>2. CASE f \notin Slave
  BY <1>2 DEF Local, Source
<1> QED
  BY <1>1, <1>2

LEMMA AloneIsOwn ==
  ASSUME NEW f \in Files, Alone(f), NEW c \in Content, Path(c.of) = Path(f)
  PROVE  c.of = f
BY DEF Alone, Content

\* What the bookkeeping does to the fields of the job.
LEMMA JobFields ==
  ASSUME JobType
  PROVE  /\ \A step \in Steps : To(step) =>
              /\ job'.pc = step /\ job'.file = job.file /\ job'.todo = job.todo
              /\ job'.clean = job.clean /\ job'.size = job.size /\ job'.sha = job.sha
         /\ \A step \in Steps : Stored(step) =>
              /\ job'.pc = step /\ job'.file = job.file /\ job'.todo = job.todo
              /\ job'.clean = job.clean
         /\ NextFile => job'.pc = "pick" /\ job'.todo = job.todo \ {job.file} /\ ~job'.clean
         /\ job' = Idle => job'.pc = "idle" /\ ~job'.clean
<1>1. ASSUME NEW step \in Steps, To(step)
      PROVE  /\ job'.pc = step /\ job'.file = job.file /\ job'.todo = job.todo
             /\ job'.clean = job.clean /\ job'.size = job.size /\ job'.sha = job.sha
  BY <1>1 DEF To, JobType, Job
<1>2. ASSUME NEW step \in Steps, Stored(step)
      PROVE  /\ job'.pc = step /\ job'.file = job.file /\ job'.todo = job.todo
             /\ job'.clean = job.clean
  BY <1>2 DEF Stored, JobType, Job
<1>3. NextFile => job'.pc = "pick" /\ job'.todo = job.todo \ {job.file} /\ ~job'.clean
  BY DEF NextFile, Idle
<1>4. job' = Idle => job'.pc = "idle" /\ ~job'.clean
  BY DEF Idle
<1> QED
  BY <1>1, <1>2, <1>3, <1>4

\* The end of the work on a file, done or not: if saved parts were to be dropped,
\* the file is among those whose decision is lost.
LEMMA Leaves ==
  ASSUME ContentInv, job.pc # "idle", NextFile \/ job' = Idle
  PROVE  /\ HandInv'
         /\ done' = done => TodoInv'
         /\ UNCHANGED <<copy, object, done, skipped>> => DoneInv'
         /\ (lost' = lost /\ ~job.clean) \/ LostNow =>
              /\ UNCHANGED object => TornInv'
              /\ UNCHANGED <<info, parts, done>> => PartsInv'
<1> USE DEF ContentInv, TypeInv
<1>1. job'.pc \in {"idle", "pick"} /\ ~job'.clean
  BY JobFields
<1>2. HandInv'
  BY <1>1 DEF HandInv
<1>3. done' = done => TodoInv'
  <2>1. job'.pc = "idle" \/ job'.todo = job.todo \ {job.file}
    BY JobFields
  <2> QED  BY <1>1, <2>1 DEF TodoInv
<1>4. UNCHANGED <<copy, object, done, skipped>> => DoneInv'
  BY <1>1 DEF DoneInv
<1>5. ASSUME (lost' = lost /\ ~job.clean) \/ LostNow PROVE lost \subseteq lost'
  BY <1>5 DEF LostNow
<1>6. ASSUME (lost' = lost /\ ~job.clean) \/ LostNow, UNCHANGED object PROVE TornInv'
  BY <1>5, <1>6 DEF TornInv
<1>7. ASSUME (lost' = lost /\ ~job.clean) \/ LostNow, UNCHANGED <<info, parts, done>>
      PROVE  PartsInv'
  <2>1. \A f \in Files : Dropped(f) => f \in done \/ (job.file = f /\ job.clean)
    BY DEF Dropped
  <2>2. job.clean => parts[job.file] = None \/ job.file \in lost'
    BY <1>7 DEF LostNow
  <2> QED  BY <1>5, <1>7, <2>1, <2>2 DEF PartsInv, Dropped
<1> QED
  BY <1>2, <1>3, <1>4, <1>6, <1>7

\* A slave's file on its way to the local copy.
LEMMA ContentOfCopy ==
  ASSUME ContentInv, TypeInv', NEW f \in Files
  PROVE  (Pick(f) \/ UseCopy(f) \/ CacheInsufficient(f) \/ Download(f) \/ DownloadFails(f)
            \/ Refused(f)) => ContentInv'
<1> USE DEF ContentInv, disk, world
<1>0. copy \in [Copies -> Content \cup {None}] /\ JobType
  BY DEF TypeInv, DiskType
<1>1. CASE Pick(f)
  <2>1. /\ job'.pc \in {"copy", "info"} /\ job'.file = f /\ job'.todo = job.todo
        /\ ~job'.clean /\ ~job.clean
    BY <1>0, <1>1 DEF Pick, JobType, Job
  <2>2. HandInv' /\ DoneInv' /\ OwnInv' /\ TornInv'
    BY <1>1, <2>1 DEF Pick, HandInv, DoneInv, OwnInv, TornInv
  <2>3. TodoInv' /\ PartsInv'
    BY <1>1, <2>1 DEF Pick, TodoInv, PartsInv, Dropped
  <2> QED  BY <2>2, <2>3
<1>2. CASE UseCopy(f)
  <2>1. /\ job'.pc = "info" /\ job'.file = job.file /\ job'.todo = job.todo
        /\ job'.clean = job.clean /\ job.pc = "copy"
    BY <1>0, <1>2, JobFields DEF UseCopy, At, Steps
  <2>2. HandInv' /\ DoneInv' /\ OwnInv' /\ TornInv'
    BY <1>2, <2>1 DEF UseCopy, HandInv, DoneInv, OwnInv, TornInv
  <2>3. TodoInv' /\ PartsInv'
    BY <1>2, <2>1 DEF UseCopy, TodoInv, PartsInv, Dropped
  <2> QED  BY <2>2, <2>3
<1>3. CASE CacheInsufficient(f)
  <2>1. ~job.clean /\ job.pc = "copy"
    BY <1>0, <1>3 DEF CacheInsufficient, NeedsDownload, At, JobType
  <2>2. OwnInv'
    BY <1>3 DEF CacheInsufficient, OwnInv
  <2> QED  BY <1>3, <2>1, <2>2, Leaves DEF CacheInsufficient
<1>4. CASE Download(f)
  <2>1. PICK n \in 0..src[f] :
          /\ copy' = [copy EXCEPT ![Path(f)] = Source(f, n)]
          /\ job' = [job EXCEPT !.pc = "info", !.size = n]
    BY <1>4 DEF Download
  <2>2. /\ job.pc = "copy" /\ job.file = f /\ f \in Slave
        /\ job'.pc = "info" /\ job'.file = f /\ job'.todo = job.todo /\ job'.clean = job.clean
    BY <1>0, <1>4, <2>1 DEF Download, NeedsDownload, At, JobType, Job
  <2>3. \A p \in Copies : copy'[p] = IF p = Path(f) THEN Source(f, n) ELSE copy[p]
    BY <1>0, <2>1
  <2>4. f \notin done
    BY <2>2 DEF TodoInv
  <2>5. Source(f, n).of = f
    BY DEF Source
  <2>6. OwnInv' /\ TornInv'
    <3>1. \A p \in Copies : copy'[p] # None => Path(copy'[p].of) = p
      <4> HIDE DEF Path
      <4> QED  BY <2>3, <2>5 DEF OwnInv
    <3> QED  BY <1>4, <3>1 DEF Download, OwnInv, TornInv
  <2>7. HandInv' /\ TodoInv' /\ PartsInv'
    BY <1>4, <2>2 DEF Download, HandInv, TodoInv, PartsInv, Dropped
  <2>8. DoneInv'
    <3>1. \A p \in Copies : copy'[p] # None => copy'[p].of \notin done \ skipped
      <4> HIDE DEF Path
      <4> QED  BY <2>3, <2>4, <2>5 DEF DoneInv
    <3> QED  BY <1>4, <2>2, <3>1 DEF Download, DoneInv
  <2> QED  BY <2>6, <2>7, <2>8
<1>5. CASE DownloadFails(f)
  <2>1. job.pc = "copy" /\ job.file = f /\ ~job.clean
    BY <1>0, <1>5 DEF DownloadFails, NeedsDownload, At, JobType
  <2>2. \A p \in Copies : \/ copy'[p] = copy[p]
                          \/ copy'[p] = None
                          \/ p = Path(f) /\ copy'[p].of = f
    BY <1>0, <1>5 DEF DownloadFails, Source
  <2>3. f \notin done
    BY <2>1 DEF TodoInv
  <2>4. HandInv' /\ TodoInv' /\ PartsInv' /\ TornInv'
    BY <1>5, <2>1, Leaves DEF DownloadFails
  <2>5. OwnInv'
    <3>1. \A p \in Copies : copy'[p] # None => Path(copy'[p].of) = p
      <4> HIDE DEF Path
      <4> QED  BY <2>2 DEF OwnInv
    <3> QED  BY <1>5, <3>1 DEF DownloadFails, OwnInv
  <2>6. job'.pc \in {"idle", "pick"}
    BY <1>0, <1>5, JobFields DEF DownloadFails
  <2>7. DoneInv'
    <3>1. \A p \in Copies : copy'[p] # None => copy'[p].of \notin done \ skipped
      <4> HIDE DEF Path
      <4> QED  BY <2>2, <2>3 DEF DoneInv
    <3> QED  BY <1>5, <2>6, <3>1 DEF DownloadFails, DoneInv
  <2> QED  BY <2>4, <2>5, <2>7
<1>6. CASE Refused(f)
  <2>1. /\ job.pc = "copy" /\ job.file = f /\ ~job.clean
        /\ job'.pc = "mark" /\ job'.file = f /\ job'.todo = job.todo /\ ~job'.clean
    BY <1>0, <1>6, JobFields DEF Refused, NeedsDownload, At, Steps, JobType
  <2>2. OwnInv' /\ TornInv' /\ HandInv' /\ DoneInv'
    BY <1>6, <2>1 DEF Refused, OwnInv, TornInv, HandInv, DoneInv
  <2>3. TodoInv' /\ PartsInv'
    BY <1>6, <2>1 DEF Refused, TodoInv, PartsInv, Dropped
  <2> QED  BY <2>2, <2>3
<1> QED
  BY <1>1, <1>2, <1>3, <1>4, <1>5, <1>6

\* From the checksum on, the information about the file in hand is cached.
LEMMA HandKnown ==
  ASSUME ContentInv, job.pc \in {"clone", "token", "put"}
  PROVE  /\ info[Path(job.file)] # None /\ job.sha \in Content
         /\ Path(job.sha.of) = Path(job.file)
<1>1. job.sha \in Content /\ job.size \in Sizes /\ job.file \in Files
  BY DEF ContentInv, TypeInv, JobType, Job, HandInv
<1>2. info[Path(job.file)] = [size |-> job.size, sha |-> job.sha]
  BY DEF ContentInv, HandInv
<1>3. [size |-> job.size, sha |-> job.sha] # None
  BY <1>1, ContentNamesAssumption
<1>4. Path(job.file) \in Paths
  BY <1>1, PathIsPath
<1> HIDE DEF Path
<1> QED
  BY <1>1, <1>2, <1>3, <1>4 DEF ContentInv, OwnInv

\* The upload of what is there.
LEMMA ContentOfUpload ==
  ASSUME ContentInv, TypeInv', NEW f \in Files
  PROVE  (GetInfo(f) \/ InfoFails(f) \/ Clone(f) \/ Token(f) \/ TokenFails(f)
            \/ CleanFails(f)) => ContentInv'
<1> USE DEF ContentInv, disk, world
<1>0. /\ info \in [Paths -> Info \cup {None}] /\ JobType /\ Path(f) \in Paths
      /\ object \in [Files -> Content \cup {None, Torn}]
  BY PathIsPath DEF TypeInv, DiskType
<1>1. CASE GetInfo(f)
  <2> DEFINE i == FileInfo(f)
             sha == IF i.sha = None THEN Prefix(Local(f), i.size) ELSE i.sha
  <2>1. job.pc = "info" /\ job.file = f /\ Local(f) \in Content /\ ~job.clean
    BY <1>0, <1>1 DEF GetInfo, At, TypeInv, CopyIsThere, JobType
  <2>2. /\ i \in [size : Sizes, sha : Content \cup {None}, clean : BOOLEAN]
        /\ i.size <= Local(f).size
        /\ ~i.clean => /\ info[Path(f)] # None /\ i.size = info[Path(f)].size
                       /\ i.sha = info[Path(f)].sha
        /\ i.clean => i.sha = None
    BY <1>1, FileInfoFacts DEF GetInfo
  <2>3. /\ info' = [info EXCEPT ![Path(f)] = [size |-> i.size, sha |-> sha]]
        /\ job' = [job EXCEPT !.pc = "clone", !.size = i.size, !.sha = sha, !.clean = i.clean]
    BY <1>1 DEF GetInfo
  <2>4. Path(Local(f).of) = Path(f)
    BY <2>1, LocalIsOwn
  <2> HIDE DEF i
  <2>5. sha \in Content /\ Path(sha.of) = Path(f)
    <3>1. CASE i.sha = None
      BY <2>1, <2>2, <2>4, <3>1, PrefixIsContent
    <3>2. CASE i.sha # None
      <4>1. i.sha = info[Path(f)].sha /\ info[Path(f)] # None /\ i.sha \in Content
        BY <2>2, <3>2
      <4> HIDE DEF Path
      <4> QED  BY <1>0, <3>2, <4>1 DEF OwnInv
    <3> QED  BY <3>1, <3>2
  <2> HIDE DEF sha
  <2>6. \A p \in Paths : info'[p] = IF p = Path(f) THEN [size |-> i.size, sha |-> sha] ELSE info[p]
    BY <1>0, <2>3
  <2>7. /\ job'.pc = "clone" /\ job'.file = f /\ job'.todo = job.todo
        /\ job'.size = i.size /\ job'.sha = sha /\ job'.clean = i.clean
    BY <1>0, <2>1, <2>3 DEF JobType, Job
  <2>8. OwnInv' /\ TornInv'
    <3>1. \A p \in Paths : info'[p] # None => Path(info'[p].sha.of) = p
      <4> HIDE DEF Path
      <4> QED  BY <2>5, <2>6 DEF OwnInv
    <3> QED  BY <1>1, <3>1 DEF GetInfo, OwnInv, TornInv
  <2>9. TodoInv' /\ DoneInv'
    BY <1>1, <2>1, <2>7 DEF GetInfo, TodoInv, DoneInv
  <2>10. HandInv'
    <3>1. info'[Path(f)] = [size |-> i.size, sha |-> sha]
      BY <1>0, <2>6
    <3>2. Local(f)' = Local(f)
      BY <1>1, SameLocal DEF GetInfo
    <3> QED  BY <2>2, <2>5, <2>7, <3>1, <3>2 DEF HandInv
  <2>11. f \notin done
    BY <2>1 DEF TodoInv
  <2>12. PartsInv'
    <3> SUFFICES ASSUME NEW g \in Files, Alone(g), g \notin lost', ~Dropped(g)',
                        parts'[g] # None, info'[Path(g)] # None
                 PROVE  parts'[g].size = info'[Path(g)].size
      BY DEF PartsInv, Alone
    <3>1. CASE g = f
      <4>1. ~i.clean /\ info'[Path(f)].size = info[Path(f)].size
        BY <1>0, <2>2, <2>6, <2>7, <3>1 DEF Dropped
      <4>2. ~Dropped(f)
        BY <2>1, <2>11 DEF Dropped
      <4> QED  BY <1>1, <2>2, <3>1, <4>1, <4>2 DEF GetInfo, PartsInv
    <3>2. CASE g # f
      <4>1. Path(g) # Path(f) /\ Path(g) \in Paths
        BY <3>2, PathIsPath DEF Alone
      <4>2. info'[Path(g)] = info[Path(g)]
        BY <2>6, <4>1
      <4>3. ~Dropped(g)
        BY <1>1, <2>1, <2>7 DEF Dropped, GetInfo
      <4> QED  BY <1>1, <4>2, <4>3 DEF GetInfo, PartsInv
    <3> QED  BY <3>1, <3>2
  <2> QED  BY <2>8, <2>9, <2>10, <2>12
<1>2. CASE InfoFails(f)
  <2>1. ~job.clean /\ job.pc = "info"
    BY <1>0, <1>2 DEF InfoFails, At, JobType
  <2>2. \A p \in Paths : info'[p] \in {None, info[p]}
    <3>1. info' \in {info, [info EXCEPT ![Path(f)] = None]}
      BY <1>2 DEF InfoFails
    <3> HIDE DEF Path
    <3> QED  BY <1>0, <3>1
  <2>3. OwnInv'
    BY <1>2, <2>2 DEF InfoFails, OwnInv
  <2>4. PartsInv'
    <3>1. \A g \in Files : Path(g) \in Paths
      BY PathIsPath
    <3>2. job'.pc \in {"idle", "pick"} /\ ~job'.clean
      BY <1>0, <1>2, JobFields DEF InfoFails
    <3> QED  BY <1>2, <2>1, <2>2, <3>1, <3>2 DEF InfoFails, PartsInv, Dropped, Alone
  <2> QED  BY <1>2, <2>1, <2>3, <2>4, Leaves DEF InfoFails
<1>3. CASE Clone(f)
  <2>1. job.pc = "clone" /\ job.file = f
    BY <1>3 DEF Clone, At
  <2>2. /\ job'.pc \in {"remove", "token"} /\ job'.file = f /\ job'.todo = job.todo
        /\ job'.clean = job.clean
        /\ job'.pc = "token" => job'.size = job.size /\ job'.sha = job.sha
    BY <1>0, <1>3, <2>1, JobFields DEF Clone, Steps
  <2>3. job.sha \in Content /\ Path(job.sha.of) = Path(f)
    BY <2>1, HandKnown
  <2>4. \A g \in Files : \/ object'[g] = object[g] /\ (g = f => job'.pc = "token")
                         \/ g = f /\ object'[g] = job.sha
    BY <1>0, <1>3, <2>1, JobFields DEF Clone, Steps
  <2>5. OwnInv' /\ TornInv'
    <3>1. \A g \in Files : object'[g] \notin {None, Torn} => Path(object'[g].of) = Path(g)
      <4> HIDE DEF Path
      <4> QED  BY <2>3, <2>4 DEF OwnInv
    <3>2. \A g \in Files : object'[g] = Torn => object[g] = Torn
      BY <2>3, <2>4, ContentNamesAssumption
    <3> QED  BY <1>3, <3>1, <3>2 DEF Clone, OwnInv, TornInv
  <2>6. TodoInv' /\ PartsInv'
    BY <1>3, <2>1, <2>2 DEF Clone, TodoInv, PartsInv, Dropped
  <2>7. HandInv'
    BY <1>3, <2>1, <2>2, SameLocal DEF Clone, HandInv
  <2>8. f \notin done
    BY <2>1 DEF TodoInv
  <2>9. DoneInv'
    BY <1>3, <2>2, <2>3, <2>4, <2>8, ContentNamesAssumption DEF Clone, DoneInv, TypeInv, DiskType
  <2> QED  BY <2>5, <2>6, <2>7, <2>9
<1>4. CASE Token(f)
  <2>1. /\ job.pc = "token" /\ job.file = f /\ job'.pc = "put" /\ job'.file = f
        /\ job'.todo = job.todo /\ job'.clean = job.clean
        /\ job'.size = job.size /\ job'.sha = job.sha
    BY <1>0, <1>4, JobFields DEF Token, At, Steps
  <2>2. OwnInv' /\ TornInv' /\ DoneInv'
    BY <1>4, <2>1 DEF Token, OwnInv, TornInv, DoneInv
  <2>3. TodoInv' /\ PartsInv'
    BY <1>4, <2>1 DEF Token, TodoInv, PartsInv, Dropped
  <2>4. HandInv'
    BY <1>4, <2>1, SameLocal DEF Token, HandInv
  <2> QED  BY <2>2, <2>3, <2>4
<1>5. CASE TokenFails(f)
  <2>1. job.pc = "token"
    BY <1>5 DEF TokenFails, At
  <2>2. OwnInv'
    BY <1>5 DEF TokenFails, OwnInv
  <2> QED  BY <1>5, <2>1, <2>2, Leaves DEF TokenFails
<1>6. CASE CleanFails(f)
  <2>1. /\ job.pc = "put" /\ job.file = f /\ job'.pc = "put" /\ job'.file = f
        /\ job'.todo = job.todo /\ job'.size = job.size /\ job'.sha = job.sha
    BY <1>0, <1>6 DEF CleanFails, At, JobType, Job
  <2>2. lost' = lost \cup {f}
    BY <1>6, <2>1 DEF CleanFails, LostNow
  <2>3. OwnInv' /\ TornInv' /\ DoneInv' /\ TodoInv'
    BY <1>6, <2>1, <2>2 DEF CleanFails, OwnInv, TornInv, DoneInv, TodoInv
  <2>4. PartsInv'
    BY <1>6, <2>1, <2>2 DEF CleanFails, PartsInv, Dropped
  <2>5. HandInv'
    BY <1>6, <2>1, SameLocal DEF CleanFails, HandInv
  <2> QED  BY <2>3, <2>4, <2>5
<1> QED
  BY <1>1, <1>2, <1>3, <1>4, <1>5, <1>6

\* What is read of a file in hand is of a file with its path; what is saved of it,
\* unless a decision is lost or the path shared, was read of it at the size in hand.
LEMMA SavedIsRead ==
  ASSUME ContentInv, NEW f \in Files, At("put", f)
  PROVE  LET read == Prefix(Local(f), job.size) IN
         /\ read \in Content /\ Path(read.of) = Path(f) /\ read.size = job.size
         /\ info[Path(f)] # None /\ info[Path(f)].size = job.size
         /\ f \notin done
         /\ Alone(f) /\ f \notin lost => Saved(f) \in {None, read}
<1> USE DEF ContentInv, TypeInv
<1> DEFINE read == Prefix(Local(f), job.size)
<1>1. Local(f) \in Content /\ job.size \in Sizes /\ Path(Local(f).of) = Path(f)
  BY LocalIsOwn DEF At, CopyIsThere, JobType, Job
<1>2. job.size <= Local(f).size /\ info[Path(f)] = [size |-> job.size, sha |-> job.sha]
  BY DEF At, HandInv
<1>3. read \in Content /\ read.of = Local(f).of /\ read.size = job.size
  BY <1>1, <1>2, PrefixIsContent
<1> HIDE DEF read
<1>4. info[Path(f)] # None /\ info[Path(f)].size = job.size
  BY <1>2, HandKnown DEF At
<1>5. f \notin done
  BY DEF At, TodoInv
<1>6. ASSUME Alone(f), f \notin lost, Saved(f) # None PROVE Saved(f) = read
  <2>1. ~job.clean /\ Saved(f) = parts[f] /\ parts[f] \in Content
    BY <1>6 DEF Saved, DiskType
  <2>2. parts[f].size = job.size
    BY <1>4, <1>5, <1>6, <2>1 DEF At, PartsInv, Dropped
  <2>3. Path(parts[f].of) = Path(f)
    BY <1>6, <2>1 DEF OwnInv
  <2>4. parts[f].of = f /\ read.of = f
    BY <1>1, <1>3, <1>6, <2>1, <2>3, AloneIsOwn
  <2> QED  BY <1>3, <2>1, <2>2, <2>4 DEF Content
<1> QED
  BY <1>1, <1>3, <1>4, <1>5, <1>6 DEF read

\* The end of an upload.
LEMMA ContentOfObject ==
  ASSUME ContentInv, TypeInv', NEW f \in Files
  PROVE  (Put(f) \/ PutFails(f) \/ RemoveCopy(f) \/ Mark(f)) => ContentInv'
<1> USE DEF ContentInv, disk, world
<1>0. /\ copy \in [Copies -> Content \cup {None}] /\ JobType /\ lost \subseteq Files
      /\ object \in [Files -> Content \cup {None, Torn}]
      /\ parts \in [Files -> Content \cup {None}]
  BY DEF TypeInv, DiskType
<1>1. CASE Put(f)
  <2> DEFINE read == Prefix(Local(f), job.size)
             kept == IF Saved(f) \in {None, read} THEN read ELSE Torn
  <2>1. /\ read \in Content /\ Path(read.of) = Path(f) /\ f \notin done
        /\ Alone(f) /\ f \notin lost => Saved(f) \in {None, read}
    BY <1>1, SavedIsRead DEF Put
  <2>2. /\ object' = [object EXCEPT ![f] = kept] /\ parts' = [parts EXCEPT ![f] = None]
        /\ job.pc = "put" /\ job.file = f
        /\ lost' = IF job.clean THEN lost \ {f} ELSE lost
    BY <1>1 DEF Put, At
  <2>3. /\ job'.pc = "remove" /\ job'.file = f /\ job'.todo = job.todo /\ job'.clean = job.clean
    BY <1>0, <1>1, <2>2, JobFields DEF Put, Steps
  <2>4. kept = Torn => ~job.clean /\ ~(Alone(f) /\ f \notin lost)
    BY <2>1, ContentNamesAssumption DEF Saved
  <2>5. kept # None /\ (kept # Torn => Path(kept.of) = Path(f))
    BY <2>1, ContentNamesAssumption
  <2> HIDE DEF read, kept
  <2>6. \A g \in Files : /\ object'[g] = IF g = f THEN kept ELSE object[g]
                         /\ parts'[g] = IF g = f THEN None ELSE parts[g]
    BY <1>0, <2>2
  <2>7. OwnInv'
    BY <1>1, <2>5, <2>6 DEF Put, OwnInv
  <2>8. TornInv'
    BY <2>2, <2>4, <2>6 DEF TornInv, Alone
  <2>9. TodoInv' /\ HandInv'
    BY <1>1, <2>2, <2>3 DEF Put, TodoInv, HandInv
  <2>10. PartsInv'
    BY <1>1, <2>2, <2>3, <2>6 DEF Put, PartsInv, Dropped
  <2>11. DoneInv'
    BY <1>1, <2>1, <2>3, <2>5, <2>6 DEF Put, DoneInv, TypeInv, DiskType
  <2> QED  BY <2>7, <2>8, <2>9, <2>10, <2>11
<1>2. CASE PutFails(f)
  <2> DEFINE read == Prefix(Local(f), job.size)
  <2>1. /\ job.pc = "put" /\ job.file = f /\ job'.pc = "pick" /\ At("put", f)
        /\ lost' = lost
    BY <1>0, <1>2, JobFields DEF PutFails, At
  <2>2. /\ read \in Content /\ Path(read.of) = Path(f) /\ read.size = info[Path(f)].size
        /\ f \notin done
        /\ Alone(f) /\ f \notin lost => Saved(f) \in {None, read}
    BY <2>1, SavedIsRead
  <2>3. parts'[f] \in {Saved(f), read}
    BY <1>0, <1>2 DEF PutFails
  <2> HIDE DEF read
  <2>4. Saved(f) # None => Saved(f) = parts[f] /\ ~job.clean
    BY DEF Saved
  <2>5. \A g \in Files : g # f => parts'[g] = parts[g]
    BY <1>0, <1>2 DEF PutFails
  <2>6. parts'[f] # None => Path(parts'[f].of) = Path(f)
    BY <2>2, <2>3, <2>4 DEF OwnInv
  <2>7. Alone(f) /\ f \notin lost' /\ parts'[f] # None => parts'[f].size = info[Path(f)].size
    BY <2>1, <2>2, <2>3, <2>4
  <2>8. OwnInv'
    BY <1>2, <2>5, <2>6 DEF PutFails, OwnInv
  <2>9. PartsInv'
    BY <1>2, <2>1, <2>5, <2>7 DEF PutFails, PartsInv, Dropped, Alone
  <2>10. TornInv'
    BY <1>2, <2>1 DEF PutFails, TornInv
  <2> QED  BY <1>2, <2>1, <2>8, <2>9, <2>10, Leaves DEF PutFails
<1>3. CASE RemoveCopy(f)
  <2>1. /\ job.pc = "remove" /\ job.file = f
        /\ job'.pc = "mark" /\ job'.file = f /\ job'.todo = job.todo /\ job'.clean = job.clean
    BY <1>0, <1>3, JobFields DEF RemoveCopy, At, Steps
  <2>2. \A p \in Copies : copy'[p] \in {None, copy[p]} /\ (p = Path(f) => copy'[p] = None)
    BY <1>0, <1>3, PathIsPath DEF RemoveCopy
  <2>3. \A p \in Copies : copy'[p] # None => copy'[p].of # f
    BY <2>2 DEF OwnInv
  <2>4. OwnInv' /\ TornInv' /\ HandInv'
    BY <1>3, <2>1, <2>2 DEF RemoveCopy, OwnInv, TornInv, HandInv
  <2>5. TodoInv' /\ PartsInv'
    BY <1>3, <2>1 DEF RemoveCopy, TodoInv, PartsInv, Dropped
  <2>6. DoneInv'
    BY <1>3, <2>1, <2>2, <2>3 DEF RemoveCopy, DoneInv
  <2> QED  BY <2>4, <2>5, <2>6
<1>4. CASE Mark(f)
  <2>1. /\ job.pc = "mark" /\ job.file = f /\ done' = done \cup {f}
        /\ job'.pc = "pick" /\ job'.todo = job.todo \ {f} /\ ~job'.clean
    BY <1>0, <1>4, JobFields DEF Mark, At
  <2>2. OwnInv' /\ TornInv' /\ TodoInv' /\ HandInv'
    BY <1>4, <2>1 DEF Mark, OwnInv, TornInv, TodoInv, HandInv
  <2>3. PartsInv' /\ DoneInv'
    BY <1>4, <2>1 DEF Mark, PartsInv, Dropped, DoneInv
  <2> QED  BY <2>2, <2>3
<1> QED
  BY <1>1, <1>2, <1>3, <1>4

\* A growing file, and the steps of the round.
LEMMA ContentOfRound ==
  ASSUME ContentInv, TypeInv'
  PROVE  ((\E f \in Files : Grow(f)) \/ StartRound \/ EndRound \/ CleanInfo \/ CleanCacheDir
            \/ UNCHANGED vars) => ContentInv'
<1> USE DEF ContentInv, disk, world
<1>0. /\ copy \in [Copies -> Content \cup {None}] /\ info \in [Paths -> Info \cup {None}]
      /\ JobType /\ src \in [Files -> Sizes]
  BY DEF TypeInv, DiskType
<1>1. ASSUME NEW f \in Files, Grow(f) PROVE ContentInv'
  <2>1. OwnInv' /\ TornInv' /\ TodoInv' /\ PartsInv' /\ DoneInv'
    BY <1>1 DEF Grow, OwnInv, TornInv, TodoInv, PartsInv, Dropped, DoneInv
  <2>2. HandInv'
    <3>1. ASSUME NEW g \in Files, NEW n \in Nat, n <= Local(g).size PROVE n <= Local(g)'.size
      <4>1. src[g] \in Nat /\ src'[g] \in {src[g], src[g] + 1}
        BY <1>0, <1>1, ContentAssumption DEF Grow, Sizes
      <4>2. Local(g)' = Local(g) \/ (Local(g).size = src[g] /\ Local(g)'.size = src'[g])
        BY <1>1 DEF Grow, Local, Source, Path
      <4> QED  BY <3>1, <4>1, <4>2
    <3>2. job.pc \in {"clone", "token", "put"} => job.file \in Files /\ job.size \in Nat
      BY <1>0, ContentAssumption DEF JobType, Job, Sizes
    <3> QED  BY <1>1, <3>1, <3>2 DEF Grow, HandInv
  <2> QED  BY <2>1, <2>2
<1>2. CASE StartRound
  <2>1. job'.pc = "pick" /\ job'.todo = Files \ done /\ ~job'.clean /\ ~job.clean
    BY <1>0, <1>2 DEF StartRound, Idle, JobType
  <2> QED  BY <1>2, <2>1 DEF StartRound, OwnInv, TornInv, TodoInv, HandInv, PartsInv, Dropped,
                             DoneInv
<1>3. CASE EndRound
  <2>1. OwnInv'
    BY <1>3 DEF EndRound, OwnInv
  <2> QED  BY <1>3, <2>1, Leaves DEF EndRound
<1>4. CASE CleanInfo
  <2>1. \A p \in Paths : info'[p] \in {None, info[p]}
    BY <1>0, <1>4 DEF CleanInfo
  <2>2. \A f \in Files : Path(f) \in Paths
    BY PathIsPath
  <2>3. OwnInv' /\ TornInv' /\ TodoInv' /\ HandInv' /\ DoneInv'
    BY <1>4, <2>1 DEF CleanInfo, OwnInv, TornInv, TodoInv, HandInv, DoneInv
  <2>4. PartsInv'
    BY <1>4, <2>1, <2>2 DEF CleanInfo, PartsInv, Dropped, Alone
  <2> QED  BY <2>3, <2>4
<1>5. CASE CleanCacheDir
  <2>1. \A p \in Copies : copy'[p] = None
    BY <1>5 DEF CleanCacheDir
  <2> QED  BY <1>5, <2>1 DEF CleanCacheDir, OwnInv, TornInv, TodoInv, HandInv, PartsInv, Dropped,
                             DoneInv
<1>6. CASE UNCHANGED vars
  <2>1. Local(job.file)' = Local(job.file)
    BY <1>6 DEF vars, Local, Source, Path
  <2> QED  BY <1>6, <2>1 DEF vars, OwnInv, TornInv, TodoInv, HandInv, PartsInv, Dropped, DoneInv
<1> QED
  BY <1>1, <1>2, <1>3, <1>4, <1>5, <1>6

LEMMA ContentInvariant == Spec => []ContentInv
<1>1. Init => ContentInv
  <2>1. Init => OwnInv /\ TornInv /\ TodoInv /\ HandInv /\ PartsInv /\ DoneInv
    BY ContentNamesAssumption
    DEF Init, Idle, OwnInv, TornInv, TodoInv, HandInv, PartsInv, DoneInv
  <2> QED  BY <2>1, TypeInit DEF ContentInv
<1>2. ContentInv /\ [Next]_vars => ContentInv'
  <2>1. ContentInv /\ [Next]_vars => TypeInv'
    BY TypeBegins, TypeUploads, TypeRound DEF ContentInv, Next, Attempt
  <2> QED
    BY <2>1, ContentOfCopy, ContentOfUpload, ContentOfObject, ContentOfRound DEF Next, Attempt
<1> QED
  BY <1>1, <1>2, PTL DEF Spec

\* An object holds the beginning of its own file, or of one whose copy has the
\* same path, and it is a mix of two contents only if there is such a file or a
\* failure fell between the saving of a new size and the cleaning of the old
\* parts; a file counts as uploaded only with an object or because its slave
\* refuses it.  For any files, sizes, paths (getSlaveFileCachePath) and failures.
THEOREM ObjectsAreTheirFiles == Spec => []ObjectIsTheFile
<1>1. ContentInv => ObjectIsTheFile
  BY DEF ContentInv, OwnInv, TornInv, DoneInv, ObjectIsTheFile
<1> QED
  BY <1>1, ContentInvariant, PTL

\* An uploaded file leaves no copy of itself on the master, whichever files share
\* a path and whatever failed before: cleanSlaveCacheFile comes before the
\* progress of the record is saved.
THEOREM NoCopyIsLeft == Spec => []UploadedLeavesNoCopy
<1>1. ContentInv => UploadedLeavesNoCopy
  BY DEF ContentInv, DoneInv, UploadedLeavesNoCopy
<1> QED
  BY <1>1, ContentInvariant, PTL

=============================================================================

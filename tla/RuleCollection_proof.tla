------------------------ MODULE RuleCollection_proof ------------------------
(***************************************************************************)
(* Theorems about RuleCollection, for any trees, rules, windows, limits    *)
(* and bounds: type correctness; that the upload limits of a rule hold but *)
(* for the calls that failed and one upload of another device; that a      *)
(* burst of items activates a rule once; and that every record is whole,   *)
(* if the walks of the trees find what they should.                        *)
(***************************************************************************)
EXTENDS RuleCollection, FiniteSetTheorems, TLAPS

-----------------------------------------------------------------------------
(* Type correctness.  An info in the hands of the consumer is of its rule and is *)
(* not yet published; the collect goroutine has only published ones.             *)

Cuts == [start : Int, end : Int] \cup {None}
Info == [at : {"unsaved", "draft", "published", "cleaned"}, rule : Rules,
         cut : Cuts, skip : BOOLEAN, moments : Nat]

Engine == [pc : {"idle", "act", "global", "hit", "cut"}, id : Infos \cup {None},
           rule : Rules \cup {None}, ts : Nat, k : Nat, can : BOOLEAN]

EngType ==
  /\ prev \in [Rules -> Stamps \cup {None}] /\ active \in [Rules -> Stamps \cup {None}]
  /\ eng \in Engine
  /\ eng.pc # "idle" =>
       /\ eng.id \in DOMAIN info /\ eng.rule \in Rules /\ info[eng.id].rule = eng.rule
       /\ info[eng.id].at \in {"unsaved", "draft"}

InfoType ==
  /\ info \in Seq(Info) /\ Len(info) <= MaxInfos
  /\ \A i \in DOMAIN info : info[i].at \in {"published", "cleaned"} => info[i].cut # None

CloudType ==
  /\ cloud \in [Rules -> [own : Nat, all : Nat]] /\ other \in Rules \cup {None}
  /\ now \in 0..MaxTime /\ faults \in 0..MaxFaults /\ birth \in BOOLEAN
  /\ missed \in [Rules -> Nat] /\ \A r \in Rules : missed[r] <= faults

ColType ==
  /\ {DOMAIN cache, DOMAIN saved} \subseteq SUBSET Wanted
  /\ col \in [pc : {"idle", "list", "scan", "slaves", "save", "clean"}, todo : SUBSET Published,
              id : Published \cup {None}, files : SUBSET Wanted, due : SUBSET Wanted]
  /\ col.id \notin col.todo
  /\ col.pc \in {"idle", "list"} => col.id = None
  /\ col.pc \in {"scan", "slaves", "save", "clean"} => col.id \in Published

TypeInv == EngType /\ InfoType /\ CloudType /\ ColType

LEMMA TypeInvImpliesTypeOK == TypeInv => TypeOK
<1> SUFFICES ASSUME TypeInv PROVE TypeOK
  OBVIOUS
<1>1. \A i \in DOMAIN info : info[i] \in Info
  BY DEF TypeInv, InfoType
<1>2. missed \in [Rules -> 0..MaxFaults]
  <2>1. \A r \in Rules : missed[r] \in 0..MaxFaults
    BY RuleCollectionAssumption DEF TypeInv, CloudType
  <2> QED  BY <2>1 DEF TypeInv, CloudType
<1>3. col.todo \cup ({col.id} \ {None}) \subseteq Published /\ col.id \notin col.todo
  BY DEF TypeInv, ColType
<1> QED
  BY <1>1, <1>2, <1>3 DEF TypeInv, TypeOK, EngType, Engine, InfoType, CloudType, ColType, Info

\* What a write of one info leaves.
LEMMA InfoWrite ==
  ASSUME info \in Seq(Info), NEW i \in DOMAIN info, NEW d \in Info, info' = [info EXCEPT ![i] = d]
  PROVE  /\ info' \in Seq(Info) /\ Len(info') = Len(info) /\ DOMAIN info' = DOMAIN info
         /\ info'[i] = d /\ \A j \in DOMAIN info : j # i => info'[j] = info[j]
OBVIOUS

\* The item of a rule becomes an info, or not.
LEMMA ConsumeTypes ==
  ASSUME TypeInv, NEW r \in Rules, NEW ts \in Stamps, NEW source, ConsumeNext(r, ts, source)
  PROVE  TypeInv'
<1> DEFINE e == EvalConditions(r, ts, source)
<1>1. e.time \in Stamps \cup {None} /\ e.active \in BOOLEAN /\ ts \in Nat
  BY RuleCollectionAssumption DEF EvalConditions, TypeInv, EngType
<1>2. prev' = [prev EXCEPT ![r] = e.time] /\ UNCHANGED <<now, faults, birth, cloudVars, colVars>>
  BY DEF ConsumeNext
<1> HIDE DEF e
<1>3. CASE e.active
  <2>1. /\ Len(info) < MaxInfos /\ info' = Append(info, Draft(r))
        /\ eng' = [Idle EXCEPT !.pc = "act", !.id = Len(info) + 1, !.rule = r, !.ts = ts, !.k = 1]
        /\ active' = [active EXCEPT ![r] = IF source = "http" THEN ts ELSE None]
    BY <1>3 DEF ConsumeNext, e
  <2>2. Draft(r) \in Info
    BY DEF Draft, Info, Cuts
  <2>3. MaxInfos \in Nat /\ Len(info) \in Nat /\ info \in Seq(Info)
    BY RuleCollectionAssumption DEF TypeInv, InfoType
  <2>4. /\ info' \in Seq(Info) /\ Len(info') = Len(info) + 1 /\ Len(info') <= MaxInfos
        /\ info'[Len(info) + 1] = Draft(r) /\ \A i \in DOMAIN info : info'[i] = info[i]
        /\ DOMAIN info' = 1..(Len(info) + 1) /\ DOMAIN info = 1..Len(info)
    BY <2>1, <2>2, <2>3
  <2>5. InfoType'
    BY <2>4 DEF InfoType, TypeInv, Draft
  <2>6. Published' = Published
    BY <2>4 DEF Published, Draft
  <2>7. EngType'
    <3>1. eng' = [pc |-> "act", id |-> Len(info) + 1, rule |-> r, ts |-> ts, k |-> 1, can |-> FALSE]
      BY <2>1 DEF Idle
    <3>2. eng' \in Engine
      <4>1. Len(info) + 1 \in Infos
        BY <2>1, <2>3 DEF Infos
      <4> QED  BY <1>1, <3>1, <4>1 DEF Engine
    <3>3. /\ prev' \in [Rules -> Stamps \cup {None}] /\ active' \in [Rules -> Stamps \cup {None}]
      BY <1>1, <1>2, <2>1 DEF EngType, TypeInv
    <3> QED  BY <2>4, <3>1, <3>2, <3>3 DEF EngType, Draft
  <2> QED  BY <1>2, <2>5, <2>6, <2>7 DEF TypeInv, CloudType, ColType, cloudVars, colVars
<1>4. CASE ~e.active
  <2>1. UNCHANGED <<info, eng>> /\ active' = [active EXCEPT ![r] = IF source = "http" THEN @ ELSE None]
    BY <1>4 DEF ConsumeNext, e
  <2> QED
    BY <1>1, <1>2, <2>1 DEF TypeInv, EngType, InfoType, CloudType, ColType, cloudVars, colVars, Published
<1> QED
  BY <1>3, <1>4

\* The actions of a rule up to the hit change no info.
LEMMA HitTypes ==
  ASSUME TypeInv, RunFails \/ CountOwn \/ CountGlobal \/ HitDiagnosisRule
  PROVE  TypeInv'
<1>1. UNCHANGED <<now, birth, prev, active, other, info, colVars>>
  BY DEF RunFails, CountOwn, CountGlobal, HitDiagnosisRule, cloudVars
<1>2. /\ eng.pc # "idle" /\ eng \in Engine /\ eng.rule \in Rules
      /\ eng' \in Engine /\ eng'.id = eng.id /\ eng'.rule = eng.rule
  <2>1. eng \in Engine /\ (eng.pc # "idle" => eng.rule \in Rules)
    BY DEF TypeInv, EngType
  <2>2. CASE RunFails
    BY <2>1, <2>2 DEF RunFails, Engine
  <2>3. CASE CountOwn
    <3>1. \/ eng' = [eng EXCEPT !.pc = "global"]
          \/ \E c \in BOOLEAN : eng' = [eng EXCEPT !.pc = "hit", !.can = c]
      BY <2>3 DEF CountOwn, Decide
    <3>2. eng.pc = "act"
      BY <2>3 DEF CountOwn, NextAction
    <3> QED  BY <2>1, <3>1, <3>2 DEF Engine
  <2>4. CASE CountGlobal
    <3>1. (cloud[eng.rule].all < GlobalTimes) \in BOOLEAN
      OBVIOUS
    <3>2. \E c \in BOOLEAN : eng' = [eng EXCEPT !.pc = "hit", !.can = c]
      BY <2>4, <3>1 DEF CountGlobal, Decide
    <3>3. eng.pc = "global"
      BY <2>4 DEF CountGlobal
    <3> QED  BY <2>1, <3>2, <3>3 DEF Engine
  <2>5. CASE HitDiagnosisRule
    BY <2>1, <2>5 DEF HitDiagnosisRule, Engine
  <2> QED  BY <2>2, <2>3, <2>4, <2>5
<1>3. /\ cloud' \in [Rules -> [own : Nat, all : Nat]]
      /\ \/ faults' = faults /\ missed' = missed
         \/ Fault /\ missed' \in {missed, [missed EXCEPT ![eng.rule] = @ + 1]}
  <2>1. CASE RunFails
    BY <2>1 DEF RunFails, cloudVars, TypeInv, CloudType
  <2>2. CASE CountOwn
    BY <2>2 DEF CountOwn, Miss, TypeInv, CloudType
  <2>3. CASE CountGlobal
    BY <2>3 DEF CountGlobal, Miss, TypeInv, CloudType
  <2>4. CASE HitDiagnosisRule
    BY <1>2, <2>4 DEF HitDiagnosisRule, Miss, TypeInv, CloudType
  <2> QED  BY <2>1, <2>2, <2>3, <2>4
<1>4. CloudType'
  <2>1. MaxFaults \in Nat
    BY RuleCollectionAssumption
  <2>2. faults' \in 0..MaxFaults /\ missed' \in [Rules -> Nat] /\ \A r \in Rules : missed'[r] <= faults'
    BY <1>2, <1>3, <2>1 DEF Fault, TypeInv, CloudType
  <2> QED  BY <1>1, <1>3, <2>2 DEF TypeInv, CloudType
<1>5. EngType'
  BY <1>1, <1>2 DEF EngType, TypeInv
<1> QED
  BY <1>1, <1>4, <1>5 DEF TypeInv, InfoType, ColType, colVars, Published

\* The consumer writes the info in its hands, and at last publishes it.
LEMMA DraftTypes ==
  ASSUME TypeInv, SaveCut \/ CreateMoment \/ PublishCollectInfo
  PROVE  TypeInv'
<1> DEFINE i == eng.id
<1>1. /\ eng \in Engine /\ eng.pc # "idle" /\ i \in DOMAIN info /\ info \in Seq(Info)
      /\ info[i] \in Info /\ info[i].at \in {"unsaved", "draft"} /\ eng.rule \in Rules
      /\ info[i].rule = eng.rule /\ i \in Infos
  <2>1. eng.pc # "idle"
    BY DEF SaveCut, CreateMoment, NextAction, PublishCollectInfo
  <2>2. DOMAIN info \subseteq Infos
    <3>1. info \in Seq(Info) /\ Len(info) <= MaxInfos /\ MaxInfos \in Nat
      BY RuleCollectionAssumption DEF TypeInv, InfoType
    <3>2. DOMAIN info = 1..Len(info) /\ Len(info) \in Nat
      BY <3>1
    <3> QED  BY <3>1, <3>2 DEF Infos
  <2>3. info \in Seq(Info) /\ \A j \in DOMAIN info : info[j] \in Info
    BY DEF TypeInv, InfoType
  <2> QED  BY <2>1, <2>2, <2>3 DEF TypeInv, EngType
<1>2. /\ UNCHANGED <<now, birth, prev, active, cloudVars, colVars>>
      /\ faults' \in 0..MaxFaults /\ faults <= faults'
  <2>1. faults \in 0..MaxFaults /\ MaxFaults \in Nat
    BY RuleCollectionAssumption DEF TypeInv, CloudType
  <2> QED
    BY <2>1 DEF SaveCut, CreateMoment, SaveDraft, PublishCollectInfo, Fault, NoFault
<1>3. \/ info' = info
      \/ \E d \in Info : /\ info' = [info EXCEPT ![i] = d] /\ d.rule = eng.rule
                         /\ \/ d.at = "draft"
                            \/ d.at = "published" /\ d.cut # None /\ eng'.pc = "idle"
  <2>1. CASE SaveCut
    <3>1. eng.ts - Before[eng.rule] \in Int /\ eng.ts + After[eng.rule] \in Int
      BY <1>1, RuleCollectionAssumption DEF Engine
    <3> DEFINE d == [[info[i] EXCEPT
                       !.cut = [start |-> eng.ts - Before[eng.rule], end |-> eng.ts + After[eng.rule]],
                       !.skip = ~eng.can] EXCEPT !.at = "draft"]
    <3>2. d \in Info /\ d.rule = eng.rule /\ d.at = "draft"
      BY <1>1, <3>1 DEF Info, Cuts, Engine
    <3>3. info' = info \/ info' = [info EXCEPT ![i] = d]
      BY <2>1 DEF SaveCut, SaveDraft
    <3> QED  BY <3>2, <3>3
  <2>2. CASE CreateMoment
    <3> DEFINE d == [[info[i] EXCEPT !.moments = info[i].moments + 1] EXCEPT !.at = "draft"]
    <3>1. d \in Info /\ d.rule = eng.rule /\ d.at = "draft"
      <4>1. info[i].moments + 1 \in Nat /\ info[i] \in Info
        BY <1>1 DEF Info
      <4> DEFINE n == info[i].moments + 1
      <4>2. [info[i] EXCEPT !.moments = n] \in Info /\ [info[i] EXCEPT !.moments = n].rule = eng.rule
        <5> HIDE DEF n
        <5> QED  BY <1>1, <4>1 DEF Info, n
      <4> QED  BY <4>2 DEF Info
    <3>2. info' = info \/ info' = [info EXCEPT ![i] = d]
      BY <2>2 DEF CreateMoment, SaveDraft
    <3> QED  BY <3>1, <3>2
  <2>3. CASE PublishCollectInfo
    <3> DEFINE d == [info[i] EXCEPT !.at = "published"]
    <3>1. d \in Info /\ d.rule = eng.rule /\ d.at = "published" /\ d.cut = info[i].cut
      BY <1>1 DEF Info
    <3>2. /\ \/ info' = info
             \/ info[i].cut # None /\ info' = [info EXCEPT ![i].at = "published"]
          /\ eng' = Idle
      BY <2>3 DEF PublishCollectInfo
    <3> QED  BY <3>1, <3>2 DEF Idle
  <2> QED  BY <2>1, <2>2, <2>3
<1>4. /\ eng' \in Engine
      /\ eng'.pc = "idle" \/ (eng'.id = eng.id /\ eng'.rule = eng.rule)
  <2>1. CASE SaveCut \/ CreateMoment
    <3>1. eng' = [eng EXCEPT !.pc = "act", !.k = @ + 1]
      BY <2>1 DEF SaveCut, CreateMoment, SaveDraft
    <3>2. eng.k + 1 \in Nat
      BY <1>1 DEF Engine
    <3> QED  BY <1>1, <3>1, <3>2 DEF Engine
  <2>2. CASE PublishCollectInfo
    BY <2>2 DEF PublishCollectInfo, Idle, Engine
  <2> QED  BY <2>1, <2>2
<1> HIDE DEF i
<1>5. /\ info' \in Seq(Info) /\ Len(info') = Len(info) /\ DOMAIN info' = DOMAIN info
      /\ \A j \in DOMAIN info : j # i => info'[j] = info[j]
      /\ info'[i].rule = eng.rule
      /\ \/ info'[i].at \in {"unsaved", "draft"}
         \/ info'[i].at = "published" /\ info'[i].cut # None /\ eng'.pc = "idle"
  <2>1. CASE info' = info
    BY <1>1, <2>1
  <2>2. CASE info' # info
    <3>1. PICK d \in Info : /\ info' = [info EXCEPT ![i] = d] /\ d.rule = eng.rule
                            /\ \/ d.at = "draft"
                               \/ d.at = "published" /\ d.cut # None /\ eng'.pc = "idle"
      BY <1>3, <2>2
    <3>2. /\ info' \in Seq(Info) /\ Len(info') = Len(info) /\ DOMAIN info' = DOMAIN info
          /\ info'[i] = d /\ \A j \in DOMAIN info : j # i => info'[j] = info[j]
      BY <1>1, <3>1, InfoWrite
    <3> QED  BY <3>1, <3>2
  <2> QED  BY <2>1, <2>2
<1>6. EngType' /\ InfoType'
  <2>1. EngType'
    <3>1. prev' = prev /\ active' = active
      BY <1>2
    <3>2. eng'.pc # "idle" => /\ eng'.id \in DOMAIN info' /\ eng'.rule \in Rules
                             /\ info'[eng'.id].rule = eng'.rule
                             /\ info'[eng'.id].at \in {"unsaved", "draft"}
      BY <1>1, <1>4, <1>5 DEF i
    <3> QED  BY <1>4, <3>1, <3>2 DEF EngType, TypeInv
  <2>2. InfoType'
    BY <1>1, <1>5 DEF InfoType, TypeInv
  <2> QED  BY <2>1, <2>2
<1>7. Published \subseteq Published'
  BY <1>1, <1>5 DEF Published
<1> QED
  BY <1>2, <1>6, <1>7 DEF TypeInv, CloudType, ColType, cloudVars, colVars

\* What the collect goroutine gathers is wanted.
LEMMA GatheredIsWanted ==
  \A S : InWindow(S) \subseteq Wanted /\ \A flawed : Owed(S, flawed) \subseteq Wanted
BY DEF InWindow, Owed, Present

\* The steps of the collect goroutine that leave the infos alone.
LEMMA CollectorTypes ==
  ASSUME TypeInv, \/ ScanCollectInfos \/ EndScan \/ ComputeUploadFiles \/ UpdateCollectDirs
                  \/ UpdateCollectDirsFails \/ AskSlaves \/ SaveRecord
  PROVE  TypeInv'
<1> DEFINE Column == [pc : {"idle", "list", "scan", "slaves", "save", "clean"},
                      todo : SUBSET Published, id : Published \cup {None},
                      files : SUBSET Wanted, due : SUBSET Wanted]
<1>1. /\ col \in Column /\ col.id \notin col.todo
      /\ col.pc \in {"idle", "list"} => col.id = None
      /\ col.pc \in {"scan", "slaves", "save", "clean"} => col.id \in Published
      /\ {DOMAIN cache, DOMAIN saved} \subseteq SUBSET Wanted
      /\ None \notin Published
  <2>1. DOMAIN info \subseteq Infos
    <3>1. info \in Seq(Info) /\ Len(info) <= MaxInfos /\ MaxInfos \in Nat
      BY RuleCollectionAssumption DEF TypeInv, InfoType
    <3>2. DOMAIN info = 1..Len(info) /\ Len(info) \in Nat
      BY <3>1
    <3> QED  BY <3>1, <3>2 DEF Infos
  <2>2. None \notin Published
    BY <2>1, RuleCollectionAssumption DEF Infos, Published
  <2> QED  BY <2>2 DEF TypeInv, ColType
<1>2. /\ UNCHANGED <<now, birth, engVars, cloudVars, info>>
      /\ faults' \in 0..MaxFaults /\ faults <= faults'
  <2>1. faults \in 0..MaxFaults /\ MaxFaults \in Nat
    BY RuleCollectionAssumption DEF TypeInv, CloudType
  <2>2. faults' = faults \/ Fault
    BY DEF ScanCollectInfos, EndScan, ComputeUploadFiles, UpdateCollectDirs,
           UpdateCollectDirsFails, AskSlaves, SaveRecord, NoFault
  <2>3. UNCHANGED <<now, birth, engVars, cloudVars, info>>
    BY DEF ScanCollectInfos, EndScan, ComputeUploadFiles, UpdateCollectDirs,
           UpdateCollectDirsFails, AskSlaves, SaveRecord
  <2> QED  BY <2>1, <2>2, <2>3 DEF Fault
<1>3. EngType' /\ InfoType' /\ CloudType' /\ Published' = Published
  BY <1>2 DEF TypeInv, EngType, InfoType, CloudType, engVars, cloudVars, Published
<1>4. /\ col' \in Column /\ col'.id \notin col'.todo
      /\ col'.pc \in {"idle", "list"} => col'.id = None
      /\ col'.pc \in {"scan", "slaves", "save", "clean"} => col'.id \in Published
      /\ {DOMAIN cache', DOMAIN saved'} \subseteq SUBSET Wanted
  <2> DEFINE Fresh(todo) == [AtRest EXCEPT !.pc = "list", !.todo = todo]
  <2>1. /\ AtRest \in Column /\ AtRest.pc = "idle" /\ AtRest.id = None /\ AtRest.todo = {}
        /\ \A T \in SUBSET Published :
             /\ Fresh(T) \in Column /\ Fresh(T).pc = "list" /\ Fresh(T).id = None /\ Fresh(T).todo = T
    BY DEF AtRest
  <2>2. CASE ScanCollectInfos
    BY <1>1, <2>1, <2>2 DEF ScanCollectInfos
  <2>3. CASE EndScan
    BY <1>1, <2>1, <2>3 DEF EndScan
  <2>4. CASE ComputeUploadFiles
    <3>1. PICK files \in SUBSET Wanted, due \in SUBSET Wanted :
            col' = [col EXCEPT !.pc = "slaves", !.files = files, !.due = due]
      <4>1. PICK w \in UploadWalks :
              Gather(IF w.end = "failed" THEN {} ELSE InWindow(w.found), Owed(w.reach, w.end # "done"))
        BY <2>4 DEF ComputeUploadFiles
      <4> QED  BY <4>1, GatheredIsWanted DEF Gather
    <3>2. col.pc = "scan" /\ cache' = cache /\ saved' = saved
      BY <2>4 DEF ComputeUploadFiles
    <3> QED  BY <1>1, <3>1, <3>2
  <2>5. CASE UpdateCollectDirs
    <3>1. PICK w \in CacheWalks : \E bad \in {{}} \cup {{f} : f \in w.found} :
            LET seen == IF w.end = "failed" THEN {} ELSE Present(w.found) \cap Wanted
                states == [f \in DOMAIN cache \cup seen |->
                             IF f \in seen THEN ProcessCollectFile(f, f \notin bad) ELSE cache[f]]
                files == {f \in DOMAIN states : /\ ~states[f].unsupported
                                                /\ Overlaps(Born[f], states[f].modified, Cut)}
                flawed == w.end # "done" \/ \E f \in seen : states[f].unsupported
            IN  /\ IF bad = {} THEN NoFault ELSE Fault
                /\ cache' = states
                /\ saved' = IF w.end = "stopped" THEN saved ELSE states
                /\ Gather(files, Owed(w.reach, flawed))
      BY <2>5 DEF UpdateCollectDirs
    <3> DEFINE seen == IF w.end = "failed" THEN {} ELSE Present(w.found) \cap Wanted
    <3>2. PICK bad :
            LET states == [f \in DOMAIN cache \cup seen |->
                             IF f \in seen THEN ProcessCollectFile(f, f \notin bad) ELSE cache[f]]
                files == {f \in DOMAIN states : /\ ~states[f].unsupported
                                                /\ Overlaps(Born[f], states[f].modified, Cut)}
                flawed == w.end # "done" \/ \E f \in seen : states[f].unsupported
            IN  /\ cache' = states
                /\ saved' = IF w.end = "stopped" THEN saved ELSE states
                /\ Gather(files, Owed(w.reach, flawed))
      BY <3>1
    <3> DEFINE states == [f \in DOMAIN cache \cup seen |->
                            IF f \in seen THEN ProcessCollectFile(f, f \notin bad) ELSE cache[f]]
               files == {f \in DOMAIN states : /\ ~states[f].unsupported
                                               /\ Overlaps(Born[f], states[f].modified, Cut)}
               flawed == w.end # "done" \/ \E f \in seen : states[f].unsupported
    <3>3. /\ cache' = states
          /\ saved' = IF w.end = "stopped" THEN saved ELSE states
          /\ Gather(files, Owed(w.reach, flawed))
      BY <3>2
    <3>4. DOMAIN states \subseteq Wanted /\ files \subseteq DOMAIN states
      BY <1>1
    <3> HIDE DEF states, files, flawed, seen
    <3>5. /\ DOMAIN cache' \subseteq Wanted /\ DOMAIN saved' \subseteq Wanted
          /\ \E fs \in SUBSET Wanted, due \in SUBSET Wanted :
               col' = [col EXCEPT !.pc = "slaves", !.files = fs, !.due = due]
      BY <1>1, <3>3, <3>4, GatheredIsWanted DEF Gather
    <3>6. col.pc = "scan"
      BY <2>5 DEF UpdateCollectDirs
    <3> QED  BY <1>1, <3>5, <3>6
  <2>6. CASE UpdateCollectDirsFails
    BY <1>1, <2>1, <2>6 DEF UpdateCollectDirsFails, NextInfo
  <2>7. CASE AskSlaves
    <3>1. PICK files \in SUBSET Wanted, due \in SUBSET Wanted :
            col' = [col EXCEPT !.pc = "save", !.files = files, !.due = due]
      <4>1. CASE Fault /\ col' = [col EXCEPT !.pc = "save"]
        <5>1. col' = [col EXCEPT !.pc = "save", !.files = col.files, !.due = col.due]
          BY <1>1, <4>1
        <5> QED  BY <1>1, <5>1
      <4>2. ASSUME NEW lag \in Lags, NEW walked \in BOOLEAN,
                   LET answer == ScanFilesByContent(lag, walked) IN
                   col' = [col EXCEPT !.pc = "save", !.files = @ \cup answer.files,
                                      !.due = @ \cup answer.due]
            PROVE  \E files \in SUBSET Wanted, due \in SUBSET Wanted :
                     col' = [col EXCEPT !.pc = "save", !.files = files, !.due = due]
        <5>1. /\ ScanFilesByContent(lag, walked).files \subseteq Wanted
              /\ ScanFilesByContent(lag, walked).due \subseteq Wanted
          BY GatheredIsWanted DEF ScanFilesByContent
        <5> QED  BY <1>1, <4>2, <5>1
      <4> QED  BY <2>7, <4>1, <4>2 DEF AskSlaves
    <3>2. col.pc = "slaves" /\ cache' = cache /\ saved' = saved
      BY <2>7 DEF AskSlaves
    <3> QED  BY <1>1, <3>1, <3>2
  <2>8. CASE SaveRecord
    <3>1. /\ col.pc = "save" /\ cache' = cache /\ saved' = saved
          /\ col' = [col EXCEPT !.pc = "clean"] \/ col' = Fresh(col.todo)
      BY <2>8 DEF SaveRecord, NextInfo
    <3>2. CASE col' = Fresh(col.todo)
      BY <1>1, <2>1, <3>1, <3>2
    <3>3. CASE col' = [col EXCEPT !.pc = "clean"]
      BY <1>1, <3>1, <3>3
    <3> QED  BY <3>1, <3>2, <3>3
  <2> QED  BY <2>2, <2>3, <2>4, <2>5, <2>6, <2>7, <2>8
<1> QED
  BY <1>3, <1>4 DEF TypeInv, ColType

\* The steps of the collect goroutine that clean an info, or pass over one.
LEMMA CleaningTypes ==
  ASSUME TypeInv, Clean \/ \E i \in Infos : HandleCollectInfo(i)
  PROVE  TypeInv'
<1>1. PICK i \in Published :
        /\ info' = info \/ info' = [info EXCEPT ![i].at = "cleaned"]
        /\ \/ /\ col.pc = "list" /\ i \in col.todo
              /\ \/ /\ col' = [[col EXCEPT !.todo = @ \ {i}, !.id = i] EXCEPT !.id = None]
                 \/ /\ col' = [[col EXCEPT !.todo = @ \ {i}, !.id = i] EXCEPT !.pc = "scan"]
                    /\ info' = info
           \/ /\ col.pc = "clean" /\ i = col.id
              /\ col' = [AtRest EXCEPT !.pc = "list", !.todo = col.todo]
  <2>1. CASE Clean
    <3>1. col.id \in Published /\ col.pc = "clean"
      BY <2>1 DEF Clean, TypeInv, ColType
    <3> QED  BY <2>1, <3>1 DEF Clean, NextInfo
  <2>2. ASSUME NEW i \in Infos, HandleCollectInfo(i)
        PROVE  /\ i \in Published /\ col.pc = "list" /\ i \in col.todo
               /\ info' = info \/ info' = [info EXCEPT ![i].at = "cleaned"]
               /\ \/ /\ col' = [[col EXCEPT !.todo = @ \ {i}, !.id = i] EXCEPT !.id = None]
                  \/ /\ col' = [[col EXCEPT !.todo = @ \ {i}, !.id = i] EXCEPT !.pc = "scan"]
                     /\ info' = info
    <3>1. i \in Published
      BY <2>2 DEF HandleCollectInfo, TypeInv, ColType
    <3> QED  BY <2>2, <3>1 DEF HandleCollectInfo
  <2> QED  BY <2>1, <2>2
<1>2. /\ UNCHANGED <<now, birth, engVars, cloudVars, cache, saved>>
      /\ faults' \in 0..MaxFaults /\ faults <= faults'
  <2>1. faults \in 0..MaxFaults /\ MaxFaults \in Nat
    BY RuleCollectionAssumption DEF TypeInv, CloudType
  <2>2. faults' = faults \/ Fault
    BY DEF Clean, HandleCollectInfo, NoFault
  <2>3. UNCHANGED <<now, birth, engVars, cloudVars, cache, saved>>
    BY DEF Clean, HandleCollectInfo
  <2> QED  BY <2>1, <2>2, <2>3 DEF Fault
<1>3. /\ info \in Seq(Info) /\ i \in DOMAIN info /\ info[i] \in Info /\ info[i].at = "published"
      /\ info[i].cut # None
  BY DEF TypeInv, InfoType, Published
<1>4. /\ info' \in Seq(Info) /\ Len(info') = Len(info) /\ DOMAIN info' = DOMAIN info
      /\ info'[i].at \in {"published", "cleaned"} /\ info'[i].cut # None
      /\ \A j \in DOMAIN info : j # i => info'[j] = info[j]
  <2>1. CASE info' = info
    BY <1>3, <2>1
  <2>2. CASE info' = [info EXCEPT ![i].at = "cleaned"]
    <3> DEFINE d == [info[i] EXCEPT !.at = "cleaned"]
    <3>1. d \in Info /\ d.at = "cleaned" /\ d.cut = info[i].cut
      BY <1>3 DEF Info
    <3>2. info' = [info EXCEPT ![i] = d]
      BY <2>2
    <3> HIDE DEF d
    <3> QED  BY <1>3, <3>1, <3>2, InfoWrite
  <2> QED  BY <1>1, <2>1, <2>2
<1>5. EngType' /\ InfoType' /\ CloudType'
  <2>1. EngType'
    <3>1. eng.pc # "idle" => eng.id # i
      BY <1>3 DEF TypeInv, EngType
    <3> QED  BY <1>2, <1>4, <3>1 DEF TypeInv, EngType, engVars
  <2>2. InfoType'
    BY <1>4 DEF TypeInv, InfoType
  <2>3. CloudType'
    BY <1>2 DEF TypeInv, CloudType, cloudVars
  <2> QED  BY <2>1, <2>2, <2>3
<1>6. Published \ {i} \subseteq Published'
  BY <1>4 DEF Published
<1>7. info' = info => Published' = Published
  BY DEF Published
<1>8. None \notin Published'
  <2>1. info' \in Seq(Info) /\ Len(info') <= MaxInfos /\ MaxInfos \in Nat
    BY <1>5, RuleCollectionAssumption DEF InfoType
  <2>2. DOMAIN info' = 1..Len(info') /\ Len(info') \in Nat
    BY <2>1
  <2> QED  BY <2>1, <2>2, RuleCollectionAssumption DEF Published
<1>9. ColType'
  <2>1. /\ col \in [pc : {"idle", "list", "scan", "slaves", "save", "clean"}, todo : SUBSET Published,
                    id : Published \cup {None}, files : SUBSET Wanted, due : SUBSET Wanted]
        /\ col.id \notin col.todo /\ {DOMAIN cache, DOMAIN saved} \subseteq SUBSET Wanted
    BY DEF TypeInv, ColType
  <2>2. CASE col' = [[col EXCEPT !.todo = @ \ {i}, !.id = i] EXCEPT !.id = None] /\ col.pc = "list"
    BY <1>2, <1>6, <1>8, <2>1, <2>2 DEF ColType
  <2>3. CASE /\ col' = [[col EXCEPT !.todo = @ \ {i}, !.id = i] EXCEPT !.pc = "scan"]
             /\ info' = info
    BY <1>2, <1>7, <2>1, <2>3 DEF ColType
  <2>4. CASE /\ col' = [AtRest EXCEPT !.pc = "list", !.todo = col.todo] /\ i = col.id
    BY <1>2, <1>6, <1>8, <2>1, <2>4 DEF ColType, AtRest
  <2> QED  BY <1>1, <2>2, <2>3, <2>4
<1> QED
  BY <1>5, <1>9 DEF TypeInv

LEMMA TypeNext == TypeInv /\ [Next]_vars => TypeInv'
<1> SUFFICES ASSUME TypeInv, [Next]_vars PROVE TypeInv'
  OBVIOUS
<1>1. CASE Tick
  <2>1. now' \in 0..MaxTime /\ UNCHANGED <<faults, birth, engVars, cloudVars, info, colVars>>
    BY <1>1, RuleCollectionAssumption DEF Tick, TypeInv, CloudType
  <2> QED  BY <2>1 DEF TypeInv, EngType, InfoType, CloudType, ColType, engVars, cloudVars, colVars, Published
<1>2. CASE Restart
  <2>1. faults' \in 0..MaxFaults /\ faults <= faults'
    BY <1>2, RuleCollectionAssumption DEF Restart, Fault, TypeInv, CloudType
  <2>2. UNCHANGED <<now, birth, cloudVars, info, saved>> /\ cache' = saved /\ col' = AtRest /\ eng' = Idle
        /\ prev' = [r \in Rules |-> None] /\ active' = [r \in Rules |-> None]
    BY <1>2 DEF Restart
  <2>3. EngType'
    BY <2>2 DEF EngType, Engine, Idle
  <2>4. ColType'
    BY <2>2 DEF ColType, AtRest, TypeInv
  <2> QED  BY <2>1, <2>2, <2>3, <2>4 DEF TypeInv, InfoType, CloudType, cloudVars
<1>3. CASE OtherHits \/ \E r \in Shared : OtherCounts(r)
  <2>1. /\ cloud' \in [Rules -> [own : Nat, all : Nat]] /\ other' \in Rules \cup {None}
        /\ UNCHANGED <<now, faults, birth, engVars, missed, info, colVars>>
    <3>1. CASE OtherHits
      <4>1. other \in Rules /\ cloud \in [Rules -> [own : Nat, all : Nat]]
        BY <3>1 DEF OtherHits, TypeInv, CloudType
      <4>2. cloud[other].all + 1 \in Nat
        BY <4>1
      <4>3. [cloud[other] EXCEPT !.all = cloud[other].all + 1] \in [own : Nat, all : Nat]
        BY <4>1, <4>2
      <4>4. cloud' = [cloud EXCEPT ![other] = [cloud[other] EXCEPT !.all = cloud[other].all + 1]]
        BY <3>1 DEF OtherHits
      <4> QED  BY <3>1, <4>1, <4>3, <4>4 DEF OtherHits
    <3>2. CASE \E r \in Shared : OtherCounts(r)
      BY <3>2, RuleCollectionAssumption DEF OtherCounts, TypeInv, CloudType
    <3> QED  BY <1>3, <3>1, <3>2
  <2> QED  BY <2>1 DEF TypeInv, EngType, InfoType, CloudType, ColType, engVars, colVars, Published
<1>4. CASE UNCHANGED vars
  BY <1>4 DEF vars, TypeInv, EngType, InfoType, CloudType, ColType, engVars, cloudVars, colVars, Published
<1> QED
  BY <1>1, <1>2, <1>3, <1>4, ConsumeTypes, HitTypes, DraftTypes, CollectorTypes, CleaningTypes DEF Next

LEMMA TypeInit == Init => TypeInv
<1> SUFFICES ASSUME Init PROVE TypeInv
  OBVIOUS
<1>1. 0 \in 0..MaxTime /\ 0 \in 0..MaxFaults /\ MaxInfos \in Nat
  BY RuleCollectionAssumption
<1>2. info = << >> /\ Len(info) = 0 /\ DOMAIN info = {} /\ info \in Seq(Info) /\ DOMAIN << >> = {}
  BY DEF Init
<1>3. EngType
  BY DEF Init, EngType, Engine, Idle
<1>4. ColType
  BY <1>2 DEF Init, ColType, AtRest
<1> QED
  BY <1>1, <1>2, <1>3, <1>4 DEF Init, TypeInv, InfoType, CloudType

LEMMA TypeInvariant == Spec => []TypeInv
BY TypeInit, TypeNext, PTL DEF Spec

\* The consumer, the cloud's counters, the infos and the collect goroutine hold
\* what they may; only an info with a window is published.
THEOREM TypeCorrect == Spec => []TypeOK
BY TypeInvariant, TypeInvImpliesTypeOK, PTL

-----------------------------------------------------------------------------
(* The upload limits.  Of the calls that failed for a rule, k were hits: each   *)
(* let an upload go uncounted; the others were counts: each let one through.    *)
(* What was allowed is counted, or one of the k; what is counted, with the hit  *)
(* that is to come, is within the limit, or let through by a count that failed. *)

Hitting(r) == IF eng.pc = "hit" /\ eng.can /\ eng.rule = r THEN 1 ELSE 0
Cutting(r) == IF eng.pc = "cut" /\ eng.can /\ eng.rule = r THEN 1 ELSE 0
Coming(r) == IF other = r THEN 1 ELSE 0

Limited(allowed, own, all, hitting, cutting, coming, m) ==
  \E k \in 0..m :
    /\ allowed + cutting <= own + k
    /\ own + hitting <= DeviceTimes + (m - k)
    /\ all + coming + hitting <= GlobalTimes + 1 + (m - k)

LimitOf(r) ==
  /\ Limited(Allowed(r), cloud[r].own, cloud[r].all, Hitting(r), Cutting(r), Coming(r), missed[r])
  /\ eng.pc = "global" /\ eng.rule = r => cloud[r].own < DeviceTimes

LimitInv == \A r \in Rules : LimitOf(r)

AllowedInfos(r) == {i \in DOMAIN info : info[i].rule = r /\ info[i].cut # None /\ ~info[i].skip}

LEMMA AllowedType ==
  ASSUME TypeInv, NEW r
  PROVE  Allowed(r) \in Nat /\ IsFiniteSet(AllowedInfos(r)) /\ Allowed(r) = Cardinality(AllowedInfos(r))
<1>1. info \in Seq(Info)
  BY DEF TypeInv, InfoType
<1>2. DOMAIN info = 1..Len(info) /\ Len(info) \in Nat
  BY <1>1
<1>3. IsFiniteSet(DOMAIN info)
  BY <1>2, FS_Interval
<1>4. IsFiniteSet(AllowedInfos(r))
  BY <1>3, FS_Subset DEF AllowedInfos
<1> QED
  BY <1>4, FS_CardinalityType DEF Allowed, AllowedInfos

\* The arithmetic of the invariant: fewer are allowed or under way, a count lets
\* an upload through, a hit is counted or fails, and the other device comes.
LEMMA LimitArithmetic ==
  ASSUME NEW a \in Nat, NEW own \in Nat, NEW all \in Nat, NEW h \in 0..1, NEW c \in 0..1,
         NEW o \in 0..1, NEW m \in Nat, Limited(a, own, all, h, c, o, m)
  PROVE  /\ \A a2 \in Nat, h2, c2, o2 \in 0..1 :
              a2 + c2 <= a + c /\ h2 <= h /\ o2 <= o => Limited(a2, own, all, h2, c2, o2, m)
         /\ own < DeviceTimes /\ all < GlobalTimes => Limited(a, own, all, 1, c, o, m)
         /\ h = 0 => Limited(a, own, all, 1, c, o, m + 1)
         /\ Limited(a, own, all, h, c, o, m + 1)
         /\ h = 1 /\ c = 0 => Limited(a, own + 1, all + 1, 0, 1, o, m)
         /\ h = 1 /\ c = 0 => Limited(a, own, all, 0, 1, o, m + 1)
         /\ all < GlobalTimes => Limited(a, own, all, h, c, 1, m)
         /\ o = 1 => Limited(a, own, all + 1, h, c, 0, m)
<1>1. PICK k \in 0..m : /\ a + c <= own + k /\ own + h <= DeviceTimes + (m - k)
                        /\ all + o + h <= GlobalTimes + 1 + (m - k)
  BY DEF Limited
<1>2. DeviceTimes \in Nat /\ GlobalTimes \in Nat /\ k \in 0..(m + 1) /\ k + 1 \in 0..(m + 1)
  BY RuleCollectionAssumption
<1>3. /\ \A a2 \in Nat, h2, c2, o2 \in 0..1 :
           a2 + c2 <= a + c /\ h2 <= h /\ o2 <= o =>
             /\ a2 + c2 <= own + k /\ own + h2 <= DeviceTimes + (m - k)
             /\ all + o2 + h2 <= GlobalTimes + 1 + (m - k)
      /\ own < DeviceTimes /\ all < GlobalTimes =>
           /\ own + 1 <= DeviceTimes + (m - k) /\ all + o + 1 <= GlobalTimes + 1 + (m - k)
      /\ h = 0 => /\ own + 1 <= DeviceTimes + ((m + 1) - k)
                  /\ all + o + 1 <= GlobalTimes + 1 + ((m + 1) - k)
      /\ own + h <= DeviceTimes + ((m + 1) - k) /\ all + o + h <= GlobalTimes + 1 + ((m + 1) - k)
      /\ h = 1 /\ c = 0 => /\ a + 1 <= (own + 1) + k /\ (own + 1) + 0 <= DeviceTimes + (m - k)
                           /\ (all + 1) + o + 0 <= GlobalTimes + 1 + (m - k)
      /\ h = 1 /\ c = 0 => /\ a + 1 <= own + (k + 1) /\ own + 0 <= DeviceTimes + ((m + 1) - (k + 1))
                           /\ all + o + 0 <= GlobalTimes + 1 + ((m + 1) - (k + 1))
      /\ all < GlobalTimes => all + 1 + h <= GlobalTimes + 1 + (m - k)
      /\ o = 1 => (all + 1) + 0 + h <= GlobalTimes + 1 + (m - k)
  BY <1>1, <1>2
<1> QED
  BY <1>1, <1>2, <1>3 DEF Limited

\* What the counts and the hit of the consumer come to, at their rule.
LEMMA LimitSteps ==
  ASSUME NEW a \in Nat, NEW own \in Nat, NEW all \in Nat, NEW o \in 0..1, NEW m \in Nat
  PROVE  /\ Limited(a, own, all, 0, 0, o, m) =>
              /\ Limited(a, own, all, 1, 0, o, m + 1) /\ Limited(a, own, all, 0, 0, o, m + 1)
              /\ own < DeviceTimes /\ all < GlobalTimes => Limited(a, own, all, 1, 0, o, m)
         /\ Limited(a, own, all, 1, 0, o, m) =>
              /\ Limited(a, own + 1, all + 1, 0, 1, o, m) /\ Limited(a, own, all, 0, 1, o, m + 1)
<1>1. ASSUME Limited(a, own, all, 0, 0, o, m)
      PROVE  /\ Limited(a, own, all, 1, 0, o, m + 1) /\ Limited(a, own, all, 0, 0, o, m + 1)
             /\ own < DeviceTimes /\ all < GlobalTimes => Limited(a, own, all, 1, 0, o, m)
  <2>1. 0 \in 0..1 /\ 0 = 0
    OBVIOUS
  <2> QED  BY <1>1, <2>1, LimitArithmetic
<1>2. ASSUME Limited(a, own, all, 1, 0, o, m)
      PROVE  Limited(a, own + 1, all + 1, 0, 1, o, m) /\ Limited(a, own, all, 0, 1, o, m + 1)
  <2>1. 0 \in 0..1 /\ 1 \in 0..1 /\ 1 = 1 /\ 0 = 0
    OBVIOUS
  <2> QED  BY <1>2, <2>1, LimitArithmetic
<1> QED
  BY <1>1, <1>2

\* The numbers of the invariant.
LEMMA LimitTypes ==
  ASSUME TypeInv, NEW r \in Rules
  PROVE  /\ Allowed(r) \in Nat /\ cloud[r].own \in Nat /\ cloud[r].all \in Nat /\ missed[r] \in Nat
         /\ Hitting(r) \in 0..1 /\ Cutting(r) \in 0..1 /\ Coming(r) \in 0..1
         /\ DeviceTimes \in Nat /\ GlobalTimes \in Nat
BY AllowedType, RuleCollectionAssumption DEF TypeInv, CloudType, Hitting, Cutting, Coming

\* How the number of allowed uploads changes.
LEMMA AllowedKept ==
  ASSUME NEW r, DOMAIN info' = DOMAIN info,
         \A i \in DOMAIN info : /\ info'[i].rule = info[i].rule /\ info'[i].cut = info[i].cut
                                /\ info'[i].skip = info[i].skip
  PROVE  Allowed(r)' = Allowed(r)
<1>1. AllowedInfos(r)' = AllowedInfos(r)
  BY DEF AllowedInfos
<1> QED
  BY <1>1 DEF Allowed, AllowedInfos

LEMMA AllowedMore ==
  ASSUME TypeInv, NEW r, NEW i, AllowedInfos(r)' \subseteq AllowedInfos(r) \cup {i}
  PROVE  Allowed(r)' \in Nat /\ Allowed(r)' <= Allowed(r) + 1
<1> DEFINE S == AllowedInfos(r) \cup {i}
<1>1. /\ IsFiniteSet(S) /\ Cardinality(S) <= Allowed(r) + 1 /\ Cardinality(S) \in Nat
  <2>1. IsFiniteSet(AllowedInfos(r)) /\ Allowed(r) = Cardinality(AllowedInfos(r)) /\ Allowed(r) \in Nat
    BY AllowedType
  <2>2. IsFiniteSet(S) /\ Cardinality(S) = IF i \in AllowedInfos(r) THEN Allowed(r) ELSE Allowed(r) + 1
    BY <2>1, FS_AddElement
  <2> QED  BY <2>1, <2>2
<1>2. Allowed(r)' = Cardinality(AllowedInfos(r)') /\ Allowed(r) \in Nat
  BY AllowedType DEF Allowed, AllowedInfos
<1>3. AllowedInfos(r)' \subseteq S
  OBVIOUS
<1> HIDE DEF S
<1>4. IsFiniteSet(AllowedInfos(r)') /\ Cardinality(AllowedInfos(r)') <= Cardinality(S)
  BY <1>1, <1>3, FS_Subset
<1>5. Cardinality(AllowedInfos(r)') \in Nat
  BY <1>4, FS_CardinalityType
<1> QED
  BY <1>1, <1>2, <1>4, <1>5

LEMMA AllowedFewer ==
  ASSUME TypeInv, NEW r, AllowedInfos(r)' \subseteq AllowedInfos(r)
  PROVE  Allowed(r)' \in Nat /\ Allowed(r)' <= Allowed(r)
<1>1. IsFiniteSet(AllowedInfos(r)) /\ Allowed(r) = Cardinality(AllowedInfos(r))
  BY AllowedType
<1>2. Allowed(r)' = Cardinality(AllowedInfos(r)')
  BY DEF Allowed, AllowedInfos
<1>3. IsFiniteSet(AllowedInfos(r)') /\ Cardinality(AllowedInfos(r)') <= Cardinality(AllowedInfos(r))
  BY <1>1, FS_Subset
<1>4. Cardinality(AllowedInfos(r)') \in Nat
  BY <1>3, FS_CardinalityType
<1> QED
  BY <1>1, <1>2, <1>3, <1>4

\* A step that counts nothing and lets nothing through.
LEMMA LimitKept ==
  ASSUME TypeInv, LimitInv, UNCHANGED cloudVars, NEW r \in Rules, Allowed(r)' \in Nat,
         Allowed(r)' + Cutting(r)' <= Allowed(r) + Cutting(r), Hitting(r)' <= Hitting(r),
         eng'.pc = "global" => eng.pc = "global" /\ eng'.rule = eng.rule
  PROVE  LimitOf(r)'
<1>1. cloud' = cloud /\ missed' = missed /\ Coming(r)' = Coming(r)
  BY DEF cloudVars, Coming
<1>2. /\ Allowed(r)' \in Nat /\ Hitting(r)' \in 0..1 /\ Cutting(r)' \in 0..1
  BY DEF Hitting, Cutting
<1>3. Limited(Allowed(r), cloud[r].own, cloud[r].all, Hitting(r), Cutting(r), Coming(r), missed[r])
  BY DEF LimitInv, LimitOf
<1>4. Limited(Allowed(r)', cloud[r].own, cloud[r].all, Hitting(r)', Cutting(r)', Coming(r), missed[r])
  <2>1. Coming(r) <= Coming(r)
    BY LimitTypes
  <2> QED  BY <1>2, <1>3, <2>1, LimitTypes, LimitArithmetic
<1> QED
  BY <1>1, <1>4 DEF LimitInv, LimitOf, Limited

\* The counts and the hit of the consumer.  At the rule in hand LimitArithmetic
\* has a clause for each; nothing changes at the others.
LEMMA LimitDecided ==
  ASSUME TypeInv, LimitInv, RunFails \/ CountOwn \/ CountGlobal \/ HitDiagnosisRule, NEW r \in Rules
  PROVE  LimitOf(r)'
<1> DEFINE Now(h, c, m) == Limited(Allowed(r), cloud[r].own, cloud[r].all, h, c, Coming(r), m)
<1>0. /\ Allowed(r) \in Nat /\ cloud[r].own \in Nat /\ cloud[r].all \in Nat /\ missed[r] \in Nat
      /\ Coming(r) \in 0..1 /\ DeviceTimes \in Nat /\ GlobalTimes \in Nat
  BY LimitTypes
<1>1. /\ info' = info /\ other' = other /\ eng \in Engine /\ eng'.rule = eng.rule
      /\ eng.pc # "idle" /\ eng.rule \in Rules /\ cloud \in [Rules -> [own : Nat, all : Nat]]
      /\ missed \in [Rules -> Nat]
  <2>1. info' = info /\ other' = other /\ eng.pc # "idle"
    BY DEF RunFails, CountOwn, CountGlobal, HitDiagnosisRule, NextAction, cloudVars
  <2>2. eng \in Engine
    BY DEF TypeInv, EngType
  <2>3. eng'.rule = eng.rule
    BY <2>2 DEF RunFails, CountOwn, CountGlobal, HitDiagnosisRule, Decide, Engine
  <2> QED  BY <2>1, <2>2, <2>3 DEF TypeInv, EngType, CloudType
<1>2. Allowed(r)' = Allowed(r) /\ Coming(r)' = Coming(r)
  BY <1>1 DEF Allowed, Coming
<1>3. /\ Now(Hitting(r), Cutting(r), missed[r])
      /\ (eng.pc = "global" /\ eng.rule = r => cloud[r].own < DeviceTimes)
  BY DEF LimitInv, LimitOf
<1>4. CASE eng.rule # r
  <2>1. cloud'[r] = cloud[r] /\ missed'[r] = missed[r]
    BY <1>1, <1>4 DEF RunFails, CountOwn, CountGlobal, HitDiagnosisRule, Miss, cloudVars
  <2>2. Hitting(r)' = Hitting(r) /\ Cutting(r)' = Cutting(r)
    BY <1>1, <1>4 DEF Hitting, Cutting
  <2> QED  BY <1>1, <1>2, <1>3, <1>4, <2>1, <2>2 DEF LimitOf
<1>5. CASE eng.rule = r
  <2>1. /\ Hitting(r) = IF eng.pc = "hit" /\ eng.can THEN 1 ELSE 0
        /\ Cutting(r) = IF eng.pc = "cut" /\ eng.can THEN 1 ELSE 0
        /\ Hitting(r)' = IF eng'.pc = "hit" /\ eng'.can THEN 1 ELSE 0
        /\ Cutting(r)' = IF eng'.pc = "cut" /\ eng'.can THEN 1 ELSE 0
    BY <1>1, <1>5 DEF Hitting, Cutting
  <2>2. CASE RunFails
    <3>1. eng'.pc = "act" /\ eng.pc = "act" /\ UNCHANGED <<cloud, missed>>
      BY <1>1, <2>2 DEF RunFails, cloudVars, Engine
    <3> QED  BY <1>2, <1>3, <2>1, <3>1 DEF LimitOf
  <2>3. CASE CountOwn
    <3>1. eng.pc = "act" /\ cloud' = cloud
      BY <2>3 DEF CountOwn, NextAction
    <3>2. Now(0, 0, missed[r]) /\ Cutting(r)' = 0
      <4>1. eng'.pc # "cut"
        BY <1>1, <2>3 DEF CountOwn, Decide, Engine
      <4> QED  BY <1>3, <2>1, <3>1, <4>1
    <3>3. CASE Miss /\ Decide(TRUE)
      <4>1. missed'[r] = missed[r] + 1 /\ eng'.pc = "hit" /\ eng'.can = TRUE
        BY <1>1, <1>5, <3>3 DEF Miss, Decide, Engine
      <4>2. Now(1, 0, missed[r] + 1)
        BY <3>2, <1>0, LimitSteps
      <4> QED  BY <1>2, <2>1, <3>1, <3>2, <4>1, <4>2 DEF LimitOf
    <3>4. CASE /\ missed' = missed
               /\ IF cloud[eng.rule].own >= DeviceTimes THEN Decide(FALSE)
                                                        ELSE eng' = [eng EXCEPT !.pc = "global"]
      <4>1. \/ eng'.pc = "hit" /\ eng'.can = FALSE
            \/ eng'.pc = "global" /\ ~(cloud[r].own >= DeviceTimes)
        BY <1>1, <1>5, <3>4 DEF Decide, Engine
      <4>2. eng'.pc = "global" => cloud[r].own < DeviceTimes
        BY <4>1, LimitTypes
      <4>3. Hitting(r)' = 0
        BY <2>1, <4>1
      <4> QED  BY <1>2, <3>1, <3>2, <3>4, <4>2, <4>3 DEF LimitOf
    <3> QED  BY <2>3, <3>3, <3>4 DEF CountOwn
  <2>4. CASE CountGlobal
    <3>1. eng.pc = "global" /\ cloud' = cloud
      BY <2>4 DEF CountGlobal
    <3>2. Now(0, 0, missed[r]) /\ cloud[r].own < DeviceTimes
      BY <1>3, <1>5, <2>1, <3>1
    <3>3. eng'.pc = "hit" /\ Cutting(r)' = 0
      <4>1. eng'.pc = "hit"
        BY <1>1, <2>4 DEF CountGlobal, Decide, Engine
      <4> QED  BY <2>1, <4>1
    <3>4. CASE Miss /\ Decide(TRUE)
      <4>1. missed'[r] = missed[r] + 1 /\ eng'.can = TRUE
        BY <1>1, <1>5, <3>4 DEF Miss, Decide, Engine
      <4>2. Now(1, 0, missed[r] + 1)
        BY <3>2, <1>0, LimitSteps
      <4> QED  BY <1>2, <2>1, <3>1, <3>3, <4>1, <4>2 DEF LimitOf
    <3>5. CASE Decide(cloud[eng.rule].all < GlobalTimes) /\ missed' = missed
      <4>1. eng'.can = (cloud[r].all < GlobalTimes)
        BY <1>1, <1>5, <3>5 DEF Decide, Engine
      <4>2. CASE cloud[r].all < GlobalTimes
        <5>1. Now(1, 0, missed[r]) /\ Hitting(r)' = 1
          BY <2>1, <3>2, <3>3, <4>1, <4>2, <1>0, LimitSteps
        <5> QED  BY <1>2, <3>1, <3>3, <3>5, <5>1 DEF LimitOf
      <4>3. CASE ~(cloud[r].all < GlobalTimes)
        <5>1. Hitting(r)' = 0
          BY <2>1, <4>1, <4>3
        <5> QED  BY <1>2, <3>1, <3>2, <3>3, <3>5, <5>1 DEF LimitOf
      <4> QED  BY <4>2, <4>3
    <3> QED  BY <2>4, <3>4, <3>5 DEF CountGlobal
  <2>5. CASE HitDiagnosisRule
    <3>1. eng.pc = "hit" /\ eng'.pc = "cut" /\ eng'.can = eng.can
      BY <1>1, <2>5 DEF HitDiagnosisRule, Engine
    <3>2. /\ Hitting(r) = IF eng.can THEN 1 ELSE 0
          /\ Cutting(r) = 0 /\ Hitting(r)' = 0 /\ Cutting(r)' = IF eng.can THEN 1 ELSE 0
      BY <2>1, <3>1
    <3>3. CASE Miss /\ cloud' = cloud
      <4>1. missed'[r] = missed[r] + 1
        BY <1>1, <1>5, <3>3 DEF Miss
      <4>2. Now(0, Cutting(r)', missed[r] + 1)
        <5>1. CASE eng.can
          <6>1. Now(1, 0, missed[r]) /\ Cutting(r)' = 1
            BY <1>3, <3>2, <5>1
          <6>2. Now(0, 1, missed[r] + 1)
            BY <6>1, <1>0, LimitSteps
          <6> QED  BY <6>1, <6>2
        <5>2. CASE ~eng.can
          <6>1. Now(0, 0, missed[r]) /\ Cutting(r)' = 0
            BY <1>3, <3>2, <5>2
          <6>2. Now(0, 0, missed[r] + 1)
            BY <6>1, <1>0, LimitSteps
          <6> QED  BY <6>1, <6>2
        <5> QED  BY <5>1, <5>2
      <4> QED  BY <1>2, <3>1, <3>2, <3>3, <4>1, <4>2 DEF LimitOf
    <3>4. CASE /\ missed' = missed /\ ~eng.can /\ cloud' = cloud
      BY <1>2, <1>3, <3>1, <3>2, <3>4 DEF LimitOf
    <3>5. CASE /\ missed' = missed /\ eng.can
               /\ cloud' = [cloud EXCEPT ![eng.rule] = [own |-> @.own + 1, all |-> @.all + 1]]
      <4>1. cloud'[r].own = cloud[r].own + 1 /\ cloud'[r].all = cloud[r].all + 1
        BY <1>1, <1>5, <3>5
      <4>2. Now(1, 0, missed[r]) /\ Cutting(r)' = 1
        BY <1>3, <3>2, <3>5
      <4>3. Limited(Allowed(r), cloud[r].own + 1, cloud[r].all + 1, 0, 1, Coming(r), missed[r])
        BY <4>2, <1>0, LimitSteps
      <4> QED  BY <1>2, <3>1, <3>2, <3>5, <4>1, <4>2, <4>3 DEF LimitOf
    <3> QED  BY <2>5, <3>3, <3>4, <3>5 DEF HitDiagnosisRule
  <2> QED  BY <2>2, <2>3, <2>4, <2>5
<1> QED
  BY <1>4, <1>5

\* The upload action of a rule turns its hit into an info that is allowed, or not.
LEMMA LimitDrafted ==
  ASSUME TypeInv, LimitInv, SaveCut \/ CreateMoment \/ PublishCollectInfo, NEW r \in Rules
  PROVE  LimitOf(r)'
<1> DEFINE i == eng.id
<1>1. /\ eng \in Engine /\ eng.pc # "idle" /\ i \in DOMAIN info /\ info \in Seq(Info)
      /\ info[i] \in Info /\ info[i].rule = eng.rule
  <2>1. eng.pc # "idle"
    BY DEF SaveCut, CreateMoment, NextAction, PublishCollectInfo
  <2>2. info \in Seq(Info) /\ \A j \in DOMAIN info : info[j] \in Info
    BY DEF TypeInv, InfoType
  <2> QED  BY <2>1, <2>2 DEF TypeInv, EngType
<1>2. UNCHANGED cloudVars
  BY DEF SaveCut, CreateMoment, SaveDraft, PublishCollectInfo
<1>3. eng'.pc \in {"act", "idle"}
  <2>1. CASE SaveCut \/ CreateMoment
    <3>1. eng' = [eng EXCEPT !.pc = "act", !.k = @ + 1]
      BY <2>1 DEF SaveCut, CreateMoment, SaveDraft
    <3> QED  BY <1>1, <3>1 DEF Engine
  <2>2. CASE PublishCollectInfo
    BY <2>2 DEF PublishCollectInfo, Idle
  <2> QED  BY <2>1, <2>2
<1>4. Hitting(r)' = 0 /\ Cutting(r)' = 0 /\ Hitting(r) \in 0..1 /\ Cutting(r) \in 0..1
  BY <1>3 DEF Hitting, Cutting
<1>5. \A d \in Info : info' = [info EXCEPT ![i] = d] =>
        /\ DOMAIN info' = DOMAIN info /\ info'[i] = d
        /\ \A j \in DOMAIN info : j # i => info'[j] = info[j]
  BY <1>1, InfoWrite
<1>6. Allowed(r)' \in Nat /\ Allowed(r)' + Cutting(r)' <= Allowed(r) + Cutting(r)
  <2>1. CASE CreateMoment \/ PublishCollectInfo \/ info' = info
    <3>1. PICK d \in Info : /\ info' = [info EXCEPT ![i] = d] /\ d.rule = info[i].rule
                            /\ d.cut = info[i].cut /\ d.skip = info[i].skip
      <4>1. CASE info' = info
        <5>1. info' = [info EXCEPT ![i] = info[i]]
          BY <1>1, <4>1
        <5> QED  BY <1>1, <5>1
      <4>2. CASE CreateMoment /\ info' # info
        <5> DEFINE n == info[i].moments + 1
        <5>1. n \in Nat
          BY <1>1 DEF Info
        <5>2. info' = [info EXCEPT ![i] = [[info[i] EXCEPT !.moments = n] EXCEPT !.at = "draft"]]
          BY <4>2 DEF CreateMoment, SaveDraft
        <5> HIDE DEF n
        <5>3. DEFINE d == [[info[i] EXCEPT !.moments = n] EXCEPT !.at = "draft"]
        <5>4. /\ d \in Info /\ d.rule = info[i].rule
              /\ d.cut = info[i].cut /\ d.skip = info[i].skip
          BY <1>1, <5>1 DEF Info
        <5> QED  BY <5>2, <5>4
      <4>3. CASE PublishCollectInfo /\ info' # info
        <5>1. info' = [info EXCEPT ![i] = [info[i] EXCEPT !.at = "published"]]
          BY <4>3 DEF PublishCollectInfo
        <5>2. DEFINE d == [info[i] EXCEPT !.at = "published"]
        <5>3. /\ d \in Info /\ d.rule = info[i].rule
              /\ d.cut = info[i].cut /\ d.skip = info[i].skip
          BY <1>1 DEF Info
        <5> QED  BY <5>1, <5>3
      <4> QED  BY <2>1, <4>1, <4>2, <4>3
    <3>2. Allowed(r)' = Allowed(r)
      <4> HIDE DEF i
      <4>1. DOMAIN info' = DOMAIN info /\ \A j \in DOMAIN info :
              info'[j].rule = info[j].rule /\ info'[j].cut = info[j].cut /\ info'[j].skip = info[j].skip
        BY <1>5, <3>1
      <4> QED  BY <4>1, AllowedKept
    <3> QED  BY <1>4, <3>2, LimitTypes
  <2>2. CASE SaveCut /\ info' # info
    <3>1. eng.ts - Before[eng.rule] \in Int /\ eng.ts + After[eng.rule] \in Int /\ eng.rule \in Rules
      BY <1>1, RuleCollectionAssumption DEF Engine, TypeInv, EngType
    <3> DEFINE cut == [start |-> eng.ts - Before[eng.rule], end |-> eng.ts + After[eng.rule]]
               d == [[info[i] EXCEPT !.cut = cut, !.skip = ~eng.can] EXCEPT !.at = "draft"]
    <3>2. info' = [info EXCEPT ![i] = d] /\ eng.pc = "cut"
      BY <2>2 DEF SaveCut, SaveDraft
    <3>3. cut \in Cuts
      BY <3>1 DEF Cuts
    <3> HIDE DEF cut
    <3>4. d \in Info /\ d.rule = eng.rule /\ d.skip = ~eng.can
      BY <1>1, <3>3 DEF Info, Engine
    <3> HIDE DEF d, i
    <3>5. /\ DOMAIN info' = DOMAIN info /\ info'[i] = d
          /\ \A j \in DOMAIN info : j # i => info'[j] = info[j]
      BY <1>5, <3>2, <3>4
    <3>6. CASE eng.can /\ eng.rule = r
      <4>1. AllowedInfos(r)' \subseteq AllowedInfos(r) \cup {i}
        BY <3>5 DEF AllowedInfos
      <4>2. Cutting(r) = 1
        BY <3>2, <3>6 DEF Cutting
      <4>3. Allowed(r)' \in Nat /\ Allowed(r)' <= Allowed(r) + 1
        BY <4>1, AllowedMore
      <4> QED  BY <1>4, <4>2, <4>3, LimitTypes
    <3>7. CASE ~(eng.can /\ eng.rule = r)
      <4>1. AllowedInfos(r)' \subseteq AllowedInfos(r)
        BY <3>4, <3>5, <3>7 DEF AllowedInfos
      <4>2. Allowed(r)' \in Nat /\ Allowed(r)' <= Allowed(r)
        BY <4>1, AllowedFewer
      <4> QED  BY <1>4, <4>2, LimitTypes
    <3> QED  BY <3>6, <3>7
  <2> QED  BY <2>1, <2>2
<1>7. Hitting(r)' <= Hitting(r) /\ (eng'.pc = "global" => eng.pc = "global" /\ eng'.rule = eng.rule)
  BY <1>3, <1>4
<1> QED
  BY <1>2, <1>6, <1>7, LimitKept

\* Another device counts, and hits.
LEMMA LimitOther ==
  ASSUME TypeInv, LimitInv, OtherHits \/ \E s \in Shared : OtherCounts(s), NEW r \in Rules
  PROVE  LimitOf(r)'
<1>1. /\ UNCHANGED <<eng, info, missed>> /\ cloud \in [Rules -> [own : Nat, all : Nat]]
      /\ other \in Rules \cup {None}
  BY DEF OtherHits, OtherCounts, engVars, TypeInv, CloudType
<1>2. /\ Allowed(r)' = Allowed(r) /\ Hitting(r)' = Hitting(r) /\ Cutting(r)' = Cutting(r)
      /\ missed'[r] = missed[r]
  BY <1>1 DEF Allowed, Hitting, Cutting
<1>3. /\ Limited(Allowed(r), cloud[r].own, cloud[r].all, Hitting(r), Cutting(r), Coming(r), missed[r])
      /\ (eng.pc = "global" /\ eng.rule = r => cloud[r].own < DeviceTimes)
  BY DEF LimitInv, LimitOf
<1>4. CASE \E s \in Shared : OtherCounts(s)
  <2>1. PICK s \in Shared : other = None /\ cloud[s].all < GlobalTimes /\ other' = s /\ cloud' = cloud
    BY <1>4 DEF OtherCounts
  <2>2. CASE s = r
    <3>1. cloud[r].all < GlobalTimes /\ Coming(r)' = 1
      BY <2>1, <2>2 DEF Coming
    <3>2. Limited(Allowed(r), cloud[r].own, cloud[r].all, Hitting(r), Cutting(r), 1, missed[r])
      BY <1>3, <3>1, LimitTypes, LimitArithmetic
    <3> QED  BY <1>1, <1>2, <1>3, <2>1, <3>1, <3>2 DEF LimitOf
  <2>3. CASE s # r
    <3>1. Coming(r)' = 0 /\ Coming(r) = 0
      BY <2>1, <2>3, RuleCollectionAssumption DEF Coming
    <3> QED  BY <1>1, <1>2, <1>3, <2>1, <3>1 DEF LimitOf
  <2> QED  BY <2>2, <2>3
<1>5. CASE OtherHits
  <2>1. /\ other \in Rules /\ other' = None /\ r # None
        /\ cloud' = [cloud EXCEPT ![other] = [cloud[other] EXCEPT !.all = cloud[other].all + 1]]
    BY <1>1, <1>5, RuleCollectionAssumption DEF OtherHits
  <2>2. Coming(r)' = 0
    BY <2>1 DEF Coming
  <2>3. CASE other = r
    <3>1. cloud'[r].own = cloud[r].own /\ cloud'[r].all = cloud[r].all + 1 /\ Coming(r) = 1
      BY <1>1, <2>1, <2>3 DEF Coming
    <3>2. Limited(Allowed(r), cloud[r].own, cloud[r].all + 1, Hitting(r), Cutting(r), 0, missed[r])
      BY <1>3, <3>1, LimitTypes, LimitArithmetic
    <3> QED  BY <1>1, <1>2, <1>3, <2>2, <3>1, <3>2 DEF LimitOf
  <2>4. CASE other # r
    <3>1. cloud'[r] = cloud[r] /\ Coming(r) = 0
      BY <1>1, <2>1, <2>4 DEF Coming
    <3> QED  BY <1>1, <1>2, <1>3, <2>2, <3>1 DEF LimitOf
  <2> QED  BY <2>3, <2>4
<1> QED
  BY <1>4, <1>5

\* The steps that neither count nor cut.
LEMMA LimitAside ==
  ASSUME TypeInv, LimitInv, UNCHANGED cloudVars, NEW r \in Rules, Allowed(r)' \in Nat,
         Allowed(r)' <= Allowed(r), eng' = eng \/ eng'.pc \in {"idle", "act"}
  PROVE  LimitOf(r)'
<1>1. Hitting(r)' <= Hitting(r) /\ Cutting(r)' <= Cutting(r) /\ Cutting(r)' \in 0..1
  BY DEF Hitting, Cutting
<1>2. Allowed(r)' + Cutting(r)' <= Allowed(r) + Cutting(r)
  BY <1>1, LimitTypes
<1>3. eng'.pc = "global" => eng.pc = "global" /\ eng'.rule = eng.rule
  OBVIOUS
<1> QED
  BY <1>1, <1>2, <1>3, LimitKept

LEMMA LimitConsumed ==
  ASSUME TypeInv, LimitInv, NEW s \in Rules, NEW ts \in Stamps, NEW source,
         ConsumeNext(s, ts, source), NEW r \in Rules
  PROVE  LimitOf(r)'
<1>1. UNCHANGED cloudVars /\ (eng' = eng \/ eng'.pc \in {"idle", "act"})
  BY DEF ConsumeNext, Idle
<1>2. AllowedInfos(r)' \subseteq AllowedInfos(r)
  <2>1. CASE info' = info
    BY <2>1 DEF AllowedInfos
  <2>2. CASE info' = Append(info, Draft(s))
    <3>1. info \in Seq(Info) /\ Draft(s) \in Info
      BY DEF TypeInv, InfoType, Draft, Info, Cuts
    <3>2. /\ DOMAIN info' = DOMAIN info \cup {Len(info) + 1} /\ info'[Len(info) + 1] = Draft(s)
          /\ \A j \in DOMAIN info : info'[j] = info[j]
      BY <2>2, <3>1
    <3>3. Draft(s).cut = None
      BY DEF Draft
    <3> QED  BY <3>2, <3>3 DEF AllowedInfos
  <2> QED  BY <2>1, <2>2 DEF ConsumeNext
<1> QED
  BY <1>1, <1>2, AllowedFewer, LimitAside

\* The collect goroutine, the clock and a restart.
LEMMA LimitCollected ==
  ASSUME TypeInv, LimitInv, NEW r \in Rules,
         \/ Tick \/ Restart \/ ScanCollectInfos \/ EndScan \/ (\E i \in Infos : HandleCollectInfo(i))
         \/ ComputeUploadFiles \/ UpdateCollectDirs \/ UpdateCollectDirsFails
         \/ AskSlaves \/ SaveRecord \/ Clean \/ UNCHANGED vars
  PROVE  LimitOf(r)'
<1>1. UNCHANGED cloudVars /\ (eng' = eng \/ eng'.pc \in {"idle", "act"})
  <2>1. CASE Restart
    BY <2>1 DEF Restart, Idle
  <2>2. CASE ~Restart
    <3>1. UNCHANGED <<engVars, cloudVars>>
      BY <2>2 DEF Tick, ScanCollectInfos, EndScan, HandleCollectInfo, ComputeUploadFiles, UpdateCollectDirs,
                  UpdateCollectDirsFails, AskSlaves, SaveRecord, Clean, vars
    <3> QED  BY <3>1 DEF engVars
  <2> QED  BY <2>1, <2>2
<1>2. info' = info \/ \E i \in DOMAIN info : info' = [info EXCEPT ![i].at = "cleaned"]
  <2>1. CASE Clean
    BY <2>1 DEF Clean, TypeInv, ColType, Published
  <2>2. CASE \E i \in Infos : HandleCollectInfo(i)
    BY <2>2 DEF HandleCollectInfo, TypeInv, ColType, Published
  <2> QED
    BY <2>1, <2>2 DEF Tick, Restart, ScanCollectInfos, EndScan, ComputeUploadFiles, UpdateCollectDirs,
         UpdateCollectDirsFails, AskSlaves, SaveRecord, vars
<1>3. info \in Seq(Info) /\ \A i \in DOMAIN info : info[i] \in Info
  BY DEF TypeInv, InfoType
<1> DEFINE Kept == /\ DOMAIN info' = DOMAIN info
                   /\ \A j \in DOMAIN info : /\ info'[j].rule = info[j].rule /\ info'[j].cut = info[j].cut
                                              /\ info'[j].skip = info[j].skip
<1>4. Kept
  <2>1. CASE info' = info
    BY <2>1
  <2>2. ASSUME NEW i \in DOMAIN info, info' = [info EXCEPT ![i].at = "cleaned"]
        PROVE  Kept
    <3> DEFINE d == [info[i] EXCEPT !.at = "cleaned"]
    <3>1. d \in Info /\ d.rule = info[i].rule /\ d.cut = info[i].cut /\ d.skip = info[i].skip
      BY <1>3 DEF Info
    <3>2. info' = [info EXCEPT ![i] = d]
      BY <2>2
    <3> HIDE DEF d
    <3> QED  BY <1>3, <3>1, <3>2, InfoWrite
  <2> HIDE DEF Kept
  <2> QED  BY <1>2, <2>1, <2>2
<1>5. Allowed(r)' = Allowed(r)
  BY <1>4, AllowedKept
<1> QED
  BY <1>1, <1>5, LimitTypes, LimitAside

LEMMA LimitNext == TypeInv /\ LimitInv /\ [Next]_vars => LimitInv'
<1> SUFFICES ASSUME TypeInv, LimitInv, [Next]_vars, NEW r \in Rules PROVE LimitOf(r)'
  BY DEF LimitInv
<1> QED
  BY LimitDecided, LimitDrafted, LimitOther, LimitConsumed, LimitCollected DEF Next

LEMMA LimitInit == Init => LimitInv
<1> SUFFICES ASSUME Init, NEW r \in Rules PROVE LimitOf(r)
  BY DEF LimitInv
<1>1. AllowedInfos(r) = {}
  BY DEF Init, AllowedInfos
<1>2. Allowed(r) = 0
  BY <1>1, FS_EmptySet DEF Allowed, AllowedInfos
<1>3. /\ cloud[r].own = 0 /\ cloud[r].all = 0 /\ missed[r] = 0 /\ eng.pc = "idle"
      /\ Hitting(r) = 0 /\ Cutting(r) = 0 /\ Coming(r) = 0
  BY RuleCollectionAssumption DEF Init, Idle, Hitting, Cutting, Coming
<1>4. Limited(0, 0, 0, 0, 0, 0, 0)
  <2>1. 0 \in 0..0 /\ DeviceTimes \in Nat /\ GlobalTimes \in Nat
    BY RuleCollectionAssumption
  <2> QED  BY <2>1 DEF Limited
<1> QED
  BY <1>2, <1>3, <1>4 DEF LimitOf

LEMMA LimitImplies == TypeInv /\ LimitInv => WithinLimit
<1> SUFFICES ASSUME TypeInv, LimitInv, NEW r \in Rules
             PROVE  /\ Allowed(r) <= DeviceTimes + missed[r]
                    /\ Allowed(r) + Others(r) <= GlobalTimes + 1 + missed[r]
  BY DEF WithinLimit
<1>1. PICK k \in 0..missed[r] :
        /\ Allowed(r) + Cutting(r) <= cloud[r].own + k
        /\ cloud[r].own + Hitting(r) <= DeviceTimes + (missed[r] - k)
        /\ cloud[r].all + Coming(r) + Hitting(r) <= GlobalTimes + 1 + (missed[r] - k)
  BY DEF LimitInv, LimitOf, Limited
<1>2. Others(r) = cloud[r].all - cloud[r].own + Coming(r)
  BY DEF Others, Coming
<1> QED
  BY <1>1, <1>2, LimitTypes

\* Whatever calls fail, and whatever the other devices do between a count and a
\* hit, the uploads a rule allows are within its limits but for the calls that
\* failed and one upload of another device.
THEOREM LimitsHold == Spec => []WithinLimit
BY TypeInvariant, LimitInit, LimitNext, LimitImplies, PTL DEF Spec

---------------------------------------------------------------------------------
(* The debounce.  The time that later items are compared with is not before the *)
(* last activation, as long as the items come from HTTP: a late one leaves it.  *)

BurstInv ==
  \A r \in Rules : DebounceTime[r] > 0 /\ active[r] # None => prev[r] # None /\ active[r] <= prev[r]

Spaced ==
  \A r \in Rules :
    (eng.pc = "idle" /\ eng'.pc = "act" /\ eng'.rule = r /\ DebounceTime[r] > 0
     /\ active[r] # None /\ active'[r] # None)
    => active'[r] - active[r] > DebounceTime[r]

LEMMA BurstConsumed ==
  ASSUME TypeInv, BurstInv, NEW s \in Rules, NEW ts \in Stamps, NEW source \in {"http", "file"},
         ConsumeNext(s, ts, source)
  PROVE  BurstInv' /\ Spaced
<1>0. /\ prev \in [Rules -> Stamps \cup {None}] /\ active \in [Rules -> Stamps \cup {None}]
      /\ None \notin Stamps /\ Stamps \subseteq Nat /\ \A r \in Rules : DebounceTime[r] \in Nat
  BY RuleCollectionAssumption DEF TypeInv, EngType
<1> DEFINE e == EvalConditions(s, ts, source)
<1>1. /\ prev' = [prev EXCEPT ![s] = e.time]
      /\ active' = [active EXCEPT ![s] = IF source = "http" THEN (IF e.active THEN ts ELSE @) ELSE None]
      /\ eng'.pc = "act" => (e.active /\ eng'.rule = s)
  BY DEF ConsumeNext, Idle
<1>2. \A r \in Rules : r # s => (prev'[r] = prev[r] /\ active'[r] = active[r])
  BY <1>0, <1>1
<1>3. prev'[s] = e.time /\ active'[s] = IF source = "http" THEN (IF e.active THEN ts ELSE active[s]) ELSE None
  BY <1>0, <1>1
<1>4. ASSUME DebounceTime[s] > 0, source = "http"
      PROVE  /\ active'[s] # None => (prev'[s] # None /\ active'[s] <= prev'[s])
             /\ (e.active /\ active[s] # None) => ts - active[s] > DebounceTime[s]
  <2>1. active[s] # None => (prev[s] # None /\ active[s] <= prev[s] /\ active[s] \in Nat)
    BY <1>0, <1>4 DEF BurstInv
  <2>2. CASE prev[s] = None
    <3>1. e.active /\ e.time = ts
      BY <1>4, <2>2 DEF EvalConditions
    <3> QED  BY <1>0, <1>3, <1>4, <2>1, <2>2, <3>1
  <2>3. CASE prev[s] # None /\ ts < prev[s]
    <3>1. ~e.active /\ e.time = prev[s]
      BY <1>0, <1>4, <2>3 DEF EvalConditions
    <3> QED  BY <1>0, <1>3, <1>4, <2>1, <2>3, <3>1
  <2>4. CASE prev[s] # None /\ ~(ts < prev[s])
    <3>1. e.time = ts /\ prev[s] \in Nat
      BY <1>0, <1>4, <2>4 DEF EvalConditions
    <3>2. CASE ts - prev[s] > DebounceTime[s]
      <4>1. ts - active[s] > DebounceTime[s] \/ active[s] = None
        BY <1>0, <2>1, <3>1, <3>2
      <4> HIDE DEF e
      <4> QED  BY <1>0, <1>3, <1>4, <2>1, <2>4, <3>1, <4>1
    <3>3. CASE ~(ts - prev[s] > DebounceTime[s])
      <4>1. ~e.active
        BY <1>0, <1>4, <2>4, <3>3 DEF EvalConditions
      <4> HIDE DEF e
      <4> QED  BY <1>0, <1>3, <1>4, <2>1, <2>4, <3>1, <4>1
    <3> QED  BY <3>2, <3>3
  <2> QED  BY <2>2, <2>3, <2>4
<1> HIDE DEF e
<1>5. BurstInv'
  BY <1>2, <1>3, <1>4 DEF BurstInv
<1>6. Spaced
  BY <1>1, <1>3, <1>4 DEF Spaced
<1> QED
  BY <1>5, <1>6

LEMMA BurstNext == TypeInv /\ BurstInv /\ [Next]_vars => BurstInv' /\ Spaced
<1> SUFFICES ASSUME TypeInv, BurstInv, [Next]_vars PROVE BurstInv' /\ Spaced
  OBVIOUS
<1>1. ASSUME prev' = prev, active' = active, eng.pc # "idle" \/ eng'.pc # "act"
      PROVE  BurstInv' /\ Spaced
  BY <1>1 DEF BurstInv, Spaced
<1>2. CASE \/ RunFails \/ CountOwn \/ CountGlobal \/ HitDiagnosisRule \/ SaveCut \/ CreateMoment
           \/ PublishCollectInfo
  BY <1>1, <1>2 DEF RunFails, NextAction, CountOwn, CountGlobal, HitDiagnosisRule, SaveCut, CreateMoment, SaveDraft,
     PublishCollectInfo
<1>3. CASE \/ Tick \/ (\E r \in Shared : OtherCounts(r)) \/ OtherHits
           \/ ScanCollectInfos \/ EndScan \/ (\E i \in Infos : HandleCollectInfo(i))
           \/ ComputeUploadFiles \/ UpdateCollectDirs \/ UpdateCollectDirsFails
           \/ AskSlaves \/ SaveRecord \/ Clean \/ UNCHANGED vars
  <2>1. UNCHANGED engVars
    BY <1>3 DEF Tick, OtherCounts, OtherHits, ScanCollectInfos, EndScan, HandleCollectInfo, ComputeUploadFiles,
       UpdateCollectDirs, UpdateCollectDirsFails, AskSlaves, SaveRecord, Clean, vars
  <2> QED  BY <1>1, <2>1 DEF engVars
<1>4. CASE Restart
  BY <1>4 DEF Restart, Idle, BurstInv, Spaced
<1> QED
  BY <1>2, <1>3, <1>4, BurstConsumed DEF Next

\* Items of HTTP activate a rule at most once in its debounce time, for any rules,
\* times and order of the items: one that comes late moves nothing back.
THEOREM BurstsActivateOnce == Spec => BurstActivatesOnce
<1>1. Init => BurstInv
  BY DEF Init, BurstInv
<1>2. TypeInv /\ BurstInv /\ [Next]_vars => BurstInv'
  BY BurstNext
<1>3. TypeInv /\ BurstInv /\ [Next]_vars =>
        [\A r \in Rules :
           (eng.pc = "idle" /\ eng'.pc = "act" /\ eng'.rule = r /\ DebounceTime[r] > 0
            /\ active[r] # None /\ active'[r] # None)
           => active'[r] - active[r] > DebounceTime[r]]_vars
  BY BurstNext DEF Spaced
<1> QED
  BY <1>1, <1>2, <1>3, TypeInvariant, PTL DEF Spec, BurstActivatesOnce

-----------------------------------------------------------------------------
(* The records.  A record is whole because what a walk, a slave and the cache    *)
(* of file states contribute is judged by the same window, one that is over: the *)
(* files it is owed were there then, and have only been modified since.  There   *)
(* is one record for each time its info was seen published, and the info has the *)
(* moments of the actions but of those that failed.                              *)

RecordType == [lacks : SUBSET Wanted, strays : SUBSET Wanted, moments : Nat]

\* The moments among the first actions of r, up to the k-th.
MomentsBefore(r, k) == {n \in Moments(r) : n < k}

\* Every action so far has left its moment, or failed.
MomentInv ==
  /\ \A i \in DOMAIN info : info[i].at \in {"published", "cleaned"} =>
       info[i].moments + faults >= Cardinality(Moments(info[i].rule))
  /\ eng.pc # "idle" =>
       info[eng.id].moments + faults >= Cardinality(MomentsBefore(eng.rule, eng.k))
  /\ eng.pc \in {"global", "hit", "cut"} => eng.k \notin Moments(eng.rule)

\* A cached state is at most as new as the file.
CacheInv ==
  /\ \A f \in DOMAIN cache : cache[f].modified \in Nat /\ cache[f].modified <= Final[f]
  /\ \A f \in DOMAIN saved : saved[f].modified \in Nat /\ saved[f].modified <= Final[f]

\* The collect goroutine works on an info whose window is over, and has all of
\* the files it owes, and only files of the window.
GatherInv ==
  /\ col.pc \in {"scan", "slaves", "save", "clean"} =>
       ~info[col.id].skip /\ ~Invalid(Cut) /\ WindowIsOver(Cut)
  /\ col.pc \in {"slaves", "save"} =>
       col.due \subseteq col.files /\ \A f \in col.files : Overlaps(Born[f], Final[f], Cut)

\* What came of a record: its info is cleaned, or is about to be.
Recorded(i) ==
  IF (i \in DOMAIN info /\ info[i].at = "cleaned") \/ (col.pc = "clean" /\ col.id = i) THEN 1 ELSE 0

Whole(rec, i) ==
  /\ rec.lacks = {} /\ rec.strays = {}
  /\ rec.moments + faults >= Cardinality(Moments(info[i].rule))

RecordInv ==
  /\ records \in [Infos -> Seq(RecordType)] /\ again \in [Infos -> Nat]
  /\ \A i \in Infos : Len(records[i]) <= again[i] + Recorded(i)
  /\ \A i \in Infos : records[i] # << >> =>
       /\ i \in DOMAIN info /\ info[i].at \in {"published", "cleaned"}
       /\ ~info[i].skip /\ ~Invalid(info[i].cut)
       /\ \A n \in DOMAIN records[i] : Whole(records[i][n], i)

WholeInv == MomentInv /\ CacheInv /\ GatherInv /\ RecordInv

-----------------------------------------------------------------------------
\* The numbers and the infos.
LEMMA Typed ==
  ASSUME TypeInv
  PROVE  /\ faults \in Nat /\ now \in Nat /\ MaxInfos \in Nat
         /\ info \in Seq(Info) /\ DOMAIN info \subseteq Infos /\ DOMAIN info = 1..Len(info)
         /\ \A i \in DOMAIN info : info[i] \in Info
         /\ None \notin Infos /\ \A i \in Published : i \in DOMAIN info
<1>1. /\ faults \in 0..MaxFaults /\ now \in 0..MaxTime /\ info \in Seq(Info) /\ Len(info) <= MaxInfos
      /\ MaxFaults \in Nat /\ MaxTime \in Nat /\ MaxInfos \in Nat
  BY RuleCollectionAssumption DEF TypeInv, CloudType, InfoType
<1>2. DOMAIN info = 1..Len(info) /\ Len(info) \in Nat /\ \A i \in DOMAIN info : info[i] \in Info
  BY <1>1
<1>3. DOMAIN info \subseteq Infos
  BY <1>1, <1>2 DEF Infos
<1> QED  BY <1>1, <1>2, <1>3, RuleCollectionAssumption DEF Published, Infos

LEMMA Time ==
  ASSUME TypeInv, [Next]_vars
  PROVE  /\ faults' \in Nat /\ faults <= faults' /\ now' \in Nat /\ now <= now'
<1>1. TypeInv'
  BY TypeNext
<1>2. faults' \in 0..MaxFaults /\ now' \in 0..MaxTime /\ MaxFaults \in Nat /\ MaxTime \in Nat
  BY <1>1, RuleCollectionAssumption DEF TypeInv, CloudType
<1>3. /\ faults' = faults \/ faults' = faults + 1
      /\ now' = now \/ now' = now + 1
  BY DEF Next, vars, Tick, Restart, ConsumeNext, RunFails, CountOwn, CountGlobal, HitDiagnosisRule, SaveCut,
         CreateMoment, SaveDraft, PublishCollectInfo, OtherCounts, OtherHits, ScanCollectInfos, EndScan,
         HandleCollectInfo, ComputeUploadFiles, UpdateCollectDirs, UpdateCollectDirsFails, AskSlaves,
         SaveRecord, Clean, Fault, NoFault, Miss
<1> QED  BY <1>2, <1>3, Typed

\* A published info is not changed any more; it is cleaned, in the end.
Kept(i) ==
  /\ i \in DOMAIN info' /\ info'[i].rule = info[i].rule /\ info'[i].cut = info[i].cut
  /\ info'[i].skip = info[i].skip /\ info'[i].moments = info[i].moments
  /\ info'[i].at \in {info[i].at, "cleaned"}

LEMMA InfosKept ==
  ASSUME TypeInv, [Next]_vars
  PROVE  \A i \in DOMAIN info : info[i].at \in {"published", "cleaned"} => Kept(i)
<1> SUFFICES ASSUME NEW i \in DOMAIN info, info[i].at \in {"published", "cleaned"} PROVE Kept(i)
  OBVIOUS
<1>1. info \in Seq(Info) /\ info[i] \in Info /\ DOMAIN info = 1..Len(info)
  BY Typed
<1>2. info' = info => Kept(i)
  BY DEF Kept
<1>3. CASE \E r \in Rules, ts \in Stamps, source \in {"http", "file"} : ConsumeNext(r, ts, source)
  <2>1. info' = info \/ \E r \in Rules : info' = Append(info, Draft(r))
    BY <1>3 DEF ConsumeNext
  <2>2. ASSUME NEW r \in Rules, info' = Append(info, Draft(r)) PROVE info'[i] = info[i] /\ i \in DOMAIN info'
    <3>1. Len(info) \in Nat /\ i \in 1..Len(info)
      BY <1>1
    <3> QED  BY <1>1, <2>2, <3>1
  <2> QED  BY <1>2, <2>1, <2>2 DEF Kept
<1>4. CASE SaveCut \/ CreateMoment \/ PublishCollectInfo
  <2>1. eng.id # i
    BY <1>4 DEF SaveCut, CreateMoment, NextAction, PublishCollectInfo, TypeInv, EngType
  <2>2. info' = info \/ \E d : info' = [info EXCEPT ![eng.id] = d]
    BY <1>4 DEF SaveCut, CreateMoment, SaveDraft, PublishCollectInfo
  <2> QED  BY <1>1, <1>2, <2>1, <2>2 DEF Kept
<1>5. CASE Clean \/ \E j \in Infos : HandleCollectInfo(j)
  <2>1. info' = info \/ \E j : info' = [info EXCEPT ![j] = [info[j] EXCEPT !.at = "cleaned"]]
    BY <1>5 DEF Clean, HandleCollectInfo
  <2>2. ASSUME NEW j, info' = [info EXCEPT ![j] = [info[j] EXCEPT !.at = "cleaned"]] PROVE Kept(i)
    <3>1. info'[i] = info[i] \/ info'[i] = [info[i] EXCEPT !.at = "cleaned"]
      BY <1>1, <2>2
    <3>2. DOMAIN info' = DOMAIN info
      BY <2>2
    <3> QED  BY <1>1, <3>1, <3>2 DEF Kept, Info
  <2> QED  BY <1>2, <2>1, <2>2
<1>6. CASE \/ Tick \/ Restart \/ RunFails \/ CountOwn \/ CountGlobal \/ HitDiagnosisRule
           \/ (\E r \in Shared : OtherCounts(r)) \/ OtherHits \/ ScanCollectInfos \/ EndScan
           \/ ComputeUploadFiles \/ UpdateCollectDirs \/ UpdateCollectDirsFails
           \/ AskSlaves \/ SaveRecord \/ UNCHANGED vars
  <2>1. info' = info
    BY <1>6 DEF Tick, Restart, RunFails, CountOwn, CountGlobal, HitDiagnosisRule, OtherCounts, OtherHits,
       ScanCollectInfos, EndScan, ComputeUploadFiles, UpdateCollectDirs, UpdateCollectDirsFails, AskSlaves,
       SaveRecord, vars
  <2> QED  BY <1>2, <2>1
<1> QED
  BY <1>3, <1>4, <1>5, <1>6 DEF Next

-----------------------------------------------------------------------------
(* The moments.                                                                *)

LEMMA MomentSets ==
  ASSUME NEW r \in Rules
  PROVE  /\ IsFiniteSet(Moments(r)) /\ Cardinality(Moments(r)) \in Nat
         /\ \A n \in Nat : Cardinality(MomentsBefore(r, n)) \in Nat
         /\ \A n \in Nat : n \notin Moments(r) => MomentsBefore(r, n + 1) = MomentsBefore(r, n)
         /\ \A n \in Nat : Cardinality(MomentsBefore(r, n + 1)) <= Cardinality(MomentsBefore(r, n)) + 1
         /\ \A n \in Nat : n > Len(Actions[r]) => MomentsBefore(r, n) = Moments(r)
         /\ MomentsBefore(r, 1) = {} /\ Cardinality(MomentsBefore(r, 1)) = 0
<1>1. /\ Actions[r] \in Seq({"upload", "create_moment"})
      /\ DOMAIN Actions[r] = 1..Len(Actions[r]) /\ Len(Actions[r]) \in Nat
  BY RuleCollectionAssumption
<1>2. Moments(r) \subseteq 1..Len(Actions[r])
  BY <1>1 DEF Moments
<1>3. IsFiniteSet(Moments(r))
  <2>1. IsFiniteSet(1..Len(Actions[r]))
    BY <1>1, FS_Interval
  <2> QED  BY <1>2, <2>1, FS_Subset
<1>4. \A n \in Nat : IsFiniteSet(MomentsBefore(r, n))
  <2>1. \A n \in Nat : MomentsBefore(r, n) \subseteq Moments(r)
    BY DEF MomentsBefore
  <2> QED  BY <1>3, <2>1, FS_Subset
<1>5. \A n \in Nat : /\ MomentsBefore(r, n + 1) \subseteq MomentsBefore(r, n) \cup {n}
                     /\ n \notin Moments(r) => MomentsBefore(r, n + 1) = MomentsBefore(r, n)
  BY <1>1, <1>2 DEF MomentsBefore
<1>6. ASSUME NEW n \in Nat
      PROVE  Cardinality(MomentsBefore(r, n + 1)) <= Cardinality(MomentsBefore(r, n)) + 1
  <2> DEFINE S == MomentsBefore(r, n)
             T == MomentsBefore(r, n + 1)
  <2>1. IsFiniteSet(S) /\ T \subseteq S \cup {n}
    BY <1>4, <1>5
  <2> HIDE DEF S, T
  <2>2. /\ IsFiniteSet(S \cup {n})
        /\ Cardinality(S \cup {n}) = IF n \in S THEN Cardinality(S) ELSE Cardinality(S) + 1
    BY <2>1, FS_AddElement
  <2>3. Cardinality(T) <= Cardinality(S \cup {n}) /\ IsFiniteSet(T)
    BY <2>1, <2>2, FS_Subset
  <2>4. Cardinality(S) \in Nat /\ Cardinality(T) \in Nat /\ Cardinality(S \cup {n}) \in Nat
    BY <2>1, <2>2, <2>3, FS_CardinalityType
  <2>5. Cardinality(T) <= Cardinality(S) + 1
    BY <2>2, <2>3, <2>4
  <2> QED  BY <2>5 DEF S, T
<1>7. \A n \in Nat : n > Len(Actions[r]) => MomentsBefore(r, n) = Moments(r)
  BY <1>1, <1>2 DEF MomentsBefore
<1>8. MomentsBefore(r, 1) = {}
  BY <1>2 DEF MomentsBefore
<1>9. /\ Cardinality(Moments(r)) \in Nat /\ \A n \in Nat : Cardinality(MomentsBefore(r, n)) \in Nat
  BY <1>3, <1>4, FS_CardinalityType
<1>10. Cardinality(MomentsBefore(r, 1)) = 0
  BY <1>8, FS_EmptySet
<1> QED  BY <1>3, <1>5, <1>6, <1>7, <1>8, <1>9, <1>10

\* What a step does to the published infos keeps their moments.
LEMMA PublishedMoments ==
  ASSUME TypeInv, MomentInv, [Next]_vars
  PROVE  \A i \in DOMAIN info : info[i].at \in {"published", "cleaned"} =>
           info'[i].moments + faults' >= Cardinality(Moments(info'[i].rule))
<1> SUFFICES ASSUME NEW i \in DOMAIN info, info[i].at \in {"published", "cleaned"}
             PROVE  info'[i].moments + faults' >= Cardinality(Moments(info'[i].rule))
  OBVIOUS
<1>1. info'[i].moments = info[i].moments /\ info'[i].rule = info[i].rule
  BY InfosKept DEF Kept
<1>2. info[i].moments + faults >= Cardinality(Moments(info[i].rule))
  BY DEF MomentInv
<1>3. info[i].moments \in Nat /\ info[i].rule \in Rules
  BY Typed DEF Info
<1>4. faults \in Nat /\ faults' \in Nat /\ faults <= faults' /\ Cardinality(Moments(info[i].rule)) \in Nat
  BY <1>3, Typed, Time, MomentSets
<1> QED  BY <1>1, <1>2, <1>3, <1>4

\* A step that writes no info, and neither starts nor goes on to the next action.
LEMMA MomentsAside ==
  ASSUME TypeInv, MomentInv, [Next]_vars,
         info' = info \/ \E j \in Published : info' = [info EXCEPT ![j].at = "cleaned"],
         \/ eng' = eng
         \/ eng'.pc = "idle"
         \/ /\ eng.pc # "idle" /\ eng'.id = eng.id /\ eng'.rule = eng.rule /\ eng'.k = eng.k
            /\ eng'.pc \in {"global", "hit", "cut"} => eng.k \notin Moments(eng.rule)
  PROVE  MomentInv'
<1>1. \A i \in DOMAIN info' : info'[i].at \in {"published", "cleaned"} =>
        info'[i].moments + faults' >= Cardinality(Moments(info'[i].rule))
  <2> SUFFICES ASSUME NEW i \in DOMAIN info', info'[i].at \in {"published", "cleaned"}
               PROVE  info'[i].moments + faults' >= Cardinality(Moments(info'[i].rule))
    OBVIOUS
  <2>1. i \in DOMAIN info /\ info[i].at \in {"published", "cleaned"}
    BY Typed DEF Published
  <2> QED  BY <2>1, PublishedMoments
<1>2. eng'.pc # "idle" =>
        info'[eng'.id].moments + faults' >= Cardinality(MomentsBefore(eng'.rule, eng'.k))
  <2> SUFFICES ASSUME eng'.pc # "idle"
               PROVE  info'[eng'.id].moments + faults' >= Cardinality(MomentsBefore(eng'.rule, eng'.k))
    OBVIOUS
  <2>1. eng.pc # "idle" /\ eng'.id = eng.id /\ eng'.rule = eng.rule /\ eng'.k = eng.k
    OBVIOUS
  <2>2. /\ eng.id \in DOMAIN info /\ eng.rule \in Rules /\ eng.k \in Nat
        /\ info[eng.id].at \in {"unsaved", "draft"}
    BY <2>1 DEF TypeInv, EngType, Engine
  <2>3. info'[eng.id] = info[eng.id] /\ info[eng.id].moments \in Nat
    BY <2>2, Typed DEF Info, Published
  <2>4. info[eng.id].moments + faults >= Cardinality(MomentsBefore(eng.rule, eng.k))
    BY <2>1 DEF MomentInv
  <2>5. /\ Cardinality(MomentsBefore(eng.rule, eng.k)) \in Nat
        /\ faults \in Nat /\ faults' \in Nat /\ faults <= faults'
    BY <2>2, MomentSets, Typed, Time
  <2> QED  BY <2>1, <2>3, <2>4, <2>5
<1>3. eng'.pc \in {"global", "hit", "cut"} => eng'.k \notin Moments(eng'.rule)
  BY DEF MomentInv
<1> QED  BY <1>1, <1>2, <1>3 DEF MomentInv, Moments, MomentsBefore

\* A new info has no moments, and its consumer comes to the first action.
LEMMA MomentsConsumed ==
  ASSUME TypeInv, MomentInv, NEW r \in Rules, NEW ts \in Stamps, NEW source \in {"http", "file"},
         ConsumeNext(r, ts, source)
  PROVE  MomentInv'
<1>0. [Next]_vars
  BY DEF Next
<1>1. CASE UNCHANGED <<info, eng>>
  BY <1>0, <1>1, MomentsAside
<1>2. CASE ~UNCHANGED <<info, eng>>
  <2>1. /\ info' = Append(info, Draft(r))
        /\ eng' = [Idle EXCEPT !.pc = "act", !.id = Len(info) + 1, !.rule = r, !.ts = ts, !.k = 1]
    BY <1>2 DEF ConsumeNext
  <2>2. /\ eng'.pc = "act" /\ eng'.id = Len(info) + 1 /\ eng'.rule = r /\ eng'.k = 1
        /\ Draft(r).moments = 0 /\ Draft(r).at = "unsaved"
    BY <2>1 DEF Idle, Draft
  <2>3. /\ DOMAIN info = 1..Len(info) /\ Len(info) \in Nat
        /\ DOMAIN info' = 1..(Len(info) + 1) /\ info'[Len(info) + 1] = Draft(r)
        /\ \A i \in DOMAIN info : info'[i] = info[i]
    BY <2>1, Typed
  <2>4. \A i \in DOMAIN info' : info'[i].at \in {"published", "cleaned"} =>
          info'[i].moments + faults' >= Cardinality(Moments(info'[i].rule))
    <3> SUFFICES ASSUME NEW i \in DOMAIN info', info'[i].at \in {"published", "cleaned"}
                 PROVE  info'[i].moments + faults' >= Cardinality(Moments(info'[i].rule))
      OBVIOUS
    <3>1. i \in DOMAIN info /\ info[i].at \in {"published", "cleaned"}
      BY <2>2, <2>3
    <3> QED  BY <1>0, <3>1, PublishedMoments
  <2>5. info'[eng'.id].moments + faults' >= Cardinality(MomentsBefore(eng'.rule, eng'.k))
    <3>1. Cardinality(MomentsBefore(r, 1)) = 0 /\ faults' \in Nat
      BY <1>0, MomentSets, Time
    <3> QED  BY <2>2, <2>3, <3>1
  <2> QED  BY <2>2, <2>4, <2>5 DEF MomentInv, Moments, MomentsBefore
<1> QED  BY <1>1, <1>2

\* An action of the rule is done, or has failed: the moment it creates is there, or
\* one more fault.
LEMMA MomentsActed ==
  ASSUME TypeInv, MomentInv, RunFails \/ SaveCut \/ CreateMoment
  PROVE  MomentInv'
<1>0. [Next]_vars
  BY DEF Next
<1> DEFINE id == eng.id
           rule == eng.rule
           k == eng.k
<1>1. /\ eng.pc # "idle" /\ id \in DOMAIN info /\ rule \in Rules /\ k \in Nat
      /\ info[id] \in Info /\ info[id].moments \in Nat
      /\ eng' = [eng EXCEPT !.pc = "act", !.k = @ + 1]
  <2>1. eng.pc # "idle"
    BY DEF RunFails, SaveCut, CreateMoment, NextAction
  <2>2. id \in DOMAIN info /\ rule \in Rules /\ eng \in Engine
    BY <2>1 DEF TypeInv, EngType
  <2>3. eng' = [eng EXCEPT !.pc = "act", !.k = @ + 1]
    <3>1. CASE RunFails
      <4>1. eng' = [eng EXCEPT !.k = @ + 1] /\ eng.pc = "act"
        BY <3>1 DEF RunFails
      <4> QED  BY <2>2, <4>1 DEF Engine
    <3>2. CASE SaveCut \/ CreateMoment
      BY <3>2 DEF SaveCut, CreateMoment, SaveDraft
    <3> QED  BY <3>1, <3>2
  <2> QED  BY <2>1, <2>2, <2>3, Typed DEF Info, Engine
<1>2. /\ eng'.pc = "act" /\ eng'.id = id /\ eng'.rule = rule /\ eng'.k = k + 1
  BY <1>1 DEF TypeInv, EngType, Engine
<1>3. /\ DOMAIN info' = DOMAIN info /\ \A i \in DOMAIN info : i # id => info'[i] = info[i]
      /\ info'[id].at \in {"unsaved", "draft"}
      /\ info'[id].moments \in {info[id].moments, info[id].moments + 1}
      /\ \/ k \notin Moments(rule) \/ faults' = faults + 1
         \/ info'[id].moments = info[id].moments + 1
  <2>1. info[id].at \in {"unsaved", "draft"}
    BY <1>1 DEF TypeInv, EngType
  <2>2. CASE RunFails
    BY <2>1, <2>2 DEF RunFails, Fault
  <2>3. CASE SaveCut
    <3>1. k \notin Moments(rule)
      BY <2>3 DEF SaveCut, MomentInv
    <3>2. info' = info \/ \E c, s : info' = [info EXCEPT ![id] =
                             [[info[id] EXCEPT !.cut = c, !.skip = s] EXCEPT !.at = "draft"]]
      BY <2>3 DEF SaveCut, SaveDraft
    <3>3. ASSUME NEW c, NEW s
          PROVE  LET d == [[info[id] EXCEPT !.cut = c, !.skip = s] EXCEPT !.at = "draft"]
                 IN  d.at = "draft" /\ d.moments = info[id].moments
      BY <1>1 DEF Info
    <3>4. info' = info \/ \E d : /\ info' = [info EXCEPT ![id] = d]
                                  /\ d.at = "draft" /\ d.moments = info[id].moments
      <4>1. CASE info' = info
        BY <4>1
      <4>2. ASSUME NEW c, NEW s, info' = [info EXCEPT ![id] =
                                    [[info[id] EXCEPT !.cut = c, !.skip = s] EXCEPT !.at = "draft"]]
            PROVE  \E d : /\ info' = [info EXCEPT ![id] = d]
                          /\ d.at = "draft" /\ d.moments = info[id].moments
        <5> DEFINE d == [[info[id] EXCEPT !.cut = c, !.skip = s] EXCEPT !.at = "draft"]
        <5>1. info' = [info EXCEPT ![id] = d] /\ d.at = "draft" /\ d.moments = info[id].moments
          BY <3>3, <4>2
        <5> HIDE DEF d
        <5> QED  BY <5>1
      <4> QED  BY <3>2, <4>1, <4>2
    <3> HIDE DEF id
    <3> QED  BY <1>1, <2>1, <3>1, <3>4
  <2>4. CASE CreateMoment
    <3>1. \/ info' = info /\ faults' = faults + 1
          \/ info' = [info EXCEPT ![id] = [[info[id] EXCEPT !.moments = @ + 1] EXCEPT !.at = "draft"]]
      BY <2>4 DEF CreateMoment, SaveDraft, Fault
    <3>2. LET d == [[info[id] EXCEPT !.moments = @ + 1] EXCEPT !.at = "draft"]
          IN  d.at = "draft" /\ d.moments = info[id].moments + 1
      BY <1>1 DEF Info
    <3>3. \/ info' = info /\ faults' = faults + 1
          \/ \E d : /\ info' = [info EXCEPT ![id] = d]
                   /\ d.at = "draft" /\ d.moments = info[id].moments + 1
      BY <3>1, <3>2
    <3> QED  BY <1>1, <2>1, <3>3
  <2> QED  BY <2>2, <2>3, <2>4
<1> HIDE DEF id, rule, k
<1>4. \A i \in DOMAIN info' : info'[i].at \in {"published", "cleaned"} =>
        info'[i].moments + faults' >= Cardinality(Moments(info'[i].rule))
  <2> SUFFICES ASSUME NEW i \in DOMAIN info', info'[i].at \in {"published", "cleaned"}
               PROVE  info'[i].moments + faults' >= Cardinality(Moments(info'[i].rule))
    OBVIOUS
  <2>1. i \in DOMAIN info /\ info[i].at \in {"published", "cleaned"}
    BY <1>3
  <2> QED  BY <1>0, <2>1, PublishedMoments
<1>5. info'[id].moments + faults' >= Cardinality(MomentsBefore(rule, k + 1))
  <2>1. info[id].moments + faults >= Cardinality(MomentsBefore(rule, k))
    BY <1>1 DEF MomentInv, id, rule, k
  <2>2. /\ Cardinality(MomentsBefore(rule, k)) \in Nat /\ Cardinality(MomentsBefore(rule, k + 1)) \in Nat
        /\ Cardinality(MomentsBefore(rule, k + 1)) <= Cardinality(MomentsBefore(rule, k)) + 1
        /\ k \notin Moments(rule) => MomentsBefore(rule, k + 1) = MomentsBefore(rule, k)
    <3>1. k + 1 \in Nat
      BY <1>1
    <3> QED  BY <1>1, <3>1, MomentSets
  <2>3. faults \in Nat /\ faults' \in Nat /\ faults <= faults'
    BY <1>0, Typed, Time
  <2> QED  BY <1>1, <1>3, <2>1, <2>2, <2>3
<1> QED  BY <1>2, <1>4, <1>5 DEF MomentInv, Moments, MomentsBefore, id, rule, k

\* What is published has the moments of all the actions.
LEMMA MomentsPublished ==
  ASSUME TypeInv, MomentInv, PublishCollectInfo
  PROVE  MomentInv'
<1>0. [Next]_vars
  BY DEF Next
<1>1. eng.pc = "act" /\ eng'.pc = "idle" /\ eng.k > Len(Actions[eng.rule])
  BY DEF PublishCollectInfo, Idle
<1>2. /\ eng.id \in DOMAIN info /\ eng.rule \in Rules /\ eng.k \in Nat
      /\ info[eng.id] \in Info /\ info[eng.id].rule = eng.rule
  BY <1>1, Typed DEF TypeInv, EngType, Engine
<1>3. info' = info \/ info' = [info EXCEPT ![eng.id].at = "published"]
  BY DEF PublishCollectInfo
<1>4. info[eng.id].moments + faults' >= Cardinality(Moments(eng.rule))
  <2>1. MomentsBefore(eng.rule, eng.k) = Moments(eng.rule) /\ Cardinality(Moments(eng.rule)) \in Nat
    BY <1>1, <1>2, MomentSets
  <2>2. info[eng.id].moments + faults >= Cardinality(Moments(eng.rule))
    BY <1>1, <2>1 DEF MomentInv
  <2>3. faults \in Nat /\ faults' \in Nat /\ faults <= faults' /\ info[eng.id].moments \in Nat
    BY <1>0, <1>2, Typed, Time DEF Info
  <2> QED  BY <2>1, <2>2, <2>3
<1>5. \A i \in DOMAIN info' : info'[i].at \in {"published", "cleaned"} =>
        info'[i].moments + faults' >= Cardinality(Moments(info'[i].rule))
  <2> SUFFICES ASSUME NEW i \in DOMAIN info', info'[i].at \in {"published", "cleaned"}
               PROVE  info'[i].moments + faults' >= Cardinality(Moments(info'[i].rule))
    OBVIOUS
  <2>1. CASE i = eng.id
    <3>1. info'[i].moments = info[i].moments /\ info'[i].rule = info[i].rule
      BY <1>2, <1>3, <2>1 DEF Info
    <3> QED  BY <1>2, <1>4, <2>1, <3>1
  <2>2. CASE i # eng.id
    <3>1. i \in DOMAIN info /\ info'[i] = info[i]
      BY <1>3, <2>2
    <3> QED  BY <1>0, <3>1, PublishedMoments
  <2> QED  BY <2>1, <2>2
<1> QED  BY <1>1, <1>5 DEF MomentInv, Moments, MomentsBefore

LEMMA MomentNext == TypeInv /\ MomentInv /\ [Next]_vars => MomentInv'
<1> SUFFICES ASSUME TypeInv, MomentInv, [Next]_vars PROVE MomentInv'
  OBVIOUS
<1>1. CASE CountOwn \/ CountGlobal \/ HitDiagnosisRule
  <2>1. info' = info /\ eng.pc # "idle" /\ eng \in Engine
    BY <1>1 DEF CountOwn, NextAction, CountGlobal, HitDiagnosisRule, TypeInv, EngType
  <2>2. eng'.id = eng.id /\ eng'.rule = eng.rule /\ eng'.k = eng.k
    BY <1>1, <2>1 DEF CountOwn, CountGlobal, HitDiagnosisRule, Decide, Engine
  <2>3. eng.k \notin Moments(eng.rule)
    BY <1>1 DEF CountOwn, NextAction, CountGlobal, HitDiagnosisRule, MomentInv, Moments
  <2> QED  BY <2>1, <2>2, <2>3, MomentsAside
<1>2. CASE Clean \/ \E j \in Infos : HandleCollectInfo(j)
  <2>1. eng' = eng
    BY <1>2 DEF Clean, HandleCollectInfo, engVars
  <2>2. info' = info \/ \E j \in Published : info' = [info EXCEPT ![j].at = "cleaned"]
    BY <1>2 DEF Clean, HandleCollectInfo, TypeInv, ColType
  <2> QED  BY <2>1, <2>2, MomentsAside
<1>3. CASE \/ Tick \/ (\E r \in Shared : OtherCounts(r)) \/ OtherHits \/ ScanCollectInfos \/ EndScan
           \/ ComputeUploadFiles \/ UpdateCollectDirs \/ UpdateCollectDirsFails
           \/ AskSlaves \/ SaveRecord \/ UNCHANGED vars
  <2>1. info' = info /\ eng' = eng
    BY <1>3 DEF Tick, OtherCounts, OtherHits, ScanCollectInfos, EndScan, ComputeUploadFiles,
       UpdateCollectDirs, UpdateCollectDirsFails, AskSlaves, SaveRecord, vars, engVars
  <2> QED  BY <2>1, MomentsAside
<1>4. CASE Restart
  <2>1. info' = info /\ eng'.pc = "idle"
    BY <1>4 DEF Restart, Idle
  <2> QED  BY <2>1, MomentsAside
<1> QED
  BY <1>1, <1>2, <1>3, <1>4, MomentsConsumed, MomentsActed, MomentsPublished DEF Next

-----------------------------------------------------------------------------
(* The files.                                                                  *)

\* A window that is over: what overlapped it as it was when it ended does so still,
\* and what overlapped it while it was modified less does so, too.
LEMMA OverWindow ==
  ASSUME TypeInv, col.id \in Published, WindowIsOver(Cut), NEW f \in Wanted
  PROVE  /\ ModTime(f) \in Nat /\ ModTime(f) <= Final[f]
         /\ Overlaps(Born[f], Lesser(Cut.end, Final[f]), Cut) =>
              Born[f] <= now /\ Overlaps(Born[f], ModTime(f), Cut)
         /\ \A m \in Nat : m <= Final[f] /\ Overlaps(Born[f], m, Cut) =>
              Overlaps(Born[f], Final[f], Cut)
<1>1. f \in Files \cup Remote
  BY RuleCollectionAssumption
<1>2. Born[f] \in Nat /\ Final[f] \in Nat
  BY <1>1, RuleCollectionAssumption
<1>3. now \in Nat /\ Cut.start \in Int /\ Cut.end \in Int /\ Cut.end <= now
  <2>1. Cut \in [start : Int, end : Int]
    <3>1. col.id \in DOMAIN info /\ info[col.id].at = "published" /\ info[col.id] \in Info
      BY Typed DEF Published
    <3>2. info[col.id].cut # None /\ info[col.id].cut \in Cuts
      BY <3>1 DEF TypeInv, InfoType, Info
    <3> QED  BY <3>2 DEF Cuts, Cut
  <2> QED  BY <2>1, Typed DEF WindowIsOver
<1> QED  BY <1>2, <1>3 DEF ModTime, Lesser, Overlaps

\* What is looked at in the window of an info is there, wanted, and of the window.
LEMMA LookedAt ==
  ASSUME TypeInv, col.id \in Published, WindowIsOver(Cut), NEW S
  PROVE  /\ \A f \in InWindow(S) : f \in Wanted /\ Overlaps(Born[f], Final[f], Cut)
         /\ \A D, flawed : D \subseteq S => Owed(D, flawed) \subseteq InWindow(S)
<1>1. ASSUME NEW f \in InWindow(S) PROVE f \in Wanted /\ Overlaps(Born[f], Final[f], Cut)
  <2>1. f \in Wanted /\ Overlaps(Born[f], ModTime(f), Cut)
    BY DEF InWindow
  <2> QED  BY <2>1, OverWindow
<1>2. ASSUME NEW D, NEW flawed, D \subseteq S, NEW f \in Owed(D, flawed) PROVE f \in InWindow(S)
  <2>1. f \in S \cap Wanted /\ Overlaps(Born[f], Lesser(Cut.end, Final[f]), Cut)
    BY <1>2 DEF Owed
  <2>2. Born[f] <= now /\ Overlaps(Born[f], ModTime(f), Cut)
    BY <2>1, OverWindow
  <2> QED  BY <2>1, <2>2 DEF InWindow, Present
<1> QED  BY <1>1, <1>2

\* The files of the device, found by the walk of an upload.
LEMMA WalkGathers ==
  ASSUME WalksAreComplete, TypeInv, GatherInv, ComputeUploadFiles
  PROVE  /\ col'.pc = "slaves" /\ col'.id = col.id /\ cache' = cache /\ saved' = saved
         /\ col'.due \subseteq col'.files /\ \A f \in col'.files : Overlaps(Born[f], Final[f], Cut)
<1>1. col.pc = "scan" /\ cache' = cache /\ saved' = saved
  BY DEF ComputeUploadFiles
<1>2. /\ col.id \in Published /\ WindowIsOver(Cut)
      /\ \A files, due : col' = [col EXCEPT !.pc = "slaves", !.files = files, !.due = due] =>
           col'.pc = "slaves" /\ col'.id = col.id /\ col'.files = files /\ col'.due = due
  BY <1>1 DEF TypeInv, ColType, GatherInv
<1>3. PICK w \in UploadWalks :
        Gather(IF w.end = "failed" THEN {} ELSE InWindow(w.found), Owed(w.reach, w.end # "done"))
  BY DEF ComputeUploadFiles
<1> DEFINE files == IF w.end = "failed" THEN {} ELSE InWindow(w.found)
           due == Owed(w.reach, w.end # "done")
<1>4. due \subseteq files /\ \A f \in files : Overlaps(Born[f], Final[f], Cut)
  <2>1. CASE w.end = "done"
    <3>1. w.reach \subseteq w.found /\ files = InWindow(w.found)
      BY <2>1 DEF WalksAreComplete
    <3> QED  BY <1>2, <3>1, LookedAt
  <2>2. CASE w.end # "done"
    <3>1. due = {}
      BY <2>2 DEF Owed
    <3> QED  BY <1>2, <3>1, LookedAt
  <2> QED  BY <2>1, <2>2
<1>5. col' = [col EXCEPT !.pc = "slaves", !.files = files, !.due = due]
  BY <1>3 DEF Gather
<1> HIDE DEF files, due
<1>6. col'.pc = "slaves" /\ col'.id = col.id /\ col'.files = files /\ col'.due = due
  BY <1>2, <1>5
<1> QED  BY <1>1, <1>4, <1>6

\* The files of the device, from the states that the cache keeps of them.
LEMMA CacheGathers ==
  ASSUME WalksAreComplete, TypeInv, CacheInv, GatherInv, UpdateCollectDirs
  PROVE  /\ col'.pc = "slaves" /\ col'.id = col.id /\ CacheInv'
         /\ col'.due \subseteq col'.files /\ \A f \in col'.files : Overlaps(Born[f], Final[f], Cut)
<1>1. col.pc = "scan"
  BY DEF UpdateCollectDirs
<1>2. /\ col.id \in Published /\ WindowIsOver(Cut) /\ DOMAIN cache \subseteq Wanted
      /\ \A files, due : col' = [col EXCEPT !.pc = "slaves", !.files = files, !.due = due] =>
           col'.pc = "slaves" /\ col'.id = col.id /\ col'.files = files /\ col'.due = due
  BY <1>1 DEF TypeInv, ColType, GatherInv
<1>3. PICK w \in CacheWalks : \E bad \in {{}} \cup {{f} : f \in w.found} :
        LET seen == IF w.end = "failed" THEN {} ELSE Present(w.found) \cap Wanted
            states == [f \in DOMAIN cache \cup seen |->
                         IF f \in seen THEN ProcessCollectFile(f, f \notin bad) ELSE cache[f]]
            files == {f \in DOMAIN states : /\ ~states[f].unsupported
                                            /\ Overlaps(Born[f], states[f].modified, Cut)}
            flawed == w.end # "done" \/ \E f \in seen : states[f].unsupported
        IN  /\ IF bad = {} THEN NoFault ELSE Fault
            /\ cache' = states
            /\ saved' = IF w.end = "stopped" THEN saved ELSE states
            /\ Gather(files, Owed(w.reach, flawed))
  BY DEF UpdateCollectDirs
<1> DEFINE seen == IF w.end = "failed" THEN {} ELSE Present(w.found) \cap Wanted
<1>4. PICK bad :
        LET states == [f \in DOMAIN cache \cup seen |->
                         IF f \in seen THEN ProcessCollectFile(f, f \notin bad) ELSE cache[f]]
            files == {f \in DOMAIN states : /\ ~states[f].unsupported
                                            /\ Overlaps(Born[f], states[f].modified, Cut)}
            flawed == w.end # "done" \/ \E f \in seen : states[f].unsupported
        IN  /\ cache' = states
            /\ saved' = IF w.end = "stopped" THEN saved ELSE states
            /\ Gather(files, Owed(w.reach, flawed))
  BY <1>3
<1> DEFINE states == [f \in DOMAIN cache \cup seen |->
                        IF f \in seen THEN ProcessCollectFile(f, f \notin bad) ELSE cache[f]]
           files == {f \in DOMAIN states : /\ ~states[f].unsupported
                                           /\ Overlaps(Born[f], states[f].modified, Cut)}
           flawed == w.end # "done" \/ \E f \in seen : states[f].unsupported
           due == Owed(w.reach, flawed)
<1>5. /\ cache' = states /\ saved' = IF w.end = "stopped" THEN saved ELSE states
      /\ col' = [col EXCEPT !.pc = "slaves", !.files = files, !.due = due]
  BY <1>4 DEF Gather
<1>6. \A f \in seen : f \in Wanted /\ states[f].modified = ModTime(f)
  BY DEF ProcessCollectFile
<1>7. DOMAIN states = DOMAIN cache \cup seen
  OBVIOUS
<1>8. \A f \in DOMAIN states :
        f \in Wanted /\ states[f].modified \in Nat /\ states[f].modified <= Final[f]
  <2>1. ASSUME NEW f \in seen
        PROVE  f \in Wanted /\ states[f].modified \in Nat /\ states[f].modified <= Final[f]
    <3>1. f \in Wanted /\ ModTime(f) \in Nat /\ ModTime(f) <= Final[f]
      BY <1>2, <1>6, OverWindow
    <3> QED  BY <1>6, <3>1
  <2>2. ASSUME NEW f \in DOMAIN cache, f \notin seen
        PROVE  f \in Wanted /\ states[f].modified \in Nat /\ states[f].modified <= Final[f]
    <3>1. states[f] = cache[f]
      BY <2>2
    <3> HIDE DEF states
    <3> QED  BY <1>2, <3>1 DEF CacheInv
  <2> HIDE DEF states
  <2> QED  BY <1>7, <2>1, <2>2
<1>9. \A f \in files : Overlaps(Born[f], Final[f], Cut)
  <2> SUFFICES ASSUME NEW f \in files PROVE Overlaps(Born[f], Final[f], Cut)
    OBVIOUS
  <2>1. f \in DOMAIN states /\ Overlaps(Born[f], states[f].modified, Cut)
    OBVIOUS
  <2> HIDE DEF states, files
  <2> QED  BY <1>2, <1>8, <2>1, OverWindow
<1>10. due \subseteq files
  <2> SUFFICES ASSUME NEW f \in due PROVE f \in files
    OBVIOUS
  <2>1. ~flawed /\ f \in w.reach \cap Wanted /\ Overlaps(Born[f], Lesser(Cut.end, Final[f]), Cut)
    BY DEF Owed
  <2>2. w.end = "done" /\ f \in w.found
    BY <2>1 DEF WalksAreComplete
  <2>3. Born[f] <= now /\ Overlaps(Born[f], ModTime(f), Cut)
    BY <1>2, <2>1, OverWindow
  <2>4. f \in seen
    BY <2>1, <2>2, <2>3 DEF Present
  <2>5. ~states[f].unsupported /\ f \in DOMAIN states
    BY <1>7, <2>1, <2>4
  <2>6. states[f].modified = ModTime(f)
    BY <1>6, <2>4
  <2> HIDE DEF states
  <2> QED  BY <2>3, <2>5, <2>6
<1> HIDE DEF states, files, due, seen
<1>11. CacheInv'
  BY <1>5, <1>8 DEF CacheInv
<1> QED  BY <1>2, <1>5, <1>9, <1>10, <1>11

\* What the slaves answer is added.
LEMMA SlavesGather ==
  ASSUME TypeInv, GatherInv, AskSlaves
  PROVE  /\ col'.pc = "save" /\ col'.id = col.id
         /\ col'.due \subseteq col'.files /\ \A f \in col'.files : Overlaps(Born[f], Final[f], Cut)
<1>1. col.pc = "slaves"
  BY DEF AskSlaves
<1>2. /\ col.id \in Published /\ WindowIsOver(Cut)
      /\ col.due \subseteq col.files /\ \A f \in col.files : Overlaps(Born[f], Final[f], Cut)
  BY <1>1 DEF TypeInv, ColType, GatherInv
<1>3. \A files, due : col' = [col EXCEPT !.pc = "save", !.files = files, !.due = due] =>
        col'.pc = "save" /\ col'.id = col.id /\ col'.files = files /\ col'.due = due
  BY DEF TypeInv, ColType
<1>4. CASE col' = [col EXCEPT !.pc = "save"]
  BY <1>2, <1>4 DEF TypeInv, ColType
<1>5. ASSUME NEW lag \in Lags, NEW walked \in BOOLEAN,
             LET answer == ScanFilesByContent(lag, walked) IN
             col' = [col EXCEPT !.pc = "save", !.files = @ \cup answer.files, !.due = @ \cup answer.due]
      PROVE  /\ col'.pc = "save" /\ col'.id = col.id
             /\ col'.due \subseteq col'.files /\ \A f \in col'.files : Overlaps(Born[f], Final[f], Cut)
  <2> DEFINE answer == ScanFilesByContent(lag, walked)
             files == col.files \cup answer.files
             due == col.due \cup answer.due
  <2>1. answer.due \subseteq answer.files /\ \A f \in answer.files : Overlaps(Born[f], Final[f], Cut)
    BY <1>2, LookedAt DEF ScanFilesByContent
  <2>2. col' = [col EXCEPT !.pc = "save", !.files = files, !.due = due]
    BY <1>5
  <2>3. due \subseteq files /\ \A f \in files : Overlaps(Born[f], Final[f], Cut)
    BY <1>2, <2>1
  <2> HIDE DEF files, due
  <2> QED  BY <1>3, <2>2, <2>3
<1> QED  BY <1>4, <1>5 DEF AskSlaves

LEMMA CacheNext ==
  ASSUME WalksAreComplete
  PROVE  TypeInv /\ CacheInv /\ GatherInv /\ [Next]_vars => CacheInv'
<1> SUFFICES ASSUME TypeInv, CacheInv, GatherInv, [Next]_vars PROVE CacheInv'
  OBVIOUS
<1>1. CASE UpdateCollectDirs
  BY <1>1, CacheGathers
<1>2. CASE ~UpdateCollectDirs
  <2>1. saved' = saved /\ cache' \in {cache, saved}
    BY <1>2 DEF Next, vars, colVars, Tick, Restart, ConsumeNext, RunFails, CountOwn, CountGlobal,
       HitDiagnosisRule, SaveCut, CreateMoment, SaveDraft, PublishCollectInfo, OtherCounts, OtherHits,
       ScanCollectInfos, EndScan, HandleCollectInfo, ComputeUploadFiles, UpdateCollectDirsFails, AskSlaves,
       SaveRecord, Clean
  <2> QED  BY <2>1 DEF CacheInv
<1> QED  BY <1>1, <1>2

\* The window of the info in the hands of the collect goroutine stays as it is, and
\* over.
LEMMA WindowKept ==
  ASSUME TypeInv, GatherInv, [Next]_vars, col.pc \in {"scan", "slaves", "save", "clean"}, col'.id = col.id
  PROVE  /\ Cut' = Cut /\ ~info'[col'.id].skip /\ ~Invalid(Cut)' /\ WindowIsOver(Cut)'
<1>1. col.id \in DOMAIN info /\ info[col.id].at = "published"
  BY DEF TypeInv, ColType, Published
<1>2. Cut' = Cut /\ info'[col'.id].skip = info[col.id].skip
  BY <1>1, InfosKept DEF Kept, Cut
<1>3. ~info[col.id].skip /\ ~Invalid(Cut) /\ WindowIsOver(Cut)
  BY DEF GatherInv
<1>4. now \in Nat /\ now' \in Nat /\ now <= now' /\ Cut.end \in Int
  <2>1. info[col.id].cut # None /\ info[col.id].cut \in Cuts
    BY <1>1, Typed DEF TypeInv, InfoType, Info
  <2>2. Cut \in [start : Int, end : Int]
    BY <2>1 DEF Cuts, Cut
  <2> QED  BY <2>2, Typed, Time
<1> HIDE DEF Cut
<1> QED  BY <1>2, <1>3, <1>4 DEF Invalid, WindowIsOver

LEMMA GatherNext ==
  ASSUME WalksAreComplete
  PROVE  TypeInv /\ CacheInv /\ GatherInv /\ [Next]_vars => GatherInv'
<1> SUFFICES ASSUME TypeInv, CacheInv, GatherInv, [Next]_vars PROVE GatherInv'
  OBVIOUS
<1>1. ASSUME col'.pc \in {"idle", "list"} PROVE GatherInv'
  BY <1>1 DEF GatherInv
\* A step that goes on with the info in hand.
<1>2. ASSUME col.pc \in {"scan", "slaves", "save", "clean"}, col'.id = col.id,
             col'.pc \in {"slaves", "save"} =>
               col'.due \subseteq col'.files /\ \A f \in col'.files : Overlaps(Born[f], Final[f], Cut)
      PROVE  GatherInv'
  <2>1. Cut' = Cut /\ ~info'[col'.id].skip /\ ~Invalid(Cut)' /\ WindowIsOver(Cut)'
    BY <1>2, WindowKept
  <2>2. \A f : Overlaps(Born[f], Final[f], Cut)' = Overlaps(Born[f], Final[f], Cut)
    <3> HIDE DEF Cut
    <3> QED  BY <2>1 DEF Overlaps
  <2>3. col'.pc \in {"slaves", "save"} =>
          col'.due \subseteq col'.files /\ \A f \in col'.files : Overlaps(Born[f], Final[f], Cut)'
    BY <1>2, <2>2
  <2> QED  BY <2>1, <2>3 DEF GatherInv
<1>3. CASE col' = col
  <2>1. CASE col.pc \in {"scan", "slaves", "save", "clean"}
    BY <1>2, <1>3, <2>1 DEF GatherInv
  <2>2. CASE col.pc \in {"idle", "list"}
    BY <1>1, <1>3, <2>2
  <2> QED  BY <2>1, <2>2 DEF TypeInv, ColType
<1>4. ASSUME NEW i \in Infos, HandleCollectInfo(i) PROVE GatherInv'
  <2>1. i \in Published /\ col.pc = "list"
    BY <1>4 DEF HandleCollectInfo, TypeInv, ColType
  <2>2. CASE col' = [[col EXCEPT !.todo = @ \ {i}, !.id = i] EXCEPT !.id = None]
    BY <1>1, <2>1, <2>2 DEF TypeInv, ColType
  <2>3. CASE /\ ~info[i].skip /\ ~Invalid(info[i].cut) /\ WindowIsOver(info[i].cut) /\ UNCHANGED <<info, now>>
             /\ col' = [[col EXCEPT !.todo = @ \ {i}, !.id = i] EXCEPT !.pc = "scan"]
    <3>1. col'.id = i /\ col'.pc = "scan"
      BY <2>3 DEF TypeInv, ColType
    <3> QED  BY <2>3, <3>1 DEF GatherInv, Cut, Invalid, WindowIsOver
  <2> QED  BY <1>4, <2>2, <2>3 DEF HandleCollectInfo
<1>5. CASE ComputeUploadFiles
  BY <1>2, <1>5, WalkGathers DEF ComputeUploadFiles
<1>6. CASE UpdateCollectDirs
  BY <1>2, <1>6, CacheGathers DEF UpdateCollectDirs
<1>7. CASE AskSlaves
  BY <1>2, <1>7, SlavesGather DEF AskSlaves
<1>8. CASE SaveRecord
  <2>1. CASE NextInfo
    BY <1>1, <2>1 DEF NextInfo, AtRest
  <2>2. CASE col' = [col EXCEPT !.pc = "clean"]
    BY <1>2, <1>8, <2>2 DEF SaveRecord, TypeInv, ColType
  <2> QED  BY <1>8, <2>1, <2>2 DEF SaveRecord
<1>9. CASE Restart \/ ScanCollectInfos \/ EndScan \/ UpdateCollectDirsFails \/ Clean
  <2>1. col' = AtRest \/ \E T : col' = [AtRest EXCEPT !.pc = "list", !.todo = T]
    BY <1>9 DEF Restart, ScanCollectInfos, EndScan, UpdateCollectDirsFails, Clean, NextInfo
  <2>2. AtRest.pc = "idle" /\ \A T : [AtRest EXCEPT !.pc = "list", !.todo = T].pc = "list"
    BY DEF AtRest
  <2> QED  BY <1>1, <2>1, <2>2
<1>10. CASE \/ Tick \/ (\E r \in Rules, ts \in Stamps, source \in {"http", "file"} : ConsumeNext(r, ts, source))
            \/ RunFails \/ CountOwn \/ CountGlobal \/ HitDiagnosisRule \/ SaveCut \/ CreateMoment
            \/ PublishCollectInfo \/ (\E r \in Shared : OtherCounts(r)) \/ OtherHits \/ UNCHANGED vars
  <2>1. col' = col
    BY <1>10 DEF Tick, ConsumeNext, RunFails, CountOwn, CountGlobal, HitDiagnosisRule, SaveCut, CreateMoment,
       SaveDraft, PublishCollectInfo, OtherCounts, OtherHits, vars, colVars
  <2> QED  BY <1>3, <2>1
<1> QED
  BY <1>4, <1>5, <1>6, <1>7, <1>8, <1>9, <1>10 DEF Next

-----------------------------------------------------------------------------
(* The records themselves.                                                     *)

\* The record that is saved is whole.
LEMMA RecordSaved ==
  ASSUME TypeInv, MomentInv, GatherInv, col.pc = "save"
  PROVE  Record \in RecordType /\ Whole(Record, col.id)
<1>1. /\ col.id \in Published /\ col.files \in SUBSET Wanted /\ col.due \in SUBSET Wanted
      /\ col.due \subseteq col.files /\ \A f \in col.files : Overlaps(Born[f], Final[f], Cut)
  BY DEF TypeInv, ColType, GatherInv
<1>2. info[col.id] \in Info /\ info[col.id].at = "published" /\ col.id \in DOMAIN info
  BY <1>1, Typed DEF Published
<1>3. info[col.id].moments + faults >= Cardinality(Moments(info[col.id].rule))
  BY <1>2 DEF MomentInv
<1>4. info[col.id].moments \in Nat
  BY <1>2 DEF Info
<1> HIDE DEF Cut
<1>5. /\ Record.lacks = {} /\ Record.strays = {} /\ Record.moments = info[col.id].moments
      /\ Record = [lacks |-> {}, strays |-> {}, moments |-> info[col.id].moments]
  BY <1>1 DEF Record
<1> QED  BY <1>3, <1>4, <1>5 DEF RecordType, Whole

\* Whole records stay whole, and their infos as they are.
LEMMA RecordsKept ==
  ASSUME TypeInv, RecordInv, [Next]_vars, NEW i \in Infos, records[i] # << >>
  PROVE  /\ i \in DOMAIN info' /\ info'[i].at \in {"published", "cleaned"}
         /\ ~info'[i].skip /\ ~Invalid(info'[i].cut)
         /\ info'[i].rule = info[i].rule
         /\ \A rec \in RecordType : Whole(rec, i) => Whole(rec, i)'
<1>1. /\ i \in DOMAIN info /\ info[i].at \in {"published", "cleaned"}
      /\ ~info[i].skip /\ ~Invalid(info[i].cut)
  BY DEF RecordInv
<1>2. Kept(i)
  BY <1>1, InfosKept
<1>3. faults \in Nat /\ faults' \in Nat /\ faults <= faults'
  BY Typed, Time
<1>4. info[i].rule \in Rules
  BY <1>1, Typed DEF Info
<1>5. Cardinality(Moments(info[i].rule)) \in Nat
  BY <1>4, MomentSets
<1>6. Moments(info[i].rule)' = Moments(info[i].rule)
  BY <1>2 DEF Moments, Kept
<1>7. ASSUME NEW rec \in RecordType, Whole(rec, i) PROVE Whole(rec, i)'
  <2>1. rec.moments \in Nat
    BY DEF RecordType
  <2> QED  BY <1>3, <1>5, <1>6, <1>7, <2>1 DEF Whole
<1> QED  BY <1>1, <1>2, <1>7 DEF Kept

\* A step that saves no record, and after which each info can account for as many.
LEMMA RecordsAside ==
  ASSUME TypeInv, RecordInv, [Next]_vars, records' = records, again' \in [Infos -> Nat],
         \A i \in Infos : again[i] + Recorded(i) <= again'[i] + Recorded(i)'
  PROVE  RecordInv'
<1>1. \A i \in Infos : Len(records'[i]) <= again'[i] + Recorded(i)'
  <2> SUFFICES ASSUME NEW i \in Infos PROVE Len(records[i]) <= again'[i] + Recorded(i)'
    OBVIOUS
  <2>1. records[i] \in Seq(RecordType) /\ again[i] \in Nat /\ again'[i] \in Nat
    BY DEF RecordInv
  <2>2. Len(records[i]) \in Nat /\ Len(records[i]) <= again[i] + Recorded(i)
    BY <2>1 DEF RecordInv
  <2>3. Recorded(i) \in Nat /\ Recorded(i)' \in Nat
    BY DEF Recorded
  <2>4. again[i] + Recorded(i) <= again'[i] + Recorded(i)'
    OBVIOUS
  <2> QED  BY <2>1, <2>2, <2>3, <2>4
<1>2. ASSUME NEW i \in Infos, records[i] # << >>
      PROVE  /\ i \in DOMAIN info' /\ info'[i].at \in {"published", "cleaned"}
             /\ ~info'[i].skip /\ ~Invalid(info'[i].cut)
             /\ \A n \in DOMAIN records[i] : Whole(records[i][n], i)'
  <2>1. /\ i \in DOMAIN info' /\ info'[i].at \in {"published", "cleaned"}
        /\ ~info'[i].skip /\ ~Invalid(info'[i].cut)
        /\ \A rec \in RecordType : Whole(rec, i) => Whole(rec, i)'
    BY <1>2, RecordsKept
  <2>2. \A n \in DOMAIN records[i] : records[i][n] \in RecordType /\ Whole(records[i][n], i)
    BY <1>2 DEF RecordInv
  <2>3. ASSUME NEW n \in DOMAIN records[i] PROVE Whole(records[i][n], i)'
    <3> DEFINE rec == records[i][n]
    <3>1. rec \in RecordType /\ Whole(rec, i) /\ records'[i][n] = rec
      BY <2>2
    <3> HIDE DEF rec
    <3>2. Whole(rec, i) => /\ rec.lacks = {} /\ rec.strays = {}
                           /\ rec.moments + faults' >= Cardinality(Moments(info'[i].rule))
      BY <2>1, <3>1 DEF Whole, Moments
    <3> QED  BY <3>1, <3>2 DEF Whole, Moments, rec
  <2> QED  BY <2>1, <2>3
<1> QED  BY <1>1, <1>2 DEF RecordInv, Whole

\* What an info has accounted for stays accounted for, unless its record is left behind.
LEMMA RecordedKept ==
  ASSUME TypeInv, [Next]_vars, NEW i \in Infos, col' = col \/ ~(col.pc = "clean" /\ col.id = i)
  PROVE  Recorded(i) <= Recorded(i)'
<1>1. CASE i \in DOMAIN info /\ info[i].at = "cleaned"
  <2>1. Kept(i)
    BY <1>1, InfosKept
  <2>2. i \in DOMAIN info' /\ info'[i].at = "cleaned"
    BY <1>1, <2>1 DEF Kept
  <2> QED  BY <2>2 DEF Recorded
<1> QED  BY <1>1 DEF Recorded

LEMMA RecordNext ==
  TypeInv /\ MomentInv /\ GatherInv /\ RecordInv /\ [Next]_vars => RecordInv'
<1> SUFFICES ASSUME TypeInv, MomentInv, GatherInv, RecordInv, [Next]_vars PROVE RecordInv'
  OBVIOUS
<1>1. /\ records \in [Infos -> Seq(RecordType)] /\ again \in [Infos -> Nat]
      /\ \A i \in Infos : Recorded(i) \in {0, 1} /\ Recorded(i)' \in {0, 1}
  BY DEF RecordInv, Recorded
<1>2. CASE records' = records /\ again' = again /\ (col' = col \/ col.pc # "clean")
  <2>1. \A i \in Infos : again[i] + Recorded(i) <= again'[i] + Recorded(i)'
    <3> SUFFICES ASSUME NEW i \in Infos PROVE again[i] + Recorded(i) <= again'[i] + Recorded(i)'
      OBVIOUS
    <3>1. Recorded(i) <= Recorded(i)'
      BY <1>2, RecordedKept
    <3>2. again[i] \in Nat /\ again'[i] = again[i]
      BY <1>1, <1>2
    <3>3. Recorded(i) \in {0, 1} /\ Recorded(i)' \in {0, 1}
      BY <1>1
    <3> QED  BY <3>1, <3>2, <3>3
  <2> QED  BY <1>1, <1>2, <2>1, RecordsAside
\* The info is left behind with its record, published as it was.
<1>3. CASE records' = records /\ col.pc = "clean" /\ again' = [again EXCEPT ![col.id] = @ + 1]
  <2>1. col.id \in Infos
    BY <1>3, Typed DEF TypeInv, ColType
  <2>2. \A i \in Infos : again[i] + Recorded(i) <= again'[i] + Recorded(i)'
    <3> SUFFICES ASSUME NEW i \in Infos PROVE again[i] + Recorded(i) <= again'[i] + Recorded(i)'
      OBVIOUS
    <3>0. Recorded(i) \in {0, 1} /\ Recorded(i)' \in {0, 1}
      BY <1>1
    <3>1. CASE i = col.id
      <4>1. again'[i] = again[i] + 1 /\ again[i] \in Nat
        BY <1>1, <1>3, <3>1
      <4> QED  BY <3>0, <4>1
    <3>2. CASE i # col.id
      <4>1. again'[i] = again[i] /\ again[i] \in Nat
        BY <1>1, <1>3, <3>2
      <4>2. Recorded(i) <= Recorded(i)'
        BY <3>2, RecordedKept
      <4> QED  BY <3>0, <4>1, <4>2
    <3> QED  BY <3>1, <3>2
  <2>3. again' \in [Infos -> Nat]
    BY <1>1, <1>3, <2>1
  <2> QED  BY <1>3, <2>2, <2>3, RecordsAside
\* The info is cleaned.
<1>4. CASE /\ records' = records /\ again' = again /\ col.pc = "clean"
           /\ info' = [info EXCEPT ![col.id].at = "cleaned"]
  <2>1. PICK c \in Infos : c = col.id /\ c \in DOMAIN info /\ info[c] \in Info
    BY <1>4, Typed DEF TypeInv, ColType
  <2>2. Recorded(c)' = 1
    <3>1. info'[c].at = "cleaned" /\ c \in DOMAIN info'
      BY <1>4, <2>1 DEF Info
    <3> QED  BY <3>1 DEF Recorded
  <2>3. \A i \in Infos : again[i] + Recorded(i) <= again'[i] + Recorded(i)'
    <3> SUFFICES ASSUME NEW i \in Infos PROVE again[i] + Recorded(i) <= again'[i] + Recorded(i)'
      OBVIOUS
    <3>1. Recorded(i) <= Recorded(i)'
      <4>1. CASE i = c
        BY <1>1, <2>2, <4>1
      <4>2. CASE i # c
        BY <2>1, <4>2, RecordedKept
      <4> QED  BY <4>1, <4>2
    <3>2. again[i] \in Nat /\ again'[i] = again[i]
      BY <1>1, <1>4
    <3>3. Recorded(i) \in {0, 1} /\ Recorded(i)' \in {0, 1}
      BY <1>1
    <3> QED  BY <3>1, <3>2, <3>3
  <2> QED  BY <1>1, <1>4, <2>3, RecordsAside
\* A record is saved, of an info that was published.
<1>5. CASE /\ col.pc = "save" /\ records' = [records EXCEPT ![col.id] = Append(@, Record)]
           /\ col' = [col EXCEPT !.pc = "clean"] /\ again' = again /\ UNCHANGED <<info, faults>>
  <2>1. PICK c \in Infos : /\ c = col.id /\ c \in DOMAIN info /\ info[c].at = "published"
                           /\ ~info[c].skip /\ ~Invalid(info[c].cut)
    <3>1. col.id \in Published /\ ~info[col.id].skip /\ ~Invalid(Cut)
      BY <1>5 DEF TypeInv, ColType, GatherInv
    <3>2. col.id \in Infos /\ col.id \in DOMAIN info /\ info[col.id].at = "published"
      BY <3>1, Typed DEF Published
    <3> QED  BY <3>1, <3>2 DEF Cut
  <2>2. col'.pc = "clean" /\ col'.id = c
    BY <1>5, <2>1 DEF TypeInv, ColType
  <2>3. Record \in RecordType /\ Whole(Record, c)
    BY <1>5, <2>1, RecordSaved
  <2> DEFINE rec == Record
             before == records[c]
             after == Append(before, rec)
  <2>4. /\ before \in Seq(RecordType) /\ after \in Seq(RecordType) /\ after # << >>
        /\ Len(after) = Len(before) + 1 /\ Len(before) \in Nat
        /\ \A n \in DOMAIN after : (n \in DOMAIN before /\ after[n] = before[n]) \/ after[n] = rec
    BY <1>1, <2>1, <2>3
  <2>5. /\ records' \in [Infos -> Seq(RecordType)] /\ records'[c] = after
        /\ \A i \in Infos : i # c => records'[i] = records[i]
    <3>1. records' = [records EXCEPT ![c] = after]
      BY <1>5, <2>1
    <3> HIDE DEF after
    <3> QED  BY <1>1, <2>4, <3>1
  <2>6. ASSUME NEW i \in Infos PROVE Len(records'[i]) <= again'[i] + Recorded(i)'
    <3>1. again[i] \in Nat /\ again'[i] = again[i] /\ Len(records[i]) <= again[i] + Recorded(i)
      BY <1>1, <1>5 DEF RecordInv
    <3>2. CASE i = c
      <4>1. Recorded(c) = 0
        BY <1>5, <2>1 DEF Recorded
      <4>2. Recorded(c)' = 1
        BY <2>2 DEF Recorded
      <4> HIDE DEF after, before, rec
      <4>3. before = records[c]
        BY DEF before
      <4> QED  BY <2>4, <2>5, <3>1, <3>2, <4>1, <4>2, <4>3
    <3>3. CASE i # c
      <4>1. Recorded(i)' = Recorded(i)
        BY <1>5, <2>1, <2>2, <3>3 DEF Recorded
      <4> QED  BY <2>5, <3>1, <3>3, <4>1
    <3> QED  BY <3>2, <3>3
  <2>7. ASSUME NEW i \in Infos, records'[i] # << >>
        PROVE  /\ i \in DOMAIN info /\ info[i].at \in {"published", "cleaned"}
               /\ ~info[i].skip /\ ~Invalid(info[i].cut)
               /\ \A n \in DOMAIN records'[i] : Whole(records'[i][n], i)
    <3> HIDE DEF after, before, rec
    <3>1. CASE i # c
      BY <2>5, <2>7, <3>1 DEF RecordInv
    <3>2. CASE i = c
      <4>1. \A n \in DOMAIN before : Whole(before[n], c)
        BY <2>4 DEF RecordInv, before
      <4> QED  BY <2>1, <2>3, <2>4, <2>5, <3>2, <4>1 DEF rec
    <3> QED  BY <3>1, <3>2
  <2>8. \A i \in Infos : records'[i] # << >> =>
          /\ i \in DOMAIN info' /\ info'[i].at \in {"published", "cleaned"}
          /\ ~info'[i].skip /\ ~Invalid(info'[i].cut)
          /\ \A n \in DOMAIN records'[i] : Whole(records[i][n], i)'
    BY <1>5, <2>7 DEF Whole, Moments
  <2> QED  BY <1>1, <1>5, <2>5, <2>6, <2>8 DEF RecordInv
<1>6. CASE Clean
  <2>1. /\ col.pc = "clean" /\ records' = records
        /\ \/ info' = [info EXCEPT ![col.id].at = "cleaned"] /\ again' = again
           \/ again' = [again EXCEPT ![col.id] = @ + 1]
    BY <1>6 DEF Clean
  <2> QED  BY <1>3, <1>4, <2>1
<1>7. CASE Restart
  <2>1. /\ records' = records
        /\ again' = IF col.pc = "clean" THEN [again EXCEPT ![col.id] = @ + 1] ELSE again
    BY <1>7 DEF Restart
  <2> QED  BY <1>2, <1>3, <2>1
<1>8. CASE SaveRecord
  <2>1. /\ col.pc = "save" /\ again' = again /\ info' = info
        /\ \/ /\ records' = [records EXCEPT ![col.id] = Append(@, Record)]
              /\ col' = [col EXCEPT !.pc = "clean"] /\ faults' = faults
           \/ records' = records
    BY <1>8 DEF SaveRecord, NoFault, cloudVars
  <2> QED  BY <1>2, <1>5, <2>1
<1>9. CASE \/ ScanCollectInfos \/ EndScan \/ (\E i \in Infos : HandleCollectInfo(i))
           \/ ComputeUploadFiles \/ UpdateCollectDirs \/ UpdateCollectDirsFails \/ AskSlaves
  <2>1. records' = records /\ again' = again /\ col.pc # "clean"
    BY <1>9 DEF ScanCollectInfos, EndScan, HandleCollectInfo, ComputeUploadFiles, UpdateCollectDirs,
       UpdateCollectDirsFails, AskSlaves
  <2> QED  BY <1>2, <2>1
<1>10. CASE \/ Tick \/ (\E r \in Rules, ts \in Stamps, source \in {"http", "file"} : ConsumeNext(r, ts, source))
            \/ RunFails \/ CountOwn \/ CountGlobal \/ HitDiagnosisRule \/ SaveCut \/ CreateMoment
            \/ PublishCollectInfo \/ (\E r \in Shared : OtherCounts(r)) \/ OtherHits \/ UNCHANGED vars
  <2>1. records' = records /\ again' = again /\ col' = col
    BY <1>10 DEF Tick, ConsumeNext, RunFails, CountOwn, CountGlobal, HitDiagnosisRule, SaveCut, CreateMoment,
       SaveDraft, PublishCollectInfo, OtherCounts, OtherHits, vars, colVars
  <2> QED  BY <1>2, <2>1
<1> QED
  BY <1>6, <1>7, <1>8, <1>9, <1>10 DEF Next

LEMMA WholeInit == Init => WholeInv
<1> SUFFICES ASSUME Init PROVE WholeInv
  OBVIOUS
<1>1. info = << >> /\ DOMAIN info = {} /\ DOMAIN << >> = {} /\ \A S : << >> \in Seq(S)
  BY DEF Init
<1>2. MomentInv /\ GatherInv
  BY <1>1 DEF Init, MomentInv, GatherInv, Idle, AtRest
<1>3. CacheInv
  BY <1>1 DEF Init, CacheInv
<1>4. RecordInv
  <2>1. \A i \in Infos : records[i] = << >> /\ again[i] = 0 /\ Len(records[i]) = 0
    BY DEF Init
  <2>2. records \in [Infos -> Seq(RecordType)] /\ again \in [Infos -> Nat]
    BY <1>1 DEF Init
  <2>3. \A i \in Infos : Recorded(i) \in {0, 1}
    BY DEF Recorded
  <2> QED  BY <2>1, <2>2, <2>3 DEF RecordInv
<1> QED  BY <1>2, <1>3, <1>4 DEF WholeInv

LEMMA WholeNext ==
  ASSUME WalksAreComplete
  PROVE  TypeInv /\ WholeInv /\ [Next]_vars => WholeInv'
BY MomentNext, CacheNext, GatherNext, RecordNext DEF WholeInv

LEMMA WholeImplies == TypeInv /\ WholeInv => RecordIsWhole
<1> SUFFICES ASSUME TypeInv, WholeInv, NEW i \in DOMAIN info
             PROVE  /\ Len(records[i]) <= 1 + again[i]
                    /\ records[i] # << >> => ~info[i].skip /\ ~Invalid(info[i].cut)
                    /\ \A n \in DOMAIN records[i] :
                         /\ records[i][n].lacks = {} /\ records[i][n].strays = {}
                         /\ records[i][n].moments + faults >= Cardinality(Moments(info[i].rule))
  BY DEF RecordIsWhole
<1>1. i \in Infos /\ records[i] \in Seq(RecordType) /\ again[i] \in Nat /\ Recorded(i) \in {0, 1}
  BY Typed DEF WholeInv, RecordInv, Recorded
<1>2. Len(records[i]) <= again[i] + Recorded(i) /\ Len(records[i]) \in Nat
  BY <1>1 DEF WholeInv, RecordInv
<1>3. records[i] # << >> =>
        /\ ~info[i].skip /\ ~Invalid(info[i].cut) /\ \A n \in DOMAIN records[i] : Whole(records[i][n], i)
  BY <1>1 DEF WholeInv, RecordInv
<1>4. records[i] = << >> => DOMAIN records[i] = {}
  OBVIOUS
<1> QED  BY <1>1, <1>2, <1>3, <1>4 DEF Whole

\* If the walks find what they should, every record is whole: in any trees of files
\* that change between the walks, with slaves that answer or not, whatever fails and
\* whenever the agent restarts, it has all of the files its window owes it, no others,
\* and the moments of its rule, and no info is recorded twice but after a crash or a
\* failed removal.
THEOREM RecordsAreWhole ==
  ASSUME WalksAreComplete
  PROVE  Spec => []RecordIsWhole
<1>1. TypeInv /\ WholeInv /\ [Next]_vars => WholeInv'
  BY WholeNext
<1> QED
  BY <1>1, TypeInvariant, WholeInit, WholeImplies, PTL DEF Spec

=================================================================================

--------------------------- MODULE KeyedMutex_proof ---------------------------
(***************************************************************************)
(* The registry of reference-counted mutexes implements one lock for each  *)
(* path.  That two goroutines with one path have one object rests on the   *)
(* counts: an object leaves the map only when its last user drops it.      *)
(***************************************************************************)
EXTENDS KeyedMutex, FiniteSetTheorems, TLAPS

Users(o) == {g \in Goroutines : Refers(g) /\ object[g] = o}

\* A goroutine that refers to an object found it in the map, where it still is.
ObjectIsInMap ==
  \A g \in Goroutines : Refers(g) =>
    path[g] \in Paths /\ object[g] \in Objects /\ locks[path[g]] = object[g]

\* After its release the map has the same object or none: the registry is locked.
MapWhileReleasing ==
  \A g \in Goroutines : pc[g] = "unlock" =>
    path[g] \in Paths /\ object[g] \in Objects /\ locks[path[g]] \in {object[g], NoObject}

AskedPath == \A g \in Goroutines : pc[g] = "ask" => path[g] \in Paths

HoldersHold == \A g \in Goroutines : Holds(g) => held[object[g]] = g

RegistryIsLocked ==
  \A g \in Goroutines : pc[g] \in {"found", "unlock", "leave"} => mu = g

ReferencesCount == \A o \in Objects : references[o] = Cardinality(Users(o))

IInv ==
  /\ TypeOK /\ ObjectIsInMap /\ MapWhileReleasing /\ AskedPath
  /\ HoldersHold /\ RegistryIsLocked /\ ReferencesCount

USE NamesAssumption

LEMMA UsersAreFinite ==
  \A o : IsFiniteSet(Users(o)) /\ Cardinality(Users(o)) \in Nat
BY FS_Subset, FS_CardinalityType DEF Users

\* Two goroutines that are inside for one path are the same.
LEMMA MutualExclusion ==
  ASSUME IInv, NEW g \in Goroutines, NEW h \in Goroutines,
         Holds(g), Holds(h), path[g] = path[h]
  PROVE  g = h
<1>1. CASE pc[g] = "unlock" /\ pc[h] = "unlock"
  BY <1>1 DEF IInv, RegistryIsLocked
<1>2. CASE pc[g] = "inside" \/ pc[h] = "inside"
  <2>1. object[g] = object[h]
    BY <1>2 DEF IInv, ObjectIsInMap, MapWhileReleasing, Refers, Holds
  <2> QED BY <2>1 DEF IInv, HoldersHold
<1> QED BY <1>1, <1>2 DEF Holds

LEMMA InitInv == Init => IInv
<1> SUFFICES ASSUME Init PROVE IInv
  OBVIOUS
<1>1. \A o \in Objects : Users(o) = {}
  BY DEF Init, Users, Refers
<1> QED
  BY <1>1, FS_EmptySet DEF Init, IInv, TypeOK, ObjectIsInMap, MapWhileReleasing, AskedPath,
     HoldersHold, RegistryIsLocked, ReferencesCount, Refers, Holds

\* A step that changes neither who refers to what nor the counts keeps them equal.
LEMMA SameUsers ==
  ASSUME ReferencesCount, references' = references,
         \A g \in Goroutines : Refers(g)' = Refers(g) /\ (Refers(g) => object'[g] = object[g])
  PROVE  ReferencesCount'
<1>1. \A o \in Objects : Users(o)' = Users(o)
  BY DEF Users
<1> QED BY <1>1 DEF ReferencesCount

-----------------------------------------------------------------------------
LEMMA AskStep == ASSUME IInv, NEW g \in Goroutines, NEW p \in Paths, Ask(g, p) PROVE IInv'
<1> USE DEF Ask, At
<1>1. TypeOK'
  BY DEF IInv, TypeOK
<1>2. ReferencesCount'
  BY SameUsers DEF IInv, TypeOK, Refers
<1>3. ObjectIsInMap' /\ MapWhileReleasing' /\ AskedPath'
  BY DEF IInv, TypeOK, ObjectIsInMap, MapWhileReleasing, AskedPath, Refers
<1>4. HoldersHold' /\ RegistryIsLocked'
  BY DEF IInv, TypeOK, HoldersHold, RegistryIsLocked, Holds
<1> QED BY <1>1, <1>2, <1>3, <1>4 DEF IInv

LEMMA LookUpStep == ASSUME IInv, NEW g \in Goroutines, LookUp(g) PROVE IInv'
<1> DEFINE p == path[g]
<1>1. p \in Paths /\ pc[g] = "ask" /\ mu = Nobody
  BY DEF LookUp, At, LockRegistry, IInv, AskedPath
<1>2. PICK o \in IF locks[p] = NoObject THEN FreshObjects ELSE {locks[p]} :
        /\ locks' = [locks EXCEPT ![p] = o]
        /\ AddReference(o)
        /\ object' = [object EXCEPT ![g] = o]
  BY DEF LookUp
<1>3. o \in Objects
  BY <1>1, <1>2 DEF FreshObjects, IInv, TypeOK
<1>4. pc' = [pc EXCEPT ![g] = "found"] /\ mu' = g /\ held' = held /\ path' = path
  BY DEF LookUp, At, LockRegistry
<1>5. TypeOK'
  BY <1>1, <1>2, <1>3, <1>4 DEF IInv, TypeOK, AddReference
<1>6. \A h \in Goroutines : pc[h] \notin {"found", "unlock", "leave"}
  BY <1>1 DEF IInv, RegistryIsLocked
<1>7. ObjectIsInMap'
  <2> SUFFICES ASSUME NEW h \in Goroutines, Refers(h)'
               PROVE  path[h] \in Paths /\ object'[h] \in Objects /\ locks'[path[h]] = object'[h]
    BY <1>4 DEF ObjectIsInMap
  <2>1. CASE h = g
    BY <2>1, <1>1, <1>2, <1>3 DEF IInv, TypeOK
  <2>2. CASE h # g
    <3>1. Refers(h) /\ object'[h] = object[h]
      BY <2>2, <1>2, <1>4 DEF Refers, IInv, TypeOK
    <3>2. path[h] \in Paths /\ object[h] \in Objects /\ locks[path[h]] = object[h]
      BY <3>1 DEF IInv, ObjectIsInMap
    <3>3. locks'[path[h]] = locks[path[h]]
      BY <3>2, <1>1, <1>2 DEF IInv, TypeOK
    <3> QED BY <3>1, <3>2, <3>3
  <2> QED BY <2>1, <2>2
<1>8. MapWhileReleasing' /\ AskedPath' /\ RegistryIsLocked'
  BY <1>1, <1>4, <1>6 DEF IInv, TypeOK, MapWhileReleasing, AskedPath, RegistryIsLocked
<1>9. HoldersHold'
  BY <1>1, <1>2, <1>4 DEF IInv, TypeOK, HoldersHold, Holds
<1>10. ReferencesCount'
  <2> SUFFICES ASSUME NEW q \in Objects PROVE references'[q] = Cardinality(Users(q)')
    BY DEF ReferencesCount
  <2>1. CASE q = o
    <3>1. Users(q)' = Users(q) \cup {g} /\ g \notin Users(q)
      BY <2>1, <1>1, <1>2, <1>4 DEF Users, Refers, IInv, TypeOK
    <3>2. Cardinality(Users(q)') = Cardinality(Users(q)) + 1
      BY <3>1, UsersAreFinite, FS_AddElement
    <3> QED BY <3>2, <2>1, <1>2 DEF IInv, TypeOK, ReferencesCount, AddReference
  <2>2. CASE q # o
    <3>1. Users(q)' = Users(q)
      BY <2>2, <1>1, <1>2, <1>4 DEF Users, Refers, IInv, TypeOK
    <3> QED BY <3>1, <2>2, <1>2 DEF IInv, TypeOK, ReferencesCount, AddReference
  <2> QED BY <2>1, <2>2
<1> QED BY <1>5, <1>7, <1>8, <1>9, <1>10 DEF IInv

LEMMA LeaveRegistryStep == ASSUME IInv, NEW g \in Goroutines, LeaveRegistry(g) PROVE IInv'
<1> USE DEF LeaveRegistry, At, UnlockRegistry
<1>1. TypeOK'
  BY DEF IInv, TypeOK
<1>2. ReferencesCount'
  BY SameUsers DEF IInv, TypeOK, Refers
<1>3. ObjectIsInMap' /\ MapWhileReleasing' /\ AskedPath'
  BY DEF IInv, TypeOK, ObjectIsInMap, MapWhileReleasing, AskedPath, Refers
<1>4. HoldersHold'
  BY DEF IInv, TypeOK, HoldersHold, Holds
<1>5. RegistryIsLocked'
  BY DEF IInv, TypeOK, RegistryIsLocked
<1> QED BY <1>1, <1>2, <1>3, <1>4, <1>5 DEF IInv

LEMMA EnterStep == ASSUME IInv, NEW g \in Goroutines, Enter(g) PROVE IInv'
<1> USE DEF Enter, At
<1>0. object[g] \in Objects
  BY DEF IInv, ObjectIsInMap, Refers
<1>1. TypeOK'
  BY <1>0 DEF IInv, TypeOK
<1>2. ReferencesCount'
  BY SameUsers DEF IInv, TypeOK, Refers
<1>3. ObjectIsInMap' /\ MapWhileReleasing' /\ AskedPath'
  BY DEF IInv, TypeOK, ObjectIsInMap, MapWhileReleasing, AskedPath, Refers
<1>4. HoldersHold'
  <2> SUFFICES ASSUME NEW h \in Goroutines, Holds(h)' PROVE held'[object[h]] = h
    BY DEF HoldersHold
  <2>1. CASE h = g
    BY <2>1, <1>0 DEF IInv, TypeOK
  <2>2. CASE h # g
    <3>1. Holds(h) /\ held[object[h]] = h
      BY <2>2 DEF Holds, IInv, TypeOK, HoldersHold
    <3> QED BY <3>1 DEF IInv, TypeOK
  <2> QED BY <2>1, <2>2
<1>5. RegistryIsLocked'
  BY DEF IInv, TypeOK, RegistryIsLocked
<1> QED BY <1>1, <1>2, <1>3, <1>4, <1>5 DEF IInv

LEMMA DropReferenceStep == ASSUME IInv, NEW g \in Goroutines, DropReference(g) PROVE IInv'
<1> DEFINE o == object[g]
           p == path[g]
<1>1. pc[g] = "inside" /\ mu = Nobody
  BY DEF DropReference, At, LockRegistry
<1>2. p \in Paths /\ o \in Objects /\ locks[p] = o
  BY <1>1 DEF IInv, ObjectIsInMap, Refers
<1>3. /\ pc' = [pc EXCEPT ![g] = "unlock"] /\ mu' = g
      /\ held' = held /\ path' = path /\ object' = object
      /\ references' = [references EXCEPT ![o] = @ - 1]
      /\ locks' = IF Unused(o) /\ locks[p] = o THEN [locks EXCEPT ![p] = NoObject] ELSE locks
  BY DEF DropReference, At, LockRegistry
<1>4. g \in Users(o)
  BY <1>1 DEF Users, Refers
<1>5. references[o] = Cardinality(Users(o)) /\ references[o] \in Nat \ {0}
  <2>1. Cardinality(Users(o)) # 0
    BY <1>4, UsersAreFinite, FS_EmptySet
  <2> QED BY <2>1, <1>2, UsersAreFinite DEF IInv, ReferencesCount
<1>6. TypeOK'
  BY <1>2, <1>3, <1>5 DEF IInv, TypeOK
\* The other users of the object keep it in the map.
<1>7. ASSUME NEW h \in Goroutines, h # g, Refers(h)
      PROVE  path[h] \in Paths /\ object[h] \in Objects /\ locks'[path[h]] = object[h]
  <2>1. path[h] \in Paths /\ object[h] \in Objects /\ locks[path[h]] = object[h]
    BY <1>7 DEF IInv, ObjectIsInMap
  <2>2. CASE path[h] = p
    <3>1. {g, h} \subseteq Users(o)
      BY <1>4, <1>7, <1>2, <2>1, <2>2 DEF Users
    <3>2. Cardinality({g, h}) = 2
      <4>1. IsFiniteSet({g}) /\ Cardinality({g}) = 1
        BY FS_Singleton
      <4>2. Cardinality({g} \cup {h}) = Cardinality({g}) + 1
        BY <4>1, <1>7, FS_AddElement
      <4>3. {g, h} = {g} \cup {h}
        OBVIOUS
      <4> QED BY <4>1, <4>2, <4>3
    <3>3. Cardinality({g, h}) <= Cardinality(Users(o))
      BY <3>1, UsersAreFinite, FS_Subset
    <3>4. ~Unused(o)
      BY <3>2, <3>3, <1>5 DEF Unused
    <3> QED BY <3>4, <2>1, <1>3
  <2>3. CASE path[h] # p
    BY <2>1, <2>3, <1>2, <1>3 DEF IInv, TypeOK
  <2> QED BY <2>2, <2>3
<1>8. ObjectIsInMap'
  BY <1>3, <1>7 DEF ObjectIsInMap, Refers, IInv, TypeOK
<1>9. \A h \in Goroutines : pc[h] \notin {"found", "unlock", "leave"}
  BY <1>1 DEF IInv, RegistryIsLocked
<1>10. MapWhileReleasing'
  <2>1. locks'[p] \in {o, NoObject}
    BY <1>2, <1>3 DEF IInv, TypeOK
  <2> QED BY <2>1, <1>2, <1>3, <1>9 DEF MapWhileReleasing, IInv, TypeOK
<1>11. AskedPath' /\ RegistryIsLocked'
  BY <1>3, <1>9 DEF AskedPath, RegistryIsLocked, IInv, TypeOK
<1>12. HoldersHold'
  BY <1>1, <1>3 DEF HoldersHold, Holds, IInv, TypeOK
<1>13. ReferencesCount'
  <2> SUFFICES ASSUME NEW q \in Objects PROVE references'[q] = Cardinality(Users(q)')
    BY DEF ReferencesCount
  <2>1. CASE q = o
    <3>1. Users(q)' = Users(q) \ {g}
      BY <2>1, <1>1, <1>3 DEF Users, Refers, IInv, TypeOK
    <3>2. Cardinality(Users(q)') = Cardinality(Users(q)) - 1
      BY <3>1, <2>1, <1>4, UsersAreFinite, FS_RemoveElement
    <3> QED BY <3>2, <2>1, <1>2, <1>3, <1>5 DEF IInv, TypeOK
  <2>2. CASE q # o
    <3>1. Users(q)' = Users(q)
      BY <2>2, <1>1, <1>3 DEF Users, Refers, IInv, TypeOK
    <3> QED BY <3>1, <2>2, <1>3 DEF IInv, TypeOK, ReferencesCount
  <2> QED BY <2>1, <2>2
<1> QED BY <1>6, <1>8, <1>10, <1>11, <1>12, <1>13 DEF IInv

LEMMA UnlockObjectStep == ASSUME IInv, NEW g \in Goroutines, UnlockObject(g) PROVE IInv'
<1> USE DEF UnlockObject, At
<1>0. object[g] \in Objects
  BY DEF IInv, MapWhileReleasing
<1>1. TypeOK'
  BY <1>0 DEF IInv, TypeOK
<1>2. ReferencesCount'
  BY SameUsers DEF IInv, TypeOK, Refers
<1>3. ObjectIsInMap' /\ MapWhileReleasing' /\ AskedPath'
  BY DEF IInv, TypeOK, ObjectIsInMap, MapWhileReleasing, AskedPath, Refers
<1>4. HoldersHold'
  <2> SUFFICES ASSUME NEW h \in Goroutines, Holds(h)' PROVE held'[object[h]] = h
    BY DEF HoldersHold
  <2>1. h # g /\ Holds(h) /\ held[object[h]] = h /\ held[object[g]] = g
    BY DEF Holds, IInv, TypeOK, HoldersHold
  <2> QED BY <2>1, <1>0 DEF IInv, TypeOK
<1>5. RegistryIsLocked'
  BY DEF IInv, TypeOK, RegistryIsLocked
<1> QED BY <1>1, <1>2, <1>3, <1>4, <1>5 DEF IInv

LEMMA LeaveReleaseStep == ASSUME IInv, NEW g \in Goroutines, LeaveRelease(g) PROVE IInv'
<1> USE DEF LeaveRelease, At, UnlockRegistry
<1>1. TypeOK'
  BY DEF IInv, TypeOK
<1>2. ReferencesCount'
  BY SameUsers DEF IInv, TypeOK, Refers
<1>3. ObjectIsInMap' /\ MapWhileReleasing' /\ AskedPath'
  BY DEF IInv, TypeOK, ObjectIsInMap, MapWhileReleasing, AskedPath, Refers
<1>4. HoldersHold'
  BY DEF IInv, TypeOK, HoldersHold, Holds
<1>5. RegistryIsLocked'
  BY DEF IInv, TypeOK, RegistryIsLocked
<1> QED BY <1>1, <1>2, <1>3, <1>4, <1>5 DEF IInv

LEMMA StepInv == IInv /\ [Next]_vars => IInv'
<1> SUFFICES ASSUME IInv, [Next]_vars PROVE IInv'
  OBVIOUS
<1>1. CASE UNCHANGED vars
  <2>1. \A o : Users(o)' = Users(o)
    BY <1>1 DEF vars, Users, Refers
  <2> QED
    BY <1>1, <2>1 DEF vars, IInv, TypeOK, ObjectIsInMap, MapWhileReleasing, AskedPath,
       HoldersHold, RegistryIsLocked, ReferencesCount, Refers, Holds
<1>2. CASE Next
  BY <1>2, AskStep, LookUpStep, LeaveRegistryStep, EnterStep, DropReferenceStep,
     UnlockObjectStep, LeaveReleaseStep DEF Next
<1> QED BY <1>1, <1>2

\* The inductive invariant holds in every reachable state.
THEOREM InvHolds == Spec => []IInv
BY InitInv, StepInv, PTL DEF Spec

\* The mutex of the registry, those of the paths, and the counts keep their types.
THEOREM TypeCorrect == Spec => []TypeOK
<1>1. IInv => TypeOK
  BY DEF IInv
<1> QED
  BY <1>1, InvHolds, PTL

-----------------------------------------------------------------------------
(***************************************************************************)
(* The map keeps no entry that nobody uses.                                *)
(***************************************************************************)

DistinctObjects ==
  \A p, q \in Paths : locks[p] # NoObject /\ locks[p] = locks[q] => p = q

Tidy == DistinctObjects /\ NoEntryLeaks

\* A step that leaves the map alone and who refers to what.
LEMMA SameMap ==
  ASSUME Tidy, locks' = locks,
         \A g \in Goroutines : Refers(g)' = Refers(g) /\ (Refers(g) => path'[g] = path[g])
  PROVE  Tidy'
BY DEF Tidy, DistinctObjects, NoEntryLeaks

LEMMA LookUpTidy == ASSUME IInv, Tidy, NEW g \in Goroutines, LookUp(g) PROVE Tidy'
<1> DEFINE p == path[g]
<1>1. p \in Paths /\ pc[g] = "ask"
  BY DEF LookUp, At, IInv, AskedPath
<1>2. PICK o \in IF locks[p] = NoObject THEN FreshObjects ELSE {locks[p]} :
        locks' = [locks EXCEPT ![p] = o]
  BY DEF LookUp
<1>3. o # NoObject /\ \A q \in Paths : locks[q] = o => q = p
  BY <1>1, <1>2 DEF FreshObjects, Tidy, DistinctObjects
<1>4. pc' = [pc EXCEPT ![g] = "found"] /\ path' = path
  BY DEF LookUp, At
<1>5. DistinctObjects'
  BY <1>1, <1>2, <1>3 DEF IInv, TypeOK, Tidy, DistinctObjects
<1>6. NoEntryLeaks'
  <2> SUFFICES ASSUME NEW q \in Paths
               PROVE  locks'[q] # NoObject <=> \E h \in Goroutines : Refers(h)' /\ path[h] = q
    BY <1>4 DEF NoEntryLeaks
  <2>1. CASE q = p
    <3>1. Refers(g)' /\ path[g] = q /\ locks'[q] = o
      BY <2>1, <1>1, <1>2, <1>4 DEF Refers, IInv, TypeOK
    <3> QED BY <3>1, <1>3
  <2>2. CASE q # p
    <3>1. locks'[q] = locks[q]
      BY <2>2, <1>1, <1>2 DEF IInv, TypeOK
    <3>2. \A h \in Goroutines : path[h] = q => Refers(h)' = Refers(h)
      BY <2>2, <1>4 DEF Refers, IInv, TypeOK
    <3> QED BY <3>1, <3>2 DEF Tidy, NoEntryLeaks
  <2> QED BY <2>1, <2>2
<1> QED BY <1>5, <1>6 DEF Tidy

LEMMA DropReferenceTidy == ASSUME IInv, Tidy, NEW g \in Goroutines, DropReference(g) PROVE Tidy'
<1> DEFINE o == object[g]
           p == path[g]
<1>1. pc[g] = "inside" /\ p \in Paths /\ o \in Objects /\ locks[p] = o
  BY DEF DropReference, At, IInv, ObjectIsInMap, Refers
<1>2. /\ pc' = [pc EXCEPT ![g] = "unlock"] /\ path' = path /\ object' = object
      /\ locks' = IF Unused(o) THEN [locks EXCEPT ![p] = NoObject] ELSE locks
  BY <1>1 DEF DropReference, At
<1>3. IInv'
  BY DropReferenceStep
<1>4. DistinctObjects'
  BY <1>1, <1>2 DEF IInv, TypeOK, Tidy, DistinctObjects
<1>5. ASSUME NEW q \in Paths, NEW h \in Goroutines, Refers(h)', path[h] = q
      PROVE  locks'[q] # NoObject
  BY <1>3, <1>5, <1>2 DEF IInv, ObjectIsInMap
<1>6. ASSUME NEW q \in Paths, locks'[q] # NoObject
      PROVE  \E h \in Goroutines : Refers(h)' /\ path[h] = q
  <2>1. CASE q # p
    <3>1. PICK h \in Goroutines : Refers(h) /\ path[h] = q
      BY <1>6, <2>1, <1>1, <1>2 DEF IInv, TypeOK, Tidy, NoEntryLeaks
    <3>2. Refers(h)'
      BY <3>1, <2>1, <1>2 DEF Refers, IInv, TypeOK
    <3> QED BY <3>1, <3>2
  <2>2. CASE q = p
    <3>1. ~Unused(o)
      BY <1>6, <2>2, <1>1, <1>2 DEF IInv, TypeOK
    <3>2. Cardinality(Users(o)) # 1
      BY <3>1, <1>1 DEF Unused, IInv, ReferencesCount
    <3>3. PICK h \in Goroutines : h # g /\ h \in Users(o)
      <4>1. g \in Users(o)
        BY <1>1 DEF Users, Refers
      <4>2. Users(o) # {g}
        BY <3>2, FS_Singleton
      <4> QED BY <4>1, <4>2 DEF Users
    <3>4. path[h] = p
      BY <3>3, <1>1 DEF Users, IInv, ObjectIsInMap, Tidy, DistinctObjects
    <3>5. Refers(h)'
      BY <3>3, <1>2 DEF Users, Refers, IInv, TypeOK
    <3> QED BY <3>4, <3>5, <2>2
  <2> QED BY <2>1, <2>2
<1>7. NoEntryLeaks'
  BY <1>2, <1>5, <1>6 DEF NoEntryLeaks
<1> QED BY <1>4, <1>7 DEF Tidy

LEMMA StepTidy == IInv /\ Tidy /\ [Next]_vars => Tidy'
<1> SUFFICES ASSUME IInv, Tidy, [Next]_vars PROVE Tidy'
  OBVIOUS
<1>1. CASE UNCHANGED vars
  BY <1>1, SameMap DEF vars, Refers
<1>2. ASSUME NEW g \in Goroutines, NEW p \in Paths, Ask(g, p) PROVE Tidy'
  BY <1>2, SameMap DEF Ask, At, Refers, IInv, TypeOK
<1>3. ASSUME NEW g \in Goroutines,
             LeaveRegistry(g) \/ Enter(g) \/ UnlockObject(g) \/ LeaveRelease(g)
      PROVE  Tidy'
  BY <1>3, SameMap DEF LeaveRegistry, Enter, UnlockObject, LeaveRelease, At, Refers, IInv, TypeOK
<1> QED BY <1>1, <1>2, <1>3, LookUpTidy, DropReferenceTidy DEF Next

\* The map has an entry exactly for the paths that somebody is using: the registry
\* does not grow with the record caches that came and went.
THEOREM EntriesAreUsed == Spec => []NoEntryLeaks
<1>1. Init => Tidy
  BY DEF Init, Tidy, DistinctObjects, NoEntryLeaks, Refers
<1>2. Tidy => NoEntryLeaks
  BY DEF Tidy
<1> QED BY <1>1, <1>2, StepTidy, InvHolds, PTL DEF Spec

-----------------------------------------------------------------------------
Inside == [p \in Paths |-> {g \in Goroutines : Holds(g) /\ path[g] = p}]

\* A step that changes neither who is inside nor for which path is a stutter.
LEMMA Outside ==
  ASSUME \A g \in Goroutines : Holds(g)' = Holds(g) /\ (Holds(g) => path'[g] = path[g])
  PROVE  Inside' = Inside
BY DEF Inside

LEMMA EnterAcquires ==
  ASSUME IInv, NEW g \in Goroutines, NEW p \in Paths, p = path[g], Enter(g)
  PROVE  Locks!Acquire(g, p)
<1>1. pc[g] = "wait" /\ locks[p] = object[g] /\ object[g] \in Objects
  BY DEF Enter, At, IInv, ObjectIsInMap, Refers
<1>2. pc' = [pc EXCEPT ![g] = "inside"] /\ path' = path /\ held[object[g]] = Nobody
  BY DEF Enter, At
<1>3. ASSUME NEW h \in Goroutines, Holds(h), path[h] = p PROVE FALSE
  <2>1. object[h] = object[g]
    BY <1>1, <1>3 DEF IInv, ObjectIsInMap, MapWhileReleasing, Refers, Holds
  <2> QED BY <2>1, <1>2, <1>3 DEF IInv, HoldersHold
<1>4. Inside[p] = {}
  BY <1>1, <1>3 DEF Inside
<1>5. Inside' = [Inside EXCEPT ![p] = {g}]
  <2>1. ASSUME NEW q \in Paths
        PROVE  {h \in Goroutines : Holds(h)' /\ path'[h] = q} = IF q = p THEN {g} ELSE Inside[q]
    BY <1>1, <1>2, <1>3 DEF Inside, Holds, IInv, TypeOK
  <2> QED BY <2>1 DEF Inside
<1> QED BY <1>1, <1>4, <1>5 DEF Locks!Acquire, Inside

LEMMA UnlockReleases ==
  ASSUME IInv, NEW g \in Goroutines, NEW p \in Paths, p = path[g], UnlockObject(g)
  PROVE  Locks!Release(g, p)
<1>1. pc[g] = "unlock" /\ Holds(g)
  BY DEF UnlockObject, At, IInv, MapWhileReleasing, Holds
<1>2. pc' = [pc EXCEPT ![g] = "leave"] /\ path' = path
  BY DEF UnlockObject, At
<1>3. \A h \in Goroutines : Holds(h) /\ path[h] = p => h = g
  BY <1>1, MutualExclusion
<1>4. Inside[p] = {g}
  BY <1>1, <1>3 DEF Inside
<1>5. Inside' = [Inside EXCEPT ![p] = {}]
  <2>1. ASSUME NEW q \in Paths
        PROVE  {h \in Goroutines : Holds(h)' /\ path'[h] = q} = IF q = p THEN {} ELSE Inside[q]
    BY <1>1, <1>2, <1>3 DEF Inside, Holds, IInv, TypeOK
  <2> QED BY <2>1 DEF Inside
<1> QED BY <1>1, <1>4, <1>5 DEF Locks!Release, Inside

\* Every step is one of the abstract lock, or a stutter.
LEMMA StepIsLocks == IInv /\ [Next]_vars => [Locks!Next]_Inside
<1> SUFFICES ASSUME IInv, [Next]_vars PROVE [Locks!Next]_Inside
  OBVIOUS
<1>1. CASE UNCHANGED vars
  BY <1>1, Outside DEF vars, Holds
<1>2. ASSUME NEW g \in Goroutines, NEW p \in Paths, Ask(g, p) PROVE [Locks!Next]_Inside
  BY <1>2, Outside DEF Ask, At, Holds, IInv, TypeOK
<1>3. ASSUME NEW g \in Goroutines,
             LookUp(g) \/ LeaveRegistry(g) \/ DropReference(g) \/ LeaveRelease(g)
      PROVE  [Locks!Next]_Inside
  BY <1>3, Outside DEF LookUp, LeaveRegistry, DropReference, LeaveRelease, At, Holds, IInv, TypeOK
<1>4. ASSUME NEW g \in Goroutines, Enter(g) PROVE [Locks!Next]_Inside
  <2>1. path[g] \in Paths
    BY <1>4 DEF Enter, At, IInv, ObjectIsInMap, Refers
  <2>2. PICK p \in Paths : p = path[g]
    BY <2>1
  <2>3. Locks!Acquire(g, p)
    BY <1>4, <2>2, EnterAcquires
  <2> QED BY <2>3 DEF Locks!Next
<1>5. ASSUME NEW g \in Goroutines, UnlockObject(g) PROVE [Locks!Next]_Inside
  <2>1. path[g] \in Paths
    BY <1>5 DEF UnlockObject, At, IInv, MapWhileReleasing
  <2>2. PICK p \in Paths : p = path[g]
    BY <2>1
  <2>3. Locks!Release(g, p)
    BY <1>5, <2>2, UnlockReleases
  <2> QED BY <2>3 DEF Locks!Next
<1> QED BY <1>1, <1>2, <1>3, <1>4, <1>5 DEF Next

\* For every set of goroutines and paths, record_cache_lock.go gives each path one
\* lock: this is what RecordPipeline takes its variable lock to be.
THEOREM MutexImplementsLocks == Spec => LocksSpec
<1>1. Init => Locks!Init
  BY DEF Init, Locks!Init, Holds
<1>2. IInv /\ [Next]_vars => [Locks!Next]_Inside
  BY StepIsLocks
<1> QED BY <1>1, <1>2, InvHolds, PTL DEF Spec, LocksSpec, Locks!Spec, Inside

=============================================================================

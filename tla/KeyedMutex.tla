----------------------------- MODULE KeyedMutex -----------------------------
(***************************************************************************)
(* internal/model/record_cache_lock.go: the lock of record cache files, a  *)
(* mutex for each path.  The mutex objects live in a map, guarded by a     *)
(* mutex of its own; each counts the goroutines that looked it up and did  *)
(* not release it yet, and leaves the map with the last of them.           *)
(*                                                                         *)
(* A goroutine asks for one path at a time (no update function may take a  *)
(* second lock, record_cache.go:140) and releases it once.  Objects are    *)
(* the memory a mutex may be allocated in.                                 *)
(*                                                                         *)
(* An operator whose name starts with Bug is a faulty variant of the one   *)
(* after it; no behaviour uses it.                                         *)
(***************************************************************************)
EXTENDS Naturals, FiniteSets

CONSTANTS Goroutines, Paths,
          Objects,             \* bound: as many as there are goroutines suffice
          Nobody, NoObject, NoPath

ASSUME NamesAssumption ==
  /\ Nobody \notin Goroutines /\ NoObject \notin Objects /\ NoPath \notin Paths
  /\ IsFiniteSet(Goroutines)

VARIABLES
  mu,           \* keyedMutexRegistry.mu: who holds it
  locks,        \* keyedMutexRegistry.locks: the object of each path
  references,   \* keyedMutex.references
  held,         \* keyedMutex.mu: who holds it
  pc, path, object   \* each goroutine, its key and lock

vars == <<mu, locks, references, held, pc, path, object>>

Init ==
  /\ mu = Nobody /\ locks = [p \in Paths |-> NoObject]
  /\ references = [o \in Objects |-> 0] /\ held = [o \in Objects |-> Nobody]
  /\ pc = [g \in Goroutines |-> "idle"]
  /\ path = [g \in Goroutines |-> NoPath] /\ object = [g \in Goroutines |-> NoObject]

At(g, from, to) == pc[g] = from /\ pc' = [pc EXCEPT ![g] = to]

\* r.mu.Lock() and r.mu.Unlock().
LockRegistry(g) == mu = Nobody /\ mu' = g
UnlockRegistry == mu' = Nobody

\* A new keyedMutex: nothing points to it.
FreshObjects ==
  {o \in Objects : /\ references[o] = 0 /\ held[o] = Nobody
                   /\ \A p \in Paths : locks[p] # o
                   /\ \A g \in Goroutines : object[g] # o}

-----------------------------------------------------------------------------
(***************************************************************************)
(* Lock.                                                                   *)
(***************************************************************************)

Ask(g, p) ==
  /\ At(g, "idle", "ask") /\ path' = [path EXCEPT ![g] = p]
  /\ UNCHANGED <<mu, locks, references, held, object>>

BugNoReference(o) == UNCHANGED references

AddReference(o) == references' = [references EXCEPT ![o] = @ + 1]

\* Under the registry's mutex: find the object of the path, or make it.
LookUp(g) ==
  /\ At(g, "ask", "found") /\ LockRegistry(g)
  /\ \E o \in IF locks[path[g]] = NoObject THEN FreshObjects ELSE {locks[path[g]]} :
       /\ locks' = [locks EXCEPT ![path[g]] = o]
       /\ AddReference(o)
       /\ object' = [object EXCEPT ![g] = o]
  /\ UNCHANGED <<held, path>>

BugKeepRegistry(g) ==
  /\ At(g, "found", "wait")
  /\ UNCHANGED <<mu, locks, references, held, path, object>>

LeaveRegistry(g) ==
  /\ At(g, "found", "wait") /\ UnlockRegistry
  /\ UNCHANGED <<locks, references, held, path, object>>

Enter(g) ==
  /\ At(g, "wait", "inside") /\ held[object[g]] = Nobody
  /\ held' = [held EXCEPT ![object[g]] = g]
  /\ UNCHANGED <<mu, locks, references, path, object>>

-----------------------------------------------------------------------------
(***************************************************************************)
(* release.                                                                *)
(***************************************************************************)

BugAlwaysUnused(o) == TRUE

BugNeverUnused(o) == FALSE

\* The reference that is being dropped is the last one.
Unused(o) == references[o] = 1

\* Under the registry's mutex: drop the reference, and the object with the last.
DropReference(g) ==
  /\ At(g, "inside", "unlock") /\ LockRegistry(g)
  /\ references' = [references EXCEPT ![object[g]] = @ - 1]
  /\ locks' = IF Unused(object[g]) /\ locks[path[g]] = object[g]
                THEN [locks EXCEPT ![path[g]] = NoObject] ELSE locks
  /\ UNCHANGED <<held, path, object>>

\* The mutex of the path is unlocked first, then that of the registry.
UnlockObject(g) ==
  /\ At(g, "unlock", "leave")
  /\ held' = [held EXCEPT ![object[g]] = Nobody]
  /\ UNCHANGED <<mu, locks, references, path, object>>

LeaveRelease(g) ==
  /\ At(g, "leave", "idle") /\ UnlockRegistry
  /\ path' = [path EXCEPT ![g] = NoPath] /\ object' = [object EXCEPT ![g] = NoObject]
  /\ UNCHANGED <<locks, references, held>>

Next ==
  \E g \in Goroutines :
    \/ \E p \in Paths : Ask(g, p)
    \/ LookUp(g) \/ LeaveRegistry(g) \/ Enter(g)
    \/ DropReference(g) \/ UnlockObject(g) \/ LeaveRelease(g)

Spec == Init /\ [][Next]_vars

\* A goroutine that has a mutex goes on (what it does inside is a few operations on
\* files), and sync.Mutex starves nobody who waits for it.
Fairness ==
  \A g \in Goroutines :
    /\ WF_vars(LeaveRegistry(g)) /\ WF_vars(UnlockObject(g)) /\ WF_vars(LeaveRelease(g))
    /\ SF_vars(LookUp(g)) /\ SF_vars(Enter(g)) /\ SF_vars(DropReference(g))

FairSpec == Spec /\ Fairness

-----------------------------------------------------------------------------
(***************************************************************************)
(* Properties.                                                             *)
(***************************************************************************)

\* Every variable keeps its type; a count of references is never negative.
TypeOK ==
  /\ mu \in Goroutines \cup {Nobody}
  /\ locks \in [Paths -> Objects \cup {NoObject}]
  /\ references \in [Objects -> Nat]
  /\ held \in [Objects -> Goroutines \cup {Nobody}]
  /\ pc \in [Goroutines -> {"idle", "ask", "found", "wait", "inside", "unlock", "leave"}]
  /\ path \in [Goroutines -> Paths \cup {NoPath}]
  /\ object \in [Goroutines -> Objects \cup {NoObject}]

\* The goroutines that looked an object up and have not dropped the reference.
Refers(g) == pc[g] \in {"found", "wait", "inside"}

\* The map has an entry for the paths somebody is using, and for no other: it does
\* not grow with the record caches that came and went.
NoEntryLeaks ==
  \A p \in Paths : locks[p] # NoObject <=> \E g \in Goroutines : Refers(g) /\ path[g] = p

\* The goroutines between lock.mu.Lock() and lock.mu.Unlock().
Holds(g) == pc[g] \in {"inside", "unlock"}

Locks == INSTANCE PathLocks WITH
  inside <- [p \in Paths |-> {g \in Goroutines : Holds(g) /\ path[g] = p}]

\* The registry implements one lock for each path: two goroutines are never inside
\* for the same path, not even when its object is dropped and made again.
LocksSpec == Locks!Spec

\* Who asks for a path gets it in the end.
EveryWaiterEnters == \A g \in Goroutines : pc[g] = "ask" ~> pc[g] = "inside"

=============================================================================

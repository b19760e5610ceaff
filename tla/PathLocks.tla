------------------------------ MODULE PathLocks ------------------------------
(***************************************************************************)
(* What the lock of record cache paths promises: one goroutine at a time   *)
(* is inside for each path.                                                *)
(***************************************************************************)
CONSTANTS Goroutines, Paths

VARIABLE inside   \* for each path, the goroutines that hold its lock

Init == inside = [p \in Paths |-> {}]

Acquire(g, p) == inside[p] = {} /\ inside' = [inside EXCEPT ![p] = {g}]

Release(g, p) == inside[p] = {g} /\ inside' = [inside EXCEPT ![p] = {}]

Next == \E g \in Goroutines, p \in Paths : Acquire(g, p) \/ Release(g, p)

Spec == Init /\ [][Next]_inside

=============================================================================

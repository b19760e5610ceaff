---------------------------- MODULE RecordHandoff ----------------------------
(***************************************************************************)
(* What the hand-over of records from the collector to the upload worker   *)
(* promises, without its channel, queue, registry and files: a record is   *)
(* in one stage at a time; the collector, the receiver and the worker each *)
(* hold at most one; it moves forward one stage at a time, and back only   *)
(* to "free", where the next round of the collector finds it.              *)
(***************************************************************************)
CONSTANT Records

VARIABLE stage

Stages == {"free", "collecting", "sent", "received", "queued", "uploading"}

Nobody(s) == \A r \in Records : stage[r] # s

Init == stage = [r \in Records |-> "free"]

Move(r, from, to) == stage[r] = from /\ stage' = [stage EXCEPT ![r] = to]

Acquire(r) == Nobody("collecting") /\ Move(r, "free", "collecting")
Send(r) == Move(r, "collecting", "sent")
Take(r) == Nobody("received") /\ Move(r, "sent", "received")
Push(r) == Move(r, "received", "queued")
Pop(r) == Nobody("uploading") /\ Move(r, "queued", "uploading")
Release(r) == \E s \in {"collecting", "received", "uploading"} : Move(r, s, "free")

\* The process dies: the tokens are in memory.
Crash == stage' = [r \in Records |-> "free"]

Next ==
  \/ \E r \in Records :
       Acquire(r) \/ Send(r) \/ Take(r) \/ Push(r) \/ Pop(r) \/ Release(r)
  \/ Crash

Spec == Init /\ [][Next]_stage

=============================================================================

----------------------------- MODULE FileWalk -----------------------------
(***************************************************************************)
(* The walk of a collect directory (pkg/utils/symwalk.go): a depth-first   *)
(* walk in lexical order that follows symbolic links, and remembers the    *)
(* real paths links have led to, so that a cycle of links ends.  A tree    *)
(* is one state of the file system below Root.  A closed directory cannot  *)
(* be listed, but what lies in it can be reached by a link.                *)
(*                                                                         *)
(* Not modelled: the limit of 99,999 files of a walk, and files or         *)
(* directories that disappear while they are walked.                       *)
(***************************************************************************)
EXTENDS Naturals, Sequences, FiniteSets, SequencesExt

CONSTANTS
  Files, Dirs, Links,  \* the nodes of a tree
  Root,                \* the directory that is walked
  Missing,             \* where a dangling link leads
  Wanted,              \* the files the white list of the rules matches
  Trees                \* [entries, target, closed, locked, empty]

Nodes == Files \cup Dirs \cup Links
Tree == [entries : [Dirs -> Seq(Nodes)],               \* in lexical order
         target : [Links -> Nodes \cup {Missing}],
         closed : SUBSET Dirs,                         \* cannot be listed
         locked : SUBSET Files, empty : SUBSET Files]  \* cannot be read; no bytes

ASSUME FileWalkAssumption ==
  /\ Root \in Dirs /\ Missing \notin Nodes /\ IsFiniteSet(Nodes)
  /\ Trees \subseteq Tree

(* What filepath.EvalSymlinks makes of a node: the node it leads to, Missing, *)
(* or a link again, when the links run in a circle.                           *)
EvalSymlinks(t, n) ==
  LET hop[i \in Nat] ==
        IF i = 0 THEN n
        ELSE IF hop[i - 1] \in Links THEN t.target[hop[i - 1]] ELSE hop[i - 1]
  IN  hop[Cardinality(Links)]

(* "seen": the real paths links have led to; "found": the files handed to the *)
(* callback; "end": "failed" at a dangling link, "stopped" when the callback  *)
(* ends the walk.                                                             *)
Walk == [seen : SUBSET Nodes, found : SUBSET Files, end : {"done", "failed", "stopped"}]

(* Whether the walk goes on at the node the link n leads to. *)
HandleSymlink(t, n, w) ==
  LET m == EvalSymlinks(t, n) IN
  IF m = Missing THEN [go |-> FALSE, to |-> n, walk |-> [w EXCEPT !.end = "failed"]]
  ELSE IF m \in Links \cup w.seen THEN [go |-> FALSE, to |-> n, walk |-> w]
  ELSE [go |-> TRUE, to |-> m, walk |-> [w EXCEPT !.seen = @ \cup {m}]]

(* The callbacks on a file: ComputeUploadFiles passes over a file it cannot  *)
(* read, UpdateCollectDirs ends its walk there if the file is wanted.        *)
OnFile(t, f, w, stops) ==
  IF f \notin t.locked THEN [w EXCEPT !.found = @ \cup {f}]
  ELSE IF stops /\ f \in Wanted THEN [w EXCEPT !.end = "stopped"] ELSE w

SymWalk(t, stops) ==
  LET visit[n \in Nodes, w \in Walk] ==
        IF w.end # "done" THEN w
        ELSE IF n \in Links
             THEN LET h == HandleSymlink(t, n, w)
                  IN  IF h.go THEN visit[h.to, h.walk] ELSE h.walk
        ELSE IF n \in Dirs
             THEN IF n \in t.closed THEN w
                  ELSE FoldLeft(LAMBDA v, m : visit[m, v], w, t.entries[n])
        ELSE IF n \in t.empty THEN w ELSE OnFile(t, n, w, stops)
  IN  visit[Root, [seen |-> {}, found |-> {}, end |-> "done"]]

(* The reference: the files that can be read and are not empty in the least  *)
(* set that holds Root, what its directories list and what its links lead to.*)
Reachable(t) ==
  LET next(n) == IF n \in Links THEN {t.target[n]} \ {Missing}
                 ELSE IF n \in Dirs \ t.closed THEN Range(t.entries[n]) ELSE {}
      closed == {S \in SUBSET Nodes : Root \in S /\ \A n \in S : next(n) \subseteq S}
  IN  {f \in Files : \A S \in closed : f \in S} \ (t.locked \cup t.empty)

(* How a walk of some tree may end, and what it should have found. *)
Outcome(t, stops) ==
  [end |-> SymWalk(t, stops).end, found |-> SymWalk(t, stops).found, reach |-> Reachable(t)]
UploadWalks == {Outcome(t, FALSE) : t \in Trees}
CacheWalks == {Outcome(t, TRUE) : t \in Trees}

(* A walk that is neither broken off nor stopped finds what it should have found. *)
WalksAreComplete ==
  \A w \in UploadWalks \cup CacheWalks : w.end = "done" => w.reach \subseteq w.found
===========================================================================

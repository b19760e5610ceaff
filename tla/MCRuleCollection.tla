------------------------- MODULE MCRuleCollection -------------------------
(* All the trees of a root and a directory below it, with the file f in      *)
(* either, g in the latter, a link j in either and a link k in the root that *)
(* may lead anywhere.                                                        *)
EXTENDS RuleCollection

(* What the theorem about the records assumes of the walks holds of all these trees. *)
ASSUME WalksOfTheTrees == WalksAreComplete

CONSTANTS root, dir, f, g, j, k, s, u, r1, r2

Listing(d, atF, atJ) ==
  (IF atJ = d THEN <<j>> ELSE << >>)
    \o (IF d = root THEN <<dir>> ELSE << >>)
    \o (IF atF = d THEN <<f>> ELSE << >>)
    \o (IF d = root THEN <<k>> ELSE <<g>>)

MCTrees ==
  {[entries |-> [d \in Dirs |-> Listing(d, atF, atJ)],
    target |-> [l \in Links |-> IF l = j THEN toJ ELSE toK],
    closed |-> closed, locked |-> locked, empty |-> empty] :
      atF \in Dirs, atJ \in Dirs,
      toJ \in {root, dir, f, k, Missing}, toK \in {root, dir, g, j, Missing},
      closed \in {{}, {dir}}, locked \in {{}, {f}}, empty \in {{}, {g}}}

(* f is written over most of the time, g at its end, s at its start. *)
MCBorn == [x \in Files \cup Remote |-> IF x = g THEN 3 ELSE 1]
MCFinal == [x \in Files \cup Remote |-> IF x = s THEN 1 ELSE 3]

(* The window of r2 ends before it starts. *)
MCActions == [r \in Rules |-> IF r = r1 THEN <<"upload", "create_moment">>
                                        ELSE <<"create_moment", "upload">>]
MCBefore == [r \in Rules |-> IF r = r1 THEN 1 ELSE -1]
MCAfter == [r \in Rules |-> IF r = r1 THEN 1 ELSE -2]
MCDebounce == [r \in Rules |-> IF r = r1 THEN 1 ELSE 0]
===========================================================================

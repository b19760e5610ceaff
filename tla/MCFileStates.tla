---------------------------- MODULE MCFileStates ----------------------------
(* Two directories with one file each, like /data/log and /data/log2: the path *)
(* of the first begins that of the second, though it is not in it.             *)
EXTENDS FileStates

CONSTANTS d1, d2, f1, f2

MCUnder == [d \in Dirs |-> IF d = d1 THEN {f1} ELSE {f2}]
MCPrefixed == [d \in Dirs |-> IF d = d1 THEN {f1, f2} ELSE {f2}]
=============================================================================

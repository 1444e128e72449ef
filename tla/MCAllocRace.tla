---------------------------- MODULE MCAllocRace ----------------------------
(***************************************************************************)
(* Instances of NaiveAllocRace: all processes in one directory, or each in *)
(* a directory of its own.                                                 *)
(***************************************************************************)
EXTENDS NaiveAllocRace, TLC

CONSTANTS root, home   \* two parent directories
CONSTANTS p1           \* the process that may work in another directory

SameParent  == [p \in Procs |-> root]
OtherParent == [p \in Procs |-> IF p = p1 THEN home ELSE root]
============================================================================

---------------------------- MODULE MCNaiveMono ----------------------------
(***************************************************************************)
(* A small instance of NaiveMono; inode objects are interchangeable.       *)
(***************************************************************************)
EXTENDS NaiveMono, TLC

Symmetry == Permutations(Objs)
============================================================================

---------------------------- MODULE MCNaiveStore ----------------------------
(***************************************************************************)
(* Small instances of NaiveStore.                                          *)
(***************************************************************************)
EXTENDS NaiveStore, TLC

\* No name of these instances is cut to the record's 127 bytes.
StoredNames == [n \in Names |-> n]

\* Interchangeable objects and names.
Symmetry == Permutations(Objs \ {RootObj}) \cup Permutations(Names)
============================================================================

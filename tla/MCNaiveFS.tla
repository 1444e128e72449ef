----------------------------- MODULE MCNaiveFS -----------------------------
(***************************************************************************)
(* Small instances of NaiveFS: three or four inode objects, two names,     *)
(* blocks of two bytes, short bitmap bytes so that both bitmaps are short. *)
(***************************************************************************)
EXTENDS NaiveFS, TLC

\* No name of these instances is cut to the record's 127 bytes.
StoredNames == [n \in Names |-> n]

\* Interchangeable objects and names.
Symmetry == Permutations(Objs \ {RootObj}) \cup Permutations(Names)
============================================================================

--------------------------- MODULE MCMemTableFlush --------------------------
(* MemTableFlush with two families and two or three background threads.    *)
EXTENDS MemTableFlush, TLC

Symmetry == Permutations(Families) \cup Permutations(Jobs)
=============================================================================

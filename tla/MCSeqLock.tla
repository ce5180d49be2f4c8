----------------------------- MODULE MCSeqLock -----------------------------
(* SeqLock for TLC: the readers are model values; the clones of the first  *)
(* reader are interchangeable.                                             *)
EXTENDS SeqLock, TLC

Clones == Permutations(Readers \ {FirstReader})
=============================================================================

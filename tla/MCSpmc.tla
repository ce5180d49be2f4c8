------------------------------- MODULE MCSpmc -------------------------------
(* Spmc for TLC: the clones of the first consumer are interchangeable.     *)
EXTENDS Spmc, TLC

Clones == Permutations(Consumers \ {FirstConsumer})
=============================================================================

---------------------------- MODULE MCSpscBench ----------------------------
(* SpscBench for TLC: every constant is given its value in the cfg. *)
EXTENDS SpscBench
=============================================================================

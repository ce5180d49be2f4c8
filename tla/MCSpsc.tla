------------------------------- MODULE MCSpsc -------------------------------
(* Spsc for TLC: every parameter is a small number, given by the .cfg.     *)
EXTENDS Spsc
=============================================================================

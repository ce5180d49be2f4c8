---------------------------- MODULE MCSpmcBench ----------------------------
(* SpmcBench for TLC: every constant is given its value in the cfg. *)
EXTENDS SpmcBench

ASSUME SpmcBenchAssumption == BenchConstants
=============================================================================

--------------------------- MODULE MCSeqLockBench --------------------------
(* SeqLockBench for TLC: r1 is the handle that seqlock::new returns. *)
EXTENDS SeqLockBench

ASSUME SeqLockBenchAssumption == BenchConstants
=============================================================================

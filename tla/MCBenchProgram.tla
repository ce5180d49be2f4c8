--------------------------- MODULE MCBenchProgram ---------------------------
(* BenchProgram for TLC: three CPUs in the arrangements that matter.  The  *)
(* sizes make the largest queue need more than one hugepage and not a      *)
(* whole number of them.                                                   *)
EXTENDS BenchProgram

At(pkg, core) == [pkg |-> pkg, core |-> core]
Arranged(a, b, c) == (0 :> a) @@ (1 :> b) @@ (2 :> c)

MCTopologies ==
    {Arranged(At(0, 0), At(0, 1), At(0, 2)),  \* no hardware threads
     Arranged(At(0, 0), At(0, 0), At(0, 1)),  \* CPUs 0 and 1 on one core
     Arranged(At(0, 0), At(0, 1), At(0, 0)),  \* CPUs 0 and 2 on one core
     Arranged(At(0, 0), At(1, 0), At(1, 1))}  \* two packages
MCCaps == <<1, 2, 8>>
MCOnlineSets == {Cpus, Cpus \ {2}}
=============================================================================

---------------------------- MODULE BenchProgram ----------------------------
(***************************************************************************)
(* The programs around a measurement: TwoCoreCtx of src/bench/harness, on  *)
(* which the SPSC and SPMC benchmarks run, the sequence lock's example,    *)
(* and examples/spsc/bench_drain.rs.  Each finds its cores, runs the       *)
(* preflight checks, locks its memory, reads the timer interrupt counters  *)
(* (src/bench/loc.rs), measures, and reads them again.  The measurement of *)
(* the first two is one step here (modules SpscBench, SpmcBench and        *)
(* SeqLockBench); the drain benchmark is modelled: one thread fills and    *)
(* drains a queue, of each capacity and each allocator, TRIALS times.      *)
(* Meanwhile CPUs come and go, take timer interrupts, and other processes  *)
(* map hugepages.                                                          *)
(***************************************************************************)
EXTENDS Preflight

CONSTANTS
    OnlineSets,  \* sets of CPUs that may be online at first
    TRIALS,      \* queues made for each capacity and allocator
    CAPS,        \* the capacities, in the order they are tried
    MAX_CAP_ITEMS, \* the capacity preflight counts with
    ITEM,        \* size_of::<Item>()
    HUGEPAGE,    \* bytes of a hugepage
    MAX_FREE,    \* bound on the kernel's pool
    MAX_RESERVED, \* bound on the pages of the pool that others have reserved
    MAX_LOC      \* bound on a CPU's timer interrupts during the measurement

ASSUME BenchProgramAssumption ==
    /\ OnlineSets \subseteq SUBSET Cpus
    /\ TRIALS \in Nat \ {0} /\ CAPS \in Seq(Nat \ {0}) /\ CAPS # <<>>
    /\ MAX_CAP_ITEMS \in Nat /\ \A c \in 1 .. Len(CAPS) : CAPS[c] <= MAX_CAP_ITEMS
    /\ ITEM \in Nat /\ HUGEPAGE \in Nat \ {0}
    /\ MAX_FREE \in Nat /\ MAX_RESERVED \in Nat /\ MAX_LOC \in Nat

VARIABLES
    program,       \* the program that runs
    cause,         \* ghost: what made it panic
    cap, allocator, trial, \* the drain benchmark's loops: index of CAPS, allocator, trial
    len,           \* items in the queue
    loc,           \* each CPU's LOC counter in /proc/interrupts
    loc_before, loc_after, \* what loc::read returned for the cores used
    assured        \* ghost: preflight saw enough hugepages, none of them reserved by
                   \* others, and nobody took one since

loopVars == <<cap, allocator, trial, len>>
locVars == <<loc, loc_before, loc_after>>
vars == <<preflightVars, program, cause, loopVars, locVars, assured>>

(* The checks of each program, in the order of its preflight function. *)
CommonChecks ==
    <<"release_build", "cores_online", "cores_isolated", "cores_nohz_full",
      "cores_performance_governor", "turbo_disabled">>
TwoCoreChecks ==
    CommonChecks \o <<"cores_distinct_physical", "cores_smt_siblings_quiet",
                      "cores_share_l3", "tsc_invariant_and_nonstop">>
SeqLockChecks == TwoCoreChecks
DrainChecks ==
    CommonChecks \o <<"cores_smt_siblings_quiet", "tsc_invariant_and_nonstop",
                      "hugepages_at_least">>

(* get_core_ids() lists the CPUs the process may run on, in ascending      *)
(* order; the first one or two are used, and having too few of them is an  *)
(* assertion failure.                                                      *)
CoresUsed == IF program = "drain" THEN 1 ELSE 2
Ascending(S) ==
    {q \in [1 .. Cardinality(S) -> S] : \A a, b \in DOMAIN q : a < b => q[a] < q[b]}

Init ==
    /\ program \in {"two_core", "seqlock", "drain"}
    /\ pc = "discover" /\ used = <<>> /\ cause = "none"
    /\ todo = CASE program = "two_core" -> TwoCoreChecks
                [] program = "seqlock" -> SeqLockChecks
                [] program = "drain" -> DrainChecks
    /\ machine \in [topology : Topologies, isolated : SUBSET Cpus, debug_assertions : BOOLEAN,
                   reserved : IF program = "drain" THEN 0 .. MAX_RESERVED ELSE {0}]
    /\ online \in OnlineSets
    /\ free \in IF program = "drain" THEN 0 .. MAX_FREE ELSE {0}
    /\ warnings = {} /\ failures = {} /\ blind = {} /\ assured = FALSE
    /\ cap = 1 /\ allocator = "global" /\ trial = 1 /\ len = 0
    /\ loc = [c \in Cpus |-> 0] /\ loc_before = <<>> /\ loc_after = <<>>

Panic(why) == pc' = "panicked" /\ cause' = why

-----------------------------------------------------------------------------
Discover(allowed) ==
    /\ pc = "discover" /\ allowed \subseteq online
    /\ IF Cardinality(allowed) < CoresUsed
       THEN Panic("too few cores") /\ UNCHANGED used
       ELSE /\ pc' = "preflight"
            /\ \E cores \in Ascending(allowed) : used' = SubSeq(cores, 1, CoresUsed)
            /\ UNCHANGED cause
    /\ UNCHANGED <<todo, machine, online, free, reportVars, program, loopVars, locVars, assured>>

(* Pages of the largest queue: ((MAX_CAP_ITEMS * size_of::<Item>()) as     *)
(* u64).div_ceil(2 * 1024 * 1024)                                          *)
DivCeil(a, b) == (a + b - 1) \div b
BugHugepagesNeeded == (MAX_CAP_ITEMS * ITEM) \div HUGEPAGE
HUGEPAGES_NEEDED == DivCeil(MAX_CAP_ITEMS * ITEM, HUGEPAGE)

RunCheck ==
    /\ Check \/ \E readable \in BOOLEAN : hugepages_at_least(readable, HUGEPAGES_NEEDED)
    /\ UNCHANGED <<program, cause, loopVars, locVars, assured>>

FinishPreflight ==
    /\ Finish(IF program = "drain" THEN "pin" ELSE "lock")
    /\ cause' = IF failures = {} THEN cause ELSE "preflight"
    /\ assured' = /\ program = "drain" /\ machine.reserved = 0
                  /\ "hugepages_at_least" \notin warnings
    /\ UNCHANGED <<program, loopVars, locVars>>

(* The drain benchmark pins its only thread here; the threads of the       *)
(* others pin themselves.                                                  *)
Pin(ok) ==
    /\ pc = "pin"
    /\ IF ok THEN pc' = "lock" /\ UNCHANGED cause ELSE Panic("pin")
    /\ UNCHANGED <<todo, machineVars, reportVars, program, loopVars, locVars, assured>>
Mlockall(ok) ==
    /\ pc = "lock"
    /\ IF ok THEN pc' = "loc_before" /\ UNCHANGED cause ELSE Panic("mlockall")
    /\ UNCHANGED <<todo, machineVars, reportVars, program, loopVars, locVars, assured>>

-----------------------------------------------------------------------------
(* loc::read.  The columns of /proc/interrupts are the online CPUs; the    *)
(* header line says which is which.                                        *)
Columns == SetToSortSeq(online, <)
Counts == [p \in 1 .. Len(Columns) |-> loc[Columns[p]]]
BugPositions(cpu) == {cpu + 1}
Positions(cpu) == {p \in 1 .. Len(Columns) : Columns[p] = cpu}
LocOf(cpu, readable) ==
    IF readable /\ \E p \in Positions(cpu) : p <= Len(Counts)
    THEN Counts[CHOOSE p \in Positions(cpu) : TRUE]
    ELSE -1
LocRead(readable) == [j \in 1 .. Len(used) |-> LocOf(used[j], readable)]

LocBefore(readable) ==
    /\ pc = "loc_before" /\ pc' = IF program = "drain" THEN "make" ELSE "measure"
    /\ loc_before' = LocRead(readable)
    /\ UNCHANGED <<todo, machineVars, reportVars, program, cause, loopVars, loc, loc_after, assured>>
LocAfter(readable) ==
    /\ pc = "loc_after" /\ pc' = "report"
    /\ loc_after' = LocRead(readable)
    /\ UNCHANGED <<todo, machineVars, reportVars, program, cause, loopVars, loc, loc_before, assured>>

(* (Some(b), Some(a)) => Some(a.saturating_sub(b)), _ => None *)
LocDelta(j) ==
    IF loc_before[j] = -1 \/ loc_after[j] = -1 THEN -1
    ELSE IF loc_after[j] < loc_before[j] THEN 0 ELSE loc_after[j] - loc_before[j]

(* run_spsc_handoff and the others *)
Measure ==
    /\ pc = "measure" /\ pc' = "loc_after"
    /\ UNCHANGED <<todo, machineVars, reportVars, program, cause, loopVars, locVars, assured>>

-----------------------------------------------------------------------------
(* drain_trial!: a queue whose buffer the GlobalAllocator, or the          *)
(* HugepageAllocator of module Allocator, provides.  Both lock it, and     *)
(* fail if they are not allowed to (after mlockall(MCL_FUTURE) mmap is the *)
(* call that fails).  The queue is reduced to its length: module Spsc      *)
(* shows that it is a bounded FIFO.                                        *)
PagesOf(c) == IF allocator = "global" THEN 0 ELSE DivCeil(CAPS[c] * ITEM, HUGEPAGE)
MakeQueue(locked) ==
    /\ pc = "make"
    /\ IF free < PagesOf(cap) THEN Panic("mmap") /\ UNCHANGED <<free, len>>
       ELSE /\ free' = free - PagesOf(cap) /\ len' = 0
            /\ IF locked THEN pc' = "fill" /\ UNCHANGED cause ELSE Panic("mlock")
    /\ UNCHANGED <<todo, used, machine, online, reportVars, program, cap, allocator, trial,
                   locVars, assured>>

(* for i in 0..cap: assert!(producer.push(..).is_none()); flush_caches *)
Fill ==
    /\ pc = "fill"
    /\ len' = len + 1
    /\ pc' = IF len + 1 = CAPS[cap] THEN "drain" ELSE "fill"
    /\ UNCHANGED <<todo, machineVars, reportVars, program, cause, cap, allocator, trial,
                   locVars, assured>>

(* for _ in 0..cap: consumer.pop().expect(..); the last turn is followed   *)
(* by the end of the block, which drops both handles and with them the     *)
(* queue, and by the next trial, allocator or capacity.                    *)
Drain ==
    /\ pc = "drain" /\ len > 1 /\ len' = len - 1
    /\ UNCHANGED <<pc, todo, machineVars, reportVars, program, cause, cap, allocator, trial,
                   locVars, assured>>
PagesFreed == PagesOf(cap)
EndTrial ==
    /\ pc = "drain" /\ len = 1 /\ len' = 0
    /\ free' = free + PagesFreed
    /\ trial' = IF trial < TRIALS THEN trial + 1 ELSE 1
    /\ allocator' = IF trial < TRIALS THEN allocator
                    ELSE IF allocator = "global" THEN "hugepage" ELSE "global"
    /\ cap' = IF trial = TRIALS /\ allocator = "hugepage" /\ cap < Len(CAPS) THEN cap + 1 ELSE cap
    /\ pc' = IF trial = TRIALS /\ allocator = "hugepage" /\ cap = Len(CAPS)
             THEN "loc_after" ELSE "make"
    /\ UNCHANGED <<todo, used, machine, online, reportVars, program, cause, locVars, assured>>

-----------------------------------------------------------------------------
(* External: the rest of the machine.  Only loc::read sees what CPUs do,   *)
(* so it is enough to let them act between trials.                         *)
Measuring == pc \in {"measure", "make"}
Interrupt(c) ==
    /\ Measuring /\ c \in online /\ loc[c] < MAX_LOC
    /\ loc' = [loc EXCEPT ![c] = @ + 1]
    /\ UNCHANGED <<preflightVars, program, cause, loopVars, loc_before, loc_after, assured>>
Hotplug(c) ==
    /\ Measuring /\ c # 0
    /\ online' = IF c \in online THEN online \ {c} ELSE online \cup {c}
    /\ UNCHANGED <<pc, todo, used, machine, free, reportVars, program, cause, loopVars, locVars, assured>>
OtherProcess ==
    /\ pc \in {"pin", "lock", "loc_before", "make"} /\ free > 0
    /\ free' = free - 1 /\ assured' = FALSE
    /\ UNCHANGED <<pc, todo, used, machine, online, reportVars, program, cause, loopVars, locVars>>

Step ==
    \/ \E allowed \in SUBSET Cpus \ {{}} : Discover(allowed)
    \/ RunCheck \/ FinishPreflight
    \/ \E ok \in BOOLEAN : Pin(ok) \/ Mlockall(ok) \/ MakeQueue(ok)
    \/ \E readable \in BOOLEAN : LocBefore(readable) \/ LocAfter(readable)
    \/ Measure \/ Fill \/ Drain \/ EndTrial

Next == Step \/ (\E c \in Cpus : Interrupt(c) \/ Hotplug(c)) \/ OtherProcess

Spec == Init /\ [][Next]_vars

-----------------------------------------------------------------------------
(* The pages preflight asks for are enough for every queue the drain       *)
(* benchmark makes, one after the other: a mapping fails only if the check *)
(* could not read /proc/meminfo, if it counted pages that others had       *)
(* reserved, or if another process took pages after it.                    *)
HugepagesSuffice ==
    pc = "panicked" /\ cause = "mmap" => ~assured

(* "positional and only include online CPUs, so the header is parsed": the *)
(* LOC delta of a report is that of the CPU it is printed for, or unknown, *)
(* although CPUs come and go while the benchmark runs.                     *)
LocDeltaIsOwn ==
    pc = "report" => \A j \in 1 .. Len(used) : LocDelta(j) \in {-1, loc[used[j]]}
=============================================================================

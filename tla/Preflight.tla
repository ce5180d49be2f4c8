----------------------------- MODULE Preflight ------------------------------
(***************************************************************************)
(* src/bench/preflight.rs: the checks a benchmark makes before it starts.  *)
(* Each reads files of /proc and /sys, any of which may be unreadable, and *)
(* adds warnings and failures to a report; finish() panics if there is a   *)
(* failure.  A warning or a failure is the name of the check.  What        *)
(* several checks look at is in `machine`; what only one check looks at    *)
(* (nohz_full, governor, turbo, TSC flags) is chosen when it is read.  The *)
(* files of one kind that a check reads are readable or not together.      *)
(***************************************************************************)
EXTENDS Integers, Sequences, FiniteSets, SequencesExt

CONSTANTS
    Cpus,      \* CPU ids
    Topologies \* topologies [Cpus -> [pkg : Nat, core : Nat]] of the machine

ASSUME PreflightAssumption ==
    /\ Cpus \subseteq Nat /\ IsFiniteSet(Cpus)
    /\ Topologies \subseteq [Cpus -> [pkg : Nat, core : Nat]]

VARIABLES
    pc,       \* where the program is: "preflight", then what its main does
    todo,     \* the checks that remain, in the order of the calls
    used,     \* used_cores: the ids of the cores the threads will run on
    machine,  \* topology, isolcpus, build, hugepages that others have reserved
    online,   \* the CPUs that are online
    free,     \* hugepages of the kernel's pool that a mapping can still take
    warnings, failures, \* PreflightReport
    blind     \* ghost: the checks that could not read a file and said nothing

reportVars == <<warnings, failures, blind>>
machineVars == <<used, machine, online, free>>
preflightVars == <<pc, todo, machineVars, reportVars>>

Elements(seq) == {seq[j] : j \in 1 .. Len(seq)}
Cores == Elements(used)

(* External: two CPUs are hardware threads of one physical core, or share  *)
(* a last level cache.                                                     *)
Siblings(a, b) == a # b /\ machine.topology[a] = machine.topology[b]
ShareL3(a, b) == machine.topology[a].pkg = machine.topology[b].pkg

-----------------------------------------------------------------------------
(* A file that is read: NONE if it cannot be, as read_trim returns; and a  *)
(* list of CPUs, empty if it cannot be, as read_cpu_list returns.          *)
NONE == "none"
Read(readable, contents) == IF readable THEN contents ELSE NONE
read_cpu_list(readable, cpus) == IF readable THEN cpus ELSE {}

(* warn(), fail() and the return of a check *)
Outcome(check, readable, warn, fail) ==
    /\ warnings' = IF warn THEN warnings \cup {check} ELSE warnings
    /\ failures' = IF fail THEN failures \cup {check} ELSE failures
    /\ blind' = IF readable \/ warn \/ fail THEN blind ELSE blind \cup {check}
    /\ todo' = Tail(todo)
    /\ UNCHANGED <<pc, machineVars>>

Calls(check) == pc = "preflight" /\ todo # <<>> /\ Head(todo) = check

release_build ==
    /\ Calls("release_build")
    /\ Outcome("release_build", TRUE, FALSE, machine.debug_assertions)

cores_online(readable) ==
    /\ Calls("cores_online")
    /\ Outcome("cores_online", readable, FALSE,
               \E c \in Cores : c \notin read_cpu_list(readable, online))

cores_isolated(readable) ==
    /\ Calls("cores_isolated")
    /\ Outcome("cores_isolated", readable,
               \E c \in Cores : c \notin read_cpu_list(readable, machine.isolated), FALSE)

cores_nohz_full(readable, nohz) ==
    /\ Calls("cores_nohz_full")
    /\ Outcome("cores_nohz_full", readable,
               \E c \in Cores : c \notin read_cpu_list(readable, nohz), FALSE)

cores_performance_governor(readable, governor) ==
    /\ Calls("cores_performance_governor")
    /\ Outcome("cores_performance_governor", readable,
               \E c \in Cores : Read(readable, governor[c]) # "performance", FALSE)

(* intel_pstate/no_turbo, and where it does not exist cpufreq/boost *)
turbo_disabled(no_turbo, boost) ==
    /\ Calls("turbo_disabled")
    /\ Outcome("turbo_disabled", no_turbo # NONE \/ boost # NONE,
               IF no_turbo # NONE THEN no_turbo # "1" ELSE boost # "0", FALSE)

(* core_id is the number of the core within its package. *)
SameCoreId(a, b, readable) ==
    readable /\ machine.topology[a].core = machine.topology[b].core
cores_distinct_physical(readable) ==
    /\ Calls("cores_distinct_physical")
    /\ Outcome("cores_distinct_physical", readable, FALSE,
               \E a, b \in Cores : a # b /\ SameCoreId(a, b, readable))

(* siblings_of, and the flag of a CPU: CPU 0 cannot be unplugged and has   *)
(* no file `online`.                                                       *)
siblings_of(c, readable) ==
    read_cpu_list(readable, {b \in Cpus : b = c \/ Siblings(b, c)}) \ {c}
OnlineFile(b) == Read(b # 0, IF b \in online THEN "1" ELSE "0")
BugSibOnline(b) == OnlineFile(b) = "1"
SibOnline(b) == OnlineFile(b) # "0"
cores_smt_siblings_quiet(readable, isolated_readable) ==
    /\ Calls("cores_smt_siblings_quiet")
    /\ Outcome("cores_smt_siblings_quiet", readable,
               \E c \in Cores : \E b \in siblings_of(c, readable) :
                   /\ SibOnline(b)
                   /\ b \notin read_cpu_list(isolated_readable, machine.isolated), FALSE)

l3(c, readable) == Read(readable, {b \in Cpus : ShareL3(b, c)})
cores_share_l3(readable) ==
    /\ Calls("cores_share_l3")
    /\ Outcome("cores_share_l3", readable,
               readable /\ \E a, b \in Cores : l3(a, readable) # l3(b, readable), FALSE)

(* HugePages_Free counts the pages others have reserved and not touched. *)
HugePages_Free == free + machine.reserved
hugepages_at_least(readable, min) ==
    /\ Calls("hugepages_at_least")
    /\ Outcome("hugepages_at_least", readable,
               ~readable, readable /\ HugePages_Free < min)

tsc_invariant_and_nonstop(readable, flags) ==
    /\ Calls("tsc_invariant_and_nonstop")
    /\ Outcome("tsc_invariant_and_nonstop", readable,
               ~readable, readable /\ flags # {"constant_tsc", "nonstop_tsc"})

(* finish(): panic if there are failures.  It consumes the report, and     *)
(* nothing looks at the topology again.                                    *)
NoMachine ==
    [topology |-> <<>>, isolated |-> {}, debug_assertions |-> FALSE, reserved |-> 0]
Finish(next) ==
    /\ pc = "preflight" /\ todo = <<>>
    /\ pc' = IF failures = {} THEN next ELSE "panicked"
    /\ warnings' = {} /\ failures' = {} /\ blind' = {}
    /\ machine' = NoMachine
    /\ UNCHANGED <<todo, used, online, free>>

(* The checks without a parameter *)
Check ==
    \/ release_build
    \/ \E readable \in BOOLEAN :
          \/ cores_online(readable) \/ cores_isolated(readable)
          \/ cores_distinct_physical(readable) \/ cores_share_l3(readable)
          \/ \E ir \in BOOLEAN : cores_smt_siblings_quiet(readable, ir)
          \/ \E nohz \in SUBSET Cores : cores_nohz_full(readable, nohz)
          \/ \E governor \in [Cores -> {"performance", "powersave"}] :
                cores_performance_governor(readable, governor)
          \/ \E flags \in SUBSET {"constant_tsc", "nonstop_tsc"} :
                tsc_invariant_and_nonstop(readable, flags)
    \/ \E no_turbo, boost \in {NONE, "0", "1"} : turbo_disabled(no_turbo, boost)

-----------------------------------------------------------------------------
(* "failure: result would be misleading; the run is aborted", "warning:    *)
(* result may still be meaningful but is degraded": a run that goes ahead  *)
(* is an optimised build, its threads do not share a physical core, and    *)
(* its user was warned of a noisy hardware thread and of a remote cache.   *)
(* The topology checks pass when their file is unreadable.                 *)
PreflightIsSound ==
    pc = "preflight" /\ todo = <<>> /\ failures = {} =>
        /\ ~machine.debug_assertions
        /\ \A a, b \in Cores :
              /\ Siblings(a, b) => "cores_distinct_physical" \in blind
              /\ ~ShareL3(a, b) => "cores_share_l3" \in warnings \cup blind
        /\ \A a \in Cores, b \in online \ machine.isolated :
              Siblings(a, b) => "cores_smt_siblings_quiet" \in warnings \cup blind
=============================================================================

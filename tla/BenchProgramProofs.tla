------------------------- MODULE BenchProgramProofs -------------------------
(***************************************************************************)
(* What the programs around a measurement rely on, for every number of     *)
(* CPUs, every topology, every list of capacities, page and item size:     *)
(* the preflight checks are sound whatever files are unreadable, the       *)
(* hugepages they ask for are enough, and the timer interrupts reported    *)
(* for a CPU are its own.                                                  *)
(*                                                                         *)
(* The argument.  What a check says is about state that nothing changes    *)
(* before finish(), so it is enough to remember it for the checks that     *)
(* have been called: those that are not in todo (Checked).  The hugepages  *)
(* that are free, with those of the queue that is alive, stay at least     *)
(* what preflight asked for until another process takes one (Pages); and   *)
(* each snapshot of loc::read finds a CPU's own counter or nothing,        *)
(* wherever its column is at that moment (Interrupts).                     *)
(***************************************************************************)
EXTENDS BenchProgram, ModLemmas, FiniteSetTheorems

Called(check) == check \notin Elements(todo)

CheckNames ==
    {"release_build", "cores_online", "cores_isolated", "cores_nohz_full",
     "cores_performance_governor", "turbo_disabled", "cores_distinct_physical",
     "cores_smt_siblings_quiet", "cores_share_l3", "hugepages_at_least",
     "tsc_invariant_and_nonstop"}

(* The checks that have been called, and what each has found. *)
Checked ==
    /\ Called("release_build") => (machine.debug_assertions => "release_build" \in failures)
    /\ program # "drain" /\ Called("cores_distinct_physical") =>
          \A a, b \in Cores : Siblings(a, b) => "cores_distinct_physical" \in failures \cup blind
    /\ program # "drain" /\ Called("cores_share_l3") =>
          \A a, b \in Cores : ~ShareL3(a, b) => "cores_share_l3" \in warnings \cup blind
    /\ Called("cores_smt_siblings_quiet") =>
          \A a \in Cores, b \in online \ machine.isolated :
              Siblings(a, b) => "cores_smt_siblings_quiet" \in warnings \cup blind
    /\ program = "drain" /\ Called("hugepages_at_least") =>
          \/ "hugepages_at_least" \in warnings \cup failures
          \/ HugePages_Free >= HUGEPAGES_NEEDED

(* The checks that a program has to call before it may go on. *)
Required ==
    {"release_build", "cores_smt_siblings_quiet"} \cup
    (IF program = "drain" THEN {"hugepages_at_least"}
     ELSE {"cores_distinct_physical", "cores_share_l3"})

Typed ==
    /\ program \in {"two_core", "seqlock", "drain"}
    /\ todo \in Seq(CheckNames) /\ online \subseteq Cpus
    /\ free \in Nat /\ machine.reserved \in Nat
    /\ used \in Seq(Cpus) /\ (program = "drain" => Len(used) <= 1)
    /\ cap \in 1 .. Len(CAPS) /\ loc \in [Cpus -> Nat]

(* The pages of the queue that is alive. *)
Held == IF pc \in {"fill", "drain"} THEN PagesOf(cap) ELSE 0

Pages ==
    /\ pc \in {"discover", "preflight"} => ~assured
    /\ pc # "panicked" /\ assured => free + Held >= HUGEPAGES_NEEDED
    /\ HugepagesSuffice

Interrupts ==
    /\ pc \in {"discover", "preflight", "pin", "lock", "loc_before"} =>
          loc = [c \in Cpus |-> 0]
    /\ pc \in {"measure", "make", "fill", "drain", "loc_after", "report"} =>
          \A j \in 1 .. Len(used) : loc_before[j] \in {-1, 0}
    /\ pc = "report" => \A j \in 1 .. Len(used) : loc_after[j] \in {-1, loc[used[j]]}

IInv ==
    /\ Typed /\ Pages /\ Interrupts
    /\ pc = "discover" => Required \subseteq Elements(todo)
    /\ pc = "preflight" => Checked

-----------------------------------------------------------------------------
(* Hugepages. *)

(* The pages of a size are a natural number, and more for a larger size. *)
LEMMA DivCeilOrder ==
    ASSUME NEW a \in Nat, NEW b \in Nat, NEW m \in Nat \ {0}, a <= b
    PROVE  DivCeil(a, m) \in Nat /\ DivCeil(b, m) \in Nat /\ DivCeil(a, m) <= DivCeil(b, m)
<1>1. a + m - 1 \in Nat /\ b + m - 1 \in Nat /\ a + m - 1 <= b + m - 1  OBVIOUS
<1>2. QED  BY <1>1, DivNat, DivOrder DEF DivCeil

(* No queue takes more pages than preflight asks for. *)
LEMMA PagesEnough ==
    ASSUME cap \in 1 .. Len(CAPS)
    PROVE  PagesOf(cap) \in Nat /\ HUGEPAGES_NEEDED \in Nat /\ PagesOf(cap) <= HUGEPAGES_NEEDED
<1>1. CAPS[cap] \in Nat  BY BenchProgramAssumption
<1>2. /\ MAX_CAP_ITEMS \in Nat /\ CAPS[cap] <= MAX_CAP_ITEMS
      /\ ITEM \in Nat /\ HUGEPAGE \in Nat \ {0}
  BY BenchProgramAssumption
<1>3. /\ CAPS[cap] * ITEM \in Nat /\ MAX_CAP_ITEMS * ITEM \in Nat
      /\ CAPS[cap] * ITEM <= MAX_CAP_ITEMS * ITEM
  BY <1>1, <1>2, ProductOrder
<1>4. /\ DivCeil(CAPS[cap] * ITEM, HUGEPAGE) \in Nat /\ HUGEPAGES_NEEDED \in Nat
      /\ DivCeil(CAPS[cap] * ITEM, HUGEPAGE) <= HUGEPAGES_NEEDED
  BY <1>2, <1>3, DivCeilOrder DEF HUGEPAGES_NEEDED
<1>5. QED  BY <1>4 DEF PagesOf

-----------------------------------------------------------------------------
(* Preflight. *)

(* A check that is called leaves todo; the others stay there. *)
LEMMA TailElements ==
    ASSUME todo \in Seq(CheckNames), todo # <<>>, todo' = Tail(todo)
    PROVE  /\ todo' \in Seq(CheckNames)
           /\ \A x : Called(x)' => Called(x) \/ x = Head(todo)
<1>1. todo' \in Seq(CheckNames)  OBVIOUS
<1>2. ASSUME NEW j \in 1 .. Len(todo), j # 1 PROVE todo[j] \in Elements(todo')
  <2>1. j - 1 \in 1 .. Len(Tail(todo)) /\ Tail(todo)[j - 1] = todo[j]  BY <1>2
  <2>2. QED  BY <2>1 DEF Elements
<1>3. Head(todo) = todo[1]  OBVIOUS
<1>4. \A x : x \in Elements(todo) => x \in Elements(todo') \/ x = Head(todo)
  BY <1>2, <1>3 DEF Elements
<1>5. QED  BY <1>1, <1>4 DEF Called

(* What a check adds to the report. *)
LEMMA OutcomeFacts ==
    ASSUME NEW check, NEW readable, NEW warn, NEW fail, Outcome(check, readable, warn, fail)
    PROVE  /\ warnings \subseteq warnings' /\ failures \subseteq failures'
           /\ blind \subseteq blind' /\ todo' = Tail(todo)
           /\ warn => check \in warnings'
           /\ fail => check \in failures'
           /\ ~readable => check \in warnings' \cup failures' \cup blind'
           /\ UNCHANGED <<pc, used, machine, online, free>>
BY DEF Outcome, machineVars

(* Every check has a name, and an outcome under that name. *)
LEMMA RunCheckFacts ==
    ASSUME RunCheck, todo \in Seq(CheckNames)
    PROVE  /\ pc = "preflight"
           /\ warnings \subseteq warnings' /\ failures \subseteq failures' /\ blind \subseteq blind'
           /\ todo' \in Seq(CheckNames) /\ \A x : Called(x)' => Called(x) \/ Calls(x)
           /\ UNCHANGED <<pc, used, machine, online, free>>
           /\ UNCHANGED <<program, cause, loopVars, locVars, assured>>
<1>1. PICK check, readable, warn, fail : Calls(check) /\ Outcome(check, readable, warn, fail)
  BY DEF RunCheck, Check, release_build, cores_online, cores_isolated, cores_nohz_full,
         cores_performance_governor, turbo_disabled, cores_distinct_physical,
         cores_smt_siblings_quiet, cores_share_l3, hugepages_at_least,
         tsc_invariant_and_nonstop
<1>2. pc = "preflight" /\ todo # <<>> /\ check = Head(todo)  BY <1>1 DEF Calls
<1>3. /\ warnings \subseteq warnings' /\ failures \subseteq failures' /\ blind \subseteq blind'
      /\ todo' = Tail(todo) /\ UNCHANGED <<pc, used, machine, online, free>>
  BY <1>1, OutcomeFacts
<1>4. todo' \in Seq(CheckNames) /\ \A x : Called(x)' => Called(x) \/ Calls(x)
  BY <1>2, <1>3, TailElements DEF Calls
<1>5. UNCHANGED <<program, cause, loopVars, locVars, assured>>  BY DEF RunCheck
<1>6. QED  BY <1>2, <1>3, <1>4, <1>5

(* Which check is called is decided by the head of todo. *)
LEMMA CheckCalled ==
    ASSUME RunCheck
    PROVE  /\ Calls("release_build") => release_build
           /\ Calls("cores_distinct_physical") =>
                 \E readable \in BOOLEAN : cores_distinct_physical(readable)
           /\ Calls("cores_share_l3") => \E readable \in BOOLEAN : cores_share_l3(readable)
           /\ Calls("cores_smt_siblings_quiet") =>
                 \E readable, ir \in BOOLEAN : cores_smt_siblings_quiet(readable, ir)
           /\ Calls("hugepages_at_least") =>
                 \E readable \in BOOLEAN : hugepages_at_least(readable, HUGEPAGES_NEEDED)
<1>1. \/ release_build
      \/ \E readable \in BOOLEAN : cores_distinct_physical(readable)
      \/ \E readable \in BOOLEAN : cores_share_l3(readable)
      \/ \E readable, ir \in BOOLEAN : cores_smt_siblings_quiet(readable, ir)
      \/ \E readable \in BOOLEAN : hugepages_at_least(readable, HUGEPAGES_NEEDED)
      \/ Calls("cores_online") \/ Calls("cores_isolated") \/ Calls("cores_nohz_full")
      \/ Calls("cores_performance_governor") \/ Calls("turbo_disabled")
      \/ Calls("tsc_invariant_and_nonstop")
  BY DEF RunCheck, Check, cores_online, cores_isolated, cores_nohz_full,
         cores_performance_governor, turbo_disabled, tsc_invariant_and_nonstop
<1>2. ASSUME NEW x, NEW y, Calls(x), Calls(y) PROVE x = y  BY <1>2 DEF Calls
<1>3. /\ release_build => Calls("release_build")
      /\ \A r : cores_distinct_physical(r) => Calls("cores_distinct_physical")
      /\ \A r : cores_share_l3(r) => Calls("cores_share_l3")
      /\ \A r, ir : cores_smt_siblings_quiet(r, ir) => Calls("cores_smt_siblings_quiet")
      /\ \A r, m : hugepages_at_least(r, m) => Calls("hugepages_at_least")
  BY DEF release_build, cores_distinct_physical, cores_share_l3,
         cores_smt_siblings_quiet, hugepages_at_least
<1>4. QED  BY <1>1, <1>2, <1>3

(* What each check finds when it is called, its files being readable or not. *)
LEMMA CheckStep ==
    ASSUME Typed, Checked, RunCheck
    PROVE  Checked'
<1>1. todo \in Seq(CheckNames) /\ online \subseteq Cpus /\ Cores \subseteq Cpus
  BY DEF Typed, Cores, Elements
<1>2. /\ warnings \subseteq warnings' /\ failures \subseteq failures' /\ blind \subseteq blind'
      /\ \A x : Called(x)' => Called(x) \/ Calls(x)
      /\ UNCHANGED <<used, machine, online, free, program>>
  BY <1>1, RunCheckFacts
<1>3. /\ Cores' = Cores /\ \A a, b : Siblings(a, b)' = Siblings(a, b)
      /\ \A a, b : ShareL3(a, b)' = ShareL3(a, b)
  BY <1>2 DEF Cores, Elements, Siblings, ShareL3
<1>4. Calls("release_build") => (machine.debug_assertions => "release_build" \in failures')
  BY CheckCalled, OutcomeFacts DEF release_build
<1>6. ASSUME Calls("cores_distinct_physical"), NEW a \in Cores, NEW b \in Cores, Siblings(a, b)
      PROVE  "cores_distinct_physical" \in failures' \cup blind'
  <2>1. PICK readable \in BOOLEAN : cores_distinct_physical(readable)  BY <1>6, CheckCalled
  <2>2. a # b /\ (readable => SameCoreId(a, b, readable))
    BY <1>6 DEF Siblings, SameCoreId
  <2>3. CASE readable  BY <2>1, <2>2, <2>3, OutcomeFacts DEF cores_distinct_physical
  <2>4. CASE ~readable
    BY <2>1, <2>4 DEF cores_distinct_physical, Outcome, SameCoreId
  <2>5. QED  BY <2>3, <2>4
<1>7. ASSUME Calls("cores_share_l3"), NEW a \in Cores, NEW b \in Cores, ~ShareL3(a, b)
      PROVE  "cores_share_l3" \in warnings' \cup blind'
  <2>1. PICK readable \in BOOLEAN : cores_share_l3(readable)  BY <1>7, CheckCalled
  <2>2. CASE readable
    <3>1. a \in l3(a, readable) /\ a \notin l3(b, readable)
      BY <1>1, <1>7, <2>2 DEF l3, Read, ShareL3
    <3>2. QED  BY <2>1, <2>2, <3>1, OutcomeFacts DEF cores_share_l3
  <2>3. CASE ~readable  BY <2>1, <2>3 DEF cores_share_l3, Outcome
  <2>4. QED  BY <2>2, <2>3
<1>8. ASSUME Calls("cores_smt_siblings_quiet"), NEW a \in Cores,
             NEW b \in online \ machine.isolated, Siblings(a, b)
      PROVE  "cores_smt_siblings_quiet" \in warnings' \cup blind'
  <2>1. PICK readable \in BOOLEAN, ir \in BOOLEAN : cores_smt_siblings_quiet(readable, ir)
    BY <1>8, CheckCalled
  <2>2. CASE readable
    <3>1. b \in siblings_of(a, readable)
      BY <1>1, <1>8, <2>2 DEF siblings_of, read_cpu_list, Siblings
    <3>2. SibOnline(b)  BY <1>8 DEF SibOnline, OnlineFile, Read, NONE
    <3>3. b \notin read_cpu_list(ir, machine.isolated)  BY <1>8 DEF read_cpu_list
    <3>4. QED  BY <2>1, <3>1, <3>2, <3>3, OutcomeFacts DEF cores_smt_siblings_quiet
  <2>3. CASE ~readable  BY <2>1, <2>3 DEF cores_smt_siblings_quiet, Outcome
  <2>4. QED  BY <2>2, <2>3
<1>9. Calls("hugepages_at_least") =>
         \/ "hugepages_at_least" \in warnings' \cup failures'
         \/ HugePages_Free >= HUGEPAGES_NEEDED
  <2> SUFFICES ASSUME Calls("hugepages_at_least"), ~(HugePages_Free >= HUGEPAGES_NEEDED)
               PROVE  "hugepages_at_least" \in warnings' \cup failures'
    OBVIOUS
  <2>1. PICK readable \in BOOLEAN : hugepages_at_least(readable, HUGEPAGES_NEEDED)
    BY CheckCalled
  <2>2. HugePages_Free \in Nat /\ HUGEPAGES_NEEDED \in Nat
    BY PagesEnough DEF Typed, HugePages_Free
  <2>3. HugePages_Free < HUGEPAGES_NEEDED  BY <2>2
  <2>4. CASE readable  BY <2>1, <2>3, <2>4, OutcomeFacts DEF hugepages_at_least
  <2>5. CASE ~readable  BY <2>1, <2>5, OutcomeFacts DEF hugepages_at_least
  <2>6. QED  BY <2>4, <2>5
<1>10. (Called("release_build") => (machine.debug_assertions => "release_build" \in failures))'
  BY <1>2, <1>4 DEF Checked
<1>12. (program # "drain" /\ Called("cores_distinct_physical") =>
          \A a, b \in Cores : Siblings(a, b) => "cores_distinct_physical" \in failures \cup blind)'
  BY <1>2, <1>3, <1>6 DEF Checked
<1>13. (program # "drain" /\ Called("cores_share_l3") =>
          \A a, b \in Cores : ~ShareL3(a, b) => "cores_share_l3" \in warnings \cup blind)'
  BY <1>2, <1>3, <1>7 DEF Checked
<1>14. (Called("cores_smt_siblings_quiet") =>
          \A a \in Cores, b \in online \ machine.isolated :
              Siblings(a, b) => "cores_smt_siblings_quiet" \in warnings \cup blind)'
  BY <1>2, <1>3, <1>8 DEF Checked
<1>15. (program = "drain" /\ Called("hugepages_at_least") =>
          \/ "hugepages_at_least" \in warnings \cup failures
          \/ HugePages_Free >= HUGEPAGES_NEEDED)'
  BY <1>2, <1>9 DEF Checked, HugePages_Free
<1>16. QED  BY <1>10, <1>12, <1>13, <1>14, <1>15 DEF Checked

-----------------------------------------------------------------------------
(* Timer interrupts. *)

(* loc::read finds the counter of the CPU it is asked for, or nothing: the *)
(* position it reads is that of a column whose header names the CPU.       *)
LEMMA LocOfOwn ==
    ASSUME NEW cpu, NEW readable
    PROVE  LocOf(cpu, readable) \in {-1, loc[cpu]}
<1>1. CASE readable /\ \E p \in Positions(cpu) : p <= Len(Counts)
  <2> DEFINE p == CHOOSE q \in Positions(cpu) : TRUE
  <2>1. p \in Positions(cpu)  BY <1>1
  <2>2. p \in 1 .. Len(Columns) /\ Columns[p] = cpu  BY <2>1 DEF Positions
  <2>3. Counts[p] = loc[cpu]  BY <2>2 DEF Counts
  <2>4. LocOf(cpu, readable) = Counts[p]  BY <1>1 DEF LocOf
  <2>5. QED  BY <2>3, <2>4
<1>2. CASE ~(readable /\ \E p \in Positions(cpu) : p <= Len(Counts))  BY <1>2 DEF LocOf
<1>3. QED  BY <1>1, <1>2

(* A snapshot has, for each core used, its counter or nothing. *)
LEMMA LocReadOwn ==
    ASSUME NEW readable
    PROVE  \A j \in 1 .. Len(used) : LocRead(readable)[j] \in {-1, loc[used[j]]}
BY LocOfOwn DEF LocRead

-----------------------------------------------------------------------------
(* The steps. *)

(* What is in one of two lists is in both together. *)
LEMMA ElementsOfBoth ==
    ASSUME NEW s \in Seq(CheckNames), NEW t \in Seq(CheckNames)
    PROVE  /\ s \o t \in Seq(CheckNames)
           /\ Elements(s) \subseteq Elements(s \o t) /\ Elements(t) \subseteq Elements(s \o t)
<1>1. s \o t \in Seq(CheckNames) /\ Len(s \o t) = Len(s) + Len(t)  OBVIOUS
<1>2. ASSUME NEW j \in 1 .. Len(s) PROVE s[j] \in Elements(s \o t)
  <2>1. j \in 1 .. Len(s \o t) /\ (s \o t)[j] = s[j]  BY <1>1
  <2>2. QED  BY <2>1 DEF Elements
<1>3. ASSUME NEW j \in 1 .. Len(t) PROVE t[j] \in Elements(s \o t)
  <2>1. Len(s) + j \in 1 .. Len(s \o t) /\ (s \o t)[Len(s) + j] = t[j]  BY <1>1
  <2>2. QED  BY <2>1 DEF Elements
<1>4. QED  BY <1>1, <1>2, <1>3 DEF Elements

(* The lists of the programs have the checks that are required. *)
LEMMA ListsAreComplete ==
    /\ TwoCoreChecks \in Seq(CheckNames) /\ DrainChecks \in Seq(CheckNames)
    /\ {"release_build", "cores_smt_siblings_quiet", "cores_distinct_physical",
        "cores_share_l3"} \subseteq Elements(TwoCoreChecks)
    /\ {"release_build", "cores_smt_siblings_quiet", "hugepages_at_least"}
          \subseteq Elements(DrainChecks)
<1> DEFINE Two == <<"cores_distinct_physical", "cores_smt_siblings_quiet",
                    "cores_share_l3", "tsc_invariant_and_nonstop">>
           One == <<"cores_smt_siblings_quiet", "tsc_invariant_and_nonstop",
                    "hugepages_at_least">>
<1>1. CommonChecks \in Seq(CheckNames) /\ "release_build" \in Elements(CommonChecks)
  <2>1. CommonChecks \in Seq(CheckNames) /\ Len(CommonChecks) = 6
    BY DEF CommonChecks, CheckNames
  <2>2. CommonChecks[1] = "release_build"  BY DEF CommonChecks
  <2>3. QED  BY <2>1, <2>2 DEF Elements
<1>2. /\ Two \in Seq(CheckNames)
      /\ {"cores_distinct_physical", "cores_smt_siblings_quiet", "cores_share_l3"}
            \subseteq Elements(Two)
  <2>1. Two \in Seq(CheckNames) /\ Len(Two) = 4  BY DEF CheckNames
  <2>2. /\ Two[1] = "cores_distinct_physical" /\ Two[2] = "cores_smt_siblings_quiet"
        /\ Two[3] = "cores_share_l3"
    OBVIOUS
  <2> HIDE DEF Two
  <2>3. QED  BY <2>1, <2>2 DEF Elements
<1>3. /\ One \in Seq(CheckNames)
      /\ {"cores_smt_siblings_quiet", "hugepages_at_least"} \subseteq Elements(One)
  <2>1. One \in Seq(CheckNames) /\ Len(One) = 3  BY DEF CheckNames
  <2>2. One[1] = "cores_smt_siblings_quiet" /\ One[3] = "hugepages_at_least"  OBVIOUS
  <2> HIDE DEF One
  <2>3. QED  BY <2>1, <2>2 DEF Elements
<1>4. TwoCoreChecks = CommonChecks \o Two /\ DrainChecks = CommonChecks \o One
  BY DEF TwoCoreChecks, DrainChecks
<1> HIDE DEF One, Two
<1>5. QED  BY <1>1, <1>2, <1>3, <1>4, ElementsOfBoth

(* At first nothing has been checked or read, and every check that a       *)
(* program requires is in its list.                                        *)
LEMMA InitIInv ==
    ASSUME Init
    PROVE  IInv
<1>1. program \in {"two_core", "seqlock", "drain"} /\ pc = "discover"  BY DEF Init
<1>2. /\ program # "drain" => todo = TwoCoreChecks
      /\ program = "drain" => todo = DrainChecks
  BY <1>1 DEF Init, SeqLockChecks
<1>3. todo \in Seq(CheckNames) /\ Required \subseteq Elements(todo)
  BY <1>2, ListsAreComplete DEF Required
<1>4. /\ online \subseteq Cpus /\ free \in Nat /\ machine.reserved \in Nat /\ cap \in 1 .. Len(CAPS)
      /\ used = <<>> /\ loc = [c \in Cpus |-> 0] /\ ~assured
  BY BenchProgramAssumption DEF Init
<1>5. used \in Seq(Cpus) /\ Len(used) = 0 /\ loc \in [Cpus -> Nat]  BY <1>4
<1>6. Typed  BY <1>1, <1>3, <1>4, <1>5 DEF Typed
<1>7. Pages  BY <1>1, <1>4 DEF Pages, HugepagesSuffice
<1>8. Interrupts  BY <1>1, <1>4 DEF Interrupts
<1>9. QED  BY <1>1, <1>3, <1>6, <1>7, <1>8 DEF IInv

(* The first cores of the list are CPUs, and there are CoresUsed of them. *)
LEMMA FirstCores ==
    ASSUME NEW allowed \in SUBSET Cpus, NEW n \in Nat, n <= Cardinality(allowed),
           NEW cores \in Ascending(allowed), Cardinality(allowed) \in Nat
    PROVE  SubSeq(cores, 1, n) \in Seq(Cpus) /\ Len(SubSeq(cores, 1, n)) = n
<1>1. cores \in [1 .. Cardinality(allowed) -> allowed]  BY DEF Ascending
<1>2. cores \in Seq(Cpus) /\ Len(cores) = Cardinality(allowed)  BY <1>1
<1>3. QED  BY <1>2

(* get_core_ids() gives CPUs; no check has been called yet. *)
LEMMA DiscoverStep ==
    ASSUME IInv, NEW allowed \in SUBSET Cpus \ {{}}, Discover(allowed)
    PROVE  IInv'
<1>1. /\ pc = "discover" /\ Required \subseteq Elements(todo)
      /\ UNCHANGED <<todo, machine, online, free, warnings, failures, blind, program, cap,
                     allocator, trial, len, loc, loc_before, loc_after, assured>>
  BY DEF Discover, IInv, reportVars, loopVars, locVars
<1>2. \/ pc' = "panicked" /\ cause' = "too few cores" /\ used' = used
      \/ pc' = "preflight" /\ used' \in Seq(Cpus) /\ (program = "drain" => Len(used') <= 1)
  <2>1. CASE Cardinality(allowed) < CoresUsed  BY <2>1 DEF Discover, Panic
  <2>2. CASE ~(Cardinality(allowed) < CoresUsed)
    <3>1. CoresUsed \in Nat /\ (program = "drain" => CoresUsed = 1)  BY DEF CoresUsed
    <3>2. Cardinality(allowed) \in Nat
      <4>1. IsFiniteSet(allowed)  BY PreflightAssumption, FS_Subset
      <4>2. QED  BY <4>1, FS_CardinalityType
    <3>3. PICK cores \in Ascending(allowed) : used' = SubSeq(cores, 1, CoresUsed)
      BY <2>2 DEF Discover
    <3>4. used' \in Seq(Cpus) /\ Len(used') = CoresUsed
      BY <2>2, <3>1, <3>2, <3>3, FirstCores
    <3>5. pc' = "preflight"  BY <2>2 DEF Discover
    <3>6. QED  BY <3>1, <3>4, <3>5
  <2>3. QED  BY <2>1, <2>2
<1>3. Typed'  BY <1>1, <1>2 DEF IInv, Typed
<1>4. Pages'  BY <1>1, <1>2 DEF IInv, Pages, HugepagesSuffice
<1>5. Interrupts'  BY <1>1, <1>2 DEF IInv, Interrupts
<1>6. Checked'
  <2>1. /\ ~Called("release_build")' /\ ~Called("cores_smt_siblings_quiet")'
        /\ program' = "drain" => ~Called("hugepages_at_least")'
        /\ program' # "drain" => /\ ~Called("cores_distinct_physical")'
                                 /\ ~Called("cores_share_l3")'
    BY <1>1 DEF Required, Called, Elements
  <2>2. QED  BY <2>1 DEF Checked
<1>7. QED  BY <1>2, <1>3, <1>4, <1>5, <1>6 DEF IInv

(* A check changes only the report. *)
LEMMA RunCheckStep ==
    ASSUME IInv, RunCheck
    PROVE  IInv'
<1>1. todo \in Seq(CheckNames)  BY DEF IInv, Typed
<1>2. /\ pc = "preflight" /\ pc' = pc /\ todo' \in Seq(CheckNames)
      /\ UNCHANGED <<used, machine, online, free, program, cause, cap, allocator, trial, len,
                     loc, loc_before, loc_after, assured>>
  BY <1>1, RunCheckFacts DEF loopVars, locVars
<1>3. Checked'  BY <1>2, CheckStep DEF IInv
<1>4. Typed'  BY <1>2 DEF IInv, Typed
<1>5. Pages'  BY <1>2 DEF IInv, Pages, HugepagesSuffice
<1>6. Interrupts'  BY <1>2 DEF IInv, Interrupts
<1>7. QED  BY <1>2, <1>3, <1>4, <1>5, <1>6 DEF IInv

(* finish(): nothing is left to do, so the last check has been called; the *)
(* drain benchmark goes on with enough hugepages, or with a warning.       *)
LEMMA FinishPreflightStep ==
    ASSUME IInv, FinishPreflight
    PROVE  IInv'
<1>1. /\ pc = "preflight" /\ todo = <<>>
      /\ UNCHANGED <<todo, used, online, free, program, cap, allocator, trial, len, loc,
                     loc_before, loc_after>>
      /\ assured' => /\ program = "drain" /\ machine.reserved = 0
                     /\ "hugepages_at_least" \notin warnings
      /\ machine'.reserved = 0
  BY DEF FinishPreflight, Finish, NoMachine, loopVars, locVars
<1>2. \/ failures = {} /\ pc' \in {"pin", "lock"}
      \/ pc' = "panicked" /\ cause' = "preflight"
  BY DEF FinishPreflight, Finish
<1>3. Typed'  BY <1>1 DEF IInv, Typed
<1>4. assured' /\ failures = {} => free >= HUGEPAGES_NEEDED
  <2>1. Called("hugepages_at_least")  BY <1>1 DEF Called, Elements
  <2>2. assured' /\ failures = {} => HugePages_Free >= HUGEPAGES_NEEDED
    BY <1>1, <2>1 DEF IInv, Checked
  <2>3. assured' => HugePages_Free = free  BY <1>1 DEF IInv, Typed, HugePages_Free
  <2>4. QED  BY <2>2, <2>3
<1>5. free \in Nat  BY DEF IInv, Typed
<1>6. Pages'
  <2>1. pc' # "panicked" => Held' = 0  BY <1>2 DEF Held
  <2>2. HUGEPAGES_NEEDED \in Nat /\ HUGEPAGES_NEEDED' = HUGEPAGES_NEEDED
    BY PagesEnough DEF IInv, Typed, HUGEPAGES_NEEDED, DivCeil
  <2>3. pc' # "panicked" /\ assured' => free' + Held' >= HUGEPAGES_NEEDED'
    BY <1>1, <1>2, <1>4, <1>5, <2>1, <2>2
  <2>4. HugepagesSuffice'  BY <1>2 DEF HugepagesSuffice
  <2>5. QED  BY <1>2, <2>3, <2>4 DEF Pages
<1>7. Interrupts'  BY <1>1, <1>2 DEF IInv, Interrupts
<1>8. QED  BY <1>2, <1>3, <1>6, <1>7 DEF IInv

(* Pinning, locking the memory and the measurement that other modules      *)
(* model change where the program is, and neither pages nor counters.      *)
LEMMA LockStep ==
    ASSUME IInv,
           \/ \E ok \in BOOLEAN : Pin(ok) \/ Mlockall(ok)
           \/ Measure
    PROVE  IInv'
<1>1. UNCHANGED <<todo, used, machine, online, free, program, cap, allocator, trial, len, loc,
                  loc_before, loc_after, assured>>
  BY DEF Pin, Mlockall, Measure, machineVars, loopVars, locVars
<1>2. \/ pc = "pin" /\ pc' = "lock"
      \/ pc = "lock" /\ pc' = "loc_before"
      \/ pc = "measure" /\ pc' = "loc_after"
      \/ pc \in {"pin", "lock"} /\ pc' = "panicked" /\ cause' \in {"pin", "mlockall"}
  BY DEF Pin, Mlockall, Measure, Panic
<1>3. Typed'  BY <1>1 DEF IInv, Typed
<1>4. Held = 0 /\ (pc' # "panicked" => Held' = 0)  BY <1>2 DEF Held
<1>5. HUGEPAGES_NEEDED' = HUGEPAGES_NEEDED  BY DEF HUGEPAGES_NEEDED, DivCeil
<1>6. Pages'  BY <1>1, <1>2, <1>4, <1>5 DEF IInv, Pages, HugepagesSuffice
<1>7. Interrupts'  BY <1>1, <1>2 DEF IInv, Interrupts
<1>8. QED  BY <1>2, <1>3, <1>6, <1>7 DEF IInv

(* The first snapshot: no CPU has counted an interrupt yet. *)
LEMMA LocBeforeStep ==
    ASSUME IInv, NEW readable \in BOOLEAN, LocBefore(readable)
    PROVE  IInv'
<1>1. /\ pc = "loc_before" /\ pc' \in {"make", "measure"} /\ loc_before' = LocRead(readable)
      /\ UNCHANGED <<todo, used, machine, online, free, program, cap, allocator, trial, len,
                     loc, loc_after, assured>>
  BY DEF LocBefore, machineVars, loopVars
<1>2. Typed'  BY <1>1 DEF IInv, Typed
<1>3. Held = 0 /\ Held' = 0  BY <1>1 DEF Held
<1>4. HUGEPAGES_NEEDED' = HUGEPAGES_NEEDED  BY DEF HUGEPAGES_NEEDED, DivCeil
<1>5. Pages'  BY <1>1, <1>3, <1>4 DEF IInv, Pages, HugepagesSuffice
<1>6. Interrupts'
  <2>1. loc = [c \in Cpus |-> 0] /\ used \in Seq(Cpus)  BY <1>1 DEF IInv, Interrupts, Typed
  <2>2. ASSUME NEW j \in 1 .. Len(used) PROVE loc_before'[j] \in {-1, 0}
    <3>1. loc_before'[j] \in {-1, loc[used[j]]}  BY <1>1, LocReadOwn
    <3>2. loc[used[j]] = 0  BY <2>1
    <3>3. QED  BY <3>1, <3>2
  <2>3. QED  BY <1>1, <2>2 DEF Interrupts
<1>7. QED  BY <1>1, <1>2, <1>5, <1>6 DEF IInv

(* The last snapshot, although other CPUs may be online by now. *)
LEMMA LocAfterStep ==
    ASSUME IInv, NEW readable \in BOOLEAN, LocAfter(readable)
    PROVE  IInv'
<1>1. /\ pc = "loc_after" /\ pc' = "report" /\ loc_after' = LocRead(readable)
      /\ UNCHANGED <<todo, used, machine, online, free, program, cap, allocator, trial, len,
                     loc, loc_before, assured>>
  BY DEF LocAfter, machineVars, loopVars
<1>2. Typed'  BY <1>1 DEF IInv, Typed
<1>3. Held = 0 /\ Held' = 0  BY <1>1 DEF Held
<1>4. HUGEPAGES_NEEDED' = HUGEPAGES_NEEDED  BY DEF HUGEPAGES_NEEDED, DivCeil
<1>5. Pages'  BY <1>1, <1>3, <1>4 DEF IInv, Pages, HugepagesSuffice
<1>6. Interrupts'  BY <1>1, LocReadOwn DEF IInv, Interrupts
<1>7. QED  BY <1>1, <1>2, <1>5, <1>6 DEF IInv

(* A queue is mapped: with the pages preflight saw it does not fail, and   *)
(* they are now free or in the queue.                                      *)
LEMMA MakeQueueStep ==
    ASSUME IInv, NEW locked \in BOOLEAN, MakeQueue(locked)
    PROVE  IInv'
<1>1. /\ pc = "make"
      /\ UNCHANGED <<todo, used, machine, online, program, cap, allocator, trial, loc,
                     loc_before, loc_after, assured>>
  BY DEF MakeQueue, locVars
<1>2. \/ /\ free < PagesOf(cap) /\ free' = free
         /\ pc' = "panicked" /\ cause' = "mmap"
      \/ /\ ~(free < PagesOf(cap)) /\ free' = free - PagesOf(cap)
         /\ pc' = "fill" \/ (pc' = "panicked" /\ cause' = "mlock")
  BY DEF MakeQueue, Panic
<1>3. /\ PagesOf(cap) \in Nat /\ HUGEPAGES_NEEDED \in Nat /\ PagesOf(cap) <= HUGEPAGES_NEEDED
      /\ free \in Nat
  BY PagesEnough DEF IInv, Typed
<1>4. HUGEPAGES_NEEDED' = HUGEPAGES_NEEDED /\ PagesOf(cap)' = PagesOf(cap)
  BY <1>1 DEF HUGEPAGES_NEEDED, DivCeil, PagesOf
<1>5. assured => free >= HUGEPAGES_NEEDED  BY <1>1, <1>3 DEF IInv, Pages, Held
<1>6. Typed'  BY <1>1, <1>2, <1>3 DEF IInv, Typed
<1>7. Pages'
  <2>1. pc' = "fill" => Held' = PagesOf(cap)  BY <1>4 DEF Held
  <2>2. pc' # "panicked" /\ assured' => free' + Held' >= HUGEPAGES_NEEDED'
    BY <1>1, <1>2, <1>3, <1>4, <1>5, <2>1
  <2>3. HugepagesSuffice'  BY <1>1, <1>2, <1>3, <1>5 DEF HugepagesSuffice
  <2>4. QED  BY <1>2, <2>2, <2>3 DEF Pages
<1>8. Interrupts'  BY <1>1, <1>2 DEF IInv, Interrupts
<1>9. QED  BY <1>2, <1>6, <1>7, <1>8 DEF IInv

(* Filling and draining a queue keeps its pages. *)
LEMMA FillDrainStep ==
    ASSUME IInv, Fill \/ Drain
    PROVE  IInv'
<1>1. /\ pc \in {"fill", "drain"} /\ pc' \in {"fill", "drain"}
      /\ UNCHANGED <<todo, used, machine, online, free, program, cap, allocator, trial, loc,
                     loc_before, loc_after, assured>>
  BY DEF Fill, Drain, machineVars, locVars
<1>2. Typed'  BY <1>1 DEF IInv, Typed
<1>3. HUGEPAGES_NEEDED' = HUGEPAGES_NEEDED /\ Held' = Held
  BY <1>1 DEF HUGEPAGES_NEEDED, DivCeil, PagesOf, Held
<1>4. Pages'  BY <1>1, <1>3 DEF IInv, Pages, HugepagesSuffice
<1>5. Interrupts'  BY <1>1 DEF IInv, Interrupts
<1>6. QED  BY <1>1, <1>2, <1>4, <1>5 DEF IInv

(* The end of a trial gives the pages of its queue back. *)
LEMMA EndTrialStep ==
    ASSUME IInv, EndTrial
    PROVE  IInv'
<1>1. /\ pc = "drain" /\ pc' \in {"make", "loc_after"} /\ free' = free + PagesOf(cap)
      /\ UNCHANGED <<todo, used, machine, online, program, loc, loc_before, loc_after, assured>>
  BY DEF EndTrial, PagesFreed, locVars
<1>2. PagesOf(cap) \in Nat /\ free \in Nat  BY PagesEnough DEF IInv, Typed
<1>3. cap' \in 1 .. Len(CAPS)  BY BenchProgramAssumption DEF EndTrial, IInv, Typed
<1>4. Typed'  BY <1>1, <1>2, <1>3 DEF IInv, Typed
<1>5. Held = PagesOf(cap) /\ Held' = 0  BY <1>1 DEF Held
<1>6. HUGEPAGES_NEEDED' = HUGEPAGES_NEEDED  BY DEF HUGEPAGES_NEEDED, DivCeil
<1>7. free' + Held' = free + Held  BY <1>1, <1>2, <1>5
<1>8. Pages'  BY <1>1, <1>6, <1>7 DEF IInv, Pages, HugepagesSuffice
<1>9. Interrupts'  BY <1>1 DEF IInv, Interrupts
<1>10. QED  BY <1>1, <1>4, <1>8, <1>9 DEF IInv

(* A timer interrupt, while the benchmark measures. *)
LEMMA InterruptStep ==
    ASSUME IInv, NEW c \in Cpus, Interrupt(c)
    PROVE  IInv'
<1>1. /\ pc \in {"measure", "make"} /\ loc' = [loc EXCEPT ![c] = @ + 1]
      /\ UNCHANGED <<pc, todo, used, machine, online, free, program, cause, cap, allocator,
                     trial, len, loc_before, loc_after, assured>>
  BY DEF Interrupt, Measuring, preflightVars, machineVars, loopVars
<1>2. Typed'  BY <1>1 DEF IInv, Typed
<1>3. HUGEPAGES_NEEDED' = HUGEPAGES_NEEDED /\ Held' = Held
  BY <1>1 DEF HUGEPAGES_NEEDED, DivCeil, PagesOf, Held
<1>4. Pages'  BY <1>1, <1>3 DEF IInv, Pages, HugepagesSuffice
<1>5. Interrupts'  BY <1>1 DEF IInv, Interrupts
<1>6. QED  BY <1>1, <1>2, <1>4, <1>5 DEF IInv

(* A CPU goes offline or comes back, while the benchmark measures. *)
LEMMA HotplugStep ==
    ASSUME IInv, NEW c \in Cpus, Hotplug(c)
    PROVE  IInv'
<1>1. /\ pc \in {"measure", "make"} /\ online' \in {online \ {c}, online \cup {c}}
      /\ UNCHANGED <<pc, todo, used, machine, free, program, cause, cap, allocator, trial, len,
                     loc, loc_before, loc_after, assured>>
  BY DEF Hotplug, Measuring, loopVars, locVars
<1>2. Typed'  BY <1>1 DEF IInv, Typed
<1>3. HUGEPAGES_NEEDED' = HUGEPAGES_NEEDED /\ Held' = Held
  BY <1>1 DEF HUGEPAGES_NEEDED, DivCeil, PagesOf, Held
<1>4. Pages'  BY <1>1, <1>3 DEF IInv, Pages, HugepagesSuffice
<1>5. Interrupts'  BY <1>1 DEF IInv, Interrupts
<1>6. QED  BY <1>1, <1>2, <1>4, <1>5 DEF IInv

(* Another process takes a page: from now on nothing is assured. *)
LEMMA OtherProcessStep ==
    ASSUME IInv, OtherProcess
    PROVE  IInv'
<1>1. /\ pc \in {"pin", "lock", "loc_before", "make"} /\ free > 0 /\ free' = free - 1 /\ ~assured'
      /\ UNCHANGED <<pc, todo, used, machine, online, program, cause, cap, allocator, trial, len,
                     loc, loc_before, loc_after>>
  BY DEF OtherProcess, loopVars, locVars
<1>2. Typed'  BY <1>1 DEF IInv, Typed
<1>3. Pages'  BY <1>1 DEF Pages, HugepagesSuffice
<1>4. Interrupts'  BY <1>1 DEF IInv, Interrupts
<1>5. QED  BY <1>1, <1>2, <1>3, <1>4 DEF IInv

(* A stuttering step changes nothing the invariant reads. *)
LEMMA StutterStep ==
    ASSUME IInv, UNCHANGED vars
    PROVE  IInv'
<1>1. UNCHANGED <<pc, todo, used, machine, online, free, warnings, failures, blind, program,
                  cause, cap, allocator, trial, len, loc, loc_before, loc_after, assured>>
  BY DEF vars, preflightVars, machineVars, reportVars, loopVars, locVars
<1>2. Typed'  BY <1>1 DEF IInv, Typed
<1>3. HUGEPAGES_NEEDED' = HUGEPAGES_NEEDED /\ Held' = Held
  BY <1>1 DEF HUGEPAGES_NEEDED, DivCeil, PagesOf, Held
<1>4. Pages'  BY <1>1, <1>3 DEF IInv, Pages, HugepagesSuffice
<1>5. Interrupts'  BY <1>1 DEF IInv, Interrupts
<1>6. Required' = Required /\ Elements(todo)' = Elements(todo)
  BY <1>1 DEF Required, Elements
<1>7. pc = "preflight" => Checked'
  BY <1>1, <1>3 DEF IInv, Checked, Called, Elements, Cores, Siblings, ShareL3, HugePages_Free
<1>8. QED  BY <1>1, <1>2, <1>4, <1>5, <1>6, <1>7 DEF IInv

(* The invariant holds in every state a program reaches. *)
THEOREM Invariance == Spec => []IInv
<1>1. Init => IInv  BY InitIInv
<1>2. IInv /\ [Next]_vars => IInv'
  <2> SUFFICES ASSUME IInv, [Next]_vars PROVE IInv'
    OBVIOUS
  <2>1. CASE Next
    BY <2>1, DiscoverStep, RunCheckStep, FinishPreflightStep, LockStep, LocBeforeStep,
       LocAfterStep, MakeQueueStep, FillDrainStep, EndTrialStep, InterruptStep, HotplugStep,
       OtherProcessStep
       DEF Next, Step
  <2>2. CASE UNCHANGED vars  BY <2>2, StutterStep
  <2>3. QED  BY <2>1, <2>2
<1>3. QED  BY <1>1, <1>2, PTL DEF Spec

-----------------------------------------------------------------------------
(* A run that goes ahead is an optimised build, its threads do not share a *)
(* physical core unless the topology could not be read, and its user was   *)
(* warned of a noisy hardware thread and of a remote cache: for every      *)
(* number of CPUs and every topology.                                      *)
THEOREM PreflightSound == Spec => []PreflightIsSound
<1>1. IInv => PreflightIsSound
  <2> SUFFICES ASSUME IInv, pc = "preflight", todo = <<>>, failures = {} PROVE PreflightIsSound
    BY DEF PreflightIsSound
  <2>1. Checked /\ \A x : Called(x)  BY DEF IInv, Called, Elements
  <2>2. ~machine.debug_assertions  BY <2>1 DEF Checked
  <2>3. ASSUME NEW a \in Cores, NEW b \in Cores
        PROVE  /\ Siblings(a, b) => "cores_distinct_physical" \in blind
               /\ ~ShareL3(a, b) => "cores_share_l3" \in warnings \cup blind
    <3>1. CASE program # "drain"  BY <2>1, <3>1 DEF Checked
    <3>2. CASE program = "drain"
      <4>1. a = b  BY <3>2 DEF IInv, Typed, Cores, Elements
      <4>2. QED  BY <4>1 DEF Siblings, ShareL3
    <3>3. QED  BY <3>1, <3>2
  <2>4. \A a \in Cores, b \in online \ machine.isolated :
           Siblings(a, b) => "cores_smt_siblings_quiet" \in warnings \cup blind
    BY <2>1 DEF Checked
  <2>5. QED  BY <2>2, <2>3, <2>4 DEF PreflightIsSound
<1>2. QED  BY <1>1, Invariance, PTL

(* The pages preflight asks for are enough for every queue of the drain    *)
(* benchmark, whatever the capacities up to MAX_CAP_ITEMS, the item's size *)
(* and the page's: a mapping fails only without a check, after one that    *)
(* counted reserved pages, or after another process took pages.            *)
THEOREM HugepagesAreEnough == Spec => []HugepagesSuffice
<1>1. IInv => HugepagesSuffice  BY DEF IInv, Pages
<1>2. QED  BY <1>1, Invariance, PTL

(* The timer interrupts reported for a core are its own or unknown, while  *)
(* any number of CPUs come and go.                                         *)
THEOREM LocDeltasAreOwn == Spec => []LocDeltaIsOwn
<1>1. IInv => LocDeltaIsOwn
  <2> SUFFICES ASSUME IInv, pc = "report", NEW j \in 1 .. Len(used)
               PROVE  LocDelta(j) \in {-1, loc[used[j]]}
    BY DEF LocDeltaIsOwn
  <2>1. loc_before[j] \in {-1, 0} /\ loc_after[j] \in {-1, loc[used[j]]}
    BY DEF IInv, Interrupts
  <2>2. loc[used[j]] \in Nat  BY DEF IInv, Typed
  <2>3. CASE loc_before[j] = -1 \/ loc_after[j] = -1
    <3>1. LocDelta(j) = -1  BY <2>1, <2>2, <2>3 DEF LocDelta
    <3>2. QED  BY <3>1
  <2>4. CASE loc_before[j] = 0 /\ loc_after[j] = loc[used[j]]
    <3>1. ~(loc_before[j] = -1 \/ loc_after[j] = -1) /\ ~(loc_after[j] < loc_before[j])
      BY <2>2, <2>4
    <3>2. LocDelta(j) = loc_after[j] - loc_before[j]  BY <3>1 DEF LocDelta
    <3>3. QED  BY <2>2, <2>4, <3>2
  <2>5. QED  BY <2>1, <2>3, <2>4
<1>2. QED  BY <1>1, Invariance, PTL
=============================================================================

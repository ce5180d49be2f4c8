-------------------------- MODULE SpscBenchProofs --------------------------
(***************************************************************************)
(* The SPSC benchmarks, for every capacity, queue, rate, clock frequency,  *)
(* precision of the fixed point period and number of items.                *)
(*                                                                         *)
(* The schedule: the rounding errors of the periods never add up to more   *)
(* than a tick, for as many items as the period has precision.             *)
(*                                                                         *)
(* The samples: none is lost between the last push and the consumer's      *)
(* return.  The producer stores the flag once, after its last push, so the *)
(* message carries a view with the newest tail (Flag); a consumer that     *)
(* acquires it can only load that tail, so an empty queue then means that  *)
(* it has popped as many items as were sent (Flow, Samples).               *)
(*                                                                         *)
(* The counts: a queue that is full has had CAPACITY items sent before the *)
(* one in hand, however old the producer's copy of head is (Counted).      *)
(***************************************************************************)
EXTENDS SpscBench, SpscProofs

(* A product of natural numbers is one, ... *)
LEMMA ProductNat ==
    ASSUME NEW a \in Nat, NEW b \in Nat
    PROVE  a * b \in Nat
OBVIOUS

(* ... grows with its factors, ... *)
LEMMA ProductMonotone ==
    ASSUME NEW a \in Nat, NEW b \in Nat, NEW c \in Nat, a <= b
    PROVE  a * c <= b * c
OBVIOUS

(* ... and is ordered like them. *)
LEMMA ProductCancel ==
    ASSUME NEW a \in Int, NEW b \in Int, NEW c \in Nat \ {0}, a * c < b * c
    PROVE  a < b
<1>1. a * c \in Int /\ b * c \in Int  OBVIOUS
<1>2. b < a => b * c + c <= a * c  BY MultiplesApart
<1>3. b = a => b * c = a * c  OBVIOUS
<1>4. QED  BY <1>1, <1>2, <1>3

(* Division with remainder of a natural number. *)
LEMMA QuotientRemainder ==
    ASSUME NEW a \in Nat, NEW M \in Nat \ {0}
    PROVE  a \div M \in Nat /\ a % M \in 0 .. M - 1 /\ a = (a \div M) * M + (a % M)
<1>1. a \in Int  OBVIOUS
<1>2. QED  BY <1>1, DivMod, DivNat, Zenon

(* k rounded periods of T / R ticks, in units of 1 / P tick, come to the   *)
(* tick in which k exact periods end or to the one before, if k <= P: each *)
(* period is short of less than 1 / P tick.                                *)
LEMMA RoundedPeriods ==
    ASSUME NEW T \in Nat, NEW R \in Nat \ {0}, NEW P \in Nat \ {0}, NEW k \in 0 .. P
    PROVE  (k * ((T * P) \div R)) \div P \in {((k * T) \div R) - 1, (k * T) \div R}
<1> DEFINE D == (T * P) \div R
           r == (T * P) % R
           q == (k * T) \div R
           s == (k * T) % R
           p == (k * D) \div P
           u == (k * D) % P
<1>1. k \in Nat /\ T * P \in Nat /\ k * T \in Nat  BY ProductNat
<1>2. D \in Nat /\ r \in 0 .. R - 1 /\ T * P = D * R + r
  BY <1>1, QuotientRemainder, Zenon
<1>3. q \in Nat /\ s \in 0 .. R - 1 /\ k * T = q * R + s
  BY <1>1, QuotientRemainder, Zenon
<1>4. k * D \in Nat  BY <1>1, <1>2, ProductNat
<1>5. p \in Nat /\ u \in 0 .. P - 1 /\ k * D = p * P + u
  BY <1>4, QuotientRemainder, Zenon
<1> HIDE DEF D, r, q, s, p, u
<1> DEFINE kr == k * r
           sP == s * P
           RP == R * P
           qRP == q * RP
           kDR == (k * D) * R
<1>6. /\ kr \in Nat /\ sP \in Nat /\ RP \in Nat \ {0} /\ qRP \in Nat /\ kDR \in Nat
      /\ r \in Nat /\ s \in Nat /\ u \in Nat
  BY <1>1, <1>2, <1>3, <1>4, <1>5, ProductNat
(* k T P, computed in two ways *)
<1>7. kDR + kr = qRP + sP
  <2>1. k * (T * P) = k * (D * R + r)  BY <1>2
  <2>2. k * (D * R + r) = (k * D) * R + k * r  BY <1>1, <1>2, <1>6
  <2>3. (k * T) * P = (q * R + s) * P  BY <1>3
  <2>4. (q * R + s) * P = q * (R * P) + s * P  BY <1>3, <1>6
  <2>5. k * (T * P) = (k * T) * P  BY <1>1
  <2>6. QED  BY <2>1, <2>2, <2>3, <2>4, <2>5
<1>8. kr < RP
  <2>1. kr <= P * r  BY <1>1, <1>6, ProductMonotone
  <2>2. r * P + P <= R * P  BY <1>2, <1>6, MultiplesApart
  <2>3. P * r = r * P /\ P * r \in Nat  BY <1>6
  <2>4. QED  BY <1>6, <2>1, <2>2, <2>3
<1>9. sP < RP
  <2>1. s * P + P <= R * P  BY <1>3, <1>6, MultiplesApart
  <2>2. QED  BY <1>6, <2>1
(* so k D lies between (q - 1) P and (q + 1) P *)
<1>10. kDR < qRP + RP /\ qRP - RP < kDR
  BY <1>6, <1>7, <1>8, <1>9
<1>11. qRP + RP = ((q + 1) * P) * R /\ qRP - RP = ((q - 1) * P) * R
  BY <1>3, <1>6
<1>12. (q + 1) * P \in Int /\ (q - 1) * P \in Int  BY <1>3
<1>13. k * D < (q + 1) * P
  BY <1>4, <1>10, <1>11, <1>12, ProductCancel
<1>14. (q - 1) * P < k * D
  BY <1>4, <1>10, <1>11, <1>12, ProductCancel
<1>15. p * P \in Int  BY <1>5
<1>16. ~(q + 1 <= p)
  <2>1. q + 1 <= p => (q + 1) * P <= p * P  BY <1>3, <1>5, ProductMonotone
  <2>2. QED  BY <1>5, <1>6, <1>12, <1>13, <1>15, <2>1
<1>17. ~(p < q - 1)
  <2>1. p < q - 1 => p * P + P <= (q - 1) * P  BY <1>3, <1>5, MultiplesApart
  <2>2. QED  BY <1>4, <1>5, <1>6, <1>12, <1>14, <1>15, <2>1
<1>18. p \in {q - 1, q}  BY <1>3, <1>5, <1>16, <1>17
<1>19. QED  BY <1>18 DEF p, q, D

-----------------------------------------------------------------------------
(* The schedule is a multiple of the rounded period, and there are never   *)
(* more periods than the fixed point has precision.                        *)
OnSchedule == bench = "throttled" => i \in 0 .. ONE /\ schedule_q32 = i * dt_q32

(* The clamp bounds the number of items of the throttled program. *)
LEMMA ItemsBounded ==
    ASSUME bench = "throttled"
    PROVE  n \in Int /\ n <= ONE
<1> DEFINE x == SaturatingMul(RATE, TARGET_SECS)
<1>1. RATE * TARGET_SECS \in Nat  BY ProductNat, SpscBenchAssumption
<1>2. x \in Nat  BY <1>1, SpscBenchAssumption DEF SaturatingMul
<1>3. n = Clamp(x, MIN_N, MAX_N)  BY DEF n
<1> HIDE DEF x
<1>4. QED  BY <1>2, <1>3, SpscBenchAssumption DEF Clamp

(* The period is a natural number of fractions of a tick. *)
LEMMA PeriodNat == dt_q32 \in Nat
<1>1. TSC_HZ * ONE \in Nat  BY ProductNat, SpscBenchAssumption
<1>2. QED  BY <1>1, DivNat, SpscBenchAssumption, Zenon DEF dt_q32

(* Only the producer's turn to its next item moves the schedule. *)
LEMMA ScheduleMoves ==
    ASSUME [BenchNext]_allVars
    PROVE  NextItem \/ UNCHANGED <<bench, i, schedule_q32>>
<1> USE DEF setup, producerCounters, counters, benchVars
<1>1. ASSUME ProducerThread PROVE NextItem \/ UNCHANGED <<bench, i, schedule_q32>>
  BY <1>1 DEF ProducerThread, ProducerPin, TryPush, InTryPush, TryPushWrite, TryPushOk,
              OtherTryPush, StoreDone, ProducerReturns
<1>2. ASSUME ConsumerThread PROVE UNCHANGED <<bench, i, schedule_q32>>
  BY <1>2 DEF ConsumerThread, ConsumerPin, TryPop, PopEmpty, TryPopTake, TryPopSome,
              OtherTryPop, CheckDone, CheckDoneAt, ConsumerReturns
<1>3. ASSUME MainThread PROVE UNCHANGED <<bench, i, schedule_q32>>
  BY <1>3 DEF MainThread, MainWait, JoinProducer, JoinConsumer
<1>4. ASSUME ProducerPinFails \/ ConsumerPinFails \/ DropQueue
      PROVE  UNCHANGED <<bench, i, schedule_q32>>
  BY <1>4 DEF ProducerPinFails, ConsumerPinFails, DropQueue
<1>5. ASSUME UNCHANGED allVars PROVE UNCHANGED <<bench, i, schedule_q32>>
  BY <1>5 DEF allVars
<1>6. QED  BY <1>1, <1>2, <1>3, <1>4, <1>5 DEF BenchNext, Reported

(* The throttled producer's schedule is never late and never more than a   *)
(* tick early against the exact one, for every rate and clock frequency,   *)
(* with any number of items up to the precision of the period (2^32 in the *)
(* code).                                                                  *)
THEOREM ScheduleStaysClose == BenchSpec => []ScheduleDrift
<1>1. BenchInit => OnSchedule
  <2>1. 0 * dt_q32 = 0  BY PeriodNat
  <2>2. QED  BY <2>1, SpscBenchAssumption DEF BenchInit, OnSchedule
<1>2. OnSchedule /\ [BenchNext]_allVars => OnSchedule'
  <2> SUFFICES ASSUME OnSchedule, [BenchNext]_allVars, bench' = "throttled"
               PROVE  i' \in 0 .. ONE /\ schedule_q32' = i' * dt_q32
    BY DEF OnSchedule, dt_q32
  <2>1. CASE NextItem
    <3>1. bench = "throttled"  BY <2>1 DEF NextItem, setup
    <3>2. i \in 0 .. ONE /\ schedule_q32 = i * dt_q32  BY <3>1 DEF OnSchedule
    <3>3. i < n /\ i' = i + 1 /\ schedule_q32' = schedule_q32 + dt_q32
      BY <2>1, <3>1 DEF NextItem
    <3>4. i + 1 \in 0 .. ONE
      BY <3>1, <3>2, <3>3, ItemsBounded, SpscBenchAssumption
    <3>5. i * dt_q32 + dt_q32 = (i + 1) * dt_q32  BY <3>2, PeriodNat
    <3>6. QED  BY <3>2, <3>3, <3>4, <3>5
  <2>2. CASE UNCHANGED <<bench, i, schedule_q32>>
    BY <2>2 DEF OnSchedule
  <2>3. QED  BY <2>1, <2>2, ScheduleMoves
<1>3. OnSchedule => ScheduleDrift
  <2> SUFFICES ASSUME OnSchedule, bench = "throttled"
               PROVE  schedule_tsc \in {Ideal(i) - 1, Ideal(i)}
    BY DEF ScheduleDrift
  <2>1. i \in 0 .. ONE /\ schedule_q32 = i * dt_q32  BY DEF OnSchedule
  <2>2. (i * ((TSC_HZ * ONE) \div RATE)) \div ONE
            \in {((i * TSC_HZ) \div RATE) - 1, (i * TSC_HZ) \div RATE}
    BY <2>1, RoundedPeriods, SpscBenchAssumption, Zenon
  <2>3. QED  BY <2>1, <2>2, Zenon DEF schedule_tsc, Ideal, dt_q32
<1>4. QED  BY <1>1, <1>2, <1>3, PTL DEF BenchSpec

-----------------------------------------------------------------------------
(* The queue inside the benchmark. *)

(* Items that the producer has put in the queue. *)
Sent == IF pending THEN i - 1 ELSE i

Finished == producer \in {"returning", "returned"}

(* Where the threads are, relative to each other and to their calls. *)
Protocol ==
    /\ producer \in {"pin", "loop", "returning", "returned", "panicked"}
    /\ consumer \in {"pin", "poll", "check", "drain", "returning", "returned", "panicked"}
    /\ "P" \in arrived => producer \notin {"pin", "panicked"}
    /\ "C" \in arrived => consumer \notin {"pin", "panicked"}
    /\ main \in {"join_consumer", "report"} => producer = "returned"
    /\ main = "report" => consumer = "returned"
    /\ ppc \notin {"idle", "gone"} => producer = "loop" /\ pending
    /\ cpc \notin {"idle", "gone"} => consumer \in {"poll", "drain"}
    /\ cpc = "gone" => consumer \in {"returned", "panicked"}
    /\ Finished => i = n /\ ~pending
    /\ consumer \in {"drain", "returning", "returned"} => Finished

(* The items that have been sent are in the queue or have been seen. *)
Flow ==
    /\ i \in 0 .. n /\ pending \in BOOLEAN /\ (pending => i > 0)
    /\ seen \in Nat /\ fifo \in Nat
    /\ Ours => Newest(TAIL) - 1 = Sent /\ Newest(HEAD) - 1 = seen
    /\ ~Ours => fifo + seen = Sent /\ ppc = "idle" /\ cpc = "idle"

(* The flag is stored once, after the last item, and says so. *)
Flag ==
    /\ Newest(DONE) = IF Finished THEN 2 ELSE 1
    /\ mem[DONE][1].val = 0
    /\ Finished => mem[DONE][2].view[TAIL] = Newest(TAIL)
    /\ consumer \in {"drain", "returning", "returned"} => cur["C"][TAIL] = Newest(TAIL)

(* What the consumer has counted. *)
Samples ==
    /\ consumer \in {"returning", "returned"} => seen = n
    /\ offered = IF seen >= warmup THEN seen - warmup ELSE 0
    /\ sys_offered = IF capture_sys THEN offered ELSE 0

BenchInv == IInv /\ Protocol /\ Flow /\ Flag /\ Samples

(* The flag is a location of its own. *)
LEMMA FlagLoc == DONE \in Sync /\ DONE \in Loc /\ DONE # TAIL /\ DONE # HEAD
BY SpscBenchAssumption DEF DONE, Sync, Loc, Client, HEAD, TAIL

(* Storing the flag keeps the queue's invariant: the message says what the *)
(* producer knows.                                                         *)
LEMMA StoreFlag ==
    ASSUME IInv, StoreDone
    PROVE  /\ IInv' /\ Newest(DONE)' = Newest(DONE) + 1
           /\ mem'[TAIL] = mem[TAIL] /\ mem'[HEAD] = mem[HEAD]
           /\ cur'["C"] = cur["C"]
           /\ Newest(DONE) = 1 => /\ mem'[DONE][1] = mem[DONE][1]
                                  /\ mem'[DONE][2].view[TAIL] = Newest(TAIL)
<1>1. /\ ppc = "idle" /\ Store("P", DONE, 1, "Release", "None")
      /\ UNCHANGED <<ppc, p_cached_head, p_cached_tail, cpc, c_cached_head, c_cached_tail>>
      /\ UNCHANGED <<overflow_checks, arc, dropper, written, popped, dropped, lost>>
  BY DEF StoreDone, LastPushed, DoneStoreOrdering, producerVars, consumerVars, dropVars, ghostVars
<1>2. /\ Newest(DONE) \in Nat /\ Newest(TAIL) \in Nat /\ Newest(HEAD) \in Nat
      /\ MemoryOK(Loc, Thread) /\ cur["P"] \in Views(Loc) /\ cur["P"][DONE] <= Newest(DONE)
      /\ cur["P"][TAIL] = Newest(TAIL)
  BY FlagLoc, LocFacts, MessageFacts
     DEF IInv, TypeOK, MemoryOK, Counts, ViewsCoherent, Coherent, Bounded
<1>3. /\ \A k \in Loc : k # DONE => mem'[k] = mem[k] /\ Newest(k)' = Newest(k)
      /\ Newest(DONE)' = Newest(DONE) + 1
      /\ \A t \in 1 .. Newest(DONE) : mem'[DONE][t] = mem[DONE][t]
      /\ mem'[DONE][Newest(DONE) + 1].view = cur'["P"]
      /\ cur' = [cur EXCEPT !["P"] = [cur["P"] EXCEPT ![DONE] = Newest(DONE) + 1]]
  <2>1. PICK th \in Thread, l \in Loc, val \in Nat : th = "P" /\ l = DONE /\ val = 1
    BY FlagLoc, LocFacts
  <2>2. Store(th, l, val, "Release", "None") /\ cur[th][l] <= Newest(l)  BY <1>1, <1>2, <2>1
  <2>3. /\ \A k \in Loc : k # l => mem'[k] = mem[k] /\ Newest(k)' = Newest(k)
        /\ Newest(l)' = Newest(l) + 1
        /\ \A t \in 1 .. Newest(l) : mem'[l][t] = mem[l][t]
        /\ mem'[l][Newest(l) + 1].view = cur'[th]
        /\ cur' = [cur EXCEPT ![th] = [cur[th] EXCEPT ![l] = Newest(l) + 1]]
    BY <1>2, <2>2, StoreView
  <2>4. QED  BY <2>1, <2>3
<1>4. Pushed' = Pushed /\ Popped' = Popped
  BY <1>1, <1>3, FlagLoc, LocFacts DEF Pushed, Popped
<1>5. PICK w \in Views(Loc) : w = [cur["P"] EXCEPT ![DONE] = Newest(DONE) + 1]
  <2>1. Newest(DONE) + 1 \in Nat \ {0}  BY <1>2
  <2>2. [cur["P"] EXCEPT ![DONE] = Newest(DONE) + 1] \in Views(Loc)
    BY <1>2, <2>1 DEF Views
  <2>3. QED  BY <2>2
<1>6. \A k \in Loc : k # DONE => w[k] = cur["P"][k]  BY <1>2, <1>5 DEF Views
<1>7. \A q \in Int : Knows(cur["P"], q) => Knows(w, q)
  BY <1>6, LocFacts, FlagLoc DEF Knows
<1>8. KnowsItems(w) /\ KnowsHoles(w)
  <2>1. w[TAIL] = cur["P"][TAIL] /\ w[HEAD] = cur["P"][HEAD]  BY <1>6, LocFacts, FlagLoc
  <2>2. cur["P"][TAIL] \in Nat /\ cur["P"][HEAD] \in Nat  BY <1>2, LocFacts DEF Views
  <2>3. KnowsItems(cur["P"]) /\ KnowsHoles(cur["P"])
    BY LocFacts DEF IInv, ViewsCoherent, Coherent
  <2>4. TakenOut \in Nat /\ Pushed \in Nat /\ CAPACITY \in Nat  BY Order
  <2>5. KnowsItems(w)  BY <1>7, <2>1, <2>2, <2>3, <2>4 DEF KnowsItems
  <2>6. KnowsHoles(w)  BY <1>7, <2>1, <2>2, <2>3, <2>4 DEF KnowsHoles
  <2>7. QED  BY <2>5, <2>6
<1>9. /\ MemoryOK(Loc, Thread)'
      /\ mem'[HEAD] \in Seq(IndexMessage) /\ mem'[TAIL] \in Seq(IndexMessage)
      /\ cur'["P"] = w /\ cur'["C"] = cur["C"]
      /\ Counts' /\ ViewsCoherent' /\ Contents' /\ Accounts'
  BY <1>1, <1>4, <1>5, <1>8, FlagLoc, LocFacts, CounterStore
<1>10. TypeOK'  BY <1>1, <1>9 DEF IInv, TypeOK
<1>11. Handles'  BY <1>1, <1>9, HandlesAlive
<1>12. Cached'
  <2>1. PICK h \in Nat : CachedHead(h)  BY DEF IInv, Cached
  <2>2. PICK t \in Nat : CachedTail(t)  BY DEF IInv, Cached
  <2>3. cur'["P"][HEAD] = cur["P"][HEAD]  BY <1>6, <1>9, LocFacts, FlagLoc
  <2>4. CachedHead(h)'  BY <1>1, <1>4, <2>1, <2>3 DEF CachedHead
  <2>5. CachedTail(t)'  BY <1>1, <1>4, <1>9, <2>2 DEF CachedTail
  <2>6. QED  BY <2>4, <2>5 DEF Cached
<1>13. IInv'  BY <1>9, <1>10, <1>11, <1>12 DEF IInv
<1>14. mem'[TAIL] = mem[TAIL] /\ mem'[HEAD] = mem[HEAD]  BY <1>3, FlagLoc, LocFacts
<1>15. ASSUME Newest(DONE) = 1
       PROVE  mem'[DONE][1] = mem[DONE][1] /\ mem'[DONE][2].view[TAIL] = Newest(TAIL)
  <2>1. w[TAIL] = Newest(TAIL)  BY <1>2, <1>6, FlagLoc, LocFacts
  <2>2. QED  BY <1>3, <1>9, <1>15, <2>1
<1>16. QED  BY <1>3, <1>9, <1>13, <1>14, <1>15

(* Loading the flag keeps it too; a consumer that sees the flag knows what *)
(* its message says.                                                       *)
LEMMA LoadFlag ==
    ASSUME IInv, NEW t, CheckDoneAt(t), cpc = "idle"
    PROVE  /\ IInv' /\ mem' = mem /\ t \in 1 .. Newest(DONE)
           /\ cur'["C"][TAIL] >= cur["C"][TAIL]
           /\ cur'["C"][TAIL] >= mem[DONE][t].view[TAIL]
<1>1. /\ Load("C", DONE, t, "Acquire", "None")
      /\ UNCHANGED <<ppc, p_cached_head, p_cached_tail, cpc, c_cached_head, c_cached_tail>>
      /\ UNCHANGED <<overflow_checks, arc, dropper, written, popped, dropped, lost>>
  BY DEF CheckDoneAt, DoneLoadOrdering, producerVars, consumerVars, dropVars, ghostVars
<1>2. /\ MemoryOK(Loc, Thread)' /\ mem' = mem /\ t \in 1 .. Newest(DONE)
      /\ \A u \in Thread \ {"C"} : cur'[u] = cur[u]
      /\ \E c \in [Thread -> Views(Loc)], a \in Views(Loc) :
            /\ cur' = c /\ arc'.view = a /\ Coherent(a)
            /\ \A u \in Thread : Coherent(c[u])
            /\ \A u \in Thread : \A k \in Loc : c[u][k] >= cur[u][k]
  BY <1>1, LocFacts, FlagLoc, CounterLoad
<1>3. Pushed' = Pushed /\ Popped' = Popped
  BY <1>1, <1>2 DEF Pushed, Popped, Newest
<1>4. TypeOK'  BY <1>1, <1>2 DEF IInv, TypeOK
<1>5. lost' = (IF dropper'.pc \in {"free", "freed"} THEN TakenOut ELSE Pushed) + 1 .. written
  BY <1>1 DEF IInv, Accounts
<1>6. Counts' /\ ViewsCoherent' /\ Contents' /\ Accounts'
  BY <1>1, <1>2, <1>3, <1>5, QuietStep
<1>7. Handles'  BY <1>1, <1>2, LocFacts, HandlesAlive
<1>8. cur'["C"][TAIL] >= cur["C"][TAIL]  BY <1>2, LocFacts
<1>9. Cached'
  <2>1. PICK h \in Nat : CachedHead(h)  BY DEF IInv, Cached
  <2>2. PICK u \in Nat : CachedTail(u)  BY DEF IInv, Cached
  <2>3. CachedHead(h)'  BY <1>1, <1>2, <1>3, <2>1, LocFacts DEF CachedHead
  <2>4. cur["C"][TAIL] \in Nat /\ cur'["C"][TAIL] \in Nat
    BY <1>2, LocFacts DEF IInv, TypeOK, MemoryOK, Views
  <2>5. CachedTail(u)'  BY <1>1, <1>3, <1>8, <2>2, <2>4 DEF CachedTail
  <2>6. QED  BY <2>3, <2>5 DEF Cached
<1>10. cur'["C"][TAIL] >= mem[DONE][t].view[TAIL]
  <2>1. MemoryOK(Loc, Thread)  BY DEF IInv, TypeOK
  <2>2. t \in 1 .. Newest(DONE) => mem[DONE][t].view[DONE] = t
    BY FlagLoc DEF IInv, ViewsCoherent
  <2>3. cur' = [cur EXCEPT !["C"] = Join(cur["C"], mem[DONE][t].view)]
    BY <1>1, <2>1, <2>2, FlagLoc, LocFacts, AcquireLoadView
  <2>4. mem[DONE][t].view \in Views(Loc) /\ cur["C"] \in Views(Loc)
    BY <1>2, <2>1, FlagLoc, LocFacts, MessageFacts DEF MemoryOK
  <2>5. Join(cur["C"], mem[DONE][t].view)[TAIL] >= mem[DONE][t].view[TAIL]
    BY <2>4, LocFacts, JoinFacts
  <2>6. cur'["C"] = Join(cur["C"], mem[DONE][t].view)  BY <2>1, <2>3, LocFacts DEF MemoryOK
  <2>7. QED  BY <2>5, <2>6
<1>11. IInv'  BY <1>4, <1>6, <1>7, <1>9 DEF IInv
<1>12. QED  BY <1>2, <1>8, <1>10, <1>11

(* What a step leaves of the locations that the benchmark looks at. *)
SyncKept == \A l \in Sync : mem'[l] = mem[l]
TailKept == cur'["C"][TAIL] >= cur["C"][TAIL]

(* A step of push, pop or drop that touches only a slot, or nothing. *)
LEMMA SlotAccess ==
    ASSUME IInv, NEW th \in Thread, NEW q \in Int, NEW val \in Nat,
           Store(th, SlotOf(q), val, "Relaxed", "None")
    PROVE  SyncKept /\ TailKept
<1>1. PICK l \in Loc : l = SlotOf(q) /\ l \notin Sync  BY LocFacts
<1>2. /\ \A k \in Sync : mem'[k] = mem[k]
      /\ \A k \in Loc : k # l => cur'[th][k] = cur[th][k]
      /\ \A u \in Thread : u # th => cur'[u] = cur[u]
  BY <1>1, SlotStore
<1>3. cur'["C"][TAIL] = cur["C"][TAIL]  BY <1>1, <1>2, LocFacts
<1>4. cur["C"][TAIL] \in Nat  BY LocFacts DEF IInv, TypeOK, MemoryOK, Views
<1>5. QED  BY <1>2, <1>3, <1>4 DEF SyncKept, TailKept

(* Every step of the queue but the two stores keeps head, tail and flag. *)
LEMMA QueueKeeps ==
    ASSUME IInv, [Next]_vars, ~PushStore, ~PopStore
    PROVE  SyncKept /\ TailKept
<1> USE DEF SyncKept, TailKept
<1>1. /\ MemoryOK(Loc, Thread) /\ cur["C"][TAIL] \in Nat /\ dropper.th \in Thread
      /\ written \in Nat /\ p_cached_tail \in Int /\ c_cached_head \in Int
      /\ dropper.head \in Int /\ dropper.k \in Int
  <2>1. MemoryOK(Loc, Thread) /\ dropper.th \in Thread /\ written \in Nat  BY DEF IInv, TypeOK
  <2>2. cur["C"][TAIL] \in Nat  BY <2>1, LocFacts DEF MemoryOK, Views
  <2>3. p_cached_tail \in Usize /\ c_cached_head \in Usize /\ dropper.head \in Usize
    BY DEF IInv, TypeOK
  <2>4. dropper.k \in Nat  BY DEF IInv, TypeOK
  <2>5. QED  BY <2>1, <2>2, <2>3, <2>4, SpscAssumption DEF Usize
<1>2. CASE UNCHANGED memVars  BY <1>1, <1>2 DEF memVars
<1>3. CASE StillFull
  <2>1. PICK t : Load("P", HEAD, t, "Acquire", "None") /\ arc' = arc
    BY <1>3 DEF StillFull, StillFullAt, HeadLoadOrdering, dropVars
  <2>2. mem' = mem /\ \A u \in Thread \ {"P"} : cur'[u] = cur[u]
    BY <2>1, LocFacts, CounterLoad
  <2>3. QED  BY <1>1, <2>2, LocFacts
<1>4. CASE StillEmpty
  <2>1. PICK t : Load("C", TAIL, t, "Acquire", "None") /\ arc' = arc
    BY <1>4 DEF StillEmpty, StillEmptyAt, TailLoadOrdering, dropVars
  <2>2. mem' = mem /\ \A k \in Loc : cur'["C"][k] >= cur["C"][k]
    BY <2>1, LocFacts, CounterLoad
  <2>3. QED  BY <2>2, LocFacts
<1>5. CASE PushWrite
  <2>1. Store("P", SlotOf(p_cached_tail), written + 1, "Relaxed", "None") /\ written + 1 \in Nat
    BY <1>1, <1>5 DEF PushWrite
  <2>2. QED  BY <1>1, <2>1, LocFacts, SlotAccess
<1>6. CASE PopRead
  <2>1. Store("C", SlotOf(c_cached_head), 0, "Relaxed", "None") /\ 0 \in Nat
    BY <1>6 DEF PopRead
  <2>2. QED  BY <1>1, <2>1, LocFacts, SlotAccess
<1>7. CASE DropProducer \/ DropConsumer
  <2>1. PICK th \in Thread : DropHandle(th)  BY <1>7, LocFacts DEF DropProducer, DropConsumer
  <2>2. /\ mem' = mem
        /\ cur' = cur \/ cur' = [cur EXCEPT ![th] = Join(cur[th], arc.view)]
    BY <2>1 DEF DropHandle
  <2>3. cur[th] \in Views(Loc) /\ arc.view \in Views(Loc) /\ cur \in [Thread -> Views(Loc)]
    BY <1>1 DEF MemoryOK, IInv, TypeOK
  <2>4. Join(cur[th], arc.view)[TAIL] >= cur[th][TAIL]  BY <2>3, LocFacts, JoinFacts
  <2>5. QED  BY <1>1, <2>2, <2>3, <2>4, LocFacts
<1>8. CASE DropLoadHead \/ DropLoadTail
  <2>1. PICK l \in {HEAD, TAIL} :
           dropper.pc # "alive" /\ \E t : Load(dropper.th, l, t, "Relaxed", "None")
    BY <1>8 DEF DropLoadHead, DropLoadTail
  <2>2. cur[dropper.th][l] = Newest(l)  BY <2>1 DEF IInv, Handles
  <2>3. PICK t : Load(dropper.th, l, t, "Relaxed", "None")  BY <2>1
  <2>4. mem' = mem /\ cur' = cur  BY <1>1, <2>2, <2>3, LocFacts, NewestLoad
  <2>5. QED  BY <1>1, <2>4
<1>9. ASSUME NEW panics \in BOOLEAN, DropItem(panics) PROVE SyncKept /\ TailKept
  <2>1. PICK q \in Int : Store(dropper.th, SlotOf(q), 0, "Relaxed", "None")
    <3>1. (dropper.head + dropper.k) % WORD \in Int  BY <1>1, SpscAssumption
    <3>2. QED  BY <1>9, <3>1 DEF DropItem, DropSlot
  <2>2. QED  BY <1>1, <2>1, SlotAccess
<1>10. CASE DropFree \/ Push \/ Pop \/ Terminated \/ UNCHANGED vars
  BY <1>2, <1>10 DEF DropFree, Push, Pop, Terminated, vars
<1>11. QED
  BY <1>3, <1>4, <1>5, <1>6, <1>7, <1>8, <1>9, <1>10 DEF Next, InPush, InPop, InDrop

(* tail.store hands one more item over, ... *)
LEMMA TailGrows ==
    ASSUME IInv, PushStore
    PROVE  /\ Newest(TAIL)' = Newest(TAIL) + 1
           /\ \A l \in Sync : l # TAIL => mem'[l] = mem[l] /\ Newest(l)' = Newest(l)
<1>1. PICK th \in Thread, l \in Loc, val \in Nat : th = "P" /\ l = TAIL /\ val = p_cached_tail
  BY LocFacts, SpscAssumption DEF IInv, TypeOK, Usize
<1>2. MemoryOK(Loc, Thread) /\ cur[th][l] <= Newest(l)
  BY DEF IInv, TypeOK, ViewsCoherent, Coherent, Bounded
<1>3. Store(th, l, val, "Release", "None")  BY <1>1 DEF PushStore, TailStoreOrdering
<1>4. /\ Newest(l)' = Newest(l) + 1
      /\ \A k \in Loc : k # l => mem'[k] = mem[k] /\ Newest(k)' = Newest(k)
  BY <1>2, <1>3, StoreView
<1>5. QED  BY <1>1, <1>4, LocFacts

(* ... and head.store gives one slot back. *)
LEMMA HeadGrows ==
    ASSUME IInv, PopStore
    PROVE  /\ Newest(HEAD)' = Newest(HEAD) + 1
           /\ \A l \in Sync : l # HEAD => mem'[l] = mem[l] /\ Newest(l)' = Newest(l)
           /\ TailKept
<1>1. PICK th \in Thread, l \in Loc, val \in Nat : th = "C" /\ l = HEAD /\ val = c_cached_head
  BY LocFacts, SpscAssumption DEF IInv, TypeOK, Usize
<1>2. MemoryOK(Loc, Thread) /\ cur[th][l] <= Newest(l)
  BY DEF IInv, TypeOK, ViewsCoherent, Coherent, Bounded
<1>3. Store(th, l, val, "Release", "None")  BY <1>1 DEF PopStore, HeadStoreOrdering
<1>4. /\ Newest(l)' = Newest(l) + 1
      /\ \A k \in Loc : k # l => mem'[k] = mem[k] /\ Newest(k)' = Newest(k)
      /\ cur' = [cur EXCEPT ![th] = [cur[th] EXCEPT ![l] = Newest(l) + 1]]
  BY <1>2, <1>3, StoreView
<1>5. cur \in [Thread -> Views(Loc)] /\ cur[th] \in [Loc -> Nat \ {0}]
  BY <1>2 DEF MemoryOK, Views
<1>6. cur'["C"][TAIL] = cur["C"][TAIL] /\ cur["C"][TAIL] \in Nat  BY <1>1, <1>4, <1>5, LocFacts
<1>7. QED  BY <1>1, <1>4, <1>6, LocFacts DEF TailKept

-----------------------------------------------------------------------------
(* The benchmark's threads. *)

(* The configuration of a run does not change, and its numbers make sense. *)
LEMMA SetupFacts ==
    ASSUME bench' = bench, impl' = impl
    PROVE  n' = n /\ warmup' = warmup /\ Ours' = Ours
<1>1. n' = n  BY DEF n, Clamp, SaturatingMul
<1>2. QED  BY <1>1 DEF warmup, Ours, OursSpsc, Adapter

LEMMA ItemsNat == n \in Nat /\ warmup \in Nat /\ warmup <= n
<1> DEFINE x == SaturatingMul(RATE, TARGET_SECS)
<1>1. RATE * TARGET_SECS \in Nat  BY ProductNat, SpscBenchAssumption
<1>2. x \in Nat  BY <1>1, SpscBenchAssumption DEF SaturatingMul
<1>3. Clamp(x, MIN_N, MAX_N) \in Nat
  <2> HIDE DEF x
  <2>1. QED  BY <1>2, SpscBenchAssumption DEF Clamp
<1>4. n \in Nat  BY <1>3, SpscBenchAssumption DEF n
<1>5. CASE bench = "handoff"  BY <1>4, <1>5, SpscBenchAssumption DEF n, warmup
<1>6. CASE bench # "handoff"
  <2>1. PICK k \in Nat, d \in Nat \ {0} : k = n /\ d = WARMUP_DIVISOR
    BY <1>4, SpscBenchAssumption
  <2>2. k \div d \in Nat /\ k % d \in 0 .. d - 1 /\ k = (k \div d) * d + (k % d)
    BY <2>1, QuotientRemainder
  <2>3. (k \div d) * 1 <= (k \div d) * d
    BY <2>2
  <2>4. k \div d <= k  BY <2>2, <2>3
  <2>5. warmup = k \div d  BY <1>6, <2>1 DEF warmup
  <2>6. QED  BY <1>4, <2>1, <2>2, <2>4, <2>5
<1>7. QED  BY <1>4, <1>5, <1>6

(* A step that leaves the tail and the flag alone leaves what the threads  *)
(* know of them.                                                           *)
LEMMA FlagFrame ==
    ASSUME BenchInv, IInv', mem'[DONE] = mem[DONE], mem'[TAIL] = mem[TAIL], TailKept,
           Finished' = Finished,
           consumer' \in {"drain", "returning", "returned"} =>
              consumer \in {"drain", "returning", "returned"}
    PROVE  Flag'
<1>1. Newest(DONE)' = Newest(DONE) /\ Newest(TAIL)' = Newest(TAIL)  BY DEF Newest
<1>2. /\ cur["C"][TAIL] \in Nat /\ cur'["C"][TAIL] \in Nat
      /\ cur'["C"][TAIL] <= Newest(TAIL)' /\ cur'["C"][TAIL] >= cur["C"][TAIL]
      /\ Newest(TAIL) \in Nat
  <2>1. cur["C"][TAIL] \in Nat  BY LocFacts DEF BenchInv, IInv, TypeOK, MemoryOK, Views
  <2>2. cur'["C"][TAIL] \in Nat  BY LocFacts DEF IInv, TypeOK, MemoryOK, Views
  <2>3. cur'["C"][TAIL] <= Newest(TAIL)'
    BY LocFacts DEF IInv, ViewsCoherent, Coherent, Bounded
  <2>4. Newest(TAIL) \in Nat  BY Order DEF BenchInv
  <2>5. QED  BY <2>1, <2>2, <2>3, <2>4 DEF TailKept
<1>3. cur["C"][TAIL] = Newest(TAIL) => cur'["C"][TAIL] = Newest(TAIL)'  BY <1>1, <1>2
<1>4. QED  BY <1>1, <1>3 DEF BenchInv, Flag

(* A step of the threads that does not touch the queue or the flag: what   *)
(* the memory looks like stays, and Flag with it.                          *)
LEMMA BesideFrame ==
    ASSUME BenchInv, UNCHANGED vars, Finished' = Finished,
           consumer' \in {"drain", "returning", "returned"} =>
              consumer \in {"drain", "returning", "returned"}
    PROVE  /\ IInv' /\ Flag' /\ ppc' = ppc /\ cpc' = cpc
           /\ Newest(TAIL)' = Newest(TAIL) /\ Newest(HEAD)' = Newest(HEAD)
<1>1. mem' = mem /\ cur' = cur /\ ppc' = ppc /\ cpc' = cpc
  BY DEF vars, memVars, producerVars, consumerVars
<1>2. IInv'  BY NextIInv DEF BenchInv
<1>3. TailKept
  <2>1. cur["C"][TAIL] \in Nat  BY LocFacts DEF BenchInv, IInv, TypeOK, MemoryOK, Views
  <2>2. QED  BY <1>1, <2>1 DEF TailKept
<1>4. Flag'  BY <1>1, <1>2, <1>3, FlagFrame
<1>5. QED  BY <1>1, <1>2, <1>4 DEF Newest

(* Pinning, the barrier and the joins. *)
LEMMA PinJoinStep ==
    ASSUME BenchInv,
           \/ ProducerPin \/ ConsumerPin \/ MainWait \/ JoinProducer
           \/ \E late \in BOOLEAN : JoinConsumer(late)
    PROVE  BenchInv'
<1>1. /\ UNCHANGED vars
      /\ UNCHANGED <<bench, capture_sys, impl, fifo, i, pending, seen, offered, sys_offered>>
  BY DEF ProducerPin, ConsumerPin, MainWait, JoinProducer, JoinConsumer, setup, counters,
         producerCounters, consumerCounters
<1> DEFINE Moves ==
             /\ \/ UNCHANGED producer
                \/ producer = "pin" /\ producer' = "loop"
             /\ \/ UNCHANGED consumer
                \/ consumer = "pin" /\ consumer' = "poll"
             /\ "P" \in arrived' => "P" \in arrived \/ producer' = "loop"
             /\ "C" \in arrived' => "C" \in arrived \/ consumer' = "poll"
             /\ main' \in {"join_consumer", "report"} =>
                   main \in {"join_consumer", "report"} \/ producer = "returned"
             /\ main' = "report" => main = "report" \/ consumer = "returned"
<1>2. Moves
  <2>1. CASE ProducerPin  BY <2>1 DEF ProducerPin
  <2>2. CASE ConsumerPin  BY <2>2 DEF ConsumerPin
  <2>3. CASE MainWait  BY <2>3 DEF MainWait
  <2>4. CASE JoinProducer  BY <2>4 DEF JoinProducer
  <2>5. ASSUME NEW late \in BOOLEAN, JoinConsumer(late) PROVE Moves
    BY <2>5 DEF JoinConsumer
  <2>6. QED  BY <2>1, <2>2, <2>3, <2>4, <2>5
<1>3. n' = n /\ warmup' = warmup /\ Ours' = Ours /\ Sent' = Sent
  BY <1>1, SetupFacts DEF Sent
<1>4. Finished' = Finished  BY <1>2 DEF Finished
<1>5. /\ IInv' /\ Flag' /\ ppc' = ppc /\ cpc' = cpc
      /\ Newest(TAIL)' = Newest(TAIL) /\ Newest(HEAD)' = Newest(HEAD)
  BY <1>1, <1>2, <1>4, BesideFrame
<1>6. Protocol'  BY <1>1, <1>2, <1>3, <1>4, <1>5 DEF BenchInv, Protocol, Finished
<1>7. Flow'  BY <1>1, <1>3, <1>5 DEF BenchInv, Flow
<1>8. Samples'  BY <1>1, <1>2, <1>3 DEF BenchInv, Samples
<1>9. QED  BY <1>5, <1>6, <1>7, <1>8 DEF BenchInv

(* The producer takes its next item. *)
LEMMA NextItemStep ==
    ASSUME BenchInv, NextItem
    PROVE  BenchInv'
<1>1. /\ UNCHANGED vars /\ producer = "loop" /\ i < n /\ i' = i + 1 /\ ~pending /\ pending'
      /\ pending' \in BOOLEAN
      /\ UNCHANGED <<bench, capture_sys, impl, fifo, seen, offered, sys_offered>>
      /\ UNCHANGED <<main, producer, consumer, arrived>>
  BY DEF NextItem, Pushing, setup, threadVars, consumerCounters
<1>2. n' = n /\ warmup' = warmup /\ Ours' = Ours  BY <1>1, SetupFacts
<1>3. Finished' = Finished /\ ~Finished  BY <1>1 DEF Finished
<1>4. /\ IInv' /\ Flag' /\ ppc' = ppc /\ cpc' = cpc
      /\ Newest(TAIL)' = Newest(TAIL) /\ Newest(HEAD)' = Newest(HEAD)
  BY <1>1, <1>3, BesideFrame
<1>5. n \in Nat /\ i \in 0 .. n  BY ItemsNat DEF BenchInv, Flow
<1>6. Sent' = Sent /\ i' \in 0 .. n /\ i' > 0  BY <1>1, <1>5 DEF Sent
<1>7. Protocol'  BY <1>1, <1>2, <1>3, <1>4 DEF BenchInv, Protocol, Finished
<1>8. Flow'  BY <1>1, <1>2, <1>4, <1>6 DEF BenchInv, Flow
<1>9. Samples'  BY <1>1, <1>2 DEF BenchInv, Samples
<1>10. QED  BY <1>4, <1>7, <1>8, <1>9 DEF BenchInv

(* One more sample is counted. *)
LEMMA RecordStep ==
    ASSUME BenchInv, OfferSample, UNCHANGED <<bench, impl, capture_sys, consumer>>,
           consumer \notin {"returning", "returned"}
    PROVE  Samples' /\ seen' = seen + 1 /\ seen' \in Nat
<1>1. n' = n /\ warmup' = warmup  BY SetupFacts
<1>2. seen \in Nat /\ warmup \in Nat  BY ItemsNat DEF BenchInv, Flow
<1>3. QED  BY <1>1, <1>2 DEF BenchInv, Samples, OfferSample, Warm

(* try_push and try_pop of another crate's queue: an item goes in or out;  *)
(* a consumer that saw the flag and finds the queue empty has seen all.    *)
LEMMA OtherQueueStep ==
    ASSUME BenchInv, OtherTryPush \/ OtherTryPop
    PROVE  BenchInv'
<1>1. /\ ~Ours /\ UNCHANGED vars /\ UNCHANGED <<bench, capture_sys, impl, i>>
      /\ UNCHANGED <<main, producer, arrived>>
  BY DEF OtherTryPush, OtherTryPop, threadVars, producerCounters
<1>2. n' = n /\ warmup' = warmup /\ Ours' = Ours  BY <1>1, SetupFacts
<1>3. Finished' = Finished  BY <1>1 DEF Finished
<1>4. /\ n \in Nat /\ i \in 0 .. n /\ pending \in BOOLEAN /\ (pending => i > 0)
      /\ seen \in Nat /\ fifo \in Nat /\ fifo + seen = Sent
  BY <1>1, ItemsNat DEF BenchInv, Flow
<1>5. CASE OtherTryPush
  <2>1. /\ producer = "loop" /\ pending /\ pending' \in BOOLEAN
        /\ \/ fifo' = fifo + 1 /\ ~pending'
           \/ fifo' = fifo /\ pending'
        /\ UNCHANGED <<consumer, seen, offered, sys_offered>>
    BY <1>5 DEF OtherTryPush, Pushing, threadVars, consumerCounters
  <2>2. /\ IInv' /\ Flag' /\ ppc' = ppc /\ cpc' = cpc
    BY <1>1, <1>3, <2>1, BesideFrame
  <2>3. fifo' \in Nat /\ fifo' + seen' = Sent'  BY <1>1, <1>4, <2>1 DEF Sent
  <2>4. ~Finished  BY <2>1 DEF Finished
  <2>5. Protocol'  BY <1>1, <1>2, <1>3, <2>1, <2>2, <2>4 DEF BenchInv, Protocol, Flow
  <2>6. Flow'  BY <1>1, <1>2, <1>4, <2>1, <2>2, <2>3 DEF BenchInv, Flow
  <2>7. Samples'  BY <1>1, <1>2, <2>1 DEF BenchInv, Samples
  <2>8. QED  BY <2>2, <2>5, <2>6, <2>7 DEF BenchInv
<1>6. CASE OtherTryPop
  <2>1. consumer \in {"poll", "drain"} /\ UNCHANGED pending
    BY <1>6 DEF OtherTryPop, Popping, producerCounters
  <2>2. \/ /\ fifo > 0 /\ fifo' = fifo - 1 /\ OfferSample /\ UNCHANGED consumer
        \/ /\ fifo = 0 /\ fifo' = 0 /\ consumer' = IF consumer = "poll" THEN "check" ELSE "returning"
           /\ UNCHANGED <<seen, offered, sys_offered>>
    BY <1>6 DEF OtherTryPop, WhenEmpty, consumerCounters
  <2>3. consumer' \in {"drain", "returning", "returned"} =>
           consumer \in {"drain", "returning", "returned"}
    BY <2>1, <2>2
  <2>4. IInv' /\ Flag' /\ ppc' = ppc /\ cpc' = cpc  BY <1>1, <1>3, <2>3, BesideFrame
  <2>5. Sent' = Sent  BY <1>1, <2>1 DEF Sent
  <2>6. consumer = "drain" => Sent = n  BY DEF BenchInv, Protocol, Sent
  <2>7. CASE fifo > 0
    <3>1. Samples' /\ seen' = seen + 1 /\ seen' \in Nat /\ fifo' = fifo - 1 /\ UNCHANGED consumer
      BY <1>1, <2>1, <2>2, <2>7, RecordStep
    <3>2. Protocol'
      BY <1>1, <1>2, <1>3, <2>1, <2>4, <3>1 DEF BenchInv, Protocol
    <3>3. Flow'  BY <1>1, <1>2, <1>4, <2>1, <2>4, <2>5, <2>7, <3>1 DEF BenchInv, Flow
    <3>4. QED  BY <2>4, <3>1, <3>2, <3>3 DEF BenchInv
  <2>8. CASE ~(fifo > 0)
    <3>1. /\ fifo = 0 /\ fifo' = 0 /\ UNCHANGED <<seen, offered, sys_offered>>
          /\ consumer' = IF consumer = "poll" THEN "check" ELSE "returning"
      BY <2>2, <2>8
    <3>2. Protocol'
      BY <1>1, <1>2, <1>3, <2>1, <2>4, <3>1 DEF BenchInv, Protocol, Flow
    <3>3. Flow'  BY <1>1, <1>2, <1>4, <2>1, <2>4, <2>5, <3>1 DEF BenchInv, Flow
    <3>4. Samples'  BY <1>1, <1>2, <1>4, <2>1, <2>6, <3>1 DEF BenchInv, Samples
    <3>5. QED  BY <2>4, <3>2, <3>3, <3>4 DEF BenchInv
  <2>9. QED  BY <2>7, <2>8
<1>7. QED  BY <1>5, <1>6

(* A step of the queue that publishes nothing and gives no slot back. *)
LEMMA QueueFrame ==
    ASSUME BenchInv, [Next]_vars, ~PushStore, ~PopStore,
           UNCHANGED <<bench, impl, i, pending>>, Finished' = Finished,
           consumer' \in {"drain", "returning", "returned"} =>
              consumer \in {"drain", "returning", "returned"}
    PROVE  /\ IInv' /\ Flag' /\ n' = n /\ warmup' = warmup /\ Ours' = Ours /\ Sent' = Sent
           /\ Newest(TAIL)' = Newest(TAIL) /\ Newest(HEAD)' = Newest(HEAD)
<1>1. SyncKept /\ TailKept  BY QueueKeeps DEF BenchInv
<1>2. mem'[DONE] = mem[DONE] /\ mem'[TAIL] = mem[TAIL] /\ mem'[HEAD] = mem[HEAD]
  BY <1>1, FlagLoc, LocFacts DEF SyncKept
<1>3. IInv'  BY NextIInv DEF BenchInv
<1>4. Flag'  BY <1>1, <1>2, <1>3, FlagFrame
<1>5. n' = n /\ warmup' = warmup /\ Ours' = Ours /\ Sent' = Sent  BY SetupFacts DEF Sent
<1>6. QED  BY <1>2, <1>3, <1>4, <1>5 DEF Newest

(* The steps inside try_push, try_pop and the drop of the queue before     *)
(* anything is handed over.                                                *)
LEMMA InsideStep ==
    ASSUME BenchInv,
           \/ TryPush \/ InTryPush \/ TryPushWrite \/ TryPop \/ TryPopTake \/ DropQueue
    PROVE  BenchInv'
<1>1. /\ UNCHANGED <<bench, capture_sys, impl, fifo, i, pending, seen, offered, sys_offered>>
      /\ UNCHANGED <<main, producer, consumer, arrived>>
  BY DEF TryPush, InTryPush, TryPushWrite, TryPop, TryPopTake, DropQueue, benchVars, setup,
         threadVars, counters, producerCounters, consumerCounters
<1> DEFINE Inside ==
             /\ Next /\ ~PushStore /\ ~PopStore
             /\ ppc' \notin {"idle", "gone"} => producer = "loop" /\ pending
             /\ cpc' \notin {"idle", "gone"} => consumer \in {"poll", "drain"}
             /\ cpc' = "gone" => cpc = "gone"
             /\ Ours \/ (ppc' = "idle" /\ cpc' = "idle")
<1>2. /\ ppc \notin {"idle", "gone"} => producer = "loop" /\ pending
      /\ cpc \notin {"idle", "gone"} => consumer \in {"poll", "drain"}
      /\ Ours \/ (ppc = "idle" /\ cpc = "idle")
  BY DEF BenchInv, Protocol, Flow
<1>3. Inside
  <2>1. CASE TryPush
    <3>1. Ours /\ producer = "loop" /\ pending /\ Push  BY <2>1 DEF TryPush, Pushing
    <3>2. ppc = "idle" /\ cpc' = cpc /\ ppc' # "idle"  BY <3>1 DEF Push, consumerVars
    <3>3. mem' = mem /\ ppc' # ppc  BY <3>1, <3>2 DEF Push, memVars
    <3>4. ~PushStore /\ ~PopStore  BY <3>2 DEF PushStore, PopStore, consumerVars, producerVars
    <3>5. QED  BY <1>2, <3>1, <3>2, <3>4 DEF Next
  <2>2. CASE InTryPush
    <3>1. StillFull /\ ppc = "still_full" /\ cpc' = cpc
      BY <2>2 DEF InTryPush, StillFull, StillFullAt, consumerVars
    <3>2. ~PushStore  BY <3>1 DEF PushStore
    <3>3. ~PopStore
      <4>1. ASSUME PopStore PROVE FALSE
        <5>1. cpc = "store" /\ cpc' = "idle"  BY <4>1 DEF PopStore
        <5>2. QED  BY <3>1, <5>1
      <4>2. QED  BY <4>1
    <3>4. QED  BY <1>2, <3>1, <3>2, <3>3 DEF Next, InPush
  <2>3. CASE TryPushWrite
    <3>1. PushWrite /\ ppc = "write" /\ cpc' = cpc
      BY <2>3 DEF TryPushWrite, PushWrite, consumerVars
    <3>2. ~PushStore  BY <3>1 DEF PushStore
    <3>3. ~PopStore
      <4>1. ASSUME PopStore PROVE FALSE
        <5>1. cpc = "store" /\ cpc' = "idle"  BY <4>1 DEF PopStore
        <5>2. QED  BY <3>1, <5>1
      <4>2. QED  BY <4>1
    <3>4. QED  BY <1>2, <3>1, <3>2, <3>3 DEF Next, InPush
  <2>4. CASE TryPop
    <3>1. Ours /\ consumer \in {"poll", "drain"} /\ Pop  BY <2>4 DEF TryPop, Popping
    <3>2. cpc = "idle" /\ ppc' = ppc /\ cpc' # "gone"  BY <3>1 DEF Pop, producerVars
    <3>3. ~PopStore  BY <3>2 DEF PopStore
    <3>4. ~PushStore
      <4>1. ASSUME PushStore PROVE FALSE
        <5>1. ppc = "store" /\ ppc' = "idle"  BY <4>1 DEF PushStore
        <5>2. QED  BY <3>2, <5>1
      <4>2. QED  BY <4>1
    <3>5. QED  BY <1>2, <3>1, <3>2, <3>3, <3>4 DEF Next
  <2>5. CASE TryPopTake
    <3>1. PopRead /\ cpc = "read" /\ ppc' = ppc /\ cpc' # "gone"
      BY <2>5 DEF TryPopTake, PopRead, producerVars
    <3>2. ~PopStore  BY <3>1 DEF PopStore
    <3>3. ~PushStore
      <4>1. ASSUME PushStore PROVE FALSE
        <5>1. ppc = "store" /\ ppc' = "idle"  BY <4>1 DEF PushStore
        <5>2. QED  BY <3>1, <5>1
      <4>2. QED  BY <4>1
    <3>4. QED  BY <1>2, <3>1, <3>2, <3>3 DEF Next, InPop
  <2>6. CASE DropQueue
    <3>1. InDrop /\ dropper.pc # "alive" /\ ppc' = ppc /\ cpc' = cpc
      BY <2>6 DEF DropQueue, InDrop, DropLoadHead, DropLoadTail, DropItem, DropFree,
                  producerVars, consumerVars
    <3>2. ppc = "gone" /\ cpc = "gone"  BY <3>1, DropFacts DEF BenchInv
    <3>3. ~PopStore /\ ~PushStore  BY <3>2 DEF PopStore, PushStore
    <3>4. QED  BY <1>2, <3>1, <3>2, <3>3 DEF Next
  <2>7. QED  BY <2>1, <2>2, <2>3, <2>4, <2>5, <2>6
<1>4. Finished' = Finished  BY <1>1 DEF Finished
<1>5. /\ IInv' /\ Flag' /\ n' = n /\ warmup' = warmup /\ Ours' = Ours /\ Sent' = Sent
      /\ Newest(TAIL)' = Newest(TAIL) /\ Newest(HEAD)' = Newest(HEAD)
  BY <1>1, <1>3, <1>4, QueueFrame
<1>6. Protocol'  BY <1>1, <1>3, <1>4, <1>5 DEF BenchInv, Protocol
<1>7. Flow'  BY <1>1, <1>3, <1>5 DEF BenchInv, Flow
<1>8. Samples'  BY <1>1, <1>5 DEF BenchInv, Samples
<1>9. QED  BY <1>5, <1>6, <1>7, <1>8 DEF BenchInv

(* try_push publishes the item that the producer had in hand. *)
LEMMA PushOkStep ==
    ASSUME BenchInv, TryPushOk
    PROVE  BenchInv'
<1>1. /\ PushStore /\ ppc = "store" /\ ppc' = "idle" /\ cpc' = cpc /\ ~pending'
      /\ pending' \in BOOLEAN
      /\ UNCHANGED <<bench, capture_sys, impl, fifo, i, seen, offered, sys_offered>>
      /\ UNCHANGED <<main, producer, consumer, arrived>>
  BY DEF TryPushOk, PushStore, consumerVars, setup, threadVars, consumerCounters
<1>2. producer = "loop" /\ pending /\ Ours  BY <1>1 DEF BenchInv, Protocol, Flow
<1>3. n' = n /\ warmup' = warmup /\ Ours' = Ours  BY <1>1, SetupFacts
<1>4. IInv'  BY <1>1, PushStoreStep DEF BenchInv
<1>5. /\ Newest(TAIL)' = Newest(TAIL) + 1 /\ Newest(HEAD)' = Newest(HEAD)
      /\ mem'[DONE] = mem[DONE]
  BY <1>1, FlagLoc, LocFacts, TailGrows DEF BenchInv
<1>6. ~Finished /\ ~Finished'  BY <1>1, <1>2 DEF Finished
<1>7. consumer \notin {"drain", "returning", "returned"}  BY <1>6 DEF BenchInv, Protocol
<1>8. Flag'  BY <1>1, <1>5, <1>6, <1>7 DEF BenchInv, Flag, Newest
<1>9. n \in Nat /\ i \in 0 .. n /\ Newest(TAIL) \in Nat /\ Newest(TAIL) - 1 = i - 1
  BY <1>2, ItemsNat, Order DEF BenchInv, Flow, Sent
<1>10. Sent' = i /\ Newest(TAIL)' - 1 = i  BY <1>1, <1>5, <1>9 DEF Sent
<1>11. Protocol'  BY <1>1, <1>2, <1>3, <1>6, <1>7 DEF BenchInv, Protocol
<1>12. Flow'  BY <1>1, <1>2, <1>3, <1>5, <1>10 DEF BenchInv, Flow
<1>13. Samples'  BY <1>1, <1>3 DEF BenchInv, Samples
<1>14. QED  BY <1>4, <1>8, <1>11, <1>12, <1>13 DEF BenchInv

(* try_pop hands an item to the consumer, which counts it. *)
LEMMA PopSomeStep ==
    ASSUME BenchInv, TryPopSome
    PROVE  BenchInv'
<1>1. /\ PopStore /\ cpc = "store" /\ cpc' = "idle" /\ ppc' = ppc /\ OfferSample
      /\ UNCHANGED <<bench, capture_sys, impl, fifo, i, pending>>
      /\ UNCHANGED <<main, producer, consumer, arrived>>
  BY DEF TryPopSome, PopStore, producerVars, setup, threadVars, producerCounters
<1>2. consumer \in {"poll", "drain"} /\ Ours  BY <1>1 DEF BenchInv, Protocol, Flow
<1>3. n' = n /\ warmup' = warmup /\ Ours' = Ours  BY <1>1, SetupFacts
<1>4. IInv'  BY <1>1, PopStoreStep DEF BenchInv
<1>5. /\ Newest(HEAD)' = Newest(HEAD) + 1 /\ Newest(TAIL)' = Newest(TAIL) /\ TailKept
      /\ mem'[DONE] = mem[DONE] /\ mem'[TAIL] = mem[TAIL]
  BY <1>1, FlagLoc, LocFacts, HeadGrows DEF BenchInv
<1>6. Finished' = Finished  BY <1>1 DEF Finished
<1>7. Flag'  BY <1>1, <1>4, <1>5, <1>6, FlagFrame
<1>8. Samples' /\ seen' = seen + 1 /\ seen' \in Nat  BY <1>1, <1>2, RecordStep
<1>9. seen \in Nat /\ Newest(HEAD) \in Nat /\ Newest(HEAD) - 1 = seen
  BY <1>2, Order DEF BenchInv, Flow
<1>10. Sent' = Sent /\ Newest(HEAD)' - 1 = seen'  BY <1>1, <1>5, <1>8, <1>9 DEF Sent
<1>11. Protocol'  BY <1>1, <1>2, <1>3, <1>6 DEF BenchInv, Protocol
<1>12. Flow'  BY <1>1, <1>2, <1>3, <1>5, <1>8, <1>10 DEF BenchInv, Flow
<1>13. QED  BY <1>4, <1>7, <1>8, <1>11, <1>12 DEF BenchInv

(* try_pop finds the queue empty.  After the flag this is the newest tail, *)
(* so that the consumer has seen all items.                                *)
LEMMA PopEmptyStep ==
    ASSUME BenchInv, PopEmpty
    PROVE  BenchInv'
<1>1. /\ consumer \in {"poll", "drain"} /\ StillEmpty
      /\ consumer' = IF cpc' = "idle" THEN (IF consumer = "poll" THEN "check" ELSE "returning")
                                      ELSE consumer
      /\ UNCHANGED <<bench, capture_sys, impl, fifo, i, pending, seen, offered, sys_offered>>
      /\ UNCHANGED <<main, producer, arrived>>
  BY DEF PopEmpty, Popping, WhenEmpty, setup, counters, producerCounters, consumerCounters
<1>2. PICK t : /\ Load("C", TAIL, t, "Acquire", "None") /\ cpc = "still_empty"
               /\ cpc' = IF c_cached_head = mem[TAIL][t].val THEN "idle" ELSE "read"
               /\ ppc' = ppc /\ arc' = arc
  BY <1>1 DEF StillEmpty, StillEmptyAt, TailLoadOrdering, producerVars, dropVars
<1>3. ~PushStore /\ ~PopStore
  <2>1. ~PopStore  BY <1>2 DEF PopStore
  <2>2. ASSUME PushStore PROVE FALSE
    <3>1. ppc = "store" /\ ppc' = "idle"  BY <2>2 DEF PushStore
    <3>2. QED  BY <1>2, <3>1
  <2>3. QED  BY <2>1, <2>2
<1>4. Finished' = Finished /\ Ours  BY <1>1, <1>2 DEF Finished, BenchInv, Flow
<1>5. /\ IInv' /\ Flag' /\ n' = n /\ warmup' = warmup /\ Ours' = Ours /\ Sent' = Sent
      /\ Newest(TAIL)' = Newest(TAIL) /\ Newest(HEAD)' = Newest(HEAD)
  <2>1. Next  BY <1>1 DEF Next, InPop
  <2>2. consumer' \in {"drain", "returning", "returned"} =>
           consumer \in {"drain", "returning", "returned"}
    BY <1>1
  <2>3. QED  BY <1>1, <1>3, <1>4, <2>1, <2>2, QueueFrame
<1>6. Protocol'  BY <1>1, <1>2, <1>4, <1>5 DEF BenchInv, Protocol
<1>7. Flow'  BY <1>1, <1>2, <1>4, <1>5 DEF BenchInv, Flow
<1>8. ASSUME consumer = "drain", cpc' = "idle" PROVE seen = n
  <2>1. t \in 1 .. Newest(TAIL) /\ t >= cur["C"][TAIL]
    BY <1>2, LocFacts, CounterLoad DEF BenchInv
  <2>2. cur["C"][TAIL] = Newest(TAIL) /\ Newest(TAIL) \in Nat
    BY <1>8, Order DEF BenchInv, Flag
  <2>3. t = Newest(TAIL)  BY <2>1, <2>2
  <2>4. Popped % WORD = (Newest(TAIL) - 1) % WORD
    BY <1>2, <1>8, <2>1, <2>3 DEF BenchInv, IInv, Counts
  <2>5. Popped = Newest(HEAD) - 1  BY <1>2 DEF Popped
  <2>6. /\ Popped \in Int /\ Newest(TAIL) - 1 \in Int
        /\ Popped <= Newest(TAIL) - 1 /\ Newest(TAIL) - 1 <= Popped + CAPACITY
    <3>1. IInv  BY DEF BenchInv
    <3>2. /\ Newest(TAIL) \in Nat /\ Popped \in Nat /\ TakenOut \in Nat /\ Pushed \in Nat
          /\ Newest(HEAD) \in Nat /\ CAPACITY \in Nat
          /\ Popped <= TakenOut /\ TakenOut <= Newest(TAIL) - 1
          /\ Newest(TAIL) - 1 <= Pushed /\ Pushed <= Newest(HEAD) - 1 + CAPACITY
      BY <3>1, Order, Zenon
    <3>3. QED  BY <2>5, <3>2
  <2>7. Popped = Newest(TAIL) - 1  BY <2>4, <2>6, EmptyExact
  <2>8. Newest(TAIL) - 1 = Sent /\ Newest(HEAD) - 1 = seen  BY <1>4 DEF BenchInv, Flow
  <2>9. Sent = n  BY <1>8 DEF BenchInv, Protocol, Sent
  <2>10. QED  BY <2>5, <2>7, <2>8, <2>9
<1>9. consumer' \in {"returning", "returned"} => seen = n
  BY <1>1, <1>8
<1>10. Samples'  BY <1>1, <1>5, <1>9 DEF BenchInv, Samples
<1>11. QED  BY <1>5, <1>6, <1>7, <1>10 DEF BenchInv

(* A thread drops its handle: it returns, or it could not be pinned. *)
LEMMA HandleStep ==
    ASSUME BenchInv,
           ProducerPinFails \/ ConsumerPinFails \/ ProducerReturns \/ ConsumerReturns
    PROVE  BenchInv'
<1>1. /\ UNCHANGED <<bench, capture_sys, impl, fifo, i, pending, seen, offered, sys_offered>>
      /\ UNCHANGED <<main, arrived>>
  BY DEF ProducerPinFails, ConsumerPinFails, ProducerReturns, ConsumerReturns, setup, counters,
         producerCounters, consumerCounters
<1> DEFINE Leaves ==
             \/ /\ producer = "pin" /\ producer' = "panicked" /\ consumer' = consumer
             \/ /\ producer = "returning" /\ producer' = "returned" /\ consumer' = consumer
             \/ /\ consumer = "pin" /\ consumer' = "panicked" /\ producer' = producer
             \/ /\ consumer = "returning" /\ consumer' = "returned" /\ producer' = producer
<1>2. Leaves /\ (DropProd \/ (DropCons /\ consumer' \in {"returned", "panicked"}))
  <2>1. CASE ProducerPinFails  BY <2>1 DEF ProducerPinFails
  <2>2. CASE ConsumerPinFails  BY <2>2 DEF ConsumerPinFails
  <2>3. CASE ProducerReturns  BY <2>3 DEF ProducerReturns
  <2>4. CASE ConsumerReturns  BY <2>4 DEF ConsumerReturns
  <2>5. QED  BY <2>1, <2>2, <2>3, <2>4
<1> DEFINE Dropped ==
             /\ [Next]_vars /\ ~PushStore /\ ~PopStore
             /\ ppc' = ppc \/ (ppc' = "gone" /\ Ours)
             /\ cpc' = cpc \/ (cpc' = "gone" /\ Ours /\ consumer' \in {"returned", "panicked"})
<1>3. Dropped
  <2>1. CASE Ours /\ DropProducer
    <3>1. ppc = "idle" /\ ppc' = "gone" /\ cpc' = cpc  BY <2>1 DEF DropProducer, consumerVars
    <3>2. ~PushStore  BY <3>1 DEF PushStore
    <3>3. PopStore => cpc = "store" /\ cpc' = "idle"  BY DEF PopStore
    <3>4. QED  BY <2>1, <3>1, <3>2, <3>3 DEF Next
  <2>2. CASE Ours /\ DropConsumer /\ consumer' \in {"returned", "panicked"}
    <3>1. cpc = "idle" /\ cpc' = "gone" /\ ppc' = ppc  BY <2>2 DEF DropConsumer, producerVars
    <3>2. ~PopStore  BY <3>1 DEF PopStore
    <3>3. PushStore => ppc = "store" /\ ppc' = "idle"  BY DEF PushStore
    <3>4. QED  BY <2>2, <3>1, <3>2, <3>3 DEF Next
  <2>3. CASE UNCHANGED vars
    <3>1. ppc' = ppc /\ cpc' = cpc  BY <2>3 DEF vars, producerVars, consumerVars
    <3>2. PushStore => ppc = "store" /\ ppc' = "idle"  BY DEF PushStore
    <3>3. PopStore => cpc = "store" /\ cpc' = "idle"  BY DEF PopStore
    <3>4. QED  BY <2>3, <3>1, <3>2, <3>3
  <2>4. DropProd => (Ours /\ DropProducer) \/ UNCHANGED vars  BY DEF DropProd
  <2>5. DropCons => (Ours /\ DropConsumer) \/ UNCHANGED vars  BY DEF DropCons
  <2> HIDE DEF Dropped, Leaves
  <2>6. QED  BY <1>2, <2>1, <2>2, <2>3, <2>4, <2>5
<1>4. Finished' = Finished  BY <1>2 DEF Finished
<1>5. consumer' \in {"drain", "returning", "returned"} =>
         consumer \in {"drain", "returning", "returned"}
  BY <1>2
<1>6. /\ IInv' /\ Flag' /\ n' = n /\ warmup' = warmup /\ Ours' = Ours /\ Sent' = Sent
      /\ Newest(TAIL)' = Newest(TAIL) /\ Newest(HEAD)' = Newest(HEAD)
  BY <1>1, <1>3, <1>4, <1>5, QueueFrame
<1>7. Protocol'
  <2>1. /\ ppc' \notin {"idle", "gone"} => producer = "loop" /\ pending
        /\ cpc' \notin {"idle", "gone"} => consumer \in {"poll", "drain"}
        /\ cpc' = "gone" => consumer' \in {"returned", "panicked"}
    BY <1>2, <1>3 DEF BenchInv, Protocol
  <2>2. QED  BY <1>1, <1>2, <1>4, <1>6, <2>1 DEF BenchInv, Protocol
<1>8. Flow'  BY <1>1, <1>3, <1>6 DEF BenchInv, Flow
<1>9. Samples'  BY <1>1, <1>2, <1>6 DEF BenchInv, Samples
<1>10. QED  BY <1>6, <1>7, <1>8, <1>9 DEF BenchInv

(* The producer raises the flag after its last item. *)
LEMMA StoreDoneStep ==
    ASSUME BenchInv, StoreDone
    PROVE  BenchInv'
<1>1. /\ producer = "loop" /\ producer' = "returning" /\ ppc = "idle" /\ i = n /\ ~pending
      /\ UNCHANGED <<ppc, cpc>>
      /\ UNCHANGED <<bench, capture_sys, impl, fifo, i, pending, seen, offered, sys_offered>>
      /\ UNCHANGED <<main, consumer, arrived>>
  BY DEF StoreDone, LastPushed, Pushing, producerVars, consumerVars, setup, counters,
         producerCounters, consumerCounters
<1>2. n' = n /\ warmup' = warmup /\ Ours' = Ours /\ Sent' = Sent
  BY <1>1, SetupFacts DEF Sent
<1>3. ~Finished /\ Finished'  BY <1>1 DEF Finished
<1>4. Newest(DONE) = 1 /\ mem[DONE][1].val = 0  BY <1>3 DEF BenchInv, Flag
<1>5. /\ IInv' /\ Newest(DONE)' = 2 /\ mem'[DONE][1] = mem[DONE][1]
      /\ mem'[DONE][2].view[TAIL] = Newest(TAIL)
      /\ mem'[TAIL] = mem[TAIL] /\ mem'[HEAD] = mem[HEAD]
  BY <1>4, StoreFlag DEF BenchInv
<1>6. Newest(TAIL)' = Newest(TAIL) /\ Newest(HEAD)' = Newest(HEAD)  BY <1>5 DEF Newest
<1>7. consumer \notin {"drain", "returning", "returned"}  BY <1>3 DEF BenchInv, Protocol
<1>8. Flag'  BY <1>1, <1>3, <1>4, <1>5, <1>6, <1>7 DEF Flag
<1>9. Protocol'  BY <1>1, <1>2, <1>3, <1>7 DEF BenchInv, Protocol
<1>10. Flow'  BY <1>1, <1>2, <1>6 DEF BenchInv, Flow
<1>11. Samples'  BY <1>1, <1>2 DEF BenchInv, Samples
<1>12. QED  BY <1>5, <1>8, <1>9, <1>10, <1>11 DEF BenchInv

(* The consumer looks at the flag: if it is set, the consumer knows of the *)
(* last item.                                                              *)
LEMMA CheckDoneStep ==
    ASSUME BenchInv, CheckDone
    PROVE  BenchInv'
<1>1. PICK t : CheckDoneAt(t)  BY DEF CheckDone
<1>2. /\ consumer = "check"
      /\ consumer' = IF mem[DONE][t].val = 1 THEN "drain" ELSE "poll"
      /\ UNCHANGED <<ppc, cpc>>
      /\ UNCHANGED <<bench, capture_sys, impl, fifo, i, pending, seen, offered, sys_offered>>
      /\ UNCHANGED <<main, producer, arrived>>
  BY <1>1 DEF CheckDoneAt, producerVars, consumerVars, setup, counters, producerCounters,
              consumerCounters
<1>3. n' = n /\ warmup' = warmup /\ Ours' = Ours /\ Sent' = Sent /\ Finished' = Finished
  BY <1>2, SetupFacts DEF Sent, Finished
<1>4. cpc = "idle"  BY <1>2 DEF BenchInv, Protocol
<1>5. /\ IInv' /\ mem' = mem /\ t \in 1 .. Newest(DONE)
      /\ cur'["C"][TAIL] >= mem[DONE][t].view[TAIL]
  BY <1>1, <1>4, LoadFlag DEF BenchInv
<1>6. /\ Newest(TAIL)' = Newest(TAIL) /\ Newest(HEAD)' = Newest(HEAD)
      /\ Newest(DONE)' = Newest(DONE)
  BY <1>5 DEF Newest
<1>7. ASSUME mem[DONE][t].val = 1
      PROVE  Finished /\ cur'["C"][TAIL] = Newest(TAIL)
  <2>1. t # 1  BY <1>7 DEF BenchInv, Flag
  <2>2. Newest(DONE) \in {1, 2} /\ (Newest(DONE) = 2 => Finished)
    BY DEF BenchInv, Flag
  <2>3. Finished /\ t = 2  BY <1>5, <2>1, <2>2
  <2>4. cur'["C"][TAIL] >= Newest(TAIL)  BY <1>5, <2>3 DEF BenchInv, Flag
  <2>5. cur'["C"][TAIL] \in Nat /\ cur'["C"][TAIL] <= Newest(TAIL)'
    BY <1>5, LocFacts DEF IInv, TypeOK, MemoryOK, Views, ViewsCoherent, Coherent, Bounded
  <2>6. Newest(TAIL) \in Nat  BY Order DEF BenchInv
  <2>7. QED  BY <1>6, <2>3, <2>4, <2>5, <2>6
<1>8. consumer' \in {"drain", "returning", "returned"} =>
         Finished /\ cur'["C"][TAIL] = Newest(TAIL)
  BY <1>2, <1>7
<1>9. Flag'  BY <1>3, <1>5, <1>6, <1>8 DEF BenchInv, Flag
<1>10. Protocol'
  <2>1. consumer' \in {"poll", "drain"}  BY <1>2
  <2>2. QED  BY <1>2, <1>3, <1>4, <1>8, <2>1 DEF BenchInv, Protocol
<1>11. Flow'  BY <1>2, <1>3, <1>6 DEF BenchInv, Flow
<1>12. Samples'  BY <1>2, <1>3 DEF BenchInv, Samples
<1>13. QED  BY <1>5, <1>9, <1>10, <1>11, <1>12 DEF BenchInv

(* Nothing has been sent when the threads are spawned. *)
LEMMA BenchInitInv == ASSUME BenchInit PROVE BenchInv
<1>1. IInv  BY InitIInv DEF BenchInit
<1>2. \A l \in Loc : Newest(l) = 1 /\ mem[l][1].val = 0
  BY DEF BenchInit, Init, InitMemory, Newest
<1>3. /\ Newest(TAIL) = 1 /\ Newest(HEAD) = 1 /\ Newest(DONE) = 1 /\ mem[DONE][1].val = 0
  BY <1>2, FlagLoc, LocFacts
<1>4. /\ ppc = "idle" /\ cpc = "idle" /\ main = "spawned" /\ producer = "pin"
      /\ consumer = "pin" /\ arrived = {} /\ i = 0 /\ pending = FALSE /\ seen = 0
      /\ offered = 0 /\ sys_offered = 0 /\ fifo = 0
  BY DEF BenchInit, Init
<1>5. Protocol  BY <1>4 DEF Protocol, Finished
<1>6. Flow
  <2>1. Sent = 0 /\ i \in 0 .. n /\ pending \in BOOLEAN
    <3>1. Sent = 0  BY <1>4 DEF Sent
    <3>2. i \in 0 .. n  BY <1>4, ItemsNat
    <3>3. pending \in BOOLEAN  BY <1>4
    <3>4. QED  BY <3>1, <3>2, <3>3
  <2>2. Newest(TAIL) - 1 = Sent /\ Newest(HEAD) - 1 = seen /\ fifo + seen = Sent
    BY <1>3, <1>4, <2>1
  <2>3. seen \in Nat /\ fifo \in Nat /\ ~pending  BY <1>4
  <2>4. QED  BY <1>4, <2>1, <2>2, <2>3 DEF Flow
<1>7. Flag  BY <1>3, <1>4 DEF Flag, Finished
<1>8. Samples  BY <1>4, ItemsNat DEF Samples
<1>9. QED  BY <1>1, <1>5, <1>6, <1>7, <1>8 DEF BenchInv

(* Every step of the three threads keeps the invariant. *)
LEMMA BenchNextInv == ASSUME BenchInv, [BenchNext]_allVars PROVE BenchInv'
<1>1. CASE ProducerThread
  BY <1>1, PinJoinStep, NextItemStep, InsideStep, PushOkStep, OtherQueueStep, StoreDoneStep,
     HandleStep DEF ProducerThread
<1>2. CASE ConsumerThread
  BY <1>2, PinJoinStep, InsideStep, PopEmptyStep, PopSomeStep, OtherQueueStep, CheckDoneStep,
     HandleStep DEF ConsumerThread
<1>3. CASE ProducerPinFails \/ ConsumerPinFails  BY <1>3, HandleStep
<1>4. CASE DropQueue  BY <1>4, InsideStep
<1>5. CASE MainThread  BY <1>5, PinJoinStep DEF MainThread
<1>6. CASE UNCHANGED allVars
  <2>1. /\ UNCHANGED vars /\ UNCHANGED <<main, producer, consumer, arrived>>
        /\ UNCHANGED <<bench, capture_sys, impl, fifo, i, pending, seen, offered, sys_offered>>
    BY <1>6 DEF allVars, benchVars, setup, threadVars, counters, producerCounters,
                consumerCounters
  <2>2. /\ n' = n /\ warmup' = warmup /\ Ours' = Ours /\ Sent' = Sent /\ Finished' = Finished
    BY <2>1, SetupFacts DEF Sent, Finished
  <2>3. /\ IInv' /\ Flag' /\ ppc' = ppc /\ cpc' = cpc
        /\ Newest(TAIL)' = Newest(TAIL) /\ Newest(HEAD)' = Newest(HEAD)
    BY <2>1, <2>2, BesideFrame
  <2>4. Protocol'  BY <2>1, <2>2, <2>3 DEF BenchInv, Protocol
  <2>5. Flow'  BY <2>1, <2>2, <2>3 DEF BenchInv, Flow
  <2>6. Samples'  BY <2>1, <2>2 DEF BenchInv, Samples
  <2>7. QED  BY <2>3, <2>4, <2>5, <2>6 DEF BenchInv
<1>7. QED  BY <1>1, <1>2, <1>3, <1>4, <1>5, <1>6 DEF BenchNext, Reported

(* The protocol of the threads around the queue, in every reachable state  *)
(* of a benchmark.                                                         *)
THEOREM BenchInvariance == BenchSpec => []BenchInv
<1>1. BenchInit => BenchInv  BY BenchInitInv
<1>2. BenchInv /\ [BenchNext]_allVars => BenchInv'  BY BenchNextInv
<1>3. QED  BY <1>1, <1>2, PTL DEF BenchSpec

(* A consumer that has seen the flag `done` and then found the queue empty *)
(* has popped every item of the run: no sample is missing, none is left in *)
(* the queue for its drop, for this crate's queue and for the others'.     *)
THEOREM SpscAllItemsSampled == BenchSpec => []AllItemsSampled
<1>1. BenchInv => AllItemsSampled
  <2> SUFFICES ASSUME BenchInv, consumer \in {"returning", "returned"}
               PROVE  /\ seen = n /\ offered = n - warmup
                      /\ capture_sys => sys_offered = offered
                      /\ dropped = <<>>
    BY DEF AllItemsSampled
  <2>1. seen = n  BY DEF BenchInv, Samples
  <2>2. offered = n - warmup /\ (capture_sys => sys_offered = offered)
    BY <2>1, ItemsNat DEF BenchInv, Samples
  <2>3. Sent = n  BY DEF BenchInv, Protocol, Sent
  <2>4. /\ Newest(TAIL) \in Nat /\ Newest(HEAD) \in Nat /\ Popped \in Nat /\ TakenOut \in Nat
        /\ Newest(HEAD) - 1 <= Popped /\ TakenOut <= Newest(TAIL) - 1
        /\ Len(dropped) \in Nat /\ TakenOut = Popped + Len(dropped)
    <3>1. IInv  BY DEF BenchInv
    <3>2. QED  BY <3>1, Order, Zenon
  <2>5. Len(dropped) = 0
    <3>1. CASE Ours
      <4>1. Newest(TAIL) - 1 = n /\ Newest(HEAD) - 1 = n  BY <2>1, <2>3, <3>1 DEF BenchInv, Flow
      <4>2. QED  BY <2>4, <4>1
    <3>2. CASE ~Ours
      <4>1. ppc = "idle"  BY <3>2 DEF BenchInv, Flow
      <4>2. dropper.pc = "alive"  BY <4>1, DropFacts DEF BenchInv
      <4>3. QED  BY <4>2 DEF BenchInv, IInv, Handles
    <3>3. QED  BY <3>1, <3>2
  <2>6. dropped \in Seq(Nat)  BY DEF BenchInv, IInv, TypeOK
  <2>7. dropped = <<>>  BY <2>5, <2>6
  <2>8. QED  BY <2>1, <2>2, <2>7
<1>2. QED  BY <1>1, BenchInvariance, PTL

-----------------------------------------------------------------------------
(* What the throttled producer counts: an item is told that the queue is   *)
(* full only when CAPACITY items were sent before it, and the result is    *)
(* made from the final counts.                                             *)
Counted ==
    /\ impl \in Adapters
    /\ full_pushes \in Nat /\ was_full \in BOOLEAN
    /\ full_pushes + CAPACITY <= Sent \/ full_pushes = 0
    /\ was_full => i > CAPACITY
    /\ report.sys_hist => main = "report" /\ capture_sys

(* Every queue holds at least CAPACITY items. *)
LEMMA AdapterCapacity ==
    \A q \in Adapters : q.capacity \in Nat /\ q.capacity >= CAPACITY
<1>1. CAPACITY \in Nat \ {0}  BY SpscAssumption
<1>2. PICK p : p = NextPowerOfTwo(CAPACITY)  OBVIOUS
<1>3. p \in CAPACITY .. 2 * CAPACITY
  <2>1. /\ CAPACITY \in CAPACITY .. 2 * CAPACITY
        /\ \A q \in CAPACITY .. CAPACITY - 1 : ~IsPowerOfTwo(q)
    BY <1>1
  <2>2. IsPowerOfTwo(CAPACITY)  BY SpscBenchAssumption
  <2>3. QED  BY <1>2, <2>1, <2>2 DEF NextPowerOfTwo
<1>4. \A q \in Adapters : q.capacity = CAPACITY \/ q.capacity = p
  <2>1. HeaplessSpsc.capacity = CAPACITY
    <3>1. HeaplessSpsc = Adapter("other", CAPACITY, FALSE)  BY <1>1, SMT DEF HeaplessSpsc, Adapter
    <3>2. QED  BY <3>1 DEF Adapter
  <2>2. NexusSpsc.capacity = p  BY <1>2 DEF NexusSpsc, Adapter
  <2>3. OursSpsc.capacity = CAPACITY /\ RtrbSpsc.capacity = CAPACITY
    BY DEF OursSpsc, RtrbSpsc, Adapter
  <2>4. RingbufSpsc.capacity = CAPACITY /\ CbChanSpsc.capacity = CAPACITY
    BY DEF RingbufSpsc, CbChanSpsc, Adapter
  <2>5. FlumeSpsc.capacity = CAPACITY /\ StdMpscSpsc.capacity = CAPACITY
    BY DEF FlumeSpsc, StdMpscSpsc, Adapter
  <2>6. QED  BY <2>1, <2>2, <2>3, <2>4, <2>5, Zenon DEF Adapters
<1>5. QED  BY <1>1, <1>3, <1>4

(* A step that does not count. *)
LEMMA CountFrame ==
    ASSUME Counted, UNCHANGED <<bench, capture_sys, impl, i, pending, was_full, full_pushes>>,
           UNCHANGED report, main' = main \/ main # "report"
    PROVE  Counted'
<1>1. n' = n /\ Sent' = Sent  BY SetupFacts DEF Sent
<1>2. Adapters' = Adapters
  BY DEF Adapters, Adapter, OursSpsc, RtrbSpsc, RingbufSpsc, HeaplessSpsc,
         NexusSpsc, CbChanSpsc, FlumeSpsc, StdMpscSpsc, NextPowerOfTwo, IsPowerOfTwo
<1>3. QED  BY <1>1, <1>2 DEF Counted

(* An item is sent: it counts if it found the queue full before. *)
LEMMA CountSent ==
    ASSUME BenchInv, Counted, pending, ~pending', full_pushes' = CountFull, main # "report",
           UNCHANGED <<bench, capture_sys, impl, i, report, main>>,
           was_full' = was_full
    PROVE  Counted'
<1>1. n' = n  BY SetupFacts
<1>2. i \in Nat /\ CAPACITY \in Nat /\ Sent = i - 1 /\ Sent' = i
  BY ItemsNat, SpscAssumption DEF BenchInv, Flow, Sent
<1>3. full_pushes' \in Nat /\ (full_pushes' + CAPACITY <= i \/ full_pushes' = 0)
  BY <1>2 DEF Counted, CountFull
<1>4. ~report.sys_hist  BY DEF Counted
<1>5. QED  BY <1>1, <1>2, <1>3, <1>4 DEF Counted

(* The producer's calls: "full" is said only of a queue with CAPACITY      *)
(* items, or so many that the producer cannot know to be out.              *)
LEMMA CountPush ==
    ASSUME BenchInv, Counted,
           NextItem \/ InTryPush \/ TryPushOk \/ OtherTryPush
    PROVE  Counted'
<1>1. /\ UNCHANGED <<bench, capture_sys, impl, main, report>> /\ producer = "loop"
      /\ "C" \in arrived
  BY DEF NextItem, InTryPush, TryPushOk, OtherTryPush, setup, threadVars, Pushing, Released
<1>2. /\ main # "report" /\ consumer \notin {"returned", "panicked"}
  BY <1>1 DEF BenchInv, Protocol, Finished
<1>3. /\ n \in Nat /\ i \in Nat /\ CAPACITY \in Nat /\ n' = n /\ ~report.sys_hist
  <2>1. n' = n  BY <1>1, SetupFacts
  <2>2. QED  BY <1>2, <2>1, ItemsNat, SpscAssumption DEF BenchInv, Flow, Counted
<1>4. CASE NextItem
  <2>1. i' = i + 1 /\ ~pending /\ pending' /\ was_full' = FALSE /\ full_pushes' = full_pushes
    BY <1>4 DEF NextItem
  <2>2. Sent' = Sent  BY <1>3, <2>1 DEF Sent
  <2>3. QED  BY <1>1, <1>3, <2>1, <2>2 DEF Counted
<1>5. CASE InTryPush
  <2>1. /\ UNCHANGED <<i, pending, full_pushes>> /\ StillFull
        /\ was_full' = (was_full \/ (bench = "throttled" /\ ppc' = "idle"))
    BY <1>5 DEF InTryPush
  <2>2. PICK t : /\ ppc = "still_full" /\ Load("P", HEAD, t, "Acquire", "None") /\ arc' = arc
                 /\ ppc' = IF Full(mem[HEAD][t].val, p_cached_tail) THEN "idle" ELSE "write"
    BY <2>1 DEF StillFull, StillFullAt, HeadLoadOrdering, dropVars
  <2>3. ASSUME ppc' = "idle" PROVE i > CAPACITY
    <3>1. IInv /\ Ours /\ pending  BY <2>2 DEF BenchInv, Protocol, Flow
    <3>2. t \in 1 .. Newest(HEAD) /\ t >= cur["P"][HEAD]
      BY <2>2, <3>1, LocFacts, CounterLoad
    <3>3. Full((t - 1) % WORD, Pushed % WORD)
      BY <2>2, <2>3, <3>1, <3>2 DEF IInv, Counts
    <3>4. PICK h \in Nat : h < cur["P"][HEAD] /\ Pushed <= h + CAPACITY
      BY <3>1 DEF IInv, Cached, CachedHead
    <3>5. /\ Newest(HEAD) \in Nat /\ Pushed \in Nat /\ TakenOut \in Nat
          /\ Newest(HEAD) - 1 <= TakenOut /\ TakenOut <= Pushed
      BY <3>1, Order, Zenon
    <3>6. cur["P"][HEAD] \in Nat  BY <3>1, LocFacts DEF IInv, TypeOK, MemoryOK, Views
    <3>7. t - 1 \in Int /\ t - 1 <= Pushed /\ Pushed <= t - 1 + CAPACITY
      BY <1>3, <3>2, <3>4, <3>5, <3>6
    <3>8. Pushed = t - 1 + CAPACITY  BY <3>3, <3>5, <3>7, FullExact
    <3>9. Pushed = i - 1  BY <2>2, <3>1 DEF Pushed, BenchInv, Flow, Sent
    <3>10. QED  BY <1>3, <3>2, <3>5, <3>8, <3>9
  <2>4. Sent' = Sent  BY <2>1 DEF Sent
  <2>5. was_full' \in BOOLEAN /\ (was_full' => i > CAPACITY)
    BY <2>1, <2>3 DEF Counted
  <2>6. QED  BY <1>1, <1>3, <2>1, <2>4, <2>5 DEF Counted
<1>6. CASE TryPushOk
  <2>1. /\ PushStore /\ ~pending' /\ full_pushes' = CountFull /\ UNCHANGED <<i, was_full>>
    BY <1>6 DEF TryPushOk
  <2>2. pending  BY <2>1 DEF PushStore, BenchInv, Protocol
  <2>3. QED  BY <1>1, <1>2, <2>1, <2>2, CountSent
<1>7. CASE OtherTryPush
  <2>1. /\ ~Ours /\ pending /\ pending' = ~Accepts /\ UNCHANGED i
        /\ was_full' = (was_full \/ (bench = "throttled" /\ ~Accepts))
        /\ full_pushes' = IF Accepts THEN CountFull ELSE full_pushes
    BY <1>7 DEF OtherTryPush
  <2>2. CASE Accepts
    <3>1. was_full' = was_full  BY <2>1, <2>2 DEF Counted
    <3>2. QED  BY <1>1, <1>2, <2>1, <2>2, <3>1, CountSent
  <2>3. CASE ~Accepts
    <3>1. fifo >= CAPACITY
      <4>1. ~(fifo < impl.capacity)  BY <1>2, <2>3 DEF Accepts
      <4>2. impl.capacity \in Nat /\ impl.capacity >= CAPACITY
        BY AdapterCapacity DEF Counted
      <4>3. fifo \in Nat  BY DEF BenchInv, Flow
      <4>4. QED  BY <1>3, <4>1, <4>2, <4>3
    <3>2. i > CAPACITY
      <4>1. fifo + seen = i - 1 /\ fifo \in Nat /\ seen \in Nat
        BY <2>1 DEF BenchInv, Flow, Sent
      <4>2. QED  BY <1>3, <3>1, <4>1
    <3>3. Sent' = Sent /\ full_pushes' = full_pushes  BY <2>1, <2>3 DEF Sent
    <3>4. was_full' \in BOOLEAN  BY <2>1 DEF Counted
    <3>5. QED  BY <1>1, <1>3, <2>1, <3>2, <3>3, <3>4 DEF Counted
  <2>4. QED  BY <2>2, <2>3
<1>8. QED  BY <1>4, <1>5, <1>6, <1>7

(* The main thread judges the run with the counts of the producer, which   *)
(* has returned.                                                           *)
LEMMA CountJoin ==
    ASSUME BenchInv, Counted, NEW late \in BOOLEAN, JoinConsumer(late)
    PROVE  Counted'
<1>1. /\ UNCHANGED <<bench, capture_sys, impl, i, pending, was_full, full_pushes>>
      /\ main = "join_consumer" /\ main' = "report"
      /\ report' = IF bench = "throttled" THEN ThrottledRateResult(late) ELSE report
  BY DEF JoinConsumer, setup, counters, producerCounters
<1>2. n' = n /\ Sent' = Sent  BY <1>1, SetupFacts DEF Sent
<1>3. ASSUME report'.sys_hist PROVE capture_sys
  <2>1. ~report.sys_hist  BY <1>1 DEF Counted
  <2>2. report'.sys_hist = (capture_sys /\ ~Saturated(late))
    BY <1>1, <1>3, <2>1 DEF ThrottledRateResult
  <2>3. QED  BY <1>3, <2>2
<1>4. QED  BY <1>1, <1>2, <1>3 DEF Counted

(* Every step keeps the counts right. *)
LEMMA CountNext ==
    ASSUME BenchInv, Counted, [BenchNext]_allVars
    PROVE  Counted'
<1> DEFINE Quiet == /\ UNCHANGED <<bench, capture_sys, impl, i, pending, was_full, full_pushes>>
                    /\ UNCHANGED report /\ (main' = main \/ main # "report")
<1> USE DEF setup, threadVars, producerCounters, counters, benchVars
<1>1. CASE ProducerThread
  <2>1. CASE NextItem \/ InTryPush \/ TryPushOk \/ OtherTryPush  BY <2>1, CountPush
  <2>2. CASE ProducerPin \/ TryPush \/ TryPushWrite \/ StoreDone \/ ProducerReturns
    <3>1. Quiet  BY <2>2 DEF ProducerPin, TryPush, TryPushWrite, StoreDone, ProducerReturns
    <3>2. QED  BY <3>1, CountFrame
  <2>3. QED  BY <1>1, <2>1, <2>2 DEF ProducerThread
<1>2. CASE ConsumerThread
  <2>1. Quiet
    BY <1>2 DEF ConsumerThread, ConsumerPin, TryPop, PopEmpty, TryPopTake, TryPopSome,
                OtherTryPop, CheckDone, CheckDoneAt, ConsumerReturns
  <2>2. QED  BY <2>1, CountFrame
<1>3. CASE ProducerPinFails \/ ConsumerPinFails \/ DropQueue
  <2>1. Quiet  BY <1>3 DEF ProducerPinFails, ConsumerPinFails, DropQueue
  <2>2. QED  BY <2>1, CountFrame
<1>4. CASE MainWait \/ JoinProducer
  <2>1. Quiet  BY <1>4 DEF MainWait, JoinProducer
  <2>2. QED  BY <2>1, CountFrame
<1>5. CASE UNCHANGED allVars
  <2>1. Quiet  BY <1>5 DEF allVars
  <2>2. QED  BY <2>1, CountFrame
<1> HIDE DEF setup, threadVars, producerCounters, counters, benchVars
<1>6. CASE MainThread
  BY <1>4, <1>6, CountJoin DEF MainThread
<1>7. QED  BY <1>1, <1>2, <1>3, <1>5, <1>6 DEF BenchNext, Reported

(* Backpressure is real, for every queue, capacity, rate and run length:   *)
(* the first CAPACITY items never count as having found the queue full, no *)
(* item counts twice, and a report with system latencies comes from a run  *)
(* in which one was measured for every item after the warm-up.             *)
THEOREM SpscBackpressureIsReal == BenchSpec => []BackpressureIsReal
<1>1. BenchInit => Counted
  <2> SUFFICES ASSUME BenchInit PROVE Counted
    OBVIOUS
  <2>1. /\ impl \in Adapters /\ full_pushes = 0 /\ was_full = FALSE
        /\ report = [saturated |-> FALSE, sys_hist |-> FALSE]
    BY DEF BenchInit
  <2>2. ~report.sys_hist  BY <2>1
  <2>3. QED  BY <2>1, <2>2 DEF Counted
<1>2. BenchInv /\ Counted /\ [BenchNext]_allVars => Counted'  BY CountNext
<1>3. BenchInv /\ Counted => BackpressureIsReal
  <2> SUFFICES ASSUME BenchInv, Counted PROVE BackpressureIsReal
    OBVIOUS
  <2>1. Sent \in Int /\ Sent <= i /\ CAPACITY \in Nat /\ i \in Nat /\ full_pushes \in Nat
    BY ItemsNat, SpscAssumption DEF BenchInv, Flow, Sent, Counted
  <2>2. full_pushes + CAPACITY <= i \/ full_pushes = 0  BY <2>1 DEF Counted
  <2>3. ASSUME report.sys_hist PROVE sys_offered = n - warmup
    <3>1. main = "report" /\ capture_sys  BY <2>3 DEF Counted
    <3>2. seen = n  BY <3>1 DEF BenchInv, Protocol, Samples
    <3>3. QED  BY <3>1, <3>2, ItemsNat DEF BenchInv, Samples
  <2>4. QED  BY <2>2, <2>3 DEF BackpressureIsReal, Counted
<1>4. QED  BY <1>1, <1>2, <1>3, BenchInvariance, PTL DEF BenchSpec
============================================================================

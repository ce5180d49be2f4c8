----------------------------- MODULE SpmcBench -----------------------------
(***************************************************************************)
(* src/bench/harness/spmc: the benchmarks of the SPMC queue, composed with *)
(* the queue of module Spmc and a single consumer of it.  Three            *)
(* programs share the protocol of a barrier, a flag `done` and two joins:  *)
(*   "handoff"  run_spmc_handoff publishes N values; its consumer drains   *)
(*              the queue once more when it sees the flag;                 *)
(*   "lapped"   run_spmc_lapped, for one of its delays, and                *)
(*   "sweep"    run_spmc_capacity_sweep_one, for one of its capacities,    *)
(*              publish until the clock says stop; their consumer returns  *)
(*              on the first Empty that is followed by a raised flag.      *)
(* They are generic in the queue: this crate's, which overwrites, or (an   *)
(* external, atomic one) bus, which refuses to publish when it is full.    *)
(* Time stamps, delays and pacing are left out: they only slow a thread.   *)
(***************************************************************************)
EXTENDS Spmc

CONSTANTS
    N,           \* cfg.n; in a timed run, a bound on the values published
    WARMUP,      \* results that are not recorded
    PIN_MAY_FAIL \* TRUE if pinning a thread to its core may fail

(* What the benchmarks fix of the queue's constants.  Counts are u64, so   *)
(* no run publishes as many values as a cursor can tell apart.             *)
BenchConstants ==
    /\ ClientLocs = {"done"} /\ Consumers = {FirstConsumer}
    /\ N \in Nat /\ N < WORD /\ MAX_PUBLISH = N /\ WARMUP \in Nat
    /\ PIN_MAY_FAIL \in BOOLEAN

VARIABLES
    bench, queue,             \* the program that runs, and the queue it measures
    i, sent, received,        \* bus: values the producer counted, published; values read
    main, producer, consumer, \* where each thread is
    arrived,                  \* the threads that called barrier.wait()
    seen, values, lapped      \* the consumer's counters; values counts the calls
                              \* of the histogram's record() as well

threadVars == <<main, producer, consumer>>
counters == <<seen, values, lapped>>
busVars == <<i, sent, received>>
setup == <<bench, queue, busVars>>
benchVars == <<setup, threadVars, arrived, counters>>
allVars == <<vars, benchVars>>

C == FirstConsumer
DONE == Client("done")
BugDoneStoreOrdering == "Relaxed"
DoneStoreOrdering == "Release"
DoneLoadOrdering == "Acquire"

BenchInit ==
    /\ Init
    /\ bench \in {"handoff", "lapped", "sweep"} /\ queue \in {"ours", "bus"}
    /\ i = 0 /\ sent = 0 /\ received = 0
    /\ main = "called" /\ producer = "none" /\ consumer = "none"
    /\ arrived = {} /\ seen = 0 /\ values = 0 /\ lapped = 0

SEMANTICS == IF queue = "ours" THEN "OverwritingLapNotified" ELSE "Backpressure"

(* run_spmc_lapped: assert!(matches!(Q::SEMANTICS, OverwritingLapNotified)) *)
BugMeasurable == TRUE
Measurable == bench = "lapped" => SEMANTICS = "OverwritingLapNotified"
Spawn ==
    /\ main = "called"
    /\ IF Measurable THEN main' = "spawned" /\ producer' = "pin" /\ consumer' = "pin"
                     ELSE main' = "panicked" /\ UNCHANGED <<producer, consumer>>
    /\ UNCHANGED <<vars, setup, arrived, counters>>

-----------------------------------------------------------------------------
(* The barrier of three (external: std::sync::Barrier).                    *)
Released == arrived = {"M", "P", "C"}

(* The assertions on set_for_current and sched_getcpu panic on failure.    *)
ProducerPin ==
    /\ producer = "pin" /\ producer' = "loop" /\ arrived' = arrived \cup {"P"}
    /\ UNCHANGED <<vars, setup, main, consumer, counters>>
ConsumerPin ==
    /\ consumer = "pin" /\ consumer' = "poll" /\ arrived' = arrived \cup {"C"}
    /\ UNCHANGED <<vars, setup, main, producer, counters>>
PinFails ==
    /\ PIN_MAY_FAIL
    /\ \/ producer = "pin" /\ producer' = "panicked" /\ UNCHANGED consumer
       \/ consumer = "pin" /\ consumer' = "panicked" /\ UNCHANGED producer
    /\ UNCHANGED <<vars, setup, main, arrived, counters>>

-----------------------------------------------------------------------------
(* The producer's thread: publish until the count or the clock says stop.  *)
Publishing == producer \in {"loop", "retry"} /\ Released
TryPublish ==
    queue = "ours" /\ Publishing /\ (PublishLoad \/ InPublish) /\ UNCHANGED benchVars

(* try_publish of the adapter of bus.  The handoff and the sweep retry it  *)
(* until it succeeds, the lapped program ignores what it returns.          *)
BusTryPublish ==
    LET ok == sent - received < CAPACITY
    IN  /\ queue = "bus" /\ Publishing /\ i < N
        /\ sent' = IF ok THEN sent + 1 ELSE sent
        /\ i' = IF ok \/ bench = "lapped" THEN i + 1 ELSE i
        /\ producer' = IF ok \/ bench = "lapped" THEN "loop" ELSE "retry"
        /\ UNCHANGED <<vars, bench, queue, received, main, consumer, arrived, counters>>

published == IF queue = "ours" THEN begun ELSE i
LoopDone ==
    producer = "loop" /\ ppc = "idle" /\ (bench = "handoff" => published = N)

(* done.store(true, Release) *)
BugStoreDone ==
    /\ Publishing /\ LoopDone
    /\ producer' = "returned"
    /\ UNCHANGED <<vars, setup, main, consumer, arrived, counters>>
StoreDone ==
    /\ Publishing /\ LoopDone
    /\ Store("P", DONE, 1, DoneStoreOrdering, "None")
    /\ producer' = "returned"
    /\ UNCHANGED <<producerVars, consumerVars, setup, main, consumer, arrived, counters>>

-----------------------------------------------------------------------------
(* The consumer's thread: try_read, and what it does with each result.     *)
Reading == consumer \in {"poll", "drain"} /\ Released
CallTryRead == queue = "ours" /\ Reading /\ TryRead(C) /\ UNCHANGED benchVars
InsideTryRead ==
    /\ Reading /\ (Seq1(C) \/ \E w \in Words : ReadWord(C, w))
    /\ UNCHANGED benchVars

(* Empty: look at done, or return if the flag was seen before this drain *)
WhenEmpty == IF consumer = "poll" THEN "check" ELSE "returned"
TryReadEmpty ==
    /\ Reading /\ IsStillEmpty(C)
    /\ consumer' = IF cpc'[C] = "idle" THEN WhenEmpty ELSE consumer
    /\ UNCHANGED <<setup, main, producer, arrived, counters>>

(* Value(ts): one more sample once the warmup is over *)
TryReadValue ==
    /\ Reading /\ Seq2(C)
    /\ seen' = IF cpc'[C] = "idle" THEN seen + 1 ELSE seen
    /\ values' = IF cpc'[C] = "idle" /\ seen >= WARMUP THEN values + 1 ELSE values
    /\ UNCHANGED <<setup, threadVars, arrived, lapped>>

(* Lapped { skipped }: the handoff does not report a count *)
TryReadLapped ==
    /\ Reading /\ Lapped(C)
    /\ seen' = seen + 1
    /\ lapped' = IF bench # "handoff" /\ seen >= WARMUP THEN lapped + 1 ELSE lapped
    /\ UNCHANGED <<setup, threadVars, arrived, values>>

(* try_read of the adapter of bus: without a publisher it is empty *)
BusTryRead ==
    /\ queue = "bus" /\ Reading
    /\ \/ /\ received < sent /\ received' = received + 1
          /\ seen' = seen + 1
          /\ values' = IF seen >= WARMUP THEN values + 1 ELSE values
          /\ UNCHANGED consumer
       \/ received = sent /\ consumer' = WhenEmpty /\ UNCHANGED <<received, seen, values>>
    /\ UNCHANGED <<vars, bench, queue, i, sent, main, producer, arrived, lapped>>

(* if done.load(Acquire): the handoff drains, the others return *)
WhenDone == IF bench = "handoff" THEN "drain" ELSE "returned"
CheckDoneAt(t) ==
    /\ consumer = "check"
    /\ Load(C, DONE, t, DoneLoadOrdering, "None")
    /\ consumer' = IF mem[DONE][t].val = 1 THEN WhenDone ELSE "poll"
    /\ UNCHANGED <<producerVars, consumerVars, setup, main, producer, arrived, counters>>
CheckDone == \E t \in Readable(C, DONE) : CheckDoneAt(t)

-----------------------------------------------------------------------------
(* The main thread: barrier.wait(), pthread.join(), cthread.join().        *)
MainWait ==
    /\ main = "spawned" /\ main' = "join_producer" /\ arrived' = arrived \cup {"M"}
    /\ UNCHANGED <<vars, setup, producer, consumer, counters>>
JoinProducer ==
    /\ main = "join_producer" /\ Released /\ producer = "returned"
    /\ main' = "join_consumer"
    /\ UNCHANGED <<vars, setup, producer, consumer, arrived, counters>>
JoinConsumer ==
    /\ main = "join_consumer" /\ consumer = "returned"
    /\ main' = "report"
    /\ UNCHANGED <<vars, setup, producer, consumer, arrived, counters>>

ProducerThread == ProducerPin \/ TryPublish \/ BusTryPublish \/ StoreDone
ConsumerThread ==
    \/ ConsumerPin \/ CallTryRead \/ InsideTryRead
    \/ TryReadEmpty \/ TryReadValue \/ TryReadLapped \/ BusTryRead \/ CheckDone
MainThread == Spawn \/ MainWait \/ JoinProducer \/ JoinConsumer

BenchNext == ProducerThread \/ ConsumerThread \/ MainThread \/ PinFails

BenchSpec == BenchInit /\ [][BenchNext]_allVars

(* Fairness.  Each thread has a core of its own and keeps being scheduled, *)
(* the clock reaches the end of a timed run, and a load that is repeated   *)
(* eventually returns the newest message.                                  *)
FairBenchSpec ==
    /\ BenchSpec
    /\ WF_allVars(ProducerThread) /\ WF_allVars(ConsumerThread) /\ WF_allVars(MainThread)
    /\ SF_allVars(TryReadEmpty /\ IsStillEmptyAt(C, Newest(CURSOR)))
    /\ SF_allVars(InsideTryRead /\ Seq1At(C, Newest(SeqAt(slot(read_cursor[C])))))
    /\ SF_allVars(TryReadLapped /\ LappedAt(C, Newest(CURSOR)))
    /\ SF_allVars(CheckDoneAt(Newest(DONE)))

-----------------------------------------------------------------------------
(* "Drain anything the producer released before setting `done` but that we *)
(* hadn't yet observed": run_spmc_handoff's consumer returns only when it  *)
(* accounted, as values or as skipped values, for all N publishes.         *)
Observed == IF queue = "ours" THEN pos[C] ELSE received
NothingUnobserved ==
    bench = "handoff" /\ consumer = "returned" => Observed = N

(* The report never counts more reads than values were published, so the   *)
(* share of lapped reads it prints means something: each Value and each    *)
(* Lapped accounts for at least one publish of its own (CAPACITY > 1), and *)
(* `published` counts no value that the queue refused.                     *)
ReportAddsUp ==
    /\ values + lapped <= seen
    /\ seen <= Observed /\ Observed <= published
    /\ queue = "bus" => published = sent

(* When both threads are pinned each benchmark comes to an end: a consumer *)
(* that is lapped, or spins on a slot that is being written, still reaches *)
(* an Empty and then the flag; a producer that is refused gets its turn.   *)
BenchTerminates ==
    <>(main \in {"report", "panicked"} \/ "panicked" \in {producer, consumer})
=============================================================================

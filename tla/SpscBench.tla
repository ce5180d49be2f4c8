---------------------------- MODULE SpscBench -----------------------------
(***************************************************************************)
(* src/bench/harness/spsc: the benchmarks that push items through an SPSC  *)
(* queue from one pinned thread to another.  They compose the queue of     *)
(* module Spsc with the protocol around it: the main thread spawns a       *)
(* consumer and a producer thread, the three meet at a Barrier, the        *)
(* producer raises the flag `done` after its last push, the consumer       *)
(* drains the queue once more when it sees the flag, the closures drop     *)
(* their handles and the main thread joins both.  The programs are         *)
(*   "handoff"    run_spsc_handoff: push as fast as the queue allows;      *)
(*   "throttled"  measure_at_rate: item k is due at t_start + k periods,   *)
(*                the period being a fixed point number of ticks, and the  *)
(*                items that found the queue full are counted.             *)
(* Both are generic in the queue: an adapter gives this crate's or another *)
(* crate's queue the same interface.  The other crates' are external:      *)
(* bounded queues whose calls are atomic.                                  *)
(* Time stamps are left out (waiting for the clock only slows the          *)
(* producer, how late it is at the end is arbitrary): a sample is an item  *)
(* that was popped, and the schedule counts ticks since t_start.  So what  *)
(* record() makes of a sample is left out too: its Result is thrown away,  *)
(* and the code expects it to reject some.                                 *)
(***************************************************************************)
EXTENDS Spsc

CONSTANTS
    N, WARMUP,      \* SpscHandoffCfg: items pushed, items that are not recorded
    RATE,           \* rate_hz: items per second offered by the throttled program
    TARGET_SECS, WARMUP_DIVISOR, MIN_N, MAX_N, \* SpscThrottledCfg
    TSC_HZ,         \* ticks per second
    ONE,            \* 2^32 in the code: one tick in fixed point
    U64_MAX,        \* 2^64 - 1 in the code
    PIN_MAY_FAIL    \* TRUE if pinning a thread to its core may fail

(* CAPACITY.is_power_of_two() *)
IsPowerOfTwo(p) == \E k \in 0 .. p : p = 2 ^ k

ASSUME SpscBenchAssumption ==
    /\ ClientLocs = {"done"} /\ IsPowerOfTwo(CAPACITY)
    /\ N \in Nat /\ WARMUP \in 0 .. N /\ PIN_MAY_FAIL \in BOOLEAN
    /\ RATE \in Nat \ {0} /\ TARGET_SECS \in Nat /\ WARMUP_DIVISOR \in Nat \ {0}
    /\ MAX_N \in Nat /\ MIN_N \in 0 .. MAX_N /\ MAX_N <= ONE
    /\ TSC_HZ \in Nat /\ ONE \in Nat \ {0} /\ U64_MAX \in Nat
    /\ N <= MAX_PUSH /\ MAX_N <= MAX_PUSH

VARIABLES
    bench,                    \* the program that runs
    capture_sys,              \* throttled: whether system latency is asked for
    impl, fifo,               \* the queue's adapter; items in another crate's queue
    main, producer, consumer, \* where each thread is
    arrived,                  \* the threads that called barrier.wait()
    i, pending,               \* the producer's turns, and whether it has an item in hand
    schedule_q32,             \* throttled: when the last item was due
    was_full, full_pushes,    \* throttled: backpressure on this item, on all of them
    seen, offered, sys_offered, \* items the consumer popped; how many of them it
                              \* passed to the record() of each histogram
    report                    \* the main thread's result

threadVars == <<main, producer, consumer>>
producerCounters == <<i, pending, schedule_q32, was_full, full_pushes>>
consumerCounters == <<seen, offered, sys_offered>>
counters == <<producerCounters, consumerCounters>>
setup == <<bench, capture_sys, impl, fifo>>
benchVars == <<setup, threadVars, arrived, counters, report>>
allVars == <<vars, benchVars>>

DONE == Client("done")
BugDoneStoreOrdering == "Relaxed"
DoneStoreOrdering == "Release"
DoneLoadOrdering == "Acquire"

(* rate.saturating_mul(target_secs).clamp(min_n, max_n) *)
SaturatingMul(a, b) == IF a * b > U64_MAX THEN U64_MAX ELSE a * b
Clamp(x, lo, hi) == IF x < lo THEN lo ELSE IF x > hi THEN hi ELSE x
n == IF bench = "handoff" THEN N
     ELSE Clamp(SaturatingMul(RATE, TARGET_SECS), MIN_N, MAX_N)
warmup == IF bench = "handoff" THEN WARMUP ELSE n \div WARMUP_DIVISOR

(* ((tsc_hz as u128) << 32) / (rate_hz as u128): ticks per item, rounded *)
BugDtQ32 == (TSC_HZ \div RATE) * ONE
dt_q32 == (TSC_HZ * ONE) \div RATE

(* The adapters.  heapless keeps one of its N = CAPACITY + 1 slots free,   *)
(* nexus rounds up to a power of two; a channel refuses a send when its    *)
(* receiver is gone, which the adapter makes to look like a full queue.    *)
Adapter(name, cap, is_channel) == [crate |-> name, capacity |-> cap, channel |-> is_channel]
OursSpsc == Adapter("ours", CAPACITY, FALSE)
RtrbSpsc == Adapter("other", CAPACITY, FALSE)
RingbufSpsc == Adapter("other", CAPACITY, FALSE)
HeaplessSpsc == LET raw == CAPACITY + 1 IN Adapter("other", raw - 1, FALSE)
NextPowerOfTwo(c) ==
    CHOOSE p \in c .. 2 * c : IsPowerOfTwo(p) /\ \A q \in c .. p - 1 : ~IsPowerOfTwo(q)
NexusSpsc == Adapter("other", NextPowerOfTwo(CAPACITY), FALSE)
CbChanSpsc == Adapter("other", CAPACITY, TRUE)
FlumeSpsc == Adapter("other", CAPACITY, TRUE)
StdMpscSpsc == Adapter("other", CAPACITY, TRUE)
Adapters == {OursSpsc, RtrbSpsc, RingbufSpsc, HeaplessSpsc, NexusSpsc,
             CbChanSpsc, FlumeSpsc, StdMpscSpsc}
Ours == impl = OursSpsc

BenchInit ==
    /\ Init
    /\ impl \in Adapters /\ fifo = 0
    /\ bench \in {"handoff", "throttled"}
    /\ capture_sys \in BOOLEAN /\ (bench = "handoff" => ~capture_sys)
    /\ main = "spawned" /\ producer = "pin" /\ consumer = "pin"
    /\ arrived = {} /\ i = 0 /\ pending = FALSE
    /\ schedule_q32 = 0 /\ was_full = FALSE /\ full_pushes = 0
    /\ seen = 0 /\ offered = 0 /\ sys_offered = 0
    /\ report = [saturated |-> FALSE, sys_hist |-> FALSE]

-----------------------------------------------------------------------------
(* The barrier of three (external: std::sync::Barrier).                    *)
Released == arrived = {"M", "P", "C"}

(* assert!(set_for_current(core)); assert_eq!(sched_getcpu(), core).  A    *)
(* thread that fails panics, and unwinding drops the handle it owns.       *)
DropProd == IF Ours THEN DropProducer ELSE UNCHANGED vars
DropCons == IF Ours THEN DropConsumer ELSE UNCHANGED vars
ProducerPin ==
    /\ producer = "pin" /\ producer' = "loop" /\ arrived' = arrived \cup {"P"}
    /\ UNCHANGED <<vars, setup, main, consumer, counters, report>>
ProducerPinFails ==
    /\ PIN_MAY_FAIL /\ producer = "pin" /\ producer' = "panicked"
    /\ DropProd
    /\ UNCHANGED <<setup, main, consumer, arrived, counters, report>>
ConsumerPin ==
    /\ consumer = "pin" /\ consumer' = "poll" /\ arrived' = arrived \cup {"C"}
    /\ UNCHANGED <<vars, setup, main, producer, counters, report>>
ConsumerPinFails ==
    /\ PIN_MAY_FAIL /\ consumer = "pin" /\ consumer' = "panicked"
    /\ DropCons
    /\ UNCHANGED <<setup, main, producer, arrived, counters, report>>

-----------------------------------------------------------------------------
(* The producer's thread: for _ in 0..n, take the next item (due one       *)
(* period after the last one, whatever happened to that), then retry       *)
(* try_push until it succeeds.                                             *)
Pushing == producer = "loop" /\ Released
NextItem ==
    /\ Pushing /\ ppc = "idle" /\ i < n /\ ~pending
    /\ i' = i + 1 /\ pending' = TRUE
    /\ schedule_q32' = IF bench = "throttled" THEN schedule_q32 + dt_q32 ELSE schedule_q32
    /\ was_full' = FALSE
    /\ UNCHANGED <<vars, setup, threadVars, arrived,
                   full_pushes, consumerCounters, report>>
TryPush == Ours /\ Pushing /\ pending /\ Push /\ UNCHANGED benchVars
InTryPush ==
    /\ Pushing /\ StillFull
    /\ was_full' = (was_full \/ (bench = "throttled" /\ ppc' = "idle"))
    /\ UNCHANGED <<setup, threadVars, arrived, i, pending,
                   schedule_q32, full_pushes, consumerCounters, report>>
TryPushWrite == Pushing /\ PushWrite /\ UNCHANGED benchVars
BugCountFull == full_pushes + 1
CountFull == IF was_full THEN full_pushes + 1 ELSE full_pushes
TryPushOk ==
    /\ Pushing /\ PushStore
    /\ pending' = FALSE /\ full_pushes' = CountFull
    /\ UNCHANGED <<setup, threadVars, arrived, i,
                   schedule_q32, was_full, consumerCounters, report>>

(* The same call on another crate's queue *)
Accepts ==
    /\ fifo < impl.capacity
    /\ ~(impl.channel /\ consumer \in {"returned", "panicked"})
OtherTryPush ==
    /\ ~Ours /\ Pushing /\ pending
    /\ fifo' = IF Accepts THEN fifo + 1 ELSE fifo
    /\ pending' = ~Accepts
    /\ was_full' = (was_full \/ (bench = "throttled" /\ ~Accepts))
    /\ full_pushes' = IF Accepts THEN CountFull ELSE full_pushes
    /\ UNCHANGED <<vars, bench, capture_sys, impl, threadVars, arrived, i,
                   schedule_q32, consumerCounters, report>>

(* done.store(true, Release) *)
LastPushed == Pushing /\ ppc = "idle" /\ i = n /\ ~pending
BugStoreDone ==
    /\ LastPushed /\ producer' = "returning"
    /\ UNCHANGED <<vars, setup, main, consumer, arrived, counters, report>>
StoreDone ==
    /\ LastPushed /\ producer' = "returning"
    /\ Store("P", DONE, 1, DoneStoreOrdering, "None")
    /\ UNCHANGED <<producerVars, consumerVars, dropVars, ghostVars,
                   setup, main, consumer, arrived, counters, report>>
ProducerReturns ==
    /\ producer = "returning" /\ producer' = "returned"
    /\ DropProd
    /\ UNCHANGED <<setup, main, consumer, arrived, counters, report>>

-----------------------------------------------------------------------------
(* The consumer's thread: pop until the queue is empty, then look at done; *)
(* when it is set, pop once more until the queue is empty, and return.     *)
Popping == consumer \in {"poll", "drain"} /\ Released
TryPop == Ours /\ Popping /\ Pop /\ UNCHANGED benchVars

WhenEmpty == IF consumer = "poll" THEN "check" ELSE "returning"
PopEmpty ==
    /\ Popping /\ StillEmpty
    /\ consumer' = IF cpc' = "idle" THEN WhenEmpty ELSE consumer
    /\ UNCHANGED <<setup, main, producer, arrived, counters, report>>
TryPopTake == Popping /\ PopRead /\ UNCHANGED benchVars
Warm == seen >= warmup
OfferSample ==
    /\ seen' = seen + 1
    /\ offered' = IF Warm THEN offered + 1 ELSE offered
    /\ sys_offered' = IF Warm /\ capture_sys THEN sys_offered + 1 ELSE sys_offered
TryPopSome ==
    /\ Popping /\ PopStore
    /\ OfferSample
    /\ UNCHANGED <<setup, threadVars, arrived, producerCounters, report>>

(* try_pop on another crate's queue: a channel without a sender is empty *)
OtherTryPop ==
    /\ ~Ours /\ Popping
    /\ \/ fifo > 0 /\ fifo' = fifo - 1 /\ OfferSample /\ UNCHANGED consumer
       \/ fifo = 0 /\ consumer' = WhenEmpty /\ UNCHANGED <<fifo, consumerCounters>>
    /\ UNCHANGED <<vars, bench, capture_sys, impl, main, producer, arrived,
                   producerCounters, report>>

(* if done.load(Acquire) *)
CheckDoneAt(t) ==
    /\ consumer = "check"
    /\ Load("C", DONE, t, DoneLoadOrdering, "None")
    /\ consumer' = IF mem[DONE][t].val = 1 THEN "drain" ELSE "poll"
    /\ UNCHANGED <<producerVars, consumerVars, dropVars, ghostVars,
                   setup, main, producer, arrived, counters, report>>
CheckDone == \E t \in Readable("C", DONE) : CheckDoneAt(t)
ConsumerReturns ==
    /\ consumer = "returning" /\ consumer' = "returned"
    /\ DropCons
    /\ UNCHANGED <<setup, main, producer, arrived, counters, report>>

-----------------------------------------------------------------------------
(* The main thread: barrier.wait(), pthread.join(), cthread.join().  A     *)
(* thread is joined when it has dropped its closure, the queue included if *)
(* it held the last handle.  (External: the drop of the queue in Spsc.)    *)
Dropping(th) == dropper.th = th /\ dropper.pc \notin {"alive", "freed"}
DropQueue == InDrop /\ UNCHANGED benchVars

MainWait ==
    /\ main = "spawned" /\ main' = "join_producer" /\ arrived' = arrived \cup {"M"}
    /\ UNCHANGED <<vars, setup, producer, consumer, counters, report>>
JoinProducer ==
    /\ main = "join_producer" /\ Released
    /\ producer = "returned" /\ ~Dropping("P")
    /\ main' = "join_consumer"
    /\ UNCHANGED <<vars, setup, producer, consumer, arrived, counters, report>>

(* The verdict on a throttled run, `late` being final_lag_ns over its      *)
(* threshold; a saturated run has no histogram of system latencies.        *)
Saturated(late) == full_pushes * 100 > n \/ late
ThrottledRateResult(late) ==
    [saturated |-> Saturated(late), sys_hist |-> capture_sys /\ ~Saturated(late)]
JoinConsumer(late) ==
    /\ main = "join_consumer" /\ consumer = "returned" /\ ~Dropping("C")
    /\ main' = "report"
    /\ report' = IF bench = "throttled" THEN ThrottledRateResult(late) ELSE report
    /\ UNCHANGED <<vars, setup, producer, consumer, arrived, counters>>
Reported == main = "report" /\ UNCHANGED allVars

ProducerThread ==
    \/ ProducerPin \/ NextItem \/ TryPush \/ InTryPush \/ TryPushWrite \/ TryPushOk
    \/ OtherTryPush \/ StoreDone \/ ProducerReturns
ConsumerThread ==
    \/ ConsumerPin \/ TryPop \/ PopEmpty \/ TryPopTake \/ TryPopSome
    \/ OtherTryPop \/ CheckDone \/ ConsumerReturns
MainThread == MainWait \/ JoinProducer \/ \E late \in BOOLEAN : JoinConsumer(late)

BenchNext ==
    \/ ProducerThread \/ ProducerPinFails
    \/ ConsumerThread \/ ConsumerPinFails
    \/ DropQueue \/ MainThread \/ Reported

BenchSpec == BenchInit /\ [][BenchNext]_allVars

(* Fairness.  Each thread has a core of its own and keeps being scheduled; *)
(* a load that is repeated eventually returns the newest message.          *)
FairBenchSpec ==
    /\ BenchSpec
    /\ WF_allVars(ProducerThread) /\ WF_allVars(ConsumerThread)
    /\ WF_allVars(MainThread) /\ WF_allVars(DropQueue)
    /\ SF_allVars(InTryPush /\ StillFullAt(Newest(HEAD)))
    /\ SF_allVars(PopEmpty /\ StillEmptyAt(Newest(TAIL)))
    /\ SF_allVars(CheckDoneAt(Newest(DONE)))

-----------------------------------------------------------------------------
(* "Producer's `done` Release happens-after its last push, so any items    *)
(* still in flight are visible now": the consumer never returns before it  *)
(* popped all n items, none was left to the queue's destructor, and each   *)
(* of those after the warmup was offered once to each histogram (which may *)
(* reject it).                                                             *)
AllItemsSampled ==
    consumer \in {"returning", "returned"} =>
        /\ seen = n /\ offered = n - warmup
        /\ capture_sys => sys_offered = offered
        /\ dropped = <<>>

(* "~32 bits of sub-tick precision keeps long runs (10^8 items) from       *)
(* drifting more than a single tick away from the ideal schedule": the     *)
(* rounded periods add up to the tick in which the item is due, or the one *)
(* before, as long as no more than 2^32 items are pushed.                  *)
schedule_tsc == schedule_q32 \div ONE
Ideal(k) == (k * TSC_HZ) \div RATE
ScheduleDrift ==
    bench = "throttled" => schedule_tsc \in {Ideal(i) - 1, Ideal(i)}

(* full_pushes is "Number of items whose first push attempt saw a full     *)
(* queue": however stale the producer's copy of head is, the first         *)
(* CAPACITY items never count and no item counts twice; and a report with  *)
(* system latencies was offered all of them.                               *)
BackpressureIsReal ==
    /\ full_pushes + CAPACITY <= i \/ full_pushes = 0
    /\ was_full => i > CAPACITY
    /\ report.sys_hist => sys_offered = n - warmup

(* When both threads are pinned the benchmark comes to an end: the barrier *)
(* opens, the retry loop of the producer and the polling of the consumer   *)
(* do not wait for each other forever, and both threads are joined.        *)
BenchTerminates == <>(main = "report" \/ "panicked" \in {producer, consumer})

(* "Panics if either thread's `set_for_current` / post-pin `sched_getcpu`  *)
(* check fails": a thread that fails makes run_spsc_handoff fail.          *)
PinFailurePanics ==
    "panicked" \in {producer, consumer} ~> main = "panicked"
=============================================================================

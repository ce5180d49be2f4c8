--------------------------- MODULE SeqLockBench ----------------------------
(***************************************************************************)
(* examples/seqlock/bench_handoff.rs: a pinned thread writes N time stamps *)
(* through a sequence lock, another reads them until the flag `done`, and  *)
(* the main thread joins both.  It composes the lock of module SeqLock     *)
(* with a Barrier of two and the flag.  The n-th time stamp is n, the      *)
(* writer's pacing is left out: it only slows the writer.                  *)
(***************************************************************************)
EXTENDS SeqLock

CONSTANTS
    N,           \* time stamps the writer writes
    WARMUP,      \* samples that are not recorded
    PIN_MAY_FAIL \* TRUE if pinning a thread to its core may fail

(* What the benchmark fixes of the lock's constants. *)
BenchConstants ==
    /\ ClientLocs = {"done"} /\ Readers = {FirstReader}
    /\ N \in Nat /\ MAX_WRITES = N /\ WARMUP \in Nat /\ PIN_MAY_FAIL \in BOOLEAN

VARIABLES
    main, writer, reader, \* where each thread is
    arrived,              \* the threads that called barrier.wait()
    last_ts,              \* the reader's local last_ts
    seen, offered,        \* new time stamps the reader counted; how many of them
                          \* it passed to hist.record(), which may reject some
    lapped                \* ghost: seq went through a whole cycle during a read

threadVars == <<main, writer, reader>>
samples == <<last_ts, seen, offered, lapped>>
benchVars == <<threadVars, arrived, samples>>
allVars == <<vars, benchVars>>

R == FirstReader
DONE == Client("done")

BenchInit ==
    /\ Init
    /\ main = "join_writer" /\ writer = "pin" /\ reader = "pin" /\ arrived = {}
    /\ last_ts = Blank /\ seen = 0 /\ offered = 0 /\ lapped = FALSE

-----------------------------------------------------------------------------
(* The barrier of two (external: std::sync::Barrier).                      *)
Released == arrived = {"W", "R"}

(* The assertions on set_for_current and sched_getcpu panic on failure.    *)
WriterPin ==
    /\ writer = "pin" /\ writer' = "loop" /\ arrived' = arrived \cup {"W"}
    /\ UNCHANGED <<vars, main, reader, samples>>
ReaderPin ==
    /\ reader = "pin" /\ reader' = "read" /\ arrived' = arrived \cup {"R"}
    /\ UNCHANGED <<vars, main, writer, samples>>
PinFails ==
    /\ PIN_MAY_FAIL
    /\ \/ writer = "pin" /\ writer' = "panicked" /\ UNCHANGED reader
       \/ reader = "pin" /\ reader' = "panicked" /\ UNCHANGED writer
    /\ UNCHANGED <<vars, main, arrived, samples>>

-----------------------------------------------------------------------------
(* The writer's thread: N writes, then done.store(true, Release).          *)
WriteTs == writer = "loop" /\ Released /\ WriterStep /\ UNCHANGED benchVars
BugStoreDone ==
    /\ writer = "loop" /\ Released /\ wpc = "idle" /\ wcount = N
    /\ writer' = "returned"
    /\ UNCHANGED <<vars, main, reader, arrived, samples>>
StoreDone ==
    /\ writer = "loop" /\ Released /\ wpc = "idle" /\ wcount = N
    /\ Store("W", DONE, 1, "Release", "None")
    /\ writer' = "returned"
    /\ UNCHANGED <<writerVars, readerVars, main, reader, arrived, samples>>

-----------------------------------------------------------------------------
(* The reader's thread: read(), then look at done, then at the value.      *)
CallRead ==
    /\ reader = "read" /\ Released
    /\ ReaderStep(R)
    /\ reader' = IF rpc[R] # "idle" /\ rpc'[R] = "idle" THEN "check" ELSE reader
    /\ lapped' = (lapped \/ ret'[R].t2 - ret'[R].t1 >= SEQ_MOD)
    /\ UNCHANGED <<main, writer, arrived, last_ts, seen, offered>>

(* if done.load(Acquire) { break } *)
CheckDoneAt(t) ==
    /\ reader = "check"
    /\ Load(R, DONE, t, "Acquire", "None")
    /\ reader' = IF mem[DONE][t].val = 1 THEN "returned" ELSE "sample"
    /\ UNCHANGED <<writerVars, readerVars, main, writer, arrived, samples>>
CheckDone == \E t \in Readable(R, DONE) : CheckDoneAt(t)

(* if ts == last_ts { continue }; otherwise one more sample *)
BugIsNew(ts) == TRUE
IsNew(ts) == ts # last_ts
Sample ==
    LET ts == ret[R].val
    IN  /\ reader = "sample" /\ reader' = "read"
        /\ last_ts' = ts
        /\ seen' = IF IsNew(ts) THEN seen + 1 ELSE seen
        /\ offered' = IF IsNew(ts) /\ seen >= WARMUP THEN offered + 1 ELSE offered
        /\ UNCHANGED <<vars, main, writer, arrived, lapped>>

-----------------------------------------------------------------------------
(* The main thread: w_thread.join().unwrap(), r_thread.join().unwrap().    *)
JoinWriter ==
    /\ main = "join_writer" /\ writer \in {"returned", "panicked"}
    /\ main' = IF writer = "returned" THEN "join_reader" ELSE "panicked"
    /\ UNCHANGED <<vars, writer, reader, arrived, samples>>
JoinReader ==
    /\ main = "join_reader" /\ reader = "returned"
    /\ main' = "report"
    /\ UNCHANGED <<vars, writer, reader, arrived, samples>>

(* When main returns or panics the process ends. *)
Running == main \notin {"report", "panicked"}
WriterThread == Running /\ (WriterPin \/ WriteTs \/ StoreDone)
ReaderThread == Running /\ (ReaderPin \/ CallRead \/ CheckDone \/ Sample)
MainThread == JoinWriter \/ JoinReader

BenchNext == WriterThread \/ ReaderThread \/ MainThread \/ (Running /\ PinFails)

BenchSpec == BenchInit /\ [][BenchNext]_allVars

(* Fairness.  Each thread has a core of its own and keeps being scheduled; *)
(* a load that is repeated eventually returns the newest message.          *)
FairBenchSpec ==
    /\ BenchSpec
    /\ WF_allVars(WriterThread) /\ WF_allVars(ReaderThread) /\ WF_allVars(MainThread)
    /\ SF_allVars(Running /\ CallRead /\ FreshS1(R))
    /\ SF_allVars(Running /\ CheckDoneAt(Newest(DONE)))

-----------------------------------------------------------------------------
(* Each sample is a time stamp that was not sampled before, later than all *)
(* the ones before it: a value is counted once however often it is read,   *)
(* and no read goes back to an older one (short of a whole cycle of seq    *)
(* during a read).  Each one after the warmup is offered to the histogram. *)
SamplesAreFresh ==
    ~lapped =>
        /\ \A w \in Words : seen <= last_ts[w] /\ last_ts[w] <= wcount
        /\ reader = "sample" => \A w \in Words : last_ts[w] <= ret[R].val[w]
        /\ offered = IF seen > WARMUP THEN seen - WARMUP ELSE 0

(* The benchmark ends: the reader, which may spin on an odd seq, sees the  *)
(* flag after the last write, and a writer that cannot be pinned makes     *)
(* main panic.  A reader that cannot be pinned leaves the writer at the    *)
(* barrier and main in join.                                               *)
BenchTerminates ==
    <>(main \in {"report", "panicked"} \/ reader = "panicked")
=============================================================================

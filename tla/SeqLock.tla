------------------------------ MODULE SeqLock ------------------------------
(***************************************************************************)
(* src/seqlock: one Writer and any number of Readers over a value guarded  *)
(* by a sequence number.  The value is NWords machine words; write_volatile*)
(* and read_volatile touch them one at a time, in any order, as Relaxed    *)
(* accesses (the compiler may split and order the words of a large T).     *)
(* The n-th write stores n in every word; the initial value is 0.          *)
(***************************************************************************)
EXTENDS WeakMemory

CONSTANTS
    Readers,     \* reader handles (threads sharing one &Reader are more of them)
    FirstReader, \* the handle that seqlock::new returns
    NWords,      \* words of T
    SEQ_MOD,     \* 2^64 in the code: seq is an AtomicU64
    MAX_WRITES,  \* bound on the number of writes
    ClientLocs   \* atomics of the program around the lock, if any

ASSUME SeqLockAssumption ==
    /\ FirstReader \in Readers
    /\ "W" \notin Readers
    /\ NWords \in Nat \ {0}
    /\ SEQ_MOD \in Nat \ {0} /\ SEQ_MOD % 2 = 0
    /\ MAX_WRITES \in Nat

VARIABLES
    wpc,    \* where the writer is in write()
    s,      \* write()'s local s
    wtodo,  \* the words that write_volatile has still to store
    wcount, \* ghost: the number of writes begun
    rpc,    \* where each reader is in read(); "off" before it is cloned
    s1,     \* read()'s local s1
    t1,     \* ghost: the timestamp of the message s1 came from
    rtodo,  \* the words that read_volatile has still to load
    got,    \* read()'s local read_attempt
    ret     \* the last value read() returned, with ghost timestamps of s1, s2

writerVars == <<wpc, s, wtodo, wcount>>
readerVars == <<rpc, s1, t1, rtodo, got, ret>>
vars == <<memVars, writerVars, readerVars>>

Words == 1 .. NWords
SEQ == <<"seq", 0>>
Data(w) == <<"data", w>>
Client(x) == <<"client", x>>
Loc == {SEQ} \cup {Data(w) : w \in Words} \cup {Client(x) : x \in ClientLocs}
Thread == {"W"} \cup Readers

(* The memory orderings the code asks for, one definition per access.  The *)
(* definitions named Bug... are seeded bugs: each stands in for the one it *)
(* precedes to show that a property notices.                               *)
BugOddStoreFence == "None"
OddStoreFence == "Release"
EvenStoreOrdering == "Release"
BugSeq1LoadOrdering == "Relaxed"
Seq1LoadOrdering == "Acquire"
BugSeq2LoadFence == "None"
Seq2LoadFence == "Acquire"

(* u64::wrapping_add *)
BugWrappingAdd(a, n) == a + n
WrappingAdd(a, n) == (a + n) % SEQ_MOD

(* The two values write() stores in seq *)
OddSeq == WrappingAdd(s, 1)
BugEvenSeq == WrappingAdd(s, 1)
EvenSeq == WrappingAdd(s, 2)

Blank == [w \in Words |-> 0]

Init ==
    /\ InitMemory(Loc, Thread, [l \in Loc |-> 0])
    /\ wpc = "idle" /\ s = 0 /\ wtodo = {} /\ wcount = 0
    /\ rpc = [r \in Readers |-> IF r = FirstReader THEN "idle" ELSE "off"]
    /\ s1 = [r \in Readers |-> 0]
    /\ t1 = [r \in Readers |-> 1]
    /\ rtodo = [r \in Readers |-> {}]
    /\ got = [r \in Readers |-> Blank]
    /\ ret = [r \in Readers |-> [val |-> Blank, t1 |-> 1, t2 |-> 1]]

-----------------------------------------------------------------------------
(* SeqLockInner::write.                                                    *)

(* let s = self.seq.load(Relaxed) *)
WriteLoad ==
    /\ wpc = "idle" /\ wcount < MAX_WRITES
    /\ \E t \in Readable("W", SEQ) :
          /\ Load("W", SEQ, t, "Relaxed", "None")
          /\ s' = mem[SEQ][t].val
    /\ wpc' = "odd"
    /\ wcount' = wcount + 1
    /\ UNCHANGED <<wtodo, readerVars>>

(* seq.store(s + 1, Relaxed); fence(Release) *)
WriteOdd ==
    /\ wpc = "odd"
    /\ Store("W", SEQ, OddSeq, "Relaxed", OddStoreFence)
    /\ wpc' = "words" /\ wtodo' = Words
    /\ UNCHANGED <<s, wcount, readerVars>>

(* One word of self.data.get().write_volatile(value) *)
WriteWord(w) ==
    /\ wpc = "words" /\ w \in wtodo
    /\ Store("W", Data(w), wcount, "Relaxed", "None")
    /\ wtodo' = wtodo \ {w}
    /\ UNCHANGED <<wpc, s, wcount, readerVars>>

(* seq.store(s + 2, Release) *)
WriteEven ==
    /\ wpc = "words" /\ wtodo = {}
    /\ Store("W", SEQ, EvenSeq, EvenStoreOrdering, "None")
    /\ wpc' = "idle"
    /\ UNCHANGED <<s, wtodo, wcount, readerVars>>

-----------------------------------------------------------------------------
(* SeqLockInner::read, for reader r.                                       *)

ReadBegin(r) ==
    /\ rpc[r] = "idle"
    /\ rpc' = [rpc EXCEPT ![r] = "s1"]
    /\ UNCHANGED <<memVars, writerVars, s1, t1, rtodo, got, ret>>

(* let s1 = seq.load(Acquire); if s1 & 1 == 1 { continue } *)
ReadS1At(r, t) ==
    /\ rpc[r] = "s1"
    /\ Load(r, SEQ, t, Seq1LoadOrdering, "None")
    /\ LET odd == mem[SEQ][t].val % 2 = 1
       IN  /\ rpc' = [rpc EXCEPT ![r] = IF odd THEN "s1" ELSE "words"]
           /\ rtodo' = [rtodo EXCEPT ![r] = IF odd THEN {} ELSE Words]
    /\ s1' = [s1 EXCEPT ![r] = mem[SEQ][t].val]
    /\ t1' = [t1 EXCEPT ![r] = t]
    /\ UNCHANGED <<writerVars, got, ret>>

ReadS1(r) == \E t \in Readable(r, SEQ) : ReadS1At(r, t)

(* One word of self.data.get().read_volatile() *)
ReadWord(r, w) ==
    /\ rpc[r] = "words" /\ w \in rtodo[r]
    /\ \E t \in Readable(r, Data(w)) :
          /\ Load(r, Data(w), t, "Relaxed", "None")
          /\ got' = [got EXCEPT ![r][w] = mem[Data(w)][t].val]
    /\ rtodo' = [rtodo EXCEPT ![r] = @ \ {w}]
    /\ UNCHANGED <<writerVars, rpc, s1, t1, ret>>

(* fence(Acquire); let s2 = seq.load(Relaxed); if s1 == s2 { return } *)
ReadS2At(r, t) ==
    /\ rpc[r] = "words" /\ rtodo[r] = {}
    /\ Load(r, SEQ, t, "Relaxed", Seq2LoadFence)
    /\ IF s1[r] = mem[SEQ][t].val
       THEN /\ rpc' = [rpc EXCEPT ![r] = "idle"]
            /\ ret' = [ret EXCEPT ![r] = [val |-> got[r], t1 |-> t1[r], t2 |-> t]]
       ELSE /\ rpc' = [rpc EXCEPT ![r] = "s1"]
            /\ UNCHANGED ret
    /\ got' = [got EXCEPT ![r] = Blank]
    /\ UNCHANGED <<writerVars, s1, t1, rtodo>>

ReadS2(r) == \E t \in 1 .. Newest(SEQ) : ReadS2At(r, t)

-----------------------------------------------------------------------------
(* Clone for Reader: the clone starts with what the cloning thread saw.    *)
Clone(r, new) ==
    /\ rpc[r] = "idle" /\ rpc[new] = "off"
    /\ HandOver(r, new)
    /\ rpc' = [rpc EXCEPT ![new] = "idle"]
    /\ UNCHANGED <<writerVars, s1, t1, rtodo, got, ret>>

(* External: between two calls, the thread of the writer tells the thread  *)
(* of reader r that a write is done (a join, a channel, the same thread).  *)
Notify(r) ==
    /\ wpc = "idle" /\ rpc[r] = "idle" /\ cur[r] # Join(cur[r], cur["W"])
    /\ HandOver("W", r)
    /\ UNCHANGED <<writerVars, readerVars>>

WriterStep == WriteLoad \/ WriteOdd \/ (\E w \in Words : WriteWord(w)) \/ WriteEven
ReaderStep(r) ==
    ReadBegin(r) \/ ReadS1(r) \/ (\E w \in Words : ReadWord(r, w)) \/ ReadS2(r)

Next ==
    \/ WriterStep
    \/ \E r \in Readers : ReaderStep(r) \/ Notify(r)
    \/ \E r, new \in Readers : Clone(r, new)

Spec == Init /\ [][Next]_vars

-----------------------------------------------------------------------------
(* Fairness.  A thread that is inside a call keeps being scheduled, and a  *)
(* load that is repeated eventually returns the newest message: cache      *)
(* coherence makes a store visible in finite time.                         *)
FreshS1(r) == ReadS1At(r, Newest(SEQ))
InRead(r) == ReadS1(r) \/ (\E w \in Words : ReadWord(r, w)) \/ ReadS2(r)
InWrite == WriteOdd \/ (\E w \in Words : WriteWord(w)) \/ WriteEven
FairReaders == \A r \in Readers : WF_vars(InRead(r)) /\ SF_vars(FreshS1(r))
FairWriter == WF_vars(InWrite)

FairSpec == Spec /\ FairReaders /\ FairWriter
StalledWriterSpec == Spec /\ FairReaders

-----------------------------------------------------------------------------
Snapshot == [val : [Words -> Nat], t1 : Nat \ {0}, t2 : Nat \ {0}]

(* Type invariant of the memory and of the local variables of write() and  *)
(* read().                                                                 *)
TypeOK ==
    /\ MemoryOK(Loc, Thread)
    /\ wpc \in {"idle", "odd", "words"} /\ s \in 0 .. SEQ_MOD - 1
    /\ wtodo \in SUBSET Words /\ wcount \in Nat
    /\ rpc \in [Readers -> {"off", "idle", "s1", "words"}]
    /\ s1 \in [Readers -> 0 .. SEQ_MOD - 1]
    /\ t1 \in [Readers -> Nat \ {0}]
    /\ rtodo \in [Readers -> SUBSET Words]
    /\ got \in [Readers -> [Words -> Nat]]
    /\ ret \in [Readers -> Snapshot]

(* The s1 == s2 test of read() rejects every torn or stale value: unless   *)
(* the writer completed 2^63 writes between the two loads of seq, each     *)
(* word returned comes from the one write whose even seq was loaded first. *)
NoTornRead ==
    \A r \in Readers :
        ret[r].t2 - ret[r].t1 < SEQ_MOD =>
            \A w \in Words : 2 * ret[r].val[w] = ret[r].t1 - 1

(* write() and read() together implement an atomic cell: a reader, its     *)
(* clones and the threads it synchronises with never see time go back.     *)
Cell == INSTANCE SnapshotCell WITH
    version <- (Newest(SEQ) - 1) \div 2,
    floor   <- [r \in Readers |-> (cur[r][SEQ] - 1) \div 2],
    last    <- [r \in Readers |->
                  IF \A w \in Words : ret[r].val[w] = ret[r].val[1]
                  THEN ret[r].val[1] ELSE -1]
ImplementsCell == Cell!Spec

(* "Spin-loops while the writer is mid-write or while a torn read is       *)
(* observed; returns once a consistent value has been observed": when the  *)
(* writer finishes its writes and pauses, every read() returns.            *)
ReadTerminates == \A r \in Readers : rpc[r] = "s1" ~> rpc[r] = "idle"

(* The documentation of Reader calls read() "lock-free in [the] presence"  *)
(* of a concurrent writer: with a read in progress some operation of the   *)
(* lock completes, whatever happens to the other threads.                  *)
LockFreeRead ==
    \A r \in Readers : rpc[r] = "s1" ~> (rpc[r] = "idle" \/ wpc = "idle")
=============================================================================

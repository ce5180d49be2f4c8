-------------------------------- MODULE Spmc --------------------------------
(***************************************************************************)
(* src/spmc: a ring of CAPACITY slots, each guarded by its own sequence    *)
(* number.  One Producer overwrites the oldest slot; every Consumer reads  *)
(* with a private cursor and is told when the producer has lapped it.      *)
(* Cursors and sequence numbers are usize (modulo WORD).  The value        *)
(* published at position p (the p-th publish, from 0) is p + 1 in every    *)
(* word; the zeroed slots of new() hold 0.                                 *)
(***************************************************************************)
EXTENDS WeakMemory

CONSTANTS
    Consumers,     \* consumer handles
    FirstConsumer, \* the handle that spmc::new returns
    CAPACITY,      \* slots of the ring
    NWords,        \* machine words of T
    WORD,          \* 2^64 (or 2^32) in the code: the modulus of usize
    MAX_PUBLISH,   \* bound on the number of publishes
    ClientLocs     \* atomics of the program around the queue, if any

ASSUME SpmcAssumption ==
    /\ FirstConsumer \in Consumers
    /\ "P" \notin Consumers
    /\ CAPACITY \in Nat \ {0} /\ NWords \in Nat \ {0} /\ MAX_PUBLISH \in Nat
    /\ WORD \in Nat /\ WORD % 2 = 0 /\ WORD % CAPACITY = 0 /\ 2 * CAPACITY < WORD

VARIABLES
    ppc,      \* where the producer is in publish()
    w_pos,    \* publish()'s local w_pos
    wtodo,    \* the words write_volatile has still to store
    begun,    \* ghost: number of publishes begun
    cpc,      \* where each consumer is in try_read(); "off" before it is cloned
    read_cursor, cached_write_cursor,  \* ConsumerStateInner
    rtodo,    \* the words read_volatile has still to load
    got,      \* try_read()'s local attempted_read
    pos,      \* ghost: what the caller counts: values plus skipped
    res       \* what try_read() last returned

producerVars == <<ppc, w_pos, wtodo, begun>>
consumerVars == <<cpc, read_cursor, cached_write_cursor, rtodo, got, pos, res>>
vars == <<memVars, producerVars, consumerVars>>

Words == 1 .. NWords
Slots == 0 .. CAPACITY - 1
CURSOR == <<"write_cursor", 0, 0>>
SeqAt(i) == <<"seq", i, 0>>
DataAt(i, w) == <<"data", i, w>>
Client(x) == <<"client", x, 0>>
Loc == {CURSOR} \cup {SeqAt(i) : i \in Slots}
                \cup {DataAt(i, w) : i \in Slots, w \in Words}
                \cup {Client(x) : x \in ClientLocs}
Thread == {"P"} \cup Consumers

(* i & (CAPACITY - 1), CAPACITY being a power of two *)
slot(i) == i % CAPACITY

(* wrapping_add, wrapping_sub and wrapping_mul of usize.  The definitions  *)
(* named Bug... are seeded bugs: each stands in for the one it precedes to *)
(* show that a property notices.                                           *)
BugWrap(n) == n
Wrap(n) == n % WORD

(* The memory orderings the code asks for.                                 *)
BugOddStoreFence == "None"
OddStoreFence == "Release"
EvenStoreOrdering == "Release"
CursorStoreOrdering == "Release"
BugCursorLoadOrdering == "Relaxed"
CursorLoadOrdering == "Acquire"
Seq1LoadOrdering == "Acquire"
BugSeq2LoadFence == "None"
Seq2LoadFence == "Acquire"

Blank == [w \in Words |-> 0]
Result(kind, val, at, skipped, lag) ==
    [kind |-> kind, val |-> val, at |-> at, skipped |-> skipped, lag |-> lag]

(* spmc::new: every slot has seq 0 and zeroed data, all cursors are 0. *)
Init ==
    /\ InitMemory(Loc, Thread, [l \in Loc |-> 0])
    /\ ppc = "idle" /\ w_pos = 0 /\ wtodo = {} /\ begun = 0
    /\ cpc = [c \in Consumers |-> IF c = FirstConsumer THEN "idle" ELSE "off"]
    /\ read_cursor = [c \in Consumers |-> 0]
    /\ cached_write_cursor = [c \in Consumers |-> 0]
    /\ rtodo = [c \in Consumers |-> {}]
    /\ got = [c \in Consumers |-> Blank]
    /\ pos = [c \in Consumers |-> 0]
    /\ res = [c \in Consumers |-> Result("Empty", Blank, 0, 0, 0)]

-----------------------------------------------------------------------------
(* Queue::publish.                                                         *)

(* let w_pos = write_cursor.load(Relaxed) *)
PublishLoad ==
    /\ ppc = "idle" /\ begun < MAX_PUBLISH
    /\ \E t \in Readable("P", CURSOR) :
          /\ Load("P", CURSOR, t, "Relaxed", "None")
          /\ w_pos' = mem[CURSOR][t].val
    /\ ppc' = "odd" /\ begun' = begun + 1
    /\ UNCHANGED <<wtodo, consumerVars>>

(* slot.seq.store(2 * w_pos + 1, Relaxed); fence(Release) *)
PublishOdd ==
    /\ ppc = "odd"
    /\ Store("P", SeqAt(slot(w_pos)), Wrap(2 * w_pos + 1), "Relaxed", OddStoreFence)
    /\ ppc' = "words" /\ wtodo' = Words
    /\ UNCHANGED <<w_pos, begun, consumerVars>>

(* One word of slot.data.get().write_volatile(value) *)
PublishWord(w) ==
    /\ ppc = "words" /\ w \in wtodo
    /\ Store("P", DataAt(slot(w_pos), w), begun, "Relaxed", "None")
    /\ wtodo' = wtodo \ {w}
    /\ UNCHANGED <<ppc, w_pos, begun, consumerVars>>

(* slot.seq.store(2 * w_pos + 2, Release) *)
PublishEven ==
    /\ ppc = "words" /\ wtodo = {}
    /\ Store("P", SeqAt(slot(w_pos)), Wrap(2 * w_pos + 2), EvenStoreOrdering, "None")
    /\ ppc' = "cursor"
    /\ UNCHANGED <<w_pos, wtodo, begun, consumerVars>>

(* write_cursor.store(w_pos + 1, Release) *)
PublishCursor ==
    /\ ppc = "cursor"
    /\ Store("P", CURSOR, Wrap(w_pos + 1), CursorStoreOrdering, "None")
    /\ ppc' = "idle"
    /\ UNCHANGED <<w_pos, wtodo, begun, consumerVars>>

-----------------------------------------------------------------------------
(* Consumer::try_read.                                                     *)

(* if read_cursor == cached_write_cursor, ask is_still_empty() *)
TryRead(c) ==
    /\ cpc[c] = "idle"
    /\ cpc' = [cpc EXCEPT ![c] =
                 IF read_cursor[c] = cached_write_cursor[c] THEN "empty" ELSE "seq1"]
    /\ UNCHANGED <<memVars, producerVars, read_cursor, cached_write_cursor,
                   rtodo, got, pos, res>>

(* is_still_empty(): reload write_cursor; return Empty if it did not move *)
IsStillEmptyAt(c, t) ==
    LET w == mem[CURSOR][t].val
    IN  /\ cpc[c] = "empty"
        /\ Load(c, CURSOR, t, CursorLoadOrdering, "None")
        /\ cached_write_cursor' = [cached_write_cursor EXCEPT ![c] = w]
        /\ cpc' = [cpc EXCEPT ![c] = IF read_cursor[c] = w THEN "idle" ELSE "seq1"]
        /\ res' = [res EXCEPT ![c] =
                     IF read_cursor[c] = w THEN Result("Empty", Blank, pos[c], 0, 0) ELSE @]
        /\ UNCHANGED <<producerVars, read_cursor, rtodo, got, pos>>
IsStillEmpty(c) == \E t \in Readable(c, CURSOR) : IsStillEmptyAt(c, t)

ExpectedSeq(c) == Wrap(2 * read_cursor[c] + 2)

(* seq1: odd, spin; not the expected one, we were lapped; else read data *)
Seq1At(c, t) ==
    LET l == SeqAt(slot(read_cursor[c]))
        seq1 == mem[l][t].val
        next == IF seq1 % 2 = 1 THEN "seq1"
                ELSE IF seq1 # ExpectedSeq(c) THEN "lapped" ELSE "words"
    IN  /\ cpc[c] = "seq1"
        /\ Load(c, l, t, Seq1LoadOrdering, "None")
        /\ cpc' = [cpc EXCEPT ![c] = next]
        /\ rtodo' = [rtodo EXCEPT ![c] = IF next = "words" THEN Words ELSE {}]
        /\ UNCHANGED <<producerVars, read_cursor, cached_write_cursor, got, pos, res>>
Seq1(c) == \E t \in Readable(c, SeqAt(slot(read_cursor[c]))) : Seq1At(c, t)

(* Reload write_cursor, jump to the last published slot, return Lapped *)
BugLapTargetPastNewest(c, w) == w
BugLapTarget(c, w) == Wrap(cached_write_cursor[c] - 1)
LapTarget(c, w) == Wrap(w - 1)
BugLappedAt(c, t) ==
    /\ cpc[c] = "lapped" /\ t = Newest(CURSOR)
    /\ read_cursor' = [read_cursor EXCEPT ![c] = Wrap(cached_write_cursor[c] - 1)]
    /\ cpc' = [cpc EXCEPT ![c] = "idle"]
    /\ UNCHANGED <<memVars, producerVars, cached_write_cursor, rtodo, got, pos, res>>
LappedAt(c, t) ==
    LET w == mem[CURSOR][t].val
        skipped == Wrap(LapTarget(c, w) - read_cursor[c])
    IN  /\ cpc[c] = "lapped"
        /\ Load(c, CURSOR, t, CursorLoadOrdering, "None")
        /\ cached_write_cursor' = [cached_write_cursor EXCEPT ![c] = w]
        /\ read_cursor' = [read_cursor EXCEPT ![c] = LapTarget(c, w)]
        /\ pos' = [pos EXCEPT ![c] = @ + skipped]
        /\ res' = [res EXCEPT ![c] = Result("Lapped", Blank, pos[c], skipped, begun - pos[c])]
        /\ cpc' = [cpc EXCEPT ![c] = "idle"]
        /\ UNCHANGED <<producerVars, rtodo, got>>
Lapped(c) == \E t \in Readable(c, CURSOR) : LappedAt(c, t)

(* One word of slot.data.get().read_volatile() *)
ReadWord(c, w) ==
    LET l == DataAt(slot(read_cursor[c]), w)
    IN  /\ cpc[c] = "words" /\ w \in rtodo[c]
        /\ \E t \in Readable(c, l) :
              /\ Load(c, l, t, "Relaxed", "None")
              /\ got' = [got EXCEPT ![c][w] = mem[l][t].val]
        /\ rtodo' = [rtodo EXCEPT ![c] = @ \ {w}]
        /\ UNCHANGED <<producerVars, cpc, read_cursor, cached_write_cursor, pos, res>>

(* fence(Acquire); seq2: unchanged, return Value; else retry.  seq1 is the *)
(* expected sequence number here, so it needs no variable.                 *)
Seq2At(c, t) ==
    LET l == SeqAt(slot(read_cursor[c]))
        same == mem[l][t].val = ExpectedSeq(c)
    IN  /\ cpc[c] = "words" /\ rtodo[c] = {}
        /\ Load(c, l, t, "Relaxed", Seq2LoadFence)
        /\ cpc' = [cpc EXCEPT ![c] = IF same THEN "idle" ELSE "seq1"]
        /\ read_cursor' = [read_cursor EXCEPT ![c] = IF same THEN Wrap(@ + 1) ELSE @]
        /\ pos' = [pos EXCEPT ![c] = IF same THEN @ + 1 ELSE @]
        /\ res' = [res EXCEPT ![c] =
                     IF same THEN Result("Value", got[c], pos[c], 0, begun - pos[c]) ELSE @]
        /\ got' = [got EXCEPT ![c] = Blank]
        /\ UNCHANGED <<producerVars, cached_write_cursor, rtodo>>
Seq2(c) == \E t \in 1 .. Newest(SeqAt(slot(read_cursor[c]))) : Seq2At(c, t)

-----------------------------------------------------------------------------
(* Clone for Consumer: the clone inherits both cursors.                    *)
Clone(c, new) ==
    /\ cpc[c] = "idle" /\ cpc[new] = "off"
    /\ HandOver(c, new)
    /\ cpc' = [cpc EXCEPT ![new] = "idle"]
    /\ read_cursor' = [read_cursor EXCEPT ![new] = read_cursor[c]]
    /\ cached_write_cursor' = [cached_write_cursor EXCEPT ![new] = cached_write_cursor[c]]
    /\ pos' = [pos EXCEPT ![new] = pos[c]]
    /\ UNCHANGED <<producerVars, rtodo, got, res>>

InPublish == PublishOdd \/ (\E w \in Words : PublishWord(w)) \/ PublishEven \/ PublishCursor
InTryRead(c) ==
    IsStillEmpty(c) \/ Seq1(c) \/ Lapped(c) \/ (\E w \in Words : ReadWord(c, w)) \/ Seq2(c)

Next ==
    \/ PublishLoad \/ InPublish
    \/ \E c \in Consumers : TryRead(c) \/ InTryRead(c)
    \/ \E c, new \in Consumers : Clone(c, new)

Spec == Init /\ [][Next]_vars

-----------------------------------------------------------------------------
(* Fairness.  A thread inside a call keeps being scheduled; a consumer     *)
(* keeps polling; a load that is repeated eventually returns the newest    *)
(* message (cache coherence).                                              *)
FairConsumer(c) ==
    /\ WF_vars(TryRead(c)) /\ WF_vars(InTryRead(c))
    /\ SF_vars(IsStillEmptyAt(c, Newest(CURSOR)))
    /\ SF_vars(Seq1At(c, Newest(SeqAt(slot(read_cursor[c])))))
    /\ SF_vars(LappedAt(c, Newest(CURSOR)))
FairSpec == Spec /\ WF_vars(InPublish) /\ \A c \in Consumers : FairConsumer(c)

-----------------------------------------------------------------------------

(* Type invariant of the memory and of the locals of publish/try_read. *)
TypeOK ==
    /\ MemoryOK(Loc, Thread)
    /\ ppc \in {"idle", "odd", "words", "cursor"} /\ w_pos \in 0 .. WORD - 1
    /\ wtodo \in SUBSET Words /\ begun \in Nat
    /\ cpc \in [Consumers -> {"off", "idle", "empty", "seq1", "lapped", "words"}]
    /\ read_cursor \in [Consumers -> 0 .. WORD - 1]
    /\ cached_write_cursor \in [Consumers -> 0 .. WORD - 1]
    /\ rtodo \in [Consumers -> SUBSET Words]
    /\ got \in [Consumers -> [Words -> Nat]]
    /\ pos \in [Consumers -> Nat]
    /\ res \in [Consumers -> [kind : {"Empty", "Value", "Lapped"}, val : [Words -> Nat],
                              at : Nat, skipped : 0 .. WORD - 1, lag : Nat]]

(* Counting one for each Value and skipped for each Lapped gives, at every *)
(* Value, the position the producer published it at: try_read never tears, *)
(* repeats, reorders or silently loses a value, provided the producer is   *)
(* not WORD / 2 publishes ahead (when sequence numbers repeat).            *)
ValueAtItsPosition ==
    \A c \in Consumers :
        res[c].kind = "Value" /\ res[c].lag <= WORD \div 2 =>
            \A w \in Words : res[c].val[w] = res[c].at + 1

(* "If producer currently writes it, we wait (by the way, it means that we *)
(* were overlapped)": a consumer past the empty check can only see its     *)
(* slot's sequence number at its own position or a later one, so it never  *)
(* spins on a value that has not been published yet.                       *)
OddMeansLapped ==
    \A c \in Consumers :
        cpc[c] \in {"seq1", "words", "lapped"} =>
            cur[c][SeqAt(slot(read_cursor[c]))] >= 2 * (pos[c] \div CAPACITY) + 3

(* Lapped says that values were lost and that the cursor has been advanced *)
(* to the most recently published slot: the cursor moves, by the number of *)
(* values the caller is told it lost.                                      *)
LappedAdvances ==
    \A c \in Consumers : res[c].kind = "Lapped" => res[c].skipped > 0

(* publish and try_read implement a log that keeps CAPACITY entries. *)
Log == INSTANCE BroadcastLog WITH
    Readers <- Consumers,
    published <- Newest(CURSOR) - 1,
    out <- [c \in Consumers |->
              IF res[c].kind # "Value" THEN 0
              ELSE IF \A w \in Words : res[c].val[w] = res[c].val[1]
                   THEN res[c].val[1] ELSE -1]
ImplementsLog == Log!Spec

(* Once the producer pauses, a polling consumer observes the end of the    *)
(* log (cursors being equal modulo WORD): it is never pinned in a Lapped   *)
(* -> Lapped cycle, nor in the spin on an odd sequence number.             *)
CatchesUp ==
    \A c \in Consumers :
        cpc[c] = "idle" ~> (read_cursor[c] = begun % WORD /\ res[c].kind = "Empty")
=============================================================================

-------------------------------- MODULE Spsc --------------------------------
(***************************************************************************)
(* src/spsc: a ring of CAPACITY slots between one Producer and one         *)
(* Consumer.  head and tail are AtomicUsize counters modulo WORD; each     *)
(* side caches the other's counter and reloads it only when the queue      *)
(* looks full (or empty).  When both handles are gone the last one runs    *)
(* Drop for Queue.  A slot is not atomic: push writes it and pop moves the *)
(* item out of it through with_mut, so every access is a message of the    *)
(* slot's location (0 stands for no item), and it is a data race unless    *)
(* all earlier accesses happened before it.  Items are 1, 2, ... in the    *)
(* order they are moved into slots.                                        *)
(***************************************************************************)
EXTENDS WeakMemory

CONSTANTS
    CAPACITY,        \* slots of the ring
    WORD,            \* 2^64 (or 2^32) in the code: the modulus of usize
    Builds,          \* the values of overflow_checks that are considered
    DROP_PANICS,     \* TRUE if the destructor of T may panic
    MAX_PUSH,        \* bound on the number of items written
    ClientLocs       \* atomics of the program around the queue, if any

ASSUME SpscAssumption ==
    /\ CAPACITY \in Nat \ {0}
    /\ WORD \in Nat /\ WORD % CAPACITY = 0 /\ CAPACITY < WORD
    /\ Builds \subseteq BOOLEAN /\ DROP_PANICS \in BOOLEAN
    /\ MAX_PUSH \in Nat

VARIABLES
    overflow_checks, \* TRUE in a debug build: += panics instead of wrapping
    ppc, p_cached_head, p_cached_tail, \* the producer, and where it is in push()
    cpc, c_cached_head, c_cached_tail, \* the consumer, and where it is in pop()
    arc,      \* Arc<Queue>: strong count and what its droppers released
    dropper,  \* Drop for Queue: its thread, pc, locals head and count, loop's k
    written,  \* ghost: items moved into a slot
    popped,   \* ghost: the items pop() returned, in order
    dropped,  \* ghost: the items whose destructor the queue ran, in order
    lost      \* ghost: the items a panic leaked

producerVars == <<ppc, p_cached_head, p_cached_tail>>
consumerVars == <<cpc, c_cached_head, c_cached_tail>>
dropVars == <<overflow_checks, arc, dropper>>
ghostVars == <<written, popped, dropped, lost>>
vars == <<memVars, producerVars, consumerVars, dropVars, ghostVars>>

HEAD == <<"head", 0>>
TAIL == <<"tail", 0>>
Slot(i) == <<"slot", i>>
Client(x) == <<"client", x>>
Loc == {HEAD, TAIL} \cup {Slot(i) : i \in 0 .. CAPACITY - 1}
                    \cup {Client(x) : x \in ClientLocs}
Thread == {"P", "C"}

(* slots_ptr + (i & (CAPACITY - 1)), CAPACITY being a power of two *)
SlotOf(i) == Slot(i % CAPACITY)

(* The memory orderings the code asks for.  The definitions named Bug...   *)
(* are seeded bugs: each stands in for the one it precedes to show that a  *)
(* property notices.                                                       *)
TailStoreOrdering == "Release"
BugHeadStoreOrdering == "Relaxed"
HeadStoreOrdering == "Release"
HeadLoadOrdering == "Acquire"
TailLoadOrdering == "Acquire"

(* += 1 on a usize in a release build *)
BugInc(n) == n + 1
Inc(n) == (n + 1) % WORD

(* spsc::new, Producer::new and Consumer::new *)
Init ==
    /\ InitMemory(Loc, Thread, [l \in Loc |-> 0])
    /\ overflow_checks \in Builds
    /\ ppc = "idle" /\ p_cached_head = 0 /\ p_cached_tail = 0
    /\ cpc = "idle" /\ c_cached_head = 0 /\ c_cached_tail = 0
    /\ arc = [strong |-> 2, view |-> FirstView(Loc)]
    /\ dropper = [th |-> "P", pc |-> "alive", head |-> 0, count |-> 0, k |-> 0]
    /\ written = 0 /\ popped = <<>> /\ dropped = <<>> /\ lost = {}

-----------------------------------------------------------------------------
(* Producer::push.                                                         *)

BugFullWithoutWrap(head, tail) == tail - head = CAPACITY
Full(head, tail) == (tail - head) % WORD = CAPACITY

(* The check against the cached head *)
Push ==
    /\ ppc = "idle" /\ written < MAX_PUSH
    /\ ppc' = IF Full(p_cached_head, p_cached_tail) THEN "still_full" ELSE "write"
    /\ UNCHANGED <<memVars, p_cached_head, p_cached_tail, consumerVars, dropVars, ghostVars>>

(* still_full(): reload head; when still full, push returns Some(item) *)
BugStillFullAt(t) ==
    /\ ppc = "still_full"
    /\ Load("P", HEAD, t, HeadLoadOrdering, "None")
    /\ ppc' = IF Full(p_cached_head, p_cached_tail) THEN "idle" ELSE "write"
    /\ UNCHANGED <<p_cached_head, p_cached_tail, consumerVars, dropVars, ghostVars>>
StillFullAt(t) ==
    LET head == mem[HEAD][t].val
    IN  /\ ppc = "still_full"
        /\ Load("P", HEAD, t, HeadLoadOrdering, "None")
        /\ p_cached_head' = head
        /\ ppc' = IF Full(head, p_cached_tail) THEN "idle" ELSE "write"
        /\ UNCHANGED <<p_cached_tail, consumerVars, dropVars, ghostVars>>
StillFull == \E t \in Readable("P", HEAD) : StillFullAt(t)

(* ptr.write(item) and cached_tail += 1, which panics at the end of usize  *)
(* in a debug build and leaves the item in an unpublished slot.            *)
BugPushPanics == FALSE
PushPanics == overflow_checks /\ p_cached_tail = WORD - 1
PushWrite ==
    /\ ppc = "write"
    /\ Store("P", SlotOf(p_cached_tail), written + 1, "Relaxed", "None")
    /\ written' = written + 1
    /\ p_cached_tail' = IF PushPanics THEN p_cached_tail ELSE Inc(p_cached_tail)
    /\ lost' = IF PushPanics THEN lost \cup {written + 1} ELSE lost
    /\ ppc' = IF PushPanics THEN "idle" ELSE "store"
    /\ UNCHANGED <<p_cached_head, consumerVars, dropVars, popped, dropped>>

(* tail.store(cached_tail, Release); push returns None *)
BugPushStore ==
    /\ ppc = "store"
    /\ Store("P", TAIL, (p_cached_tail - 1) % WORD, TailStoreOrdering, "None")
    /\ ppc' = "idle"
    /\ UNCHANGED <<p_cached_head, p_cached_tail, consumerVars, dropVars, ghostVars>>
PushStore ==
    /\ ppc = "store"
    /\ Store("P", TAIL, p_cached_tail, TailStoreOrdering, "None")
    /\ ppc' = "idle"
    /\ UNCHANGED <<p_cached_head, p_cached_tail, consumerVars, dropVars, ghostVars>>

-----------------------------------------------------------------------------
(* Consumer::pop.                                                          *)

(* The check against the cached tail *)
Pop ==
    /\ cpc = "idle"
    /\ cpc' = IF c_cached_head = c_cached_tail THEN "still_empty" ELSE "read"
    /\ UNCHANGED <<memVars, producerVars, c_cached_head, c_cached_tail, dropVars, ghostVars>>

(* still_empty(): reload tail; when still empty, pop returns None *)
StillEmptyAt(t) ==
    LET tail == mem[TAIL][t].val
    IN  /\ cpc = "still_empty"
        /\ Load("C", TAIL, t, TailLoadOrdering, "None")
        /\ c_cached_tail' = tail
        /\ cpc' = IF c_cached_head = tail THEN "idle" ELSE "read"
        /\ UNCHANGED <<producerVars, c_cached_head, dropVars, ghostVars>>
StillEmpty == \E t \in Readable("C", TAIL) : StillEmptyAt(t)

ItemIn(l) == mem[l][Newest(l)].val

(* ptr.read() moves the item out of the slot; cached_head += 1, which in a *)
(* debug build panics at the end of usize and drops the item unwinding.    *)
PopPanics == overflow_checks /\ c_cached_head = WORD - 1
PopRead ==
    LET l == SlotOf(c_cached_head)
    IN  /\ cpc = "read"
        /\ Store("C", l, 0, "Relaxed", "None")
        /\ c_cached_head' = IF PopPanics THEN c_cached_head ELSE Inc(c_cached_head)
        /\ popped' = IF PopPanics THEN popped ELSE Append(popped, ItemIn(l))
        /\ dropped' = IF PopPanics THEN Append(dropped, ItemIn(l)) ELSE dropped
        /\ cpc' = IF PopPanics THEN "idle" ELSE "store"
        /\ UNCHANGED <<c_cached_tail, producerVars, dropVars, written, lost>>

(* head.store(cached_head, Release); pop returns Some(item) *)
PopStore ==
    /\ cpc = "store"
    /\ Store("C", HEAD, c_cached_head, HeadStoreOrdering, "None")
    /\ cpc' = "idle"
    /\ UNCHANGED <<c_cached_head, c_cached_tail, producerVars, dropVars, ghostVars>>

-----------------------------------------------------------------------------
(* Dropping the handles.  Arc::drop (external) releases what the thread    *)
(* did; the thread that drops the last handle acquires all of it and runs  *)
(* Drop for Queue.                                                         *)
DropHandle(th) ==
    LET last == arc.strong = 1
        seen == Join(cur[th], arc.view)
    IN  /\ arc' = [strong |-> arc.strong - 1, view |-> seen]
        /\ dropper' = IF last THEN [dropper EXCEPT !.th = th, !.pc = "head"] ELSE dropper
        /\ cur' = IF last THEN [cur EXCEPT ![th] = seen] ELSE cur
        /\ acq' = IF last THEN [acq EXCEPT ![th] = Join(@, seen)] ELSE acq
        /\ UNCHANGED <<mem, rel, overflow_checks, ghostVars>>

DropProducer ==
    /\ ppc = "idle" /\ ppc' = "gone"
    /\ DropHandle("P")
    /\ UNCHANGED <<p_cached_head, p_cached_tail, consumerVars>>

DropConsumer ==
    /\ cpc = "idle" /\ cpc' = "gone"
    /\ DropHandle("C")
    /\ UNCHANGED <<c_cached_head, c_cached_tail, producerVars>>

(* let head = self.head.load(Relaxed) *)
DropLoadHead ==
    /\ dropper.pc = "head"
    /\ \E t \in Readable(dropper.th, HEAD) :
          /\ Load(dropper.th, HEAD, t, "Relaxed", "None")
          /\ dropper' = [dropper EXCEPT !.pc = "tail", !.head = mem[HEAD][t].val]
    /\ UNCHANGED <<producerVars, consumerVars, overflow_checks, arc, ghostVars>>

(* let tail = self.tail.load(Relaxed); let count = tail - head (wrapping) *)
DropLoadTail ==
    /\ dropper.pc = "tail"
    /\ \E t \in Readable(dropper.th, TAIL) :
          /\ Load(dropper.th, TAIL, t, "Relaxed", "None")
          /\ dropper' = [dropper EXCEPT !.pc = "items",
                             !.count = (mem[TAIL][t].val - dropper.head) % WORD]
    /\ UNCHANGED <<producerVars, consumerVars, overflow_checks, arc, ghostVars>>

BugDropSlot(k) == SlotOf(k)
DropSlot(k) == SlotOf((dropper.head + k) % WORD)

(* One turn of the loop: assume_init_drop.  A destructor that panics ends  *)
(* the loop, and the items after it are leaked.                            *)
DropItem(panics) ==
    LET l == DropSlot(dropper.k)
    IN  /\ dropper.pc = "items" /\ dropper.k < dropper.count
        /\ Store(dropper.th, l, 0, "Relaxed", "None")
        /\ dropped' = Append(dropped, ItemIn(l))
        /\ IF panics
           THEN /\ dropper' = [dropper EXCEPT !.pc = "free"]
                /\ lost' = lost \cup {ItemIn(DropSlot(k)) :
                                        k \in dropper.k + 1 .. dropper.count - 1}
           ELSE /\ dropper' = [dropper EXCEPT !.k = @ + 1]
                /\ UNCHANGED lost
        /\ UNCHANGED <<producerVars, consumerVars, overflow_checks, arc, written, popped>>

(* The loop is over, or unwound: the field slots_allocation is dropped *)
DropFree ==
    /\ \/ dropper.pc = "items" /\ dropper.k = dropper.count
       \/ dropper.pc = "free"
    /\ dropper' = [dropper EXCEPT !.pc = "freed"]
    /\ UNCHANGED <<memVars, producerVars, consumerVars, overflow_checks, arc, ghostVars>>

Terminated == dropper.pc = "freed" /\ UNCHANGED vars

-----------------------------------------------------------------------------
InPush == StillFull \/ PushWrite \/ PushStore
InPop == StillEmpty \/ PopRead \/ PopStore
InDrop ==
    \/ DropLoadHead \/ DropLoadTail \/ DropItem(FALSE) \/ DropFree
    \/ DROP_PANICS /\ DropItem(TRUE)

Next ==
    \/ Push \/ InPush \/ Pop \/ InPop
    \/ DropProducer \/ DropConsumer \/ InDrop \/ Terminated

Spec == Init /\ [][Next]_vars

(* Fairness.  A thread inside a call keeps being scheduled; both sides     *)
(* poll; a load that is repeated eventually returns the newest message     *)
(* (cache coherence).  Nobody has to drop a handle.                        *)
FairSpec ==
    /\ Spec
    /\ WF_vars(Push) /\ WF_vars(InPush) /\ SF_vars(StillFullAt(Newest(HEAD)))
    /\ WF_vars(Pop) /\ WF_vars(InPop) /\ SF_vars(StillEmptyAt(Newest(TAIL)))

-----------------------------------------------------------------------------
Usize == 0 .. WORD - 1
IndexMessage == [val : Usize, view : Views(Loc)]

(* Type invariant of the memory, both handles, the Arc and Drop for Queue. *)
TypeOK ==
    /\ MemoryOK(Loc, Thread)
    /\ mem[HEAD] \in Seq(IndexMessage) /\ mem[TAIL] \in Seq(IndexMessage)
    /\ overflow_checks \in BOOLEAN
    /\ ppc \in {"idle", "still_full", "write", "store", "gone"}
    /\ cpc \in {"idle", "still_empty", "read", "store", "gone"}
    /\ p_cached_head \in Usize /\ p_cached_tail \in Usize
    /\ c_cached_head \in Usize /\ c_cached_tail \in Usize
    /\ arc \in [strong : 0 .. 2, view : Views(Loc)]
    /\ dropper \in [th : Thread, pc : {"alive", "head", "tail", "items", "free", "freed"},
                    head : Usize, count : Usize, k : Nat]
    /\ written \in Nat /\ popped \in Seq(Nat) /\ dropped \in Seq(Nat) /\ lost \in SUBSET Nat

AboutToDrop == dropper.pc = "items" /\ dropper.k < dropper.count

(* push, pop and Drop for Queue touch a slot only after every earlier      *)
(* access to it happened before: the Release stores and Acquire loads of   *)
(* head and tail, and the Arc, order all of them.                          *)
NoDataRace ==
    /\ ppc = "write" => HappensAfterAll("P", SlotOf(p_cached_tail))
    /\ cpc = "read" => HappensAfterAll("C", SlotOf(c_cached_head))
    /\ AboutToDrop => HappensAfterAll(dropper.th, DropSlot(dropper.k))

(* push never overwrites an item that is still to be popped or dropped;    *)
(* pop and Drop for Queue never take an item from a slot that has none     *)
(* (uninitialised, or already moved out: a double drop); and the slots are *)
(* not touched once slots_allocation is gone.                              *)
SlotDiscipline ==
    /\ ppc = "write" => ItemIn(SlotOf(p_cached_tail)) \in {0} \cup lost
    /\ cpc = "read" => ItemIn(SlotOf(c_cached_head)) # 0
    /\ AboutToDrop => ItemIn(DropSlot(dropper.k)) # 0
    /\ dropper.pc = "freed" => ppc = "gone" /\ cpc = "gone"

ItemsOf(q) == {q[n] : n \in 1 .. Len(q)}

(* Items come out in the order they went in and never twice; and when the  *)
(* queue has been destroyed each item ever written was popped or dropped,  *)
(* or leaked by a panic (of a destructor, or of an overflow check).        *)
AccountedFor ==
    LET out == popped \o dropped
    IN  /\ \A m, n \in 1 .. Len(out) : m < n => out[m] < out[n]
        /\ dropper.pc = "freed" =>
              /\ ItemsOf(out) \cup lost = 1 .. written
              /\ ItemsOf(out) \cap lost = {}

(* push, pop and Drop for Queue implement a bounded FIFO queue, although   *)
(* each side works with a stale copy of the other's counter.               *)
TakenOut == Len(popped) + Len(dropped)
Fifo == INSTANCE BoundedFifo WITH
    queue  <- [n \in 1 .. Newest(TAIL) - 1 - TakenOut |-> ItemIn(SlotOf(TakenOut + n - 1))],
    sent   <- Newest(TAIL) - 1,
    taken  <- Len(popped),
    closed <- arc.strong = 0
ImplementsFifo == Fifo!Spec

(* A published item is popped, unless the consumer goes away. *)
EachItemDelivered ==
    \A n \in 1 .. MAX_PUSH : Newest(TAIL) > n ~> (Len(popped) >= n \/ cpc = "gone")

(* A producer that is told the queue is full gets its item in by retrying: *)
(* the two sides never wait for each other.                                *)
RetrySucceeds ==
    ppc = "still_full" ~> (ppc \in {"write", "gone"} \/ cpc = "gone")
=============================================================================

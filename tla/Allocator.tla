----------------------------- MODULE Allocator -----------------------------
(***************************************************************************)
(* src/mem.rs: the allocators of the queues' slot buffers.  allocate       *)
(* computes the layout, obtains the memory (alloc, or mmap of hugepages),  *)
(* locks it with mlock if asked to, and wraps it in an Allocation that     *)
(* releases it when dropped.  Each system call may fail, and calls of      *)
(* several threads interleave between them.  Addresses and sizes count     *)
(* units of the alignment of T; a page of the heap, unlike a hugepage, may *)
(* hold several allocations.                                               *)
(***************************************************************************)
EXTENDS Integers

CONSTANTS
    Handles,       \* the allocations a program makes
    Sizes,         \* items * size_of::<T>(), before any check
    WORD,          \* 2^64 (or 2^32) in the code: the modulus of usize
    HugepageSizes, \* HugepageSize::as_usize_bytes of its members
    HUGE,          \* end of the address range of each kind of hugepage
    PAGE, HEAP     \* page size and end of the heap behind #[global_allocator]

ASSUME AllocatorAssumption ==
    /\ Sizes \subseteq Nat
    /\ PAGE \in Nat \ {0} /\ HEAP \in Nat /\ HUGE \in Nat
    /\ WORD \in Nat \ {0} /\ WORD % 2 = 0
    /\ HugepageSizes \subseteq {p \in 1 .. WORD \div 2 : WORD % p = 0}

VARIABLES
    al,      \* each allocation: how far it is, its options, and its region
    locked,  \* the pages mlock has made resident
    running  \* FALSE after handle_alloc_error has aborted the process

vars == <<al, locked, running>>

ISIZE_MAX == WORD \div 2 - 1

Region(pc, area, page, size, base, len, mlock) ==
    [pc |-> pc, area |-> area, page |-> page, size |-> size,
     base |-> base, len |-> len, mlock |-> mlock]
NoRegion(pc) == Region(pc, "heap", PAGE, 0, 0, 0, FALSE)

Units(r) == r.base .. r.base + r.len - 1
Pages(r) == {<<r.area, r.page, u \div r.page>> : u \in Units(r)}

(* Memory is in use from alloc or mmap until drop; after a failed mlock    *)
(* ("leaked") no one owns it, but it is not given back.                    *)
InUse(h) == al[h].pc \in {"obtained", "live", "leaked"}

(* (layout.size() + page_size - 1) & !(page_size - 1), page_size being a   *)
(* power of two                                                            *)
BugRoundUp(size, page) == size - (size % page)
RoundUp(size, page) ==
    LET n == (size + page - 1) % WORD
    IN  n - (n % page)

(* Layout::array refuses sizes above isize::MAX *)
LayoutOverflows(size) == size > ISIZE_MAX

Init ==
    /\ al = [h \in Handles |-> NoRegion("none")]
    /\ locked = {} /\ running = TRUE

-----------------------------------------------------------------------------
(* Both allocate functions begin by computing the layout.                  *)
LayoutPanics(h, size) ==
    /\ running /\ al[h].pc = "none" /\ LayoutOverflows(size)
    /\ al' = [al EXCEPT ![h] = NoRegion("failed")]
    /\ UNCHANGED <<locked, running>>

AfterObtaining(mlock) == IF mlock THEN "obtained" ELSE "live"

(* GlobalAllocator: alloc::alloc(layout).  (External: it returns units of  *)
(* the heap that are not in use.  alloc of a zero-sized layout is not      *)
(* allowed; malloc(0), which it becomes, returns some address or null.)    *)
GlobalAlloc(h, size, base, mlock) ==
    LET r == Region(AfterObtaining(mlock), "heap", PAGE, size, base, size, mlock)
    IN  /\ running /\ al[h].pc = "none" /\ ~LayoutOverflows(size)
        /\ base + size <= HEAP
        /\ \A g \in Handles : InUse(g) /\ al[g].area = "heap" =>
                                  Units(al[g]) \cap Units(r) = {}
        /\ al' = [al EXCEPT ![h] = r]
        /\ UNCHANGED <<locked, running>>

(* alloc returns null: handle_alloc_error aborts the process *)
GlobalAllocAborts(h, size) ==
    /\ running /\ al[h].pc = "none" /\ ~LayoutOverflows(size)
    /\ running' = FALSE
    /\ UNCHANGED <<al, locked>>

(* HugepageAllocator: mmap of alloc_size bytes; length: alloc_size is what *)
(* drop will pass to munmap.  (External: mmap returns whole hugepages that *)
(* are not in use.)                                                        *)
BugAllocSize(size, page) == size
AllocSize(size, page) == RoundUp(size, page)
HugepageMmap(h, size, page, base, mlock) ==
    LET r == Region(AfterObtaining(mlock), "huge", page, size, base,
                    AllocSize(size, page), mlock)
    IN  /\ running /\ al[h].pc = "none" /\ ~LayoutOverflows(size)
        /\ r.len > 0 /\ base % page = 0 /\ base + r.len <= HUGE
        /\ \A g \in Handles : InUse(g) => Pages(al[g]) \cap Pages(r) = {}
        /\ al' = [al EXCEPT ![h] = r]
        /\ UNCHANGED <<locked, running>>

(* mmap fails, as it always does for length 0: assert_ne! panics *)
HugepageMmapPanics(h, size) ==
    /\ running /\ al[h].pc = "none" /\ ~LayoutOverflows(size)
    /\ al' = [al EXCEPT ![h] = NoRegion("failed")]
    /\ UNCHANGED <<locked, running>>

(* if options.mlock: mlock(ptr, length) ... *)
Mlock(h) ==
    /\ running /\ al[h].pc = "obtained"
    /\ locked' = locked \cup Pages(al[h])
    /\ al' = [al EXCEPT ![h].pc = "live"]
    /\ UNCHANGED running

(* ... whose failure panics before an Allocation exists to own the memory *)
MlockPanics(h) ==
    /\ running /\ al[h].pc = "obtained"
    /\ al' = [al EXCEPT ![h].pc = "leaked"]
    /\ UNCHANGED <<locked, running>>

-----------------------------------------------------------------------------
(* Drop for GlobalAllocation: dealloc(ptr, layout), and no munlock.        *)
BugUnlockedByDealloc(h) == Pages(al[h])
UnlockedByDealloc(h) == {}
GlobalDrop(h) ==
    /\ running /\ al[h].pc = "live" /\ al[h].area = "heap"
    /\ al' = [al EXCEPT ![h] = NoRegion("none")]
    /\ locked' = locked \ UnlockedByDealloc(h)
    /\ UNCHANGED running

(* (External: the heap returns a page without live units to the kernel.)   *)
HeapTrim(p) ==
    /\ running /\ p \in locked /\ p[1] = "heap"
    /\ \A h \in Handles : InUse(h) => p \notin Pages(al[h])
    /\ locked' = locked \ {p}
    /\ UNCHANGED <<al, running>>

(* Drop for HugepageAllocation: munmap(ptr, length), which also unlocks.   *)
(* (External: munmap of hugepages fails unless length is a multiple of     *)
(* their size.)                                                            *)
MunmapOk(h) == al[h].len % al[h].page = 0
HugepageDrop(h) ==
    /\ running /\ al[h].pc = "live" /\ al[h].area = "huge" /\ MunmapOk(h)
    /\ al' = [al EXCEPT ![h] = NoRegion("none")]
    /\ locked' = locked \ Pages(al[h])
    /\ UNCHANGED running

Allocate(h, size, mlock) ==
    \/ LayoutPanics(h, size) \/ GlobalAllocAborts(h, size) \/ HugepageMmapPanics(h, size)
    \/ \E base \in 0 .. HEAP : GlobalAlloc(h, size, base, mlock)
    \/ \E page \in HugepageSizes, base \in 0 .. HUGE : HugepageMmap(h, size, page, base, mlock)

Next ==
    \/ \E h \in Handles, size \in Sizes, mlock \in BOOLEAN : Allocate(h, size, mlock)
    \/ \E h \in Handles : Mlock(h) \/ MlockPanics(h) \/ GlobalDrop(h) \/ HugepageDrop(h)
    \/ \E p \in locked : HeapTrim(p)

Spec == Init /\ [][Next]_vars

-----------------------------------------------------------------------------

(* Type invariant of the allocations and of the lock state. *)
RegionType ==
    [pc : {"none", "obtained", "live", "leaked", "failed"}, area : {"heap", "huge"},
     page : {PAGE} \cup HugepageSizes, size : Nat, base : Nat, len : Nat, mlock : BOOLEAN]
TypeOK ==
    /\ al \in [Handles -> RegionType]
    /\ locked \subseteq {"heap", "huge"} \X ({PAGE} \cup HugepageSizes) \X Nat
    /\ running \in BOOLEAN

(* "hand back a contiguous, aligned region big enough to hold `items`      *)
(* cells": no size that passes the layout check is rounded or wrapped to   *)
(* less than itself.                                                       *)
BigEnough ==
    \A h \in Handles : al[h].pc = "live" => al[h].len >= al[h].size

(* "If true, `mlock` the allocated region so it stays resident": as long   *)
(* as the Allocation lives, whatever other allocations, some of them on    *)
(* the same pages, come and go.                                            *)
StaysResident ==
    \A h \in Handles :
        al[h].pc = "live" /\ al[h].mlock => Pages(al[h]) \subseteq locked

(* Dropping an Allocation releases it: the munmap of drop cannot fail, so  *)
(* its assert_ne! never panics while a queue is dropped.                   *)
DropSucceeds ==
    \A h \in Handles : al[h].pc = "live" /\ al[h].area = "huge" => MunmapOk(h)
=============================================================================

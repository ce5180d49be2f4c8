-------------------------- MODULE AllocatorProofs --------------------------
(***************************************************************************)
(* What allocate hands out is big enough, can be unmapped, and stays       *)
(* resident: for any number of allocations, any sizes and any page sizes.  *)
(***************************************************************************)
EXTENDS Allocator, ModLemmas

(* alloc_size is the least multiple of the page size that holds size; the  *)
(* addition cannot wrap because the layout is at most isize::MAX.          *)
LEMMA RoundUpCovers ==
    ASSUME NEW size \in Nat, ~LayoutOverflows(size), NEW page \in HugepageSizes
    PROVE  /\ RoundUp(size, page) \in Nat
           /\ RoundUp(size, page) >= size
           /\ RoundUp(size, page) < size + page
           /\ RoundUp(size, page) % page = 0
<1>1. /\ page \in Nat \ {0} /\ page <= WORD \div 2
      /\ WORD \in Nat \ {0} /\ WORD = 2 * (WORD \div 2) /\ WORD \div 2 \in Nat
  BY AllocatorAssumption
<1>2. size <= WORD \div 2 - 1  BY <1>1 DEF LayoutOverflows, ISIZE_MAX
<1>3. PICK n \in Nat : n = size + page - 1  BY <1>1
<1>4. n \in 0 .. WORD - 1  BY <1>1, <1>2, <1>3
<1>5. n % WORD = n
  <2>1. n = 0 * WORD + n  BY <1>1
  <2>2. QED  BY <1>1, <1>4, <2>1, ModUnique
<1>6. RoundUp(size, page) = n - (n % page)  BY <1>3, <1>5 DEF RoundUp
<1>7. n % page \in 0 .. page - 1 /\ (n - (n % page)) % page = 0
  <2>1. n \in Int  BY <1>3
  <2>2. QED  BY <1>1, <2>1, ModRoundDown, Zenon
<1>8. QED  BY <1>1, <1>3, <1>6, <1>7

(* The pages of a region do not depend on how far the allocation is. *)
LEMMA PagesOfUpdate ==
    ASSUME NEW r \in RegionType, NEW pc
    PROVE  Pages([r EXCEPT !.pc = pc]) = Pages(r)
BY DEF Pages, Units, RegionType

(* The pages of the heap are not hugepages. *)
LEMMA PagesApart ==
    ASSUME NEW r \in RegionType, NEW s \in RegionType, r.area # s.area
    PROVE  Pages(r) \cap Pages(s) = {}
BY DEF Pages

-----------------------------------------------------------------------------
(* The inductive invariant: a hugepage region has the length AllocSize     *)
(* computed, and shares no page with any other region in use.              *)
Measured ==
    \A h \in Handles :
        /\ InUse(h) => al[h].len >= al[h].size
        /\ InUse(h) /\ al[h].area = "huge" => al[h].len % al[h].page = 0
Exclusive ==
    \A g, h \in Handles :
        g # h /\ InUse(g) /\ InUse(h) /\ al[h].area = "huge" =>
            Pages(al[g]) \cap Pages(al[h]) = {}
Inv == TypeOK /\ Measured /\ Exclusive /\ StaysResident

LEMMA InitInv == Init => Inv
<1> SUFFICES ASSUME Init PROVE Inv  OBVIOUS
<1>1. NoRegion("none") \in RegionType /\ NoRegion("none").pc = "none"
  BY AllocatorAssumption DEF NoRegion, Region, RegionType
<1>2. TypeOK  BY <1>1 DEF Init, TypeOK
<1>3. \A h \in Handles : al[h].pc = "none"  BY <1>1 DEF Init
<1>4. QED  BY <1>2, <1>3 DEF Inv, Measured, Exclusive, StaysResident, InUse

(* A call that ends with nothing in use: a failure before any memory was   *)
(* obtained, or a drop.                                                    *)
LEMMA EmptyStep ==
    ASSUME Inv, NEW h \in Handles, NEW pc \in {"none", "failed"},
           al' = [al EXCEPT ![h] = NoRegion(pc)], UNCHANGED running,
           locked' \subseteq locked,
           \A g \in Handles \ {h} : InUse(g) => Pages(al[g]) \cap locked \subseteq locked'
    PROVE  Inv'
<1> USE DEF Inv
<1>1. NoRegion(pc) \in RegionType /\ NoRegion(pc).pc = pc
  BY AllocatorAssumption DEF NoRegion, Region, RegionType
<1>2. al'[h] = NoRegion(pc) /\ \A g \in Handles \ {h} : al'[g] = al[g]
  BY DEF TypeOK
<1>3. ~InUse(h)' /\ \A g \in Handles \ {h} : InUse(g)' <=> InUse(g)
  BY <1>1, <1>2 DEF InUse
<1>4. TypeOK'  BY <1>1 DEF TypeOK
<1>5. Measured'  BY <1>2, <1>3 DEF Measured
<1>6. Exclusive'  BY <1>2, <1>3 DEF Exclusive
<1>7. StaysResident'
  <2> SUFFICES ASSUME NEW g \in Handles, al'[g].pc = "live", al'[g].mlock
               PROVE  Pages(al'[g]) \subseteq locked'
    BY DEF StaysResident
  <2>1. g # h /\ al'[g] = al[g]  BY <1>1, <1>2
  <2>2. InUse(g)  BY <2>1 DEF InUse
  <2>3. Pages(al[g]) \subseteq locked  BY <2>1 DEF StaysResident
  <2>4. QED  BY <2>1, <2>2, <2>3
<1>8. QED  BY <1>4, <1>5, <1>6, <1>7

(* alloc or mmap succeeds and returns region r. *)
LEMMA ObtainStep ==
    ASSUME Inv, NEW h \in Handles, NEW r \in RegionType, ~InUse(h),
           al' = [al EXCEPT ![h] = r], UNCHANGED <<locked, running>>,
           r.len >= r.size, r.area = "huge" => r.len % r.page = 0,
           r.mlock => r.pc = "obtained",
           \A g \in Handles \ {h} :
               InUse(g) /\ "huge" \in {r.area, al[g].area} => Pages(al[g]) \cap Pages(r) = {}
    PROVE  Inv'
<1> USE DEF Inv
<1>1. al'[h] = r /\ \A g \in Handles \ {h} : al'[g] = al[g]
  BY DEF TypeOK
<1>2. \A g \in Handles \ {h} : InUse(g)' <=> InUse(g)
  BY <1>1 DEF InUse
<1>3. TypeOK'  BY DEF TypeOK
<1>4. Measured'  BY <1>1, <1>2 DEF Measured
<1>5. Exclusive'
  <2> SUFFICES ASSUME NEW f \in Handles, NEW g \in Handles,
                      f # g, InUse(f)', InUse(g)', al'[g].area = "huge"
               PROVE  Pages(al'[f]) \cap Pages(al'[g]) = {}
    BY DEF Exclusive
  <2>1. CASE f = h  BY <2>1, <1>1, <1>2
  <2>2. CASE g = h  BY <2>2, <1>1, <1>2
  <2>3. CASE f # h /\ g # h  BY <2>3, <1>1, <1>2 DEF Exclusive
  <2>4. QED  BY <2>1, <2>2, <2>3
<1>6. StaysResident'  BY <1>1 DEF StaysResident
<1>7. QED  BY <1>3, <1>4, <1>5, <1>6

(* mlock returns: only pc, and for a success the locked pages, change. *)
LEMMA MlockStep ==
    ASSUME Inv, NEW h \in Handles, InUse(h), NEW pc \in {"live", "leaked"},
           al' = [al EXCEPT ![h].pc = pc], UNCHANGED running,
           locked' = locked \/ locked' = locked \cup Pages(al[h]),
           pc = "live" => Pages(al[h]) \subseteq locked'
    PROVE  Inv'
<1> USE DEF Inv
<1>1. /\ al[h] \in RegionType
      /\ al'[h] = [al[h] EXCEPT !.pc = pc] /\ \A g \in Handles \ {h} : al'[g] = al[g]
  BY DEF TypeOK
<1>2. /\ al'[h] \in RegionType /\ al'[h].pc = pc /\ al'[h].area = al[h].area
      /\ al'[h].page = al[h].page /\ al'[h].len = al[h].len /\ al'[h].size = al[h].size
  BY <1>1 DEF RegionType
<1>3. Pages(al'[h]) = Pages(al[h])  BY <1>1, PagesOfUpdate
<1>4. \A g \in Handles : (InUse(g)' <=> InUse(g)) /\ Pages(al'[g]) = Pages(al[g])
                         /\ al'[g].area = al[g].area
  BY <1>1, <1>2, <1>3 DEF InUse
<1>5. Pages(al[h]) \subseteq {"heap", "huge"} \X ({PAGE} \cup HugepageSizes) \X Nat
  <2> SUFFICES ASSUME NEW u \in Units(al[h])
               PROVE  <<al[h].area, al[h].page, u \div al[h].page>>
                          \in {"heap", "huge"} \X ({PAGE} \cup HugepageSizes) \X Nat
    BY DEF Pages
  <2>1. al[h].page \in Nat \ {0} /\ u \in Nat
    BY <1>1, AllocatorAssumption DEF Units, RegionType
  <2>2. u \div al[h].page \in Nat  BY <2>1, DivNat
  <2>3. QED  BY <1>1, <2>2 DEF RegionType
<1>6. TypeOK'  BY <1>1, <1>2, <1>5 DEF TypeOK
<1>7. Measured'  BY <1>1, <1>2, <1>4 DEF Measured
<1>8. Exclusive'  BY <1>4 DEF Exclusive
<1>9. StaysResident'
  <2> SUFFICES ASSUME NEW g \in Handles, al'[g].pc = "live", al'[g].mlock
               PROVE  Pages(al'[g]) \subseteq locked'
    BY DEF StaysResident
  <2>1. CASE g = h  BY <2>1, <1>2, <1>3
  <2>2. CASE g # h  BY <2>2, <1>1 DEF StaysResident
  <2>3. QED  BY <2>1, <2>2
<1>10. QED  BY <1>6, <1>7, <1>8, <1>9

(* Every operation, failure and page trim keeps the invariant. *)
LEMMA NextInv == Inv /\ [Next]_vars => Inv'
<1> SUFFICES ASSUME Inv, [Next]_vars PROVE Inv'  OBVIOUS
<1>1. \A h \in Handles : al[h] \in RegionType  BY DEF Inv, TypeOK
<1>2. ASSUME NEW h \in Handles, NEW size \in Sizes,
             LayoutPanics(h, size) \/ HugepageMmapPanics(h, size)
      PROVE  Inv'
  <2>1. al' = [al EXCEPT ![h] = NoRegion("failed")] /\ UNCHANGED <<locked, running>>
    BY <1>2 DEF LayoutPanics, HugepageMmapPanics
  <2>2. QED  BY <2>1, EmptyStep
<1>3. ASSUME NEW h \in Handles, NEW size \in Sizes, GlobalAllocAborts(h, size)
      PROVE  Inv'
  <2>1. UNCHANGED <<al, locked>> /\ running' = FALSE  BY <1>3 DEF GlobalAllocAborts
  <2>2. QED
    BY <2>1 DEF Inv, TypeOK, Measured, Exclusive, StaysResident, InUse
<1>4. ASSUME NEW h \in Handles, NEW size \in Sizes, NEW mlock \in BOOLEAN,
             NEW base \in 0 .. HEAP, GlobalAlloc(h, size, base, mlock)
      PROVE  Inv'
  <2> DEFINE r == Region(AfterObtaining(mlock), "heap", PAGE, size, base, size, mlock)
  <2>1. /\ al' = [al EXCEPT ![h] = r] /\ UNCHANGED <<locked, running>> /\ ~InUse(h)
    BY <1>4 DEF GlobalAlloc, InUse
  <2>2. /\ r \in RegionType /\ r.area = "heap" /\ r.len = size /\ r.size = size
        /\ r.mlock = mlock /\ r.pc = AfterObtaining(mlock) /\ size \in Nat
    BY AllocatorAssumption DEF Region, RegionType, AfterObtaining
  <2> HIDE DEF r
  <2>3. \A g \in Handles : al[g].area = "huge" => Pages(al[g]) \cap Pages(r) = {}
    BY <1>1, <2>2, PagesApart
  <2>4. r.mlock => r.pc = "obtained"  BY <2>2 DEF AfterObtaining
  <2>5. r.len >= r.size /\ (r.area = "huge" => r.len % r.page = 0)  BY <2>2
  <2>6. \A g \in Handles \ {h} :
            InUse(g) /\ "huge" \in {r.area, al[g].area} => Pages(al[g]) \cap Pages(r) = {}
    BY <2>2, <2>3
  <2>7. r \in RegionType  BY <2>2
  <2>8. QED  BY <2>1, <2>4, <2>5, <2>6, <2>7, ObtainStep
<1>5. ASSUME NEW h \in Handles, NEW size \in Sizes, NEW mlock \in BOOLEAN,
             NEW page \in HugepageSizes, NEW base \in 0 .. HUGE,
             HugepageMmap(h, size, page, base, mlock)
      PROVE  Inv'
  <2> DEFINE r == Region(AfterObtaining(mlock), "huge", page, size, base,
                         AllocSize(size, page), mlock)
  <2>1. /\ al' = [al EXCEPT ![h] = r] /\ UNCHANGED <<locked, running>> /\ ~InUse(h)
        /\ \A g \in Handles : InUse(g) => Pages(al[g]) \cap Pages(r) = {}
    BY <1>5 DEF HugepageMmap, InUse
  <2>2. size \in Nat /\ ~LayoutOverflows(size)
    BY <1>5, AllocatorAssumption DEF HugepageMmap
  <2>3. /\ AllocSize(size, page) \in Nat /\ AllocSize(size, page) >= size
        /\ AllocSize(size, page) % page = 0
    BY <2>2, RoundUpCovers DEF AllocSize
  <2>4. /\ r \in RegionType /\ r.area = "huge" /\ r.len = AllocSize(size, page)
        /\ r.size = size /\ r.page = page /\ r.mlock = mlock /\ r.pc = AfterObtaining(mlock)
    BY <2>2, <2>3, AllocatorAssumption DEF Region, RegionType, AfterObtaining
  <2> HIDE DEF r
  <2>5. r.mlock => r.pc = "obtained"  BY <2>4 DEF AfterObtaining
  <2>6. QED  BY <2>1, <2>3, <2>4, <2>5, ObtainStep
<1>6. ASSUME NEW h \in Handles, Mlock(h) PROVE Inv'
  <2>1. InUse(h)  BY <1>6 DEF Mlock, InUse
  <2>2. /\ al' = [al EXCEPT ![h].pc = "live"] /\ UNCHANGED running
        /\ locked' = locked \cup Pages(al[h])
    BY <1>6 DEF Mlock
  <2>3. QED  BY <2>1, <2>2, MlockStep
<1>7. ASSUME NEW h \in Handles, MlockPanics(h) PROVE Inv'
  <2>1. InUse(h)  BY <1>7 DEF MlockPanics, InUse
  <2>2. al' = [al EXCEPT ![h].pc = "leaked"] /\ UNCHANGED <<locked, running>>
    BY <1>7 DEF MlockPanics
  <2>3. QED  BY <2>1, <2>2, MlockStep
<1>8. ASSUME NEW h \in Handles, GlobalDrop(h) PROVE Inv'
  <2>1. /\ al' = [al EXCEPT ![h] = NoRegion("none")] /\ UNCHANGED running
        /\ locked' = locked
    BY <1>8 DEF GlobalDrop, UnlockedByDealloc
  <2>2. QED  BY <2>1, EmptyStep
<1>9. ASSUME NEW h \in Handles, HugepageDrop(h) PROVE Inv'
  <2>1. /\ al' = [al EXCEPT ![h] = NoRegion("none")] /\ UNCHANGED running
        /\ locked' = locked \ Pages(al[h]) /\ InUse(h) /\ al[h].area = "huge"
    BY <1>9 DEF HugepageDrop, InUse
  <2>2. \A g \in Handles \ {h} : InUse(g) => Pages(al[g]) \cap Pages(al[h]) = {}
    BY <2>1 DEF Inv, Exclusive
  <2>3. QED  BY <2>1, <2>2, EmptyStep
<1>10. ASSUME NEW p \in locked, HeapTrim(p) PROVE Inv'
  <2>1. /\ UNCHANGED <<al, running>> /\ locked' = locked \ {p}
        /\ \A h \in Handles : InUse(h) => p \notin Pages(al[h])
    BY <1>10 DEF HeapTrim
  <2>2. TypeOK' /\ Measured' /\ Exclusive'
    BY <2>1 DEF Inv, TypeOK, Measured, Exclusive, InUse
  <2>3. StaysResident'  BY <2>1 DEF Inv, StaysResident, InUse
  <2>4. QED  BY <2>2, <2>3 DEF Inv
<1>11. CASE UNCHANGED vars
  BY <1>11 DEF vars, Inv, TypeOK, Measured, Exclusive, StaysResident, InUse
<1>12. QED
  BY <1>2, <1>3, <1>4, <1>5, <1>6, <1>7, <1>8, <1>9, <1>10, <1>11 DEF Next, Allocate

LEMMA AlwaysInv == Spec => []Inv
BY InitInv, NextInv, PTL DEF Spec

(* An Allocation of either allocator holds the cells it was asked for.     *)
THEOREM AllocationsFit == Spec => []BigEnough
<1>1. Inv => BigEnough  BY DEF Inv, Measured, BigEnough, InUse
<1>2. QED  BY <1>1, AlwaysInv, PTL

(* Memory that was allocated with mlock stays locked until its Allocation  *)
(* is dropped, although pages of the heap are shared between allocations   *)
(* that are dropped, leaked and trimmed in any order.                      *)
THEOREM LockedWhileAlive == Spec => []StaysResident
<1>1. Inv => StaysResident  BY DEF Inv
<1>2. QED  BY <1>1, AlwaysInv, PTL

(* The munmap in the drop of a hugepage allocation is never refused.       *)
THEOREM DropsSucceed == Spec => []DropSucceeds
<1>1. Inv => DropSucceeds  BY DEF Inv, Measured, DropSucceeds, MunmapOk, InUse
<1>2. QED  BY <1>1, AlwaysInv, PTL
=============================================================================

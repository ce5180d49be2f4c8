----------------------------- MODULE SpscProofs -----------------------------
(***************************************************************************)
(* The SPSC queue has no data race, never touches an item it does not own, *)
(* accounts for every item and implements a bounded FIFO queue, for every  *)
(* capacity, every word size that is a multiple of it, any number of       *)
(* pushes, in release and debug builds, with destructors that may panic.   *)
(*                                                                         *)
(* The argument.  Positions are the counters before they wrap: position q  *)
(* is where item q + 1 goes.  At any time the ring holds the positions     *)
(* TakenOut .. TakenOut + CAPACITY - 1, one per slot: the ones before      *)
(* Pushed hold an item, the others none (Contents).  A view that knows of  *)
(* a tail knows every access to the slots of the items before it, and a    *)
(* view that knows of a head knows every access to the slots that were     *)
(* emptied before it (Coherent).  Every view that threads and messages     *)
(* have is like that, because a Release store puts in its message all that *)
(* its thread has seen, and joining two such views gives another one.  So  *)
(* a stale copy of a counter is always on the safe side (Cached).          *)
(***************************************************************************)
EXTENDS Spsc, WeakMemoryProofs, ModLemmas

(* Positions handed to the other side, the one being handed included. *)
Pushed == IF ppc = "store" THEN Newest(TAIL) ELSE Newest(TAIL) - 1
Popped == IF cpc = "store" THEN Newest(HEAD) ELSE Newest(HEAD) - 1

(* The locations that are not slots. *)
Sync == {HEAD, TAIL} \cup {Client(x) : x \in ClientLocs}

(* What the counters are, without the wrap-around. *)
Counts ==
    /\ \A l \in Loc : Newest(l) >= 1
    /\ \A t \in 1 .. Newest(TAIL) : mem[TAIL][t].val = (t - 1) % WORD
    /\ \A t \in 1 .. Newest(HEAD) : mem[HEAD][t].val = (t - 1) % WORD
    /\ p_cached_tail = Pushed % WORD /\ c_cached_head = Popped % WORD
    /\ overflow_checks => Pushed < WORD
    /\ cur["P"][TAIL] = Newest(TAIL) /\ cur["C"][HEAD] = Newest(HEAD)

(* The copy of the other side's counter is one that the thread has seen. *)
CachedHead(h) ==
    /\ p_cached_head = h % WORD /\ h < cur["P"][HEAD]
    /\ Pushed <= h + CAPACITY /\ (ppc = "write" => Pushed < h + CAPACITY)
CachedTail(t) ==
    /\ c_cached_tail = t % WORD /\ t < cur["C"][TAIL]
    /\ Popped <= t /\ (cpc = "read" => Popped < t)
Cached == (\E h \in Nat : CachedHead(h)) /\ (\E t \in Nat : CachedTail(t))

(* A view knows all accesses to the slot of position q; and a view knows   *)
(* the slots of the items, and of the holes, that it has been told of.     *)
(* (An item that a panicking push left behind is in the hole at Pushed.)   *)
Knows(v, q) == v[SlotOf(q)] = Newest(SlotOf(q))
Bounded(v) == \A l \in Loc : v[l] <= Newest(l)
KnowsItems(v) == \A q \in TakenOut .. v[TAIL] - 2 : Knows(v, q)
KnowsHoles(v) ==
    \A q \in Pushed .. v[HEAD] + CAPACITY - 2 : q > Pushed \/ written = Pushed => Knows(v, q)
Coherent(v) == Bounded(v) /\ KnowsItems(v) /\ KnowsHoles(v)
ViewsCoherent ==
    /\ \A th \in Thread : Coherent(cur[th])
    /\ Coherent(arc.view)
    /\ \A l \in Sync : \A t \in 1 .. Newest(l) :
          mem[l][t].view[l] = t /\ Coherent(mem[l][t].view)
    /\ ppc = "store" => Knows(cur["P"], Pushed - 1)
    /\ cpc = "store" => Knows(cur["C"], Popped - 1)

(* What is in the slots. *)
Contents ==
    /\ \A q \in TakenOut .. Pushed - 1 : ItemIn(SlotOf(q)) = q + 1
    /\ \A q \in Pushed .. TakenOut + CAPACITY - 1 :
          ItemIn(SlotOf(q)) = IF q = Pushed /\ written > Pushed THEN written ELSE 0

(* Where each item is. *)
Accounts ==
    /\ Len(popped) = Popped /\ \A n \in 1 .. Popped : popped[n] = n
    /\ \A n \in 1 .. Len(dropped) : dropped[n] = Popped + n
    /\ TakenOut <= Newest(TAIL) - 1
    /\ written >= Pushed
    /\ written > Pushed => /\ overflow_checks /\ Pushed = WORD - 1 /\ ppc # "store"
                           /\ Pushed < TakenOut + CAPACITY
                           /\ Knows(cur["P"], Pushed)
    /\ lost = (IF dropper.pc \in {"free", "freed"} THEN TakenOut ELSE Pushed) + 1 .. written

(* The life of the handles, and what the last one knows. *)
Handles ==
    /\ arc.strong = (IF ppc = "gone" THEN 0 ELSE 1) + (IF cpc = "gone" THEN 0 ELSE 1)
    /\ dropper.pc = "alive" <=> arc.strong > 0
    /\ dropper.pc = "alive" =>
          /\ ppc = "gone" => \A l \in Loc : cur["P"][l] <= arc.view[l]
          /\ cpc = "gone" => \A l \in Loc : cur["C"][l] <= arc.view[l]
    /\ dropper.pc # "alive" => /\ cur[dropper.th][HEAD] = Newest(HEAD)
                               /\ cur[dropper.th][TAIL] = Newest(TAIL)
    /\ dropper.pc \in {"alive", "head", "tail"} => Len(dropped) = 0 /\ dropper.k = 0
    /\ dropper.pc \in {"tail", "items"} => dropper.head = Popped % WORD
    /\ dropper.pc = "items" =>
          dropper.count = Pushed - Popped /\ dropper.k = Len(dropped)

IInv == TypeOK /\ Counts /\ Cached /\ ViewsCoherent /\ Contents /\ Accounts /\ Handles

-----------------------------------------------------------------------------
(* The ring. *)

(* Locations are distinct. *)
LEMMA LocFacts ==
    /\ HEAD \in Loc /\ TAIL \in Loc /\ HEAD # TAIL
    /\ HEAD \in Sync /\ TAIL \in Sync /\ Sync \subseteq Loc
    /\ \A q \in Int : SlotOf(q) \in Loc /\ SlotOf(q) \notin Sync
    /\ "P" \in Thread /\ "C" \in Thread /\ "P" # "C"
<1>1. \A q \in Int : q % CAPACITY \in 0 .. CAPACITY - 1
  BY SpscAssumption, DivMod
<1>2. \A q \in Int : SlotOf(q) \in Loc  BY <1>1 DEF SlotOf, Loc
<1>3. QED  BY <1>2 DEF Loc, Sync, HEAD, TAIL, Slot, SlotOf, Client, Thread

(* Positions less than CAPACITY apart have slots of their own, ... *)
LEMMA SlotsApart ==
    ASSUME NEW a \in Int, NEW b \in Int, a <= b, b - a < CAPACITY, SlotOf(a) = SlotOf(b)
    PROVE  a = b
<1>1. a % CAPACITY = b % CAPACITY  BY DEF SlotOf, Slot
<1>2. QED  BY <1>1, ModInjective, SpscAssumption

(* (the same, whichever of the two is first) *)
LEMMA OtherSlot ==
    \A a, b \in Int : a # b /\ b - a < CAPACITY /\ a - b < CAPACITY => SlotOf(a) # SlotOf(b)
<1> SUFFICES ASSUME NEW a \in Int, NEW b \in Int, a # b, b - a < CAPACITY, a - b < CAPACITY,
                    SlotOf(a) = SlotOf(b)
             PROVE  FALSE
  OBVIOUS
<1>1. CASE a <= b  BY <1>1, SlotsApart
<1>2. CASE b <= a  BY <1>2, SlotsApart
<1>3. QED  BY <1>1, <1>2

(* ... those CAPACITY apart share one, ... *)
LEMMA SlotAgain ==
    ASSUME NEW q \in Int
    PROVE  SlotOf(q + CAPACITY) = SlotOf(q)
<1>1. (q + 1 * CAPACITY) % CAPACITY = q % CAPACITY
  BY 1 \in Int, SpscAssumption, ModShift, Zenon
<1>2. 1 * CAPACITY = CAPACITY  BY SpscAssumption
<1>3. QED  BY <1>1, <1>2 DEF SlotOf

(* ... and a counter that has wrapped finds the slot of its position. *)
LEMMA SlotWrap ==
    ASSUME NEW q \in Int
    PROVE  SlotOf(q % WORD) = SlotOf(q)
<1>1. WORD \in Nat \ {0} /\ CAPACITY \in Nat \ {0} /\ WORD % CAPACITY = 0
  BY SpscAssumption
<1>2. (q % WORD) % CAPACITY = q % CAPACITY  BY <1>1, ModOfMod, Zenon
<1>3. QED  BY <1>2 DEF SlotOf

(* The wrapped counters tell a full queue from any other. *)
LEMMA FullExact ==
    ASSUME NEW h \in Int, NEW t \in Int, h <= t, t <= h + CAPACITY
    PROVE  Full(h % WORD, t % WORD) <=> t = h + CAPACITY
<1>1. WORD \in Nat \ {0} /\ CAPACITY \in Nat \ {0} /\ CAPACITY < WORD
  BY SpscAssumption
<1>2. ((t % WORD) - (h % WORD)) % WORD = (t - h) % WORD  BY <1>1, ModDifference, Zenon
<1>3. t - h \in 0 .. WORD - 1  BY <1>1
<1>4. (t - h) % WORD = t - h  BY <1>1, <1>3, ModSmall
<1>5. QED  BY <1>1, <1>2, <1>4 DEF Full

(* The wrapped counters tell an empty queue from any other. *)
LEMMA EmptyExact ==
    ASSUME NEW h \in Int, NEW t \in Int, h <= t, t <= h + CAPACITY
    PROVE  h % WORD = t % WORD <=> h = t
<1>1. WORD \in Nat \ {0} /\ CAPACITY < WORD /\ CAPACITY \in Nat  BY SpscAssumption
<1>2. t - h < WORD  BY <1>1
<1>3. QED  BY <1>1, <1>2, ModInjective

(* += 1, and the values a counter takes. *)
LEMMA IncExact ==
    ASSUME NEW q \in Int
    PROVE  /\ Inc(q % WORD) = (q + 1) % WORD
           /\ q % WORD \in Usize /\ q % WORD \in Nat
<1>1. WORD \in Nat \ {0} /\ 1 \in Int  BY SpscAssumption
<1>2. ((q % WORD) + 1) % WORD = (q + 1) % WORD  BY <1>1, ModAdd, Zenon
<1>3. q % WORD \in 0 .. WORD - 1  BY <1>1, DivMod
<1>4. QED  BY <1>1, <1>2, <1>3 DEF Inc, Usize

-----------------------------------------------------------------------------
(* How the counters are ordered. *)
LEMMA Order ==
    ASSUME IInv
    PROVE  /\ Newest(TAIL) \in Nat \ {0} /\ Newest(HEAD) \in Nat \ {0}
           /\ \A q \in Int : Newest(SlotOf(q)) \in Nat \ {0}
           /\ Pushed \in Nat /\ Popped \in Nat /\ TakenOut \in Nat /\ written \in Nat
           /\ Newest(HEAD) - 1 <= Popped /\ Popped <= TakenOut
           /\ TakenOut <= Newest(TAIL) - 1 /\ Newest(TAIL) - 1 <= Pushed
           /\ Newest(HEAD) - 1 <= TakenOut /\ TakenOut <= Pushed
           /\ Pushed <= Newest(HEAD) - 1 + CAPACITY
           /\ ppc = "write" => Pushed < Newest(HEAD) - 1 + CAPACITY
           /\ Len(dropped) \in Nat /\ TakenOut = Popped + Len(dropped)
           /\ CAPACITY \in Nat \ {0} /\ WORD \in Nat \ {0} /\ CAPACITY < WORD
<1>1. MemoryOK(Loc, Thread)  BY DEF IInv, TypeOK
<1>2. \A l \in Loc : Newest(l) \in Nat \ {0}
  BY <1>1, MessageFacts DEF IInv, Counts
<1>3. Newest(TAIL) \in Nat \ {0} /\ Newest(HEAD) \in Nat \ {0}  BY <1>2, LocFacts
<1>4. \A q \in Int : Newest(SlotOf(q)) \in Nat \ {0}  BY <1>2, LocFacts
<1>5. /\ Pushed \in Nat /\ Newest(TAIL) - 1 <= Pushed
      /\ Popped \in Nat /\ Newest(HEAD) - 1 <= Popped
  BY <1>3 DEF Pushed, Popped
<1>6. Len(dropped) \in Nat /\ Len(popped) = Popped /\ TakenOut <= Newest(TAIL) - 1
  BY DEF IInv, TypeOK, Accounts
<1>7. TakenOut = Popped + Len(dropped)  BY <1>6 DEF TakenOut
<1>8. CAPACITY \in Nat \ {0} /\ WORD \in Nat \ {0} /\ CAPACITY < WORD
  BY SpscAssumption
<1>9. PICK h \in Nat : CachedHead(h)  BY DEF IInv, Cached
<1>10. h < Newest(HEAD)
  <2>1. cur["P"][HEAD] <= Newest(HEAD)
    BY LocFacts DEF IInv, ViewsCoherent, Coherent, Bounded
  <2>2. cur["P"][HEAD] \in Nat  BY <1>1, LocFacts DEF MemoryOK, Views
  <2>3. QED  BY <1>3, <1>9, <2>1, <2>2 DEF CachedHead
<1>11. /\ Pushed <= Newest(HEAD) - 1 + CAPACITY
       /\ ppc = "write" => Pushed < Newest(HEAD) - 1 + CAPACITY
  BY <1>3, <1>5, <1>8, <1>9, <1>10 DEF CachedHead
<1>12. written \in Nat  BY DEF IInv, TypeOK
<1>13. TakenOut \in Nat /\ Popped <= TakenOut  BY <1>5, <1>6, <1>7
<1>14. Newest(HEAD) - 1 <= TakenOut /\ TakenOut <= Pushed
  BY <1>3, <1>5, <1>6, <1>13
<1>15. QED
  BY <1>3, <1>4, <1>5, <1>6, <1>7, <1>8, <1>11, <1>12, <1>13, <1>14

(* Joining two views that know what they should gives another one. *)
LEMMA JoinCoherent ==
    ASSUME IInv, NEW v \in Views(Loc), NEW w \in Views(Loc), Coherent(v), Coherent(w)
    PROVE  Coherent(Join(v, w))
<1> DEFINE j == Join(v, w)
<1>1. \A l \in Loc : /\ v[l] \in Nat /\ w[l] \in Nat /\ j[l] \in Nat
                     /\ j[l] = IF v[l] >= w[l] THEN v[l] ELSE w[l]
  BY DEF Join, Views
<1> HIDE DEF j
<1>2. \A l \in Loc : v[l] <= Newest(l) /\ w[l] <= Newest(l)
  BY DEF Coherent, Bounded
<1>3. \A l \in Loc : v[l] = Newest(l) \/ w[l] = Newest(l) => j[l] = Newest(l)
  BY <1>1, <1>2
<1>4. \A q \in Int : Knows(v, q) \/ Knows(w, q) => Knows(j, q)
  BY <1>3, LocFacts DEF Knows
<1>5. Bounded(j)  BY <1>1, <1>2 DEF Bounded
<1>6. KnowsItems(j)
  <2> SUFFICES ASSUME NEW q \in TakenOut .. j[TAIL] - 2 PROVE Knows(j, q)
    BY DEF KnowsItems
  <2>1. q \in Int  BY Order, <1>1, LocFacts
  <2>2. q \in TakenOut .. v[TAIL] - 2 \/ q \in TakenOut .. w[TAIL] - 2
    BY <1>1, LocFacts, Order
  <2>3. QED  BY <1>4, <2>1, <2>2 DEF Coherent, KnowsItems
<1>7. KnowsHoles(j)
  <2> SUFFICES ASSUME NEW q \in Pushed .. j[HEAD] + CAPACITY - 2,
                      q > Pushed \/ written = Pushed
               PROVE  Knows(j, q)
    BY DEF KnowsHoles
  <2>1. q \in Int  BY Order, <1>1, LocFacts
  <2>2. q \in Pushed .. v[HEAD] + CAPACITY - 2 \/ q \in Pushed .. w[HEAD] + CAPACITY - 2
    BY <1>1, LocFacts, Order
  <2>3. QED  BY <1>4, <2>1, <2>2 DEF Coherent, KnowsHoles
<1>8. QED  BY <1>5, <1>6, <1>7 DEF Coherent, j

(* What a step that touches no slot leaves alone. *)
SameRing ==
    /\ \A l \in Loc : Newest(l)' >= Newest(l)
    /\ \A q \in Int : Newest(SlotOf(q))' = Newest(SlotOf(q))
    /\ Pushed' = Pushed /\ TakenOut' = TakenOut /\ written' = written

(* Such a step makes no view forget a slot, ... *)
LEMMA SameRingKnows ==
    ASSUME IInv, SameRing, NEW v \in Views(Loc), KnowsItems(v), KnowsHoles(v)
    PROVE  KnowsItems(v)' /\ KnowsHoles(v)'
<1>1. v[TAIL] \in Nat /\ v[HEAD] \in Nat  BY LocFacts DEF Views
<1>2. KnowsItems(v)'
  <2> SUFFICES ASSUME NEW q \in TakenOut .. v[TAIL] - 2 PROVE Knows(v, q)'
    BY DEF KnowsItems, SameRing
  <2>1. q \in Int  BY <1>1, Order
  <2>2. Knows(v, q)  BY DEF KnowsItems
  <2>3. QED  BY <2>1, <2>2 DEF Knows, SameRing
<1>3. KnowsHoles(v)'
  <2> SUFFICES ASSUME NEW q \in Pushed .. v[HEAD] + CAPACITY - 2,
                      q > Pushed \/ written = Pushed
               PROVE  Knows(v, q)'
    BY DEF KnowsHoles, SameRing
  <2>1. q \in Int  BY <1>1, Order
  <2>2. Knows(v, q)  BY DEF KnowsHoles
  <2>3. QED  BY <2>1, <2>2 DEF Knows, SameRing
<1>4. QED  BY <1>2, <1>3

(* ... and keeps every view coherent. *)
LEMMA SameRingCoherent ==
    ASSUME IInv, SameRing, NEW v \in Views(Loc), Coherent(v),
           \A l \in Loc : Newest(l)' \in Nat
    PROVE  Coherent(v)'
<1>1. \A l \in Loc : v[l] \in Nat /\ Newest(l) \in Nat
  BY MessageFacts DEF IInv, TypeOK, Views
<1>2. Bounded(v)'  BY <1>1 DEF SameRing, Coherent, Bounded
<1>3. QED  BY <1>2, SameRingKnows DEF Coherent

(* What a message appended to one location does to the others. *)
Appended(l) ==
    /\ \A k \in Loc : k # l => Newest(k)' = Newest(k)
    /\ Newest(l)' = Newest(l) + 1

(* push writes the slot of Pushed: no other view is told of it. *)
LEMMA WriteCoherent ==
    ASSUME IInv, ppc = "write", NEW v \in Views(Loc), NEW w \in Views(Loc), Coherent(v),
           NEW l \in Loc, l = SlotOf(Pushed), Appended(l), TakenOut' = TakenOut,
           \/ Pushed' = Pushed + 1 /\ written' = Pushed + 1
           \/ Pushed' = Pushed /\ written' \in Nat /\ written' > Pushed,
           \A k \in Loc : k # l => w[k] = v[k],
           w[l] \in {v[l], Newest(l) + 1}
    PROVE  Coherent(w)'
<1>a. /\ Pushed \in Nat /\ TakenOut \in Nat /\ written \in Nat
      /\ Newest(TAIL) \in Nat /\ Newest(HEAD) \in Nat
      /\ Newest(HEAD) - 1 <= TakenOut /\ TakenOut <= Pushed /\ Newest(TAIL) - 1 <= Pushed
      /\ Pushed <= Newest(HEAD) - 1 + CAPACITY
      /\ ppc = "write" => Pushed < Newest(HEAD) - 1 + CAPACITY
      /\ CAPACITY \in Nat \ {0}
  BY Order
<1>0. l \in Loc /\ l # HEAD /\ l # TAIL  BY <1>a, LocFacts
<1>1. \A k \in Loc : v[k] \in Nat /\ Newest(k) \in Nat /\ v[k] <= Newest(k)
  BY MessageFacts DEF IInv, TypeOK, Views, Coherent, Bounded
<1>2. w[TAIL] = v[TAIL] /\ w[HEAD] = v[HEAD]  BY <1>0, LocFacts
<1>3. /\ v[TAIL] \in Nat /\ v[HEAD] \in Nat
      /\ v[TAIL] <= Newest(TAIL) /\ v[HEAD] <= Newest(HEAD)
  BY <1>1, LocFacts
<1>4. Newest(TAIL) - 1 = Pushed  BY DEF Pushed
<1>5. Bounded(w)'
  <2> SUFFICES ASSUME NEW k \in Loc PROVE w[k] <= Newest(k)'  BY DEF Bounded
  <2>1. CASE k # l  BY <2>1, <1>1 DEF Appended
  <2>2. CASE k = l  BY <2>2, <1>0, <1>1 DEF Appended
  <2>3. QED  BY <2>1, <2>2
<1>6. ASSUME NEW q \in Int, Knows(v, q), q # Pushed, q - Pushed < CAPACITY, Pushed - q < CAPACITY
      PROVE  Knows(w, q)'
  <2>1. SlotOf(q) # l
    <3>1. CASE q <= Pushed  BY <3>1, <1>6, SlotsApart, <1>a
    <3>2. CASE Pushed <= q  BY <3>2, <1>6, SlotsApart, <1>a
    <3>3. QED  BY <3>1, <3>2, <1>a
  <2>2. SlotOf(q) \in Loc  BY LocFacts
  <2>3. QED  BY <1>6, <2>1, <2>2 DEF Knows, Appended
<1>7. KnowsItems(w)'
  <2> SUFFICES ASSUME NEW q \in TakenOut .. v[TAIL] - 2 PROVE Knows(w, q)'
    BY <1>2 DEF KnowsItems
  <2>1. q \in Int /\ q < Pushed /\ Pushed - q < CAPACITY  BY <1>3, <1>4, <1>a
  <2>2. Knows(v, q)  BY DEF Coherent, KnowsItems
  <2>3. q # Pushed /\ q - Pushed < CAPACITY  BY <2>1, <1>a
  <2>4. QED  BY <1>6, <2>1, <2>2, <2>3
<1>8. KnowsHoles(w)'
  <2> SUFFICES ASSUME NEW q \in Pushed' .. v[HEAD] + CAPACITY - 2,
                      q > Pushed' \/ written' = Pushed'
               PROVE  Knows(w, q)'
    BY <1>2 DEF KnowsHoles
  <2>1. q \in Int /\ q > Pushed  BY <1>3, <1>a
  <2>2. q - Pushed < CAPACITY  BY <1>3, <2>1, <1>a
  <2>3. q \in Pushed .. v[HEAD] + CAPACITY - 2  BY <1>3, <2>1, <1>a
  <2>4. Knows(v, q)  BY <2>1, <2>3 DEF Coherent, KnowsHoles
  <2>5. q # Pushed /\ Pushed - q < CAPACITY  BY <2>1, <1>a
  <2>6. QED  BY <1>6, <2>1, <2>2, <2>4, <2>5
<1>9. QED  BY <1>5, <1>7, <1>8 DEF Coherent

(* pop and Drop for Queue empty the slot of TakenOut. *)
LEMMA TakeCoherent ==
    ASSUME IInv, TakenOut < Pushed, NEW v \in Views(Loc), NEW w \in Views(Loc), Coherent(v),
           NEW l \in Loc, l = SlotOf(TakenOut), Appended(l), TakenOut' = TakenOut + 1,
           Pushed' = Pushed, written' = written,
           \A k \in Loc : k # l => w[k] = v[k],
           w[l] \in {v[l], Newest(l) + 1}
    PROVE  Coherent(w)'
<1>a. /\ Pushed \in Nat /\ TakenOut \in Nat /\ written \in Nat
      /\ Newest(TAIL) \in Nat /\ Newest(HEAD) \in Nat
      /\ Newest(HEAD) - 1 <= TakenOut /\ TakenOut <= Pushed /\ Newest(TAIL) - 1 <= Pushed
      /\ Pushed <= Newest(HEAD) - 1 + CAPACITY
      /\ ppc = "write" => Pushed < Newest(HEAD) - 1 + CAPACITY
      /\ CAPACITY \in Nat \ {0}
  BY Order
<1>0. l \in Loc /\ l # HEAD /\ l # TAIL  BY <1>a, LocFacts
<1>1. \A k \in Loc : v[k] \in Nat /\ Newest(k) \in Nat /\ v[k] <= Newest(k)
  BY MessageFacts DEF IInv, TypeOK, Views, Coherent, Bounded
<1>2. w[TAIL] = v[TAIL] /\ w[HEAD] = v[HEAD]  BY <1>0, LocFacts
<1>3. /\ v[TAIL] \in Nat /\ v[HEAD] \in Nat
      /\ v[TAIL] <= Newest(TAIL) /\ v[HEAD] <= Newest(HEAD)
  BY <1>1, LocFacts
<1>4. Bounded(w)'
  <2> SUFFICES ASSUME NEW k \in Loc PROVE w[k] <= Newest(k)'  BY DEF Bounded
  <2>1. CASE k # l  BY <2>1, <1>1 DEF Appended
  <2>2. CASE k = l  BY <2>2, <1>0, <1>1 DEF Appended
  <2>3. QED  BY <2>1, <2>2
<1>5. ASSUME NEW q \in Int, Knows(v, q), TakenOut < q, q - TakenOut < CAPACITY
      PROVE  Knows(w, q)'
  <2>1. SlotOf(q) # l  BY <1>5, SlotsApart, <1>a
  <2>2. SlotOf(q) \in Loc  BY LocFacts
  <2>3. QED  BY <1>5, <2>1, <2>2 DEF Knows, Appended
<1>6. KnowsItems(w)'
  <2> SUFFICES ASSUME NEW q \in TakenOut + 1 .. v[TAIL] - 2 PROVE Knows(w, q)'
    BY <1>2 DEF KnowsItems
  <2>1. q \in Int /\ TakenOut < q /\ q - TakenOut < CAPACITY  BY <1>3, <1>a
  <2>2. q \in TakenOut .. v[TAIL] - 2  BY <1>3, <2>1, <1>a
  <2>3. Knows(v, q)  BY <2>2 DEF Coherent, KnowsItems
  <2>4. QED  BY <1>5, <2>1, <2>3
<1>7. KnowsHoles(w)'
  <2> SUFFICES ASSUME NEW q \in Pushed .. v[HEAD] + CAPACITY - 2,
                      q > Pushed \/ written = Pushed
               PROVE  Knows(w, q)'
    BY <1>2 DEF KnowsHoles
  <2>1. q \in Int /\ TakenOut < q /\ q - TakenOut < CAPACITY  BY <1>3, <1>a
  <2>2. Knows(v, q)  BY DEF Coherent, KnowsHoles
  <2>3. QED  BY <1>5, <2>1, <2>2
<1>8. QED  BY <1>4, <1>6, <1>7 DEF Coherent

-----------------------------------------------------------------------------
(* What the steps have in common. *)

(* A step that stores nothing, by threads that learn only what some        *)
(* coherent view knows.                                                    *)
LEMMA QuietStep ==
    ASSUME IInv, mem' = mem, Pushed' = Pushed, Popped' = Popped,
           UNCHANGED <<written, popped, dropped, overflow_checks, p_cached_tail, c_cached_head>>,
           NEW c \in [Thread -> Views(Loc)], cur' = c, \A th \in Thread : Coherent(c[th]),
           \A th \in Thread : \A l \in Loc : c[th][l] >= cur[th][l],
           NEW a \in Views(Loc), arc'.view = a, Coherent(a),
           ppc' = "store" => ppc = "store", cpc' = "store" => cpc = "store",
           lost' = (IF dropper'.pc \in {"free", "freed"} THEN TakenOut ELSE Pushed)
                     + 1 .. written
    PROVE  Counts' /\ ViewsCoherent' /\ Contents' /\ Accounts'
<1>1. \A l \in Loc : /\ Newest(l) \in Nat /\ Newest(l)' = Newest(l)
                     /\ \A th \in Thread : cur[th][l] \in Nat /\ c[th][l] \in Nat
                                           /\ c[th][l] <= Newest(l)
  <2>1. MemoryOK(Loc, Thread)  BY DEF IInv, TypeOK
  <2>2. \A l \in Loc : Newest(l) \in Nat /\ Newest(l)' = Newest(l)
    BY <2>1, MessageFacts DEF Newest
  <2>3. \A th \in Thread : \A l \in Loc : cur[th][l] \in Nat /\ c[th][l] \in Nat
    BY <2>1 DEF MemoryOK, Views
  <2>4. QED  BY <2>2, <2>3 DEF Coherent, Bounded
<1>2. SameRing  BY <1>1, LocFacts DEF SameRing, TakenOut
<1>3. \A v \in Views(Loc) : Coherent(v) => Coherent(v)'
  BY <1>1, <1>2, SameRingCoherent
<1>4. \A th \in Thread : \A l \in Loc : cur[th][l] = Newest(l) => c[th][l] = Newest(l)
  BY <1>1
<1>5. \A th \in Thread : \A q \in Int : Knows(cur[th], q) => Knows(cur[th], q)'
  BY <1>1, <1>4, LocFacts DEF Knows
<1>6. Pushed \in Nat /\ Popped \in Nat  BY Order
<1>7. Counts'  BY <1>1, <1>4, LocFacts DEF IInv, Counts
<1>8. ViewsCoherent'
  <2>1. \A th \in Thread : Coherent(cur[th])'  BY <1>3
  <2>2. Coherent(arc.view)'  BY <1>3
  <2>3. ASSUME NEW l \in Sync, NEW t \in 1 .. Newest(l)
        PROVE  (mem[l][t].view[l] = t /\ Coherent(mem[l][t].view))'
    <3>1. mem[l][t].view \in Views(Loc)
      BY MessageFacts, LocFacts DEF IInv, TypeOK
    <3>2. mem[l][t].view[l] = t /\ Coherent(mem[l][t].view)
      BY DEF IInv, ViewsCoherent
    <3>3. QED  BY <1>3, <3>1, <3>2
  <2>4. \A l \in Sync : Newest(l)' = Newest(l)  BY <1>1, LocFacts
  <2>5. ppc' = "store" => Knows(cur["P"], Pushed - 1)'
    BY <1>5, <1>6, LocFacts DEF IInv, ViewsCoherent
  <2>6. cpc' = "store" => Knows(cur["C"], Popped - 1)'
    BY <1>5, <1>6, LocFacts DEF IInv, ViewsCoherent
  <2>7. QED  BY <2>1, <2>2, <2>3, <2>4, <2>5, <2>6 DEF ViewsCoherent
<1>9. Contents'  BY <1>2 DEF IInv, Contents, ItemIn, Newest, SameRing
<1>10. Accounts'
  BY <1>1, <1>2, <1>5, <1>6, LocFacts DEF IInv, Accounts, SameRing
<1>11. QED  BY <1>7, <1>8, <1>9, <1>10
(* A step that stores nothing and lets no thread learn anything. *)
LEMMA IdleStep ==
    ASSUME IInv, UNCHANGED <<mem, cur, arc>>, Pushed' = Pushed, Popped' = Popped,
           UNCHANGED <<written, popped, dropped, overflow_checks, p_cached_tail, c_cached_head>>,
           ppc' = "store" => ppc = "store", cpc' = "store" => cpc = "store",
           lost' = (IF dropper'.pc \in {"free", "freed"} THEN TakenOut ELSE Pushed)
                     + 1 .. written
    PROVE  Counts' /\ ViewsCoherent' /\ Contents' /\ Accounts'
<1>1. PICK c \in [Thread -> Views(Loc)], a \in Views(Loc) : c = cur /\ a = arc.view
  BY DEF IInv, TypeOK, MemoryOK
<1>2. /\ \A th \in Thread : Coherent(c[th])
      /\ Coherent(a)
      /\ \A th \in Thread : \A l \in Loc : c[th][l] >= cur[th][l]
  BY <1>1 DEF IInv, ViewsCoherent, Views
<1>3. cur' = c /\ arc'.view = a /\ mem' = mem  BY <1>1
<1>4. QED  BY <1>2, <1>3, QuietStep

(* A step taken while a handle is alive, and that drops none. *)
LEMMA HandlesAlive ==
    ASSUME IInv, ~(ppc = "gone" /\ cpc = "gone"),
           ppc' = "gone" <=> ppc = "gone", cpc' = "gone" <=> cpc = "gone",
           UNCHANGED <<arc, dropper, dropped>>,
           ppc = "gone" => cur'["P"] = cur["P"], cpc = "gone" => cur'["C"] = cur["C"]
    PROVE  Handles' /\ dropper.pc = "alive" /\ dropper'.pc = "alive" /\ Len(dropped) = 0
<1>1. arc.strong > 0  BY DEF IInv, Handles
<1>2. dropper.pc = "alive" /\ dropper'.pc = "alive"  BY <1>1 DEF IInv, Handles
<1>3. QED  BY <1>2 DEF IInv, Handles

(* The cached counters are never ahead of the real ones, and comparing     *)
(* them, wrapped as they are, tells how they stand to each other.          *)
LEMMA CachedFacts ==
    ASSUME IInv
    PROVE  /\ \A h \in Nat : CachedHead(h) =>
                 /\ h <= Newest(HEAD) - 1
                 /\ Full(p_cached_head, p_cached_tail) <=> Pushed = h + CAPACITY
           /\ \A t \in Nat : CachedTail(t) =>
                 /\ t <= Newest(TAIL) - 1
                 /\ c_cached_head = c_cached_tail <=> Popped = t
<1>1. /\ Newest(TAIL) \in Nat /\ Newest(HEAD) \in Nat /\ CAPACITY \in Nat
      /\ Pushed \in Nat /\ Popped \in Nat
      /\ Newest(HEAD) - 1 <= Pushed /\ Newest(TAIL) - 1 <= Popped + CAPACITY
  <2>1. /\ Newest(TAIL) \in Nat /\ Newest(HEAD) \in Nat /\ CAPACITY \in Nat
        /\ Pushed \in Nat /\ Popped \in Nat /\ TakenOut \in Nat
        /\ Newest(HEAD) - 1 <= Popped /\ Newest(HEAD) - 1 <= TakenOut
        /\ Newest(TAIL) - 1 <= Pushed /\ TakenOut <= Pushed
        /\ Pushed <= Newest(HEAD) - 1 + CAPACITY
    BY Order
  <2>2. QED  BY <2>1
<1>2. /\ cur["P"][HEAD] \in Nat /\ cur["P"][HEAD] <= Newest(HEAD)
      /\ cur["C"][TAIL] \in Nat /\ cur["C"][TAIL] <= Newest(TAIL)
  BY LocFacts DEF IInv, TypeOK, MemoryOK, Views, ViewsCoherent, Coherent, Bounded
<1>3. p_cached_tail = Pushed % WORD /\ c_cached_head = Popped % WORD
  BY DEF IInv, Counts
<1>4. ASSUME NEW h \in Nat, CachedHead(h)
      PROVE  /\ h <= Newest(HEAD) - 1
             /\ Full(p_cached_head, p_cached_tail) <=> Pushed = h + CAPACITY
  <2>1. /\ p_cached_head = h % WORD /\ h < cur["P"][HEAD] /\ Pushed <= h + CAPACITY
    BY <1>4 DEF CachedHead
  <2>2. h <= Newest(HEAD) - 1 /\ h <= Pushed  BY <1>1, <1>2, <2>1
  <2>3. Full(h % WORD, Pushed % WORD) <=> Pushed = h + CAPACITY
    BY <1>1, <2>1, <2>2, FullExact
  <2>4. QED  BY <1>3, <2>1, <2>2, <2>3
<1>5. ASSUME NEW t \in Nat, CachedTail(t)
      PROVE  /\ t <= Newest(TAIL) - 1
             /\ c_cached_head = c_cached_tail <=> Popped = t
  <2>1. /\ c_cached_tail = t % WORD /\ t < cur["C"][TAIL] /\ Popped <= t
    BY <1>5 DEF CachedTail
  <2>2. t <= Newest(TAIL) - 1 /\ t <= Popped + CAPACITY  BY <1>1, <1>2, <2>1
  <2>3. Popped % WORD = t % WORD <=> Popped = t
    BY <1>1, <2>1, <2>2, EmptyExact
  <2>4. QED  BY <1>3, <2>1, <2>2, <2>3
<1>6. QED  BY <1>4, <1>5

-----------------------------------------------------------------------------
(* push(). *)

(* The check against the cached head. *)
LEMMA PushStep == ASSUME IInv, Push PROVE IInv'
<1>1. /\ ppc = "idle" /\ UNCHANGED <<memVars, p_cached_head, p_cached_tail>>
      /\ UNCHANGED <<consumerVars, dropVars, ghostVars>>
      /\ ppc' = IF Full(p_cached_head, p_cached_tail) THEN "still_full" ELSE "write"
  BY DEF Push
<1>2. /\ mem' = mem /\ cur' = cur /\ acq' = acq /\ rel' = rel
      /\ UNCHANGED <<p_cached_head, p_cached_tail, cpc, c_cached_head, c_cached_tail>>
      /\ UNCHANGED <<overflow_checks, arc, dropper, written, popped, dropped, lost>>
  BY <1>1 DEF memVars, consumerVars, dropVars, ghostVars
<1>3. Pushed' = Pushed /\ Popped' = Popped
  BY <1>1, <1>2 DEF Pushed, Popped, Newest
<1>4. TypeOK'  BY <1>1, <1>2 DEF IInv, TypeOK, MemoryOK
<1>5. lost' = (IF dropper'.pc \in {"free", "freed"} THEN TakenOut ELSE Pushed) + 1 .. written
  BY <1>2 DEF IInv, Accounts
<1>6. Counts' /\ ViewsCoherent' /\ Contents' /\ Accounts'
  BY <1>1, <1>2, <1>3, <1>5, IdleStep
<1>7. Handles'  BY <1>1, <1>2, HandlesAlive
<1>8. Cached'
  <2>1. PICK h \in Nat : CachedHead(h)  BY DEF IInv, Cached
  <2>2. PICK t \in Nat : CachedTail(t)  BY DEF IInv, Cached
  <2>3. Pushed \in Nat /\ CAPACITY \in Nat  BY Order
  <2>4. Full(p_cached_head, p_cached_tail) <=> Pushed = h + CAPACITY
    BY <2>1, CachedFacts
  <2>5. CachedHead(h)'  BY <1>1, <1>2, <1>3, <2>1, <2>3, <2>4 DEF CachedHead
  <2>6. CachedTail(t)'  BY <1>2, <1>3, <2>2 DEF CachedTail
  <2>7. QED  BY <2>5, <2>6 DEF Cached
<1>9. QED  BY <1>4, <1>6, <1>7, <1>8 DEF IInv

(* An Acquire load of a counter: the thread joins a coherent view. *)
LEMMA CounterLoad ==
    ASSUME IInv, NEW th \in Thread, NEW l \in Sync, NEW t,
           Load(th, l, t, "Acquire", "None"), arc' = arc
    PROVE  /\ MemoryOK(Loc, Thread)' /\ mem' = mem /\ t \in 1 .. Newest(l) /\ t >= cur[th][l]
           /\ cur'[th][l] >= t
           /\ \A u \in Thread \ {th} : cur'[u] = cur[u]
           /\ \E c \in [Thread -> Views(Loc)], a \in Views(Loc) :
                 /\ cur' = c /\ arc'.view = a /\ Coherent(a)
                 /\ \A u \in Thread : Coherent(c[u])
                 /\ \A u \in Thread : \A k \in Loc : c[u][k] >= cur[u][k]
<1>1. MemoryOK(Loc, Thread) /\ l \in Loc  BY LocFacts DEF IInv, TypeOK
<1>2. t \in 1 .. Newest(l) => mem[l][t].view[l] = t /\ Coherent(mem[l][t].view)
  BY DEF IInv, ViewsCoherent
<1>3. /\ MemoryOK(Loc, Thread)' /\ mem' = mem /\ rel' = rel
      /\ t \in 1 .. Newest(l) /\ t >= cur[th][l]
      /\ cur' = [cur EXCEPT ![th] = Join(cur[th], mem[l][t].view)]
  BY <1>1, <1>2, AcquireLoadView
<1>4. PICK v \in Views(Loc), w \in Views(Loc) : v = cur[th] /\ w = mem[l][t].view
  BY <1>1, <1>3, MessageFacts DEF MemoryOK
<1>5. /\ Coherent(v) /\ Coherent(w) /\ w[l] = t
  BY <1>2, <1>3, <1>4 DEF IInv, ViewsCoherent
<1>6. /\ Join(v, w) \in Views(Loc) /\ Coherent(Join(v, w))
      /\ \A k \in Loc : Join(v, w)[k] >= v[k] /\ Join(v, w)[k] >= w[k]
  BY <1>4, <1>5, JoinFacts, JoinCoherent
<1>7. PICK j \in Views(Loc) : j = Join(v, w)  BY <1>6
<1>8. PICK c \in [Thread -> Views(Loc)] : c = cur'  BY <1>3 DEF MemoryOK
<1>9. /\ c[th] = j /\ \A u \in Thread \ {th} : c[u] = cur[u]
      /\ cur \in [Thread -> Views(Loc)]
  BY <1>1, <1>3, <1>4, <1>7, <1>8 DEF MemoryOK
<1>10. \A u \in Thread : Coherent(c[u])
  BY <1>6, <1>7, <1>9 DEF IInv, ViewsCoherent
<1>11. \A u \in Thread : \A k \in Loc : c[u][k] >= cur[u][k]
  <2> SUFFICES ASSUME NEW u \in Thread, NEW k \in Loc PROVE c[u][k] >= cur[u][k]
    OBVIOUS
  <2>1. CASE u = th  BY <2>1, <1>4, <1>6, <1>7, <1>9
  <2>2. CASE u # th
    <3>1. cur[u][k] \in Nat  BY <1>9 DEF Views
    <3>2. QED  BY <2>2, <3>1, <1>9
  <2>3. QED  BY <2>1, <2>2
<1>12. PICK a \in Views(Loc) : a = arc.view /\ Coherent(a)
  BY DEF IInv, TypeOK, ViewsCoherent
<1>13. cur'[th][l] >= t  BY <1>1, <1>5, <1>6, <1>7, <1>8, <1>9
<1>14. \E b \in Views(Loc) : arc'.view = b /\ Coherent(b)  BY <1>12
<1>15. QED  BY <1>1, <1>3, <1>8, <1>9, <1>10, <1>11, <1>13, <1>14

(* still_full(): what the producer loads is at most as new as the head,    *)
(* and no older than what it had.                                          *)
LEMMA StillFullStep == ASSUME IInv, StillFull PROVE IInv'
<1>1. PICK t : StillFullAt(t)  BY DEF StillFull
<1>2. /\ ppc = "still_full" /\ Load("P", HEAD, t, "Acquire", "None")
      /\ p_cached_head' = mem[HEAD][t].val
      /\ ppc' = IF Full(mem[HEAD][t].val, p_cached_tail) THEN "idle" ELSE "write"
      /\ UNCHANGED <<p_cached_tail, cpc, c_cached_head, c_cached_tail>>
      /\ UNCHANGED <<overflow_checks, arc, dropper, written, popped, dropped, lost>>
  BY <1>1 DEF StillFullAt, HeadLoadOrdering, consumerVars, dropVars, ghostVars
<1>3. /\ MemoryOK(Loc, Thread)' /\ mem' = mem
      /\ t \in 1 .. Newest(HEAD) /\ t >= cur["P"][HEAD]
      /\ cur'["P"][HEAD] >= t
      /\ \A u \in Thread \ {"P"} : cur'[u] = cur[u]
      /\ \E c \in [Thread -> Views(Loc)], a \in Views(Loc) :
            /\ cur' = c /\ arc'.view = a /\ Coherent(a)
            /\ \A u \in Thread : Coherent(c[u])
            /\ \A u \in Thread : \A k \in Loc : c[u][k] >= cur[u][k]
  BY <1>2, LocFacts, CounterLoad
<1>4. Pushed' = Pushed /\ Popped' = Popped
  BY <1>2, <1>3 DEF Pushed, Popped, Newest
<1>5. /\ Newest(HEAD) \in Nat /\ Pushed \in Nat /\ CAPACITY \in Nat
      /\ Newest(HEAD) - 1 <= Pushed
  <2>1. /\ Newest(HEAD) \in Nat /\ Pushed \in Nat /\ CAPACITY \in Nat
        /\ Newest(HEAD) - 1 <= TakenOut /\ TakenOut <= Pushed /\ TakenOut \in Nat
    BY Order
  <2>2. QED  BY <2>1
<1>6. mem[HEAD][t].val = (t - 1) % WORD  BY <1>3 DEF IInv, Counts
<1>7. TypeOK'
  <2>1. p_cached_head' \in Usize  BY <1>2, <1>3, <1>5, <1>6, IncExact
  <2>2. QED  BY <1>2, <1>3, <2>1 DEF IInv, TypeOK
<1>8. lost' = (IF dropper'.pc \in {"free", "freed"} THEN TakenOut ELSE Pushed) + 1 .. written
  BY <1>2 DEF IInv, Accounts
<1>9. Counts' /\ ViewsCoherent' /\ Contents' /\ Accounts'
  BY <1>2, <1>3, <1>4, <1>8, QuietStep
<1>10. Handles'  BY <1>2, <1>3, LocFacts, HandlesAlive
<1>11. Cached'
  <2>1. PICK h \in Nat : CachedHead(h)  BY DEF IInv, Cached
  <2>2. PICK u \in Nat : CachedTail(u)  BY DEF IInv, Cached
  <2>3. PICK g \in Nat : g = t - 1  BY <1>3, <1>5
  <2>4. cur["P"][HEAD] \in Nat  BY LocFacts DEF IInv, TypeOK, MemoryOK, Views
  <2>5. g <= Pushed /\ Pushed <= g + CAPACITY /\ g < cur'["P"][HEAD]
    <3>1. h < cur["P"][HEAD] /\ Pushed <= h + CAPACITY  BY <2>1 DEF CachedHead
    <3>2. cur'["P"][HEAD] \in Nat  BY <1>3, LocFacts DEF MemoryOK, Views
    <3>3. QED  BY <1>3, <1>5, <2>3, <2>4, <3>1, <3>2
  <2>6. p_cached_tail = Pushed % WORD  BY DEF IInv, Counts
  <2>7. Full(g % WORD, p_cached_tail) <=> Pushed = g + CAPACITY
    BY <1>5, <2>5, <2>6, FullExact
  <2>8. p_cached_head' = g % WORD  BY <1>2, <1>6, <2>3
  <2>9. ppc' = "write" => Pushed < g + CAPACITY
    BY <1>2, <1>5, <2>5, <2>7, <2>8
  <2>10. CachedHead(g)'  BY <1>4, <2>5, <2>8, <2>9 DEF CachedHead
  <2>11. CachedTail(u)'  BY <1>2, <1>3, <1>4, <2>2, LocFacts DEF CachedTail
  <2>12. QED  BY <2>10, <2>11 DEF Cached
<1>12. QED  BY <1>7, <1>9, <1>10, <1>11 DEF IInv

(* A store to a slot: the other locations keep what they hold. *)
LEMMA SlotStore ==
    ASSUME IInv, NEW th \in Thread, NEW l \in Loc, l \notin Sync, NEW val \in Nat,
           Store(th, l, val, "Relaxed", "None")
    PROVE  /\ MemoryOK(Loc, Thread)' /\ Appended(l) /\ Newest(l) \in Nat
           /\ \A k \in Sync : mem'[k] = mem[k] /\ Newest(k)' = Newest(k)
           /\ \A k \in Loc : k # l => ItemIn(k)' = ItemIn(k)
           /\ ItemIn(l)' = val
           /\ cur'[th][l] = Newest(l) + 1
           /\ \A k \in Loc : k # l => cur'[th][k] = cur[th][k]
           /\ \A u \in Thread : u # th => cur'[u] = cur[u]
<1>1. MemoryOK(Loc, Thread)  BY DEF IInv, TypeOK
<1>2. cur[th][l] <= Newest(l)  BY DEF IInv, ViewsCoherent, Coherent, Bounded
<1>3. /\ MemoryOK(Loc, Thread)'
      /\ \A k \in Loc : k # l => mem'[k] = mem[k] /\ Newest(k)' = Newest(k)
      /\ Newest(l)' = Newest(l) + 1
      /\ mem'[l][Newest(l) + 1].val = val
      /\ cur' = [cur EXCEPT ![th] = [cur[th] EXCEPT ![l] = Newest(l) + 1]]
  BY <1>1, <1>2, StoreView
<1>4. Newest(l) \in Nat  BY <1>1, MessageFacts
<1>5. ItemIn(l)' = val  BY <1>3 DEF ItemIn
<1>6. \A k \in Loc : k # l => ItemIn(k)' = ItemIn(k)  BY <1>3 DEF ItemIn
<1>7. cur \in [Thread -> Views(Loc)] /\ cur[th] \in [Loc -> Nat \ {0}]
  BY <1>1 DEF MemoryOK, Views
<1>8. /\ cur'[th] = [cur[th] EXCEPT ![l] = Newest(l) + 1]
      /\ \A u \in Thread : u # th => cur'[u] = cur[u]
  BY <1>3, <1>7
<1>9. cur'[th][l] = Newest(l) + 1 /\ \A k \in Loc : k # l => cur'[th][k] = cur[th][k]
  BY <1>7, <1>8
<1>10. QED  BY <1>3, <1>4, <1>5, <1>6, <1>8, <1>9, LocFacts DEF Appended

(* The views stay coherent if such a store keeps each of them so. *)
LEMMA SlotStoreViews ==
    ASSUME IInv, NEW th \in Thread, NEW l \in Loc, l \notin Sync, NEW val \in Nat,
           Store(th, l, val, "Relaxed", "None"), arc' = arc,
           \A v, w \in Views(Loc) :
              /\ Coherent(v) /\ \A k \in Loc : k # l => w[k] = v[k]
              /\ w[l] \in {v[l], Newest(l) + 1}
              => Coherent(w)',
           ppc' = "store" => Knows(cur["P"], Pushed - 1)',
           cpc' = "store" => Knows(cur["C"], Popped - 1)'
    PROVE  ViewsCoherent'
<1>1. /\ MemoryOK(Loc, Thread) /\ MemoryOK(Loc, Thread)'
      /\ \A k \in Sync : mem'[k] = mem[k] /\ Newest(k)' = Newest(k)
      /\ cur'[th][l] = Newest(l) + 1
      /\ \A k \in Loc : k # l => cur'[th][k] = cur[th][k]
      /\ \A u \in Thread : u # th => cur'[u] = cur[u]
  BY SlotStore DEF IInv, TypeOK
<1>2. \A v \in Views(Loc) : Coherent(v) => Coherent(v)'  OBVIOUS
<1>3. ASSUME NEW u \in Thread PROVE Coherent(cur[u])'
  <2>1. PICK v \in Views(Loc), w \in Views(Loc) : v = cur[u] /\ w = cur'[u]
    BY <1>1 DEF MemoryOK
  <2>2. /\ \A k \in Loc : k # l => w[k] = v[k]
        /\ w[l] \in {v[l], Newest(l) + 1}
    BY <1>1, <2>1
  <2>3. Coherent(v)  BY <2>1 DEF IInv, ViewsCoherent
  <2>4. Coherent(w)'  BY <2>2, <2>3
  <2>5. QED  BY <2>1, <2>4
<1>4. Coherent(arc.view)'
  <2>1. arc.view \in Views(Loc) /\ Coherent(arc.view)
    BY DEF IInv, TypeOK, ViewsCoherent
  <2>2. QED  BY <1>2, <2>1
<1>5. ASSUME NEW k \in Sync, NEW t \in 1 .. Newest(k)
      PROVE  (mem[k][t].view[k] = t /\ Coherent(mem[k][t].view))'
  <2>1. mem[k][t].view \in Views(Loc)  BY <1>1, MessageFacts, LocFacts
  <2>2. mem[k][t].view[k] = t /\ Coherent(mem[k][t].view)  BY DEF IInv, ViewsCoherent
  <2>3. mem'[k][t].view = mem[k][t].view  BY <1>1
  <2>4. QED  BY <1>2, <2>1, <2>2, <2>3
<1>6. QED  BY <1>1, <1>3, <1>4, <1>5 DEF ViewsCoherent

(* ptr.write(item): the slot at Pushed is a hole that the producer knows   *)
(* all about, and nobody else looks into it until tail has been stored.    *)
LEMMA PushWriteStep == ASSUME IInv, PushWrite PROVE IInv'
<1>1. /\ ppc = "write" /\ Store("P", SlotOf(p_cached_tail), written + 1, "Relaxed", "None")
      /\ written' = written + 1
      /\ p_cached_tail' = IF PushPanics THEN p_cached_tail ELSE Inc(p_cached_tail)
      /\ lost' = IF PushPanics THEN lost \cup {written + 1} ELSE lost
      /\ ppc' = IF PushPanics THEN "idle" ELSE "store"
      /\ UNCHANGED <<p_cached_head, cpc, c_cached_head, c_cached_tail>>
      /\ UNCHANGED <<overflow_checks, arc, dropper, popped, dropped>>
  BY DEF PushWrite, consumerVars, dropVars
<1>2. /\ Pushed \in Nat /\ Popped \in Nat /\ TakenOut \in Nat /\ written \in Nat
      /\ Newest(TAIL) \in Nat /\ Newest(HEAD) \in Nat
      /\ Newest(HEAD) - 1 <= TakenOut /\ Newest(HEAD) - 1 <= Popped
      /\ Popped <= TakenOut /\ TakenOut <= Pushed
      /\ Pushed < Newest(HEAD) - 1 + CAPACITY
      /\ CAPACITY \in Nat \ {0} /\ WORD \in Nat \ {0}
  BY <1>1, Order
<1>3. p_cached_tail = Pushed % WORD /\ Newest(TAIL) - 1 = Pushed
  BY <1>1 DEF IInv, Counts, Pushed
<1>4. PICK l \in Loc : l = SlotOf(Pushed) /\ l \notin Sync /\ l = SlotOf(p_cached_tail)
  BY <1>2, <1>3, LocFacts, SlotWrap
<1>5. /\ MemoryOK(Loc, Thread)' /\ Appended(l) /\ Newest(l) \in Nat
      /\ \A k \in Sync : mem'[k] = mem[k] /\ Newest(k)' = Newest(k)
      /\ \A k \in Loc : k # l => ItemIn(k)' = ItemIn(k)
      /\ ItemIn(l)' = written + 1
      /\ cur'["P"][l] = Newest(l) + 1
      /\ \A k \in Loc : k # l => cur'["P"][k] = cur["P"][k]
      /\ cur'["C"] = cur["C"]
  BY <1>1, <1>2, <1>4, LocFacts, SlotStore
<1>6. TakenOut' = TakenOut  BY <1>1 DEF TakenOut
<1>7. Popped' = Popped  BY <1>1, <1>5, LocFacts DEF Popped
<1>8. Handles' /\ dropper.pc = "alive" /\ dropper'.pc = "alive"
  BY <1>1, <1>5, HandlesAlive
<1>9. lost = Pushed + 1 .. written /\ written >= Pushed
  BY <1>8 DEF IInv, Accounts
<1>10. cpc = "store" => Knows(cur["C"], Popped - 1)'
  <2> SUFFICES ASSUME cpc = "store" PROVE Knows(cur["C"], Popped - 1)'
    OBVIOUS
  <2>1. Knows(cur["C"], Popped - 1)  BY DEF IInv, ViewsCoherent
  <2>2. Popped - 1 \in Int /\ Popped - 1 < Pushed /\ Pushed - (Popped - 1) < CAPACITY
    <3>1. Popped = Newest(HEAD)  BY DEF Popped
    <3>2. QED  BY <1>2, <3>1
  <2>3. SlotOf(Popped - 1) # SlotOf(Pushed)  BY <1>2, <2>2, OtherSlot
  <2>4. SlotOf(Popped - 1) # l /\ SlotOf(Popped - 1) \in Loc  BY <1>2, <1>4, <2>3, LocFacts
  <2>5. QED  BY <1>5, <1>7, <2>1, <2>4 DEF Knows, Appended
<1>11. ASSUME NEW q \in TakenOut .. Pushed - 1 PROVE ItemIn(SlotOf(q))' = q + 1
  <2>1. SlotOf(q) # SlotOf(Pushed) /\ q \in Int  BY <1>2, OtherSlot
  <2>2. SlotOf(q) # l /\ SlotOf(q) \in Loc  BY <1>4, <2>1, LocFacts
  <2>3. QED  BY <1>5, <2>2 DEF IInv, Contents
<1>12. ASSUME NEW q \in Pushed + 1 .. TakenOut + CAPACITY - 1 PROVE ItemIn(SlotOf(q))' = 0
  <2>1. /\ SlotOf(q) # SlotOf(Pushed) /\ q \in Int /\ q # Pushed
        /\ q \in Pushed .. TakenOut + CAPACITY - 1
    BY <1>2, OtherSlot
  <2>2. SlotOf(q) # l /\ SlotOf(q) \in Loc  BY <1>4, <2>1, LocFacts
  <2>3. ItemIn(SlotOf(q)) = 0  BY <2>1 DEF IInv, Contents
  <2>4. QED  BY <1>5, <2>2, <2>3
<1>13. CASE ~PushPanics
  <2>1. /\ ppc' = "store" /\ p_cached_tail' = (Pushed + 1) % WORD /\ lost' = lost
        /\ (Pushed + 1) % WORD \in Usize
    BY <1>1, <1>2, <1>3, <1>13, IncExact
  <2>2. Pushed' = Pushed + 1
    BY <1>2, <1>3, <1>5, <2>1, LocFacts DEF Pushed
  <2>3. overflow_checks => Pushed + 1 < WORD
    <3>1. overflow_checks => Pushed < WORD  BY DEF IInv, Counts
    <3>2. Pushed < WORD => Pushed % WORD = Pushed  BY <1>2, ModSmall
    <3>3. overflow_checks => p_cached_tail # WORD - 1  BY <1>13 DEF PushPanics
    <3>4. QED  BY <1>2, <1>3, <3>1, <3>2, <3>3
  <2>4. written = Pushed /\ lost = {}
    <3>1. written > Pushed => overflow_checks /\ Pushed = WORD - 1
      BY DEF IInv, Accounts
    <3>2. written = Pushed  BY <1>2, <1>9, <2>3, <3>1
    <3>3. QED  BY <1>2, <1>9, <3>2
  <2>5. TypeOK'
    <3>1. mem'[HEAD] = mem[HEAD] /\ mem'[TAIL] = mem[TAIL]  BY <1>5, LocFacts
    <3>2. p_cached_tail' \in Usize /\ written' \in Nat  BY <1>1, <1>2, <2>1
    <3>3. QED  BY <1>1, <1>5, <2>1, <3>1, <3>2 DEF IInv, TypeOK
  <2>6. Counts'
    <3>1. \A k \in Loc : Newest(k)' >= 1
      BY <1>5 DEF IInv, Counts, Appended
    <3>2. /\ cur'["P"][TAIL] = Newest(TAIL)' /\ cur'["C"][HEAD] = Newest(HEAD)'
      BY <1>4, <1>5, LocFacts DEF IInv, Counts
    <3>3. /\ mem'[TAIL] = mem[TAIL] /\ mem'[HEAD] = mem[HEAD]
          /\ Newest(TAIL)' = Newest(TAIL) /\ Newest(HEAD)' = Newest(HEAD)
      BY <1>5, LocFacts
    <3>4. QED
      BY <1>1, <1>7, <2>1, <2>2, <2>3, <3>1, <3>2, <3>3 DEF IInv, Counts
  <2>7. Cached'
    <3>1. PICK h \in Nat : CachedHead(h)  BY DEF IInv, Cached
    <3>2. PICK t \in Nat : CachedTail(t)  BY DEF IInv, Cached
    <3>3. cur'["P"][HEAD] = cur["P"][HEAD]  BY <1>4, <1>5, LocFacts
    <3>4. CachedHead(h)'
      BY <1>1, <1>2, <2>1, <2>2, <3>1, <3>3 DEF CachedHead
    <3>5. CachedTail(t)'  BY <1>1, <1>5, <1>7, <3>2 DEF CachedTail
    <3>6. QED  BY <3>4, <3>5 DEF Cached
  <2>8. ViewsCoherent'
    <3>1. ASSUME NEW v \in Views(Loc), NEW w \in Views(Loc), Coherent(v),
                 \A k \in Loc : k # l => w[k] = v[k], w[l] \in {v[l], Newest(l) + 1}
          PROVE  Coherent(w)'
      BY <1>1, <1>4, <1>5, <1>6, <2>2, <2>4, <3>1, WriteCoherent
    <3>2. Knows(cur["P"], Pushed - 1)'
      <4>1. Pushed' - 1 = Pushed  BY <1>2, <2>2
      <4>2. SlotOf(Pushed' - 1) = l  BY <1>4, <4>1
      <4>3. QED  BY <1>5, <4>2 DEF Knows, Appended
    <3>3. cpc' = "store" => Knows(cur["C"], Popped - 1)'  BY <1>1, <1>10
    <3>4. QED  BY <1>1, <1>2, <1>4, <3>1, <3>2, <3>3, LocFacts, SlotStoreViews
  <2>9. Contents'
    <3>1. ASSUME NEW q \in TakenOut .. Pushed' - 1 PROVE ItemIn(SlotOf(q))' = q + 1
      <4>1. CASE q = Pushed  BY <1>4, <1>5, <2>4, <4>1
      <4>2. CASE q # Pushed
        <5>1. q \in TakenOut .. Pushed - 1  BY <1>2, <2>2, <3>1, <4>2
        <5>2. QED  BY <1>11, <5>1
      <4>3. QED  BY <4>1, <4>2
    <3>2. ASSUME NEW q \in Pushed' .. TakenOut + CAPACITY - 1 PROVE ItemIn(SlotOf(q))' = 0
      BY <1>12, <2>2
    <3>3. ~(written' > Pushed')  BY <1>1, <1>2, <2>2, <2>4
    <3>4. QED  BY <1>6, <3>1, <3>2, <3>3 DEF Contents
  <2>10. Accounts'
    <3>1. written' = Pushed'  BY <1>1, <2>2, <2>4
    <3>2. lost' = Pushed' + 1 .. written'  BY <1>2, <2>1, <2>2, <2>4, <3>1
    <3>3. TakenOut' <= Newest(TAIL)' - 1
      BY <1>5, <1>6, LocFacts DEF IInv, Accounts
    <3>4. written' >= Pushed' /\ ~(written' > Pushed')  BY <1>2, <2>2, <3>1
    <3>5. QED  BY <1>1, <1>7, <1>8, <3>2, <3>3, <3>4 DEF IInv, Accounts
  <2>11. QED  BY <1>8, <2>5, <2>6, <2>7, <2>8, <2>9, <2>10 DEF IInv
<1>14. CASE PushPanics
  <2>1. ppc' = "idle" /\ p_cached_tail' = p_cached_tail /\ lost' = lost \cup {written + 1}
    BY <1>1, <1>14
  <2>2. Pushed' = Pushed
    BY <1>2, <1>3, <1>5, <2>1, LocFacts DEF Pushed
  <2>3. overflow_checks /\ Pushed = WORD - 1
    <3>1. overflow_checks /\ p_cached_tail = WORD - 1  BY <1>14 DEF PushPanics
    <3>2. Pushed < WORD  BY <3>1 DEF IInv, Counts
    <3>3. Pushed % WORD = Pushed  BY <1>2, <3>2, ModSmall
    <3>4. QED  BY <1>3, <3>1, <3>3
  <2>4. TypeOK'
    <3>1. mem'[HEAD] = mem[HEAD] /\ mem'[TAIL] = mem[TAIL]  BY <1>5, LocFacts
    <3>2. written' \in Nat /\ lost' \in SUBSET Nat  BY <1>1, <1>2, <2>1 DEF IInv, TypeOK
    <3>3. QED  BY <1>1, <1>5, <2>1, <3>1, <3>2 DEF IInv, TypeOK
  <2>5. Counts'
    <3>1. \A k \in Loc : Newest(k)' >= 1
      BY <1>5 DEF IInv, Counts, Appended
    <3>2. /\ cur'["P"][TAIL] = Newest(TAIL)' /\ cur'["C"][HEAD] = Newest(HEAD)'
      BY <1>4, <1>5, LocFacts DEF IInv, Counts
    <3>3. /\ mem'[TAIL] = mem[TAIL] /\ mem'[HEAD] = mem[HEAD]
          /\ Newest(TAIL)' = Newest(TAIL) /\ Newest(HEAD)' = Newest(HEAD)
      BY <1>5, LocFacts
    <3>4. QED  BY <1>1, <1>7, <2>1, <2>2, <3>1, <3>2, <3>3 DEF IInv, Counts
  <2>6. Cached'
    <3>1. PICK h \in Nat : CachedHead(h)  BY DEF IInv, Cached
    <3>2. PICK t \in Nat : CachedTail(t)  BY DEF IInv, Cached
    <3>3. cur'["P"][HEAD] = cur["P"][HEAD]  BY <1>4, <1>5, LocFacts
    <3>4. CachedHead(h)'  BY <1>1, <2>1, <2>2, <3>1, <3>3 DEF CachedHead
    <3>5. CachedTail(t)'  BY <1>1, <1>5, <1>7, <3>2 DEF CachedTail
    <3>6. QED  BY <3>4, <3>5 DEF Cached
  <2>7. ViewsCoherent'
    <3>1. written' \in Nat /\ written' > Pushed  BY <1>1, <1>2, <1>9
    <3>2. ASSUME NEW v \in Views(Loc), NEW w \in Views(Loc), Coherent(v),
                 \A k \in Loc : k # l => w[k] = v[k], w[l] \in {v[l], Newest(l) + 1}
          PROVE  Coherent(w)'
      BY <1>1, <1>4, <1>5, <1>6, <2>2, <3>1, <3>2, WriteCoherent
    <3>3. cpc' = "store" => Knows(cur["C"], Popped - 1)'
      BY <1>1, <1>10
    <3>4. QED  BY <1>1, <1>2, <1>4, <2>1, <3>2, <3>3, LocFacts, SlotStoreViews
  <2>8. Contents'
    <3>1. ASSUME NEW q \in TakenOut .. Pushed - 1 PROVE ItemIn(SlotOf(q))' = q + 1
      BY <1>11
    <3>2. ASSUME NEW q \in Pushed .. TakenOut + CAPACITY - 1
          PROVE  ItemIn(SlotOf(q))' = IF q = Pushed THEN written' ELSE 0
      <4>1. CASE q = Pushed  BY <1>1, <1>4, <1>5, <4>1
      <4>2. CASE q # Pushed
        <5>1. q \in Pushed + 1 .. TakenOut + CAPACITY - 1  BY <1>2, <3>2, <4>2
        <5>2. QED  BY <1>12, <4>2, <5>1
      <4>3. QED  BY <4>1, <4>2
    <3>3. written' > Pushed'  BY <1>1, <1>2, <1>9, <2>2
    <3>4. QED  BY <1>6, <2>2, <3>1, <3>2, <3>3 DEF Contents
  <2>9. Accounts'
    <3>1. lost' = Pushed + 1 .. written'
      <4>1. \A a, b \in Nat : b >= a => (a + 1 .. b) \cup {b + 1} = a + 1 .. b + 1
        OBVIOUS
      <4>2. (Pushed + 1 .. written) \cup {written + 1} = Pushed + 1 .. written + 1
        BY <1>2, <1>9, <4>1
      <4>3. QED  BY <1>1, <1>9, <2>1, <4>2
    <3>2. TakenOut' <= Newest(TAIL)' - 1
      BY <1>5, <1>6, LocFacts DEF IInv, Accounts
    <3>3. written' >= Pushed /\ Pushed < TakenOut + CAPACITY  BY <1>1, <1>2, <1>9
    <3>4. Knows(cur["P"], Pushed)'
      <4>1. SlotOf(Pushed') = l  BY <1>4, <2>2
      <4>2. QED  BY <1>5, <4>1 DEF Knows, Appended
    <3>5. QED
      BY <1>1, <1>6, <1>7, <1>8, <2>1, <2>2, <2>3, <3>1, <3>2, <3>3, <3>4
         DEF IInv, Accounts
  <2>10. QED  BY <1>8, <2>4, <2>5, <2>6, <2>7, <2>8, <2>9 DEF IInv
<1>15. QED  BY <1>13, <1>14

(* A Release store to a counter, or to an atomic of the program around the *)
(* queue: the message says what its writer knows.                          *)
LEMMA CounterStore ==
    ASSUME IInv, NEW th \in Thread, NEW l \in Sync, NEW val \in Nat,
           Store(th, l, val, "Release", "None"),
           UNCHANGED <<arc, dropper, written, popped, dropped, lost>>,
           UNCHANGED <<overflow_checks, p_cached_tail, c_cached_head>>,
           Pushed' = Pushed, Popped' = Popped,
           l \in {HEAD, TAIL} => val = Newest(l) % WORD,
           l = TAIL => th = "P", l = HEAD => th = "C",
           ppc' = "store" => ppc = "store" /\ th = "C",
           cpc' = "store" => cpc = "store" /\ th = "P",
           NEW w \in Views(Loc), w = [cur[th] EXCEPT ![l] = Newest(l) + 1],
           KnowsItems(w), KnowsHoles(w)
    PROVE  /\ MemoryOK(Loc, Thread)'
           /\ mem'[HEAD] \in Seq(IndexMessage) /\ mem'[TAIL] \in Seq(IndexMessage)
           /\ cur'[th] = w /\ \A u \in Thread : u # th => cur'[u] = cur[u]
           /\ Newest(l)' = Newest(l) + 1
           /\ \A k \in Loc : k # l => Newest(k)' = Newest(k)
           /\ Counts' /\ ViewsCoherent' /\ Contents' /\ Accounts'
<1>1. MemoryOK(Loc, Thread) /\ l \in Loc  BY LocFacts DEF IInv, TypeOK
<1>2. cur[th][l] <= Newest(l)  BY <1>1 DEF IInv, ViewsCoherent, Coherent, Bounded
<1>3. /\ MemoryOK(Loc, Thread)'
      /\ \A k \in Loc : k # l => mem'[k] = mem[k] /\ Newest(k)' = Newest(k)
      /\ Newest(l)' = Newest(l) + 1
      /\ \A t \in 1 .. Newest(l) : mem'[l][t] = mem[l][t]
      /\ mem'[l][Newest(l) + 1].val = val
      /\ mem'[l][Newest(l) + 1].view = cur'[th]
      /\ cur' = [cur EXCEPT ![th] = w]
      /\ mem'[l] = Append(mem[l], mem'[l][Newest(l) + 1])
  BY <1>1, <1>2, StoreView
<1>4. /\ cur \in [Thread -> Views(Loc)] /\ cur'[th] = w
      /\ \A u \in Thread : u # th => cur'[u] = cur[u]
  BY <1>1, <1>3 DEF MemoryOK
<1>5. \A k \in Loc : Newest(k) \in Nat /\ Newest(k)' \in Nat /\ Newest(k)' >= Newest(k)
  <2>1. \A k \in Loc : Newest(k) \in Nat  BY <1>1, MessageFacts
  <2>2. QED  BY <1>3, <2>1
<1>6. \A q \in Int : SlotOf(q) \in Loc /\ SlotOf(q) # l  BY LocFacts
<1>7. SameRing  BY <1>3, <1>5, <1>6 DEF SameRing, TakenOut
<1>8. \A v \in Views(Loc) : Coherent(v) => Coherent(v)'
  BY <1>5, <1>7, SameRingCoherent
<1>9. /\ w[l] = Newest(l) + 1
      /\ \A k \in Loc : k # l => w[k] = cur[th][k]
  <2>1. cur[th] \in [Loc -> Nat \ {0}]  BY <1>4 DEF Views
  <2>2. QED  BY <1>1, <2>1
<1>10. Coherent(w)'
  <2>1. Bounded(w)'
    <3> SUFFICES ASSUME NEW k \in Loc PROVE w[k] <= Newest(k)'  BY DEF Bounded
    <3>1. CASE k = l  BY <3>1, <1>3, <1>5, <1>9
    <3>2. CASE k # l
      <4>1. cur[th][k] <= Newest(k)  BY DEF IInv, ViewsCoherent, Coherent, Bounded
      <4>2. QED  BY <3>2, <4>1, <1>3, <1>9
    <3>3. QED  BY <3>1, <3>2
  <2>2. QED  BY <2>1, <1>7, SameRingKnows DEF Coherent
<1>11. \A u \in Thread : \A q \in Int : cur'[u][SlotOf(q)] = cur[u][SlotOf(q)]
  BY <1>4, <1>6, <1>9
<1>12. \A u \in Thread : \A q \in Int : Knows(cur[u], q) => Knows(cur[u], q)'
  BY <1>7, <1>11 DEF Knows, SameRing
<1>13. Pushed \in Nat /\ Popped \in Nat /\ WORD \in Nat \ {0}  BY Order
<1>14. ASSUME NEW k \in Sync, NEW t \in 1 .. Newest(k)'
       PROVE  t \in 1 .. Newest(k) \/ (k = l /\ t = Newest(l) + 1)
  <2>1. CASE k = l
    <3>1. PICK m \in Nat : m = Newest(l)  BY <1>1, <1>5
    <3>2. t \in 1 .. m + 1  BY <2>1, <1>3, <3>1
    <3>3. t \in 1 .. m \/ t = m + 1  BY <3>1, <3>2
    <3>4. QED  BY <2>1, <3>1, <3>3
  <2>2. CASE k # l  BY <2>2, <1>3, LocFacts
  <2>3. QED  BY <2>1, <2>2
<1>15. ViewsCoherent'
  <2>1. \A u \in Thread : Coherent(cur[u])'
    <3> SUFFICES ASSUME NEW u \in Thread PROVE Coherent(cur[u])'  OBVIOUS
    <3>1. CASE u = th  BY <3>1, <1>4, <1>10
    <3>2. CASE u # th
      <4>1. cur[u] \in Views(Loc) /\ Coherent(cur[u])  BY <1>4 DEF IInv, ViewsCoherent
      <4>2. QED  BY <3>2, <4>1, <1>4, <1>8
    <3>3. QED  BY <3>1, <3>2
  <2>2. Coherent(arc.view)'
    <3>1. arc.view \in Views(Loc) /\ Coherent(arc.view)
      BY DEF IInv, TypeOK, ViewsCoherent
    <3>2. QED  BY <1>8, <3>1
  <2>3. ASSUME NEW k \in Sync, NEW t \in 1 .. Newest(k)
        PROVE  (mem[k][t].view[k] = t /\ Coherent(mem[k][t].view))'
    <3>1. mem[k][t].view \in Views(Loc)  BY <1>1, MessageFacts, LocFacts
    <3>2. mem[k][t].view[k] = t /\ Coherent(mem[k][t].view)  BY DEF IInv, ViewsCoherent
    <3>3. mem'[k][t] = mem[k][t]  BY <1>3, LocFacts
    <3>4. QED  BY <1>8, <3>1, <3>2, <3>3
  <2>4. (mem[l][Newest(l)].view[l] = Newest(l) /\ Coherent(mem[l][Newest(l)].view))'
    BY <1>3, <1>4, <1>9, <1>10
  <2>5. ASSUME NEW k \in Sync, NEW t \in 1 .. Newest(k)'
        PROVE  (mem[k][t].view[k] = t /\ Coherent(mem[k][t].view))'
    <3>1. t \in 1 .. Newest(k) \/ (k = l /\ t = Newest(l)')  BY <1>3, <1>14
    <3>2. QED  BY <2>3, <2>4, <3>1
  <2>6. ppc' = "store" => Knows(cur["P"], Pushed - 1)'
    BY <1>12, <1>13, LocFacts DEF IInv, ViewsCoherent
  <2>7. cpc' = "store" => Knows(cur["C"], Popped - 1)'
    BY <1>12, <1>13, LocFacts DEF IInv, ViewsCoherent
  <2>8. QED  BY <2>1, <2>2, <2>5, <2>6, <2>7 DEF ViewsCoherent
<1>16. Counts'
  <2>1. \A k \in Loc : Newest(k)' >= 1  BY <1>5 DEF IInv, Counts
  <2>2. ASSUME NEW k \in {HEAD, TAIL}, NEW t \in 1 .. Newest(k)'
        PROVE  mem'[k][t].val = (t - 1) % WORD
    <3>1. CASE t \in 1 .. Newest(k)
      <4>1. mem'[k][t] = mem[k][t]  BY <3>1, <1>3, LocFacts
      <4>2. QED  BY <3>1, <4>1 DEF IInv, Counts
    <3>2. CASE t \notin 1 .. Newest(k)
      <4>1. k = l /\ t = Newest(l) + 1 /\ t - 1 = Newest(l)
        BY <3>2, <1>1, <1>5, <1>14, LocFacts
      <4>2. QED  BY <4>1, <1>3
    <3>3. QED  BY <3>1, <3>2
  <2>3. cur'["P"][TAIL] = Newest(TAIL)'
    BY <1>3, <1>4, <1>9, LocFacts DEF IInv, Counts
  <2>4. cur'["C"][HEAD] = Newest(HEAD)'
    BY <1>3, <1>4, <1>9, LocFacts DEF IInv, Counts
  <2>5. QED  BY <2>1, <2>2, <2>3, <2>4 DEF IInv, Counts
<1>17. Contents'
  <2>1. \A q \in Int : ItemIn(SlotOf(q))' = ItemIn(SlotOf(q))
    BY <1>3, <1>6 DEF ItemIn
  <2>2. TakenOut \in Nat /\ CAPACITY \in Nat  BY Order
  <2>3. QED  BY <1>7, <1>13, <2>1, <2>2 DEF IInv, Contents, SameRing
<1>18. Accounts'
  <2>1. TakenOut' <= Newest(TAIL)' - 1
    <3>1. TakenOut <= Newest(TAIL) - 1 /\ TakenOut \in Nat  BY Order
    <3>2. QED  BY <1>5, <1>7, <3>1, LocFacts DEF SameRing
  <2>2. QED  BY <1>7, <1>12, <1>13, <2>1, LocFacts DEF IInv, Accounts, SameRing
<1>19. mem'[HEAD] \in Seq(IndexMessage) /\ mem'[TAIL] \in Seq(IndexMessage)
  <2>1. mem[HEAD] \in Seq(IndexMessage) /\ mem[TAIL] \in Seq(IndexMessage)
    BY DEF IInv, TypeOK
  <2>2. ASSUME l \in {HEAD, TAIL} PROVE mem'[l] \in Seq(IndexMessage)
    <3> DEFINE m == mem'[l][Newest(l) + 1]
    <3>1. m \in Messages(Loc)
      <4>1. Newest(l)' \in 1 .. Newest(l)'  BY <1>1, <1>3, <1>5
      <4>2. mem'[l] \in Seq(Messages(Loc))  BY <1>1, <1>3 DEF MemoryOK
      <4>3. QED  BY <1>3, <4>1, <4>2 DEF Newest
    <3>2. m.val \in Usize  BY <1>1, <1>3, <1>5, <2>2, IncExact
    <3>3. m \in IndexMessage  BY <3>1, <3>2 DEF Messages, IndexMessage
    <3>4. mem'[l] = Append(mem[l], m)  BY <1>3
    <3> HIDE DEF m
    <3>5. QED  BY <2>1, <2>2, <3>3, <3>4
  <2>3. QED  BY <1>3, <2>1, <2>2, LocFacts
<1>20. QED  BY <1>3, <1>4, <1>15, <1>16, <1>17, <1>18, <1>19

(* tail.store: the producer has seen all accesses to the slot it filled,   *)
(* and says so to whoever loads this tail.                                 *)
LEMMA PushStoreStep == ASSUME IInv, PushStore PROVE IInv'
<1>1. /\ ppc = "store" /\ ppc' = "idle"
      /\ Store("P", TAIL, p_cached_tail, "Release", "None")
      /\ UNCHANGED <<p_cached_head, p_cached_tail, cpc, c_cached_head, c_cached_tail>>
      /\ UNCHANGED <<overflow_checks, arc, dropper, written, popped, dropped, lost>>
  BY DEF PushStore, TailStoreOrdering, consumerVars, dropVars, ghostVars
<1>2. /\ Newest(TAIL) \in Nat \ {0} /\ Newest(HEAD) \in Nat /\ CAPACITY \in Nat
      /\ TakenOut \in Nat /\ Pushed \in Nat /\ Popped \in Nat
  BY Order
<1>3. Pushed = Newest(TAIL)  BY <1>1 DEF Pushed
<1>4. p_cached_tail = Newest(TAIL) % WORD /\ p_cached_tail \in Nat
  BY <1>2, <1>3, IncExact DEF IInv, Counts
<1>5. MemoryOK(Loc, Thread) /\ cur["P"] \in Views(Loc) /\ cur["P"][TAIL] = Newest(TAIL)
  BY LocFacts DEF IInv, TypeOK, MemoryOK, Counts
<1>6. /\ Newest(TAIL)' = Newest(TAIL) + 1
      /\ \A k \in Loc : k # TAIL => Newest(k)' = Newest(k)
  BY <1>1, <1>2, <1>4, <1>5, LocFacts, StoreView
<1>7. Pushed' = Pushed  BY <1>1, <1>2, <1>3, <1>6 DEF Pushed
<1>8. Popped' = Popped  BY <1>1, <1>6, LocFacts DEF Popped
<1>9. PICK w \in Views(Loc) : w = [cur["P"] EXCEPT ![TAIL] = Newest(TAIL) + 1]
  <2>1. Newest(TAIL) + 1 \in Nat \ {0}  BY <1>2
  <2>2. [cur["P"] EXCEPT ![TAIL] = Newest(TAIL) + 1] \in Views(Loc)
    BY <1>5, <2>1 DEF Views
  <2>3. QED  BY <2>2
<1>10. w[TAIL] = Newest(TAIL) + 1 /\ \A k \in Loc : k # TAIL => w[k] = cur["P"][k]
  BY <1>5, <1>9, LocFacts DEF Views
<1>11. \A q \in Int : Knows(cur["P"], q) => Knows(w, q)
  BY <1>10, LocFacts DEF Knows
<1>12. KnowsItems(w)
  <2> SUFFICES ASSUME NEW q \in TakenOut .. Newest(TAIL) - 1 PROVE Knows(w, q)
    BY <1>2, <1>10 DEF KnowsItems
  <2>1. q \in Int  BY <1>2
  <2>2. CASE q = Newest(TAIL) - 1
    BY <2>1, <2>2, <1>1, <1>3, <1>11 DEF IInv, ViewsCoherent
  <2>3. CASE q # Newest(TAIL) - 1
    <3>1. q \in TakenOut .. cur["P"][TAIL] - 2  BY <2>3, <1>2, <1>5
    <3>2. Knows(cur["P"], q)
      BY <3>1, LocFacts DEF IInv, ViewsCoherent, Coherent, KnowsItems
    <3>3. QED  BY <2>1, <3>2, <1>11
  <2>4. QED  BY <2>2, <2>3
<1>13. KnowsHoles(w)
  <2>1. w[HEAD] = cur["P"][HEAD] /\ cur["P"][HEAD] \in Nat
    BY <1>5, <1>10, LocFacts DEF Views
  <2>2. KnowsHoles(cur["P"])  BY LocFacts DEF IInv, ViewsCoherent, Coherent
  <2>3. QED  BY <1>2, <1>11, <2>1, <2>2 DEF KnowsHoles
<1>14. /\ MemoryOK(Loc, Thread)'
       /\ mem'[HEAD] \in Seq(IndexMessage) /\ mem'[TAIL] \in Seq(IndexMessage)
       /\ cur'["P"] = w /\ cur'["C"] = cur["C"]
       /\ Counts' /\ ViewsCoherent' /\ Contents' /\ Accounts'
  BY <1>1, <1>4, <1>7, <1>8, <1>9, <1>12, <1>13, LocFacts, CounterStore
<1>15. TypeOK'  BY <1>1, <1>14 DEF IInv, TypeOK
<1>16. Handles'  BY <1>1, <1>14, HandlesAlive
<1>17. Cached'
  <2>1. PICK h \in Nat : CachedHead(h)  BY DEF IInv, Cached
  <2>2. PICK t \in Nat : CachedTail(t)  BY DEF IInv, Cached
  <2>3. cur'["P"][HEAD] = cur["P"][HEAD]  BY <1>10, <1>14, LocFacts
  <2>4. CachedHead(h)'  BY <1>1, <1>7, <2>1, <2>3 DEF CachedHead
  <2>5. CachedTail(t)'  BY <1>1, <1>8, <1>14, <2>2 DEF CachedTail
  <2>6. QED  BY <2>4, <2>5 DEF Cached
<1>18. QED  BY <1>14, <1>15, <1>16, <1>17 DEF IInv

-----------------------------------------------------------------------------
(* pop(). *)

(* The check against the cached tail. *)
LEMMA PopStep == ASSUME IInv, Pop PROVE IInv'
<1>1. /\ cpc = "idle" /\ cpc' = IF c_cached_head = c_cached_tail THEN "still_empty" ELSE "read"
      /\ mem' = mem /\ cur' = cur /\ acq' = acq /\ rel' = rel
      /\ UNCHANGED <<ppc, p_cached_head, p_cached_tail, c_cached_head, c_cached_tail>>
      /\ UNCHANGED <<overflow_checks, arc, dropper, written, popped, dropped, lost>>
  BY DEF Pop, memVars, producerVars, dropVars, ghostVars
<1>2. Pushed' = Pushed /\ Popped' = Popped
  BY <1>1 DEF Pushed, Popped, Newest
<1>3. TypeOK'  BY <1>1 DEF IInv, TypeOK, MemoryOK
<1>4. lost' = (IF dropper'.pc \in {"free", "freed"} THEN TakenOut ELSE Pushed) + 1 .. written
  BY <1>1 DEF IInv, Accounts
<1>5. Counts' /\ ViewsCoherent' /\ Contents' /\ Accounts'
  BY <1>1, <1>2, <1>4, IdleStep
<1>6. Handles'  BY <1>1, HandlesAlive
<1>7. Cached'
  <2>1. PICK h \in Nat : CachedHead(h)  BY DEF IInv, Cached
  <2>2. PICK t \in Nat : CachedTail(t)  BY DEF IInv, Cached
  <2>3. Popped \in Nat  BY Order
  <2>4. c_cached_head = c_cached_tail <=> Popped = t  BY <2>2, CachedFacts
  <2>5. CachedHead(h)'  BY <1>1, <1>2, <2>1 DEF CachedHead
  <2>6. CachedTail(t)'  BY <1>1, <1>2, <2>2, <2>3, <2>4 DEF CachedTail
  <2>7. QED  BY <2>5, <2>6 DEF Cached
<1>8. QED  BY <1>3, <1>5, <1>6, <1>7 DEF IInv

(* still_empty(): what the consumer loads is at most as new as the tail,   *)
(* and no older than what it had.                                          *)
LEMMA StillEmptyStep == ASSUME IInv, StillEmpty PROVE IInv'
<1>1. PICK t : StillEmptyAt(t)  BY DEF StillEmpty
<1>2. /\ cpc = "still_empty" /\ Load("C", TAIL, t, "Acquire", "None")
      /\ c_cached_tail' = mem[TAIL][t].val
      /\ cpc' = IF c_cached_head = mem[TAIL][t].val THEN "idle" ELSE "read"
      /\ UNCHANGED <<c_cached_head, ppc, p_cached_head, p_cached_tail>>
      /\ UNCHANGED <<overflow_checks, arc, dropper, written, popped, dropped, lost>>
  BY <1>1 DEF StillEmptyAt, TailLoadOrdering, producerVars, dropVars, ghostVars
<1>3. /\ MemoryOK(Loc, Thread)' /\ mem' = mem
      /\ t \in 1 .. Newest(TAIL) /\ t >= cur["C"][TAIL]
      /\ cur'["C"][TAIL] >= t
      /\ \A u \in Thread \ {"C"} : cur'[u] = cur[u]
      /\ \E c \in [Thread -> Views(Loc)], a \in Views(Loc) :
            /\ cur' = c /\ arc'.view = a /\ Coherent(a)
            /\ \A u \in Thread : Coherent(c[u])
            /\ \A u \in Thread : \A k \in Loc : c[u][k] >= cur[u][k]
  BY <1>2, LocFacts, CounterLoad
<1>4. Pushed' = Pushed /\ Popped' = Popped
  BY <1>2, <1>3 DEF Pushed, Popped, Newest
<1>5. /\ Newest(TAIL) \in Nat /\ Popped \in Nat /\ CAPACITY \in Nat
      /\ Newest(TAIL) - 1 <= Popped + CAPACITY
  <2>1. /\ Newest(TAIL) \in Nat /\ Pushed \in Nat /\ Popped \in Nat /\ CAPACITY \in Nat
        /\ Newest(TAIL) - 1 <= Pushed /\ Pushed <= Newest(HEAD) - 1 + CAPACITY
        /\ Newest(HEAD) - 1 <= Popped /\ Newest(HEAD) \in Nat
    BY Order
  <2>2. QED  BY <2>1
<1>6. mem[TAIL][t].val = (t - 1) % WORD  BY <1>3 DEF IInv, Counts
<1>7. TypeOK'
  <2>1. c_cached_tail' \in Usize  BY <1>2, <1>3, <1>5, <1>6, IncExact
  <2>2. QED  BY <1>2, <1>3, <2>1 DEF IInv, TypeOK
<1>8. lost' = (IF dropper'.pc \in {"free", "freed"} THEN TakenOut ELSE Pushed) + 1 .. written
  BY <1>2 DEF IInv, Accounts
<1>9. Counts' /\ ViewsCoherent' /\ Contents' /\ Accounts'
  BY <1>2, <1>3, <1>4, <1>8, QuietStep
<1>10. Handles'  BY <1>2, <1>3, LocFacts, HandlesAlive
<1>11. Cached'
  <2>1. PICK h \in Nat : CachedHead(h)  BY DEF IInv, Cached
  <2>2. PICK u \in Nat : CachedTail(u)  BY DEF IInv, Cached
  <2>3. PICK g \in Nat : g = t - 1  BY <1>3, <1>5
  <2>4. cur["C"][TAIL] \in Nat  BY LocFacts DEF IInv, TypeOK, MemoryOK, Views
  <2>5. Popped <= g /\ g <= Popped + CAPACITY /\ g < cur'["C"][TAIL]
    <3>1. u < cur["C"][TAIL] /\ Popped <= u  BY <2>2 DEF CachedTail
    <3>2. cur'["C"][TAIL] \in Nat  BY <1>3, LocFacts DEF MemoryOK, Views
    <3>3. QED  BY <1>3, <1>5, <2>3, <2>4, <3>1, <3>2
  <2>6. c_cached_head = Popped % WORD  BY DEF IInv, Counts
  <2>7. c_cached_head = g % WORD <=> Popped = g
    BY <1>5, <2>5, <2>6, EmptyExact
  <2>8. c_cached_tail' = g % WORD  BY <1>2, <1>6, <2>3
  <2>9. cpc' = "read" => Popped < g  BY <1>2, <1>5, <2>5, <2>7, <2>8
  <2>10. CachedTail(g)'  BY <1>4, <2>5, <2>8, <2>9 DEF CachedTail
  <2>11. CachedHead(h)'  BY <1>2, <1>3, <1>4, <2>1, LocFacts DEF CachedHead
  <2>12. QED  BY <2>10, <2>11 DEF Cached
<1>12. QED  BY <1>7, <1>9, <1>10, <1>11 DEF IInv

(* The oldest item is moved out of its slot, by pop or by Drop for Queue. *)
LEMMA TakeStep ==
    ASSUME IInv, NEW th \in Thread, NEW l \in Loc, l = SlotOf(TakenOut),
           Store(th, l, 0, "Relaxed", "None"), TakenOut < Newest(TAIL) - 1,
           TakenOut' = TakenOut + 1, UNCHANGED <<written, arc, ppc>>
    PROVE  /\ MemoryOK(Loc, Thread)' /\ l \notin Sync /\ Pushed' = Pushed
           /\ mem'[HEAD] = mem[HEAD] /\ mem'[TAIL] = mem[TAIL]
           /\ Newest(HEAD)' = Newest(HEAD) /\ Newest(TAIL)' = Newest(TAIL)
           /\ \A k \in Loc : Newest(k)' >= 1
           /\ cur'[th][l] = Newest(l)'
           /\ \A k \in Loc : k # l => cur'[th][k] = cur[th][k]
           /\ \A u \in Thread : u # th => cur'[u] = cur[u]
           /\ ItemIn(l) = TakenOut + 1
           /\ Contents'
           /\ (cpc' = "store" => Knows(cur["C"], Popped - 1)') => ViewsCoherent'
           /\ written > Pushed => Knows(cur["P"], Pushed)'
<1>1. /\ Pushed \in Nat /\ TakenOut \in Nat /\ written \in Nat
      /\ Newest(TAIL) \in Nat /\ Newest(HEAD) \in Nat
      /\ Newest(HEAD) - 1 <= TakenOut /\ Newest(TAIL) - 1 <= Pushed
      /\ Pushed <= Newest(HEAD) - 1 + CAPACITY
      /\ CAPACITY \in Nat \ {0}
  BY Order
<1>2. TakenOut < Pushed /\ Pushed <= TakenOut + CAPACITY  BY <1>1
<1>3. l \notin Sync  BY <1>1, LocFacts
<1>4. /\ MemoryOK(Loc, Thread)' /\ Appended(l) /\ Newest(l) \in Nat
      /\ \A k \in Sync : mem'[k] = mem[k] /\ Newest(k)' = Newest(k)
      /\ \A k \in Loc : k # l => ItemIn(k)' = ItemIn(k)
      /\ ItemIn(l)' = 0
      /\ cur'[th][l] = Newest(l) + 1
      /\ \A k \in Loc : k # l => cur'[th][k] = cur[th][k]
      /\ \A u \in Thread : u # th => cur'[u] = cur[u]
  BY <1>3, SlotStore
<1>5. /\ mem'[HEAD] = mem[HEAD] /\ mem'[TAIL] = mem[TAIL]
      /\ Newest(HEAD)' = Newest(HEAD) /\ Newest(TAIL)' = Newest(TAIL)
  BY <1>4, LocFacts
<1>6. Pushed' = Pushed  BY <1>5 DEF Pushed
<1>7. \A k \in Loc : Newest(k)' >= 1  BY <1>4 DEF IInv, Counts, Appended
<1>8. ASSUME NEW q \in Int, TakenOut < q, q < TakenOut + CAPACITY
      PROVE  SlotOf(q) \in Loc /\ SlotOf(q) # l
  <2>1. SlotOf(q) # SlotOf(TakenOut)  BY <1>1, <1>8, OtherSlot
  <2>2. QED  BY <2>1, LocFacts
<1>9. ASSUME NEW u \in Thread, NEW q \in Int, TakenOut < q, q < TakenOut + CAPACITY,
             Knows(cur[u], q)
      PROVE  Knows(cur[u], q)'
  <2>1. SlotOf(q) \in Loc /\ SlotOf(q) # l  BY <1>8, <1>9
  <2>2. cur'[u][SlotOf(q)] = cur[u][SlotOf(q)] /\ Newest(SlotOf(q))' = Newest(SlotOf(q))
    BY <1>4, <2>1 DEF Appended
  <2>3. QED  BY <1>9, <2>2 DEF Knows
<1>10. ItemIn(l) = TakenOut + 1
  <2>1. TakenOut \in TakenOut .. Pushed - 1  BY <1>1, <1>2
  <2>2. QED  BY <2>1 DEF IInv, Contents
<1>11. written > Pushed =>
          Pushed < TakenOut + CAPACITY /\ ppc # "store" /\ Knows(cur["P"], Pushed)
  BY DEF IInv, Accounts
<1>12. written > Pushed => Knows(cur["P"], Pushed)'
  <2> SUFFICES ASSUME written > Pushed PROVE Knows(cur["P"], Pushed)'  OBVIOUS
  <2>1. PICK q \in Int : q = Pushed  BY <1>1
  <2>2. Knows(cur["P"], q)'  BY <1>2, <1>9, <1>11, <2>1, LocFacts
  <2>3. QED  BY <1>6, <2>1, <2>2
<1>13. Contents'
  <2>1. ASSUME NEW q \in TakenOut + 1 .. Pushed - 1 PROVE ItemIn(SlotOf(q))' = q + 1
    <3>1. /\ q \in Int /\ TakenOut < q /\ q < TakenOut + CAPACITY
          /\ q \in TakenOut .. Pushed - 1
      BY <1>1, <1>2
    <3>2. SlotOf(q) \in Loc /\ SlotOf(q) # l  BY <1>8, <3>1
    <3>3. ItemIn(SlotOf(q)) = q + 1  BY <3>1 DEF IInv, Contents
    <3>4. QED  BY <1>4, <3>2, <3>3
  <2>2. ASSUME NEW q \in Pushed .. (TakenOut + 1) + CAPACITY - 1
        PROVE  ItemIn(SlotOf(q))' = IF q = Pushed /\ written > Pushed THEN written ELSE 0
    <3>1. CASE q = TakenOut + CAPACITY
      <4>1. SlotOf(q) = l  BY <1>1, <3>1, SlotAgain
      <4>2. ~(q = Pushed /\ written > Pushed)  BY <1>1, <1>11, <3>1
      <4>3. QED  BY <1>4, <4>1, <4>2
    <3>2. CASE q # TakenOut + CAPACITY
      <4>1. /\ q \in Int /\ TakenOut < q /\ q < TakenOut + CAPACITY
            /\ q \in Pushed .. TakenOut + CAPACITY - 1
        BY <1>1, <1>2, <3>2
      <4>2. SlotOf(q) \in Loc /\ SlotOf(q) # l  BY <1>8, <4>1
      <4>3. ItemIn(SlotOf(q)) = IF q = Pushed /\ written > Pushed THEN written ELSE 0
        BY <4>1 DEF IInv, Contents
      <4>4. QED  BY <1>4, <4>2, <4>3
    <3>3. QED  BY <3>1, <3>2
  <2>3. QED  BY <1>6, <2>1, <2>2 DEF Contents
<1>14. ASSUME cpc' = "store" => Knows(cur["C"], Popped - 1)'
       PROVE  ViewsCoherent'
  <2>1. ASSUME NEW v \in Views(Loc), NEW w \in Views(Loc), Coherent(v),
               \A k \in Loc : k # l => w[k] = v[k], w[l] \in {v[l], Newest(l) + 1}
        PROVE  Coherent(w)'
    BY <1>2, <1>4, <1>6, <2>1, TakeCoherent
  <2>2. ppc' = "store" => Knows(cur["P"], Pushed - 1)'
    <3> SUFFICES ASSUME ppc = "store" PROVE Knows(cur["P"], Pushed - 1)'  OBVIOUS
    <3>1. PICK q \in Int : q = Pushed - 1  BY <1>1
    <3>2. Knows(cur["P"], q)  BY <3>1 DEF IInv, ViewsCoherent
    <3>3. TakenOut < q /\ q < TakenOut + CAPACITY
      <4>1. Pushed = Newest(TAIL)  BY DEF Pushed
      <4>2. QED  BY <1>1, <1>2, <3>1, <4>1
    <3>4. Knows(cur["P"], q)'  BY <1>9, <3>2, <3>3, LocFacts
    <3>5. Pushed' - 1 = q  BY <1>6, <3>1
    <3>6. QED  BY <3>4, <3>5
  <2>3. QED  BY <1>3, <1>14, <2>1, <2>2, SlotStoreViews
<1>15. cur'[th][l] = Newest(l)'  BY <1>4 DEF Appended
<1>16. QED
  BY <1>3, <1>4, <1>5, <1>6, <1>7, <1>10, <1>12, <1>13, <1>14, <1>15

(* ptr.read(): the consumer has been told of an item that is still there.  *)
(* cached_head cannot overflow, as cached_tail would have had to first.    *)
LEMMA PopReadStep == ASSUME IInv, PopRead PROVE IInv'
<1> DEFINE l0 == SlotOf(c_cached_head)
<1>1. /\ cpc = "read" /\ Store("C", l0, 0, "Relaxed", "None")
      /\ c_cached_head' = IF PopPanics THEN c_cached_head ELSE Inc(c_cached_head)
      /\ popped' = IF PopPanics THEN popped ELSE Append(popped, ItemIn(l0))
      /\ dropped' = IF PopPanics THEN Append(dropped, ItemIn(l0)) ELSE dropped
      /\ cpc' = IF PopPanics THEN "idle" ELSE "store"
      /\ UNCHANGED <<c_cached_tail, ppc, p_cached_head, p_cached_tail>>
      /\ UNCHANGED <<overflow_checks, arc, dropper, written, lost>>
  BY DEF PopRead, producerVars, dropVars
<1>2. /\ Pushed \in Nat /\ Popped \in Nat /\ TakenOut \in Nat /\ Len(dropped) \in Nat
      /\ Newest(TAIL) \in Nat /\ Newest(HEAD) \in Nat
      /\ TakenOut = Popped + Len(dropped) /\ Newest(TAIL) - 1 <= Pushed
      /\ WORD \in Nat \ {0}
  BY Order
<1>3. PICK t \in Nat : CachedTail(t)  BY DEF IInv, Cached
<1>4. Popped < t /\ t <= Newest(TAIL) - 1
  BY <1>1, <1>3, CachedFacts DEF CachedTail
<1>5. ~PopPanics
  <2>1. c_cached_head = Popped % WORD /\ (overflow_checks => Pushed < WORD)
    BY DEF IInv, Counts
  <2>2. Pushed < WORD => Popped % WORD = Popped
    <3>1. Pushed < WORD => Popped \in 0 .. WORD - 1  BY <1>2, <1>4
    <3>2. QED  BY <1>2, <3>1, ModSmall
  <2>3. QED  BY <1>2, <1>4, <2>1, <2>2 DEF PopPanics
<1>6. dropper.pc = "alive" /\ Len(dropped) = 0
  <2>1. arc.strong > 0  BY <1>1 DEF IInv, Handles
  <2>2. QED  BY <2>1 DEF IInv, Handles
<1>7. TakenOut = Popped  BY <1>2, <1>6
<1>8. PICK l \in Loc : l = l0 /\ l = SlotOf(TakenOut)
  <2>1. c_cached_head = Popped % WORD  BY DEF IInv, Counts
  <2>2. QED  BY <1>2, <1>7, <2>1, SlotWrap, LocFacts
<1>9. /\ c_cached_head' = (Popped + 1) % WORD /\ popped' = Append(popped, ItemIn(l))
      /\ dropped' = dropped /\ cpc' = "store" /\ (Popped + 1) % WORD \in Usize
  <2>1. c_cached_head = Popped % WORD  BY DEF IInv, Counts
  <2>2. Inc(Popped % WORD) = (Popped + 1) % WORD /\ (Popped + 1) % WORD \in Usize
    <3>1. Popped \in Int /\ Popped + 1 \in Int  BY <1>2
    <3>2. (Popped + 1) % WORD \in Usize  BY <3>1, IncExact
    <3>3. QED  BY <3>1, <3>2, IncExact
  <2>3. ItemIn(l0) = ItemIn(l)  BY <1>8
  <2> HIDE DEF l0
  <2>4. QED  BY <1>1, <1>5, <2>1, <2>2, <2>3
<1> HIDE DEF l0
<1>10. popped \in Seq(Nat) /\ Len(popped) = Popped /\ ItemIn(l) = TakenOut + 1
  <2>1. TakenOut \in TakenOut .. Pushed - 1  BY <1>2, <1>4, <1>7
  <2>2. QED  BY <1>8, <2>1 DEF IInv, TypeOK, Accounts, Contents
<1>11. /\ popped' \in Seq(Nat) /\ Len(popped') = Popped + 1
       /\ \A n \in 1 .. Popped : popped'[n] = popped[n]
       /\ popped'[Popped + 1] = Popped + 1
  BY <1>2, <1>7, <1>9, <1>10
<1>12. TakenOut' = TakenOut + 1  BY <1>2, <1>6, <1>7, <1>9, <1>11 DEF TakenOut
<1>13. TakenOut < Newest(TAIL) - 1  BY <1>2, <1>4, <1>7
<1>14. /\ MemoryOK(Loc, Thread)' /\ l \notin Sync /\ Pushed' = Pushed
       /\ mem'[HEAD] = mem[HEAD] /\ mem'[TAIL] = mem[TAIL]
       /\ Newest(HEAD)' = Newest(HEAD) /\ Newest(TAIL)' = Newest(TAIL)
       /\ \A k \in Loc : Newest(k)' >= 1
       /\ cur'["C"][l] = Newest(l)'
       /\ \A k \in Loc : k # l => cur'["C"][k] = cur["C"][k]
       /\ cur'["P"] = cur["P"]
       /\ Contents'
       /\ (cpc' = "store" => Knows(cur["C"], Popped - 1)') => ViewsCoherent'
       /\ written > Pushed => Knows(cur["P"], Pushed)'
  BY <1>1, <1>8, <1>12, <1>13, LocFacts, TakeStep
<1>15. Popped' = Popped + 1
  <2>1. Popped = Newest(HEAD) - 1  BY <1>1 DEF Popped
  <2>2. Popped' = Newest(HEAD)  BY <1>9, <1>14 DEF Popped
  <2>3. QED  BY <1>2, <2>1, <2>2
<1>16. TypeOK'  BY <1>1, <1>9, <1>11, <1>14 DEF IInv, TypeOK
<1>17. Handles'  BY <1>1, <1>9, <1>14, HandlesAlive
<1>18. Counts'
  <2>1. cur'["C"][HEAD] = Newest(HEAD)'  BY <1>14, LocFacts DEF IInv, Counts
  <2>2. QED  BY <1>1, <1>9, <1>14, <1>15, <2>1 DEF IInv, Counts
<1>19. Cached'
  <2>1. PICK h \in Nat : CachedHead(h)  BY DEF IInv, Cached
  <2>2. cur'["C"][TAIL] = cur["C"][TAIL]  BY <1>14, LocFacts
  <2>3. CachedHead(h)'  BY <1>1, <1>14, <2>1 DEF CachedHead
  <2>4. CachedTail(t)'  BY <1>1, <1>2, <1>3, <1>4, <1>9, <1>15, <2>2 DEF CachedTail
  <2>5. QED  BY <2>3, <2>4 DEF Cached
<1>20. ViewsCoherent'
  <2>1. SlotOf(Popped' - 1) = l
    <3>1. Popped' - 1 = TakenOut  BY <1>2, <1>7, <1>15
    <3>2. QED  BY <1>8, <3>1
  <2>2. Knows(cur["C"], Popped - 1)'  BY <1>14, <2>1 DEF Knows
  <2>3. QED  BY <1>14, <2>2
<1>21. Accounts'
  <2>1. TakenOut' <= Newest(TAIL)' - 1  BY <1>2, <1>12, <1>13, <1>14
  <2>2. Len(popped') = Popped' /\ \A n \in 1 .. Popped' : popped'[n] = n
    <3>1. \A n \in 1 .. Popped : popped[n] = n  BY DEF IInv, Accounts
    <3>2. QED  BY <1>2, <1>11, <1>15, <3>1
  <2>3. \A n \in 1 .. Len(dropped') : dropped'[n] = Popped' + n  BY <1>6, <1>9
  <2>4. written > Pushed => /\ overflow_checks /\ Pushed = WORD - 1 /\ ppc # "store"
                            /\ Pushed < TakenOut' + CAPACITY
    <3>1. written > Pushed => /\ overflow_checks /\ Pushed = WORD - 1 /\ ppc # "store"
                              /\ Pushed < TakenOut + CAPACITY
      BY DEF IInv, Accounts
    <3>2. CAPACITY \in Nat  BY Order
    <3>3. QED  BY <1>2, <1>12, <3>1, <3>2
  <2>5. lost' = Pushed + 1 .. written /\ written >= Pushed /\ dropper'.pc = "alive"
    BY <1>1, <1>6 DEF IInv, Accounts
  <2>6. QED  BY <1>1, <1>14, <2>1, <2>2, <2>3, <2>4, <2>5 DEF Accounts
<1>22. QED
  BY <1>14, <1>16, <1>17, <1>18, <1>19, <1>20, <1>21 DEF IInv

(* head.store: the consumer has seen all accesses to the slot it emptied,  *)
(* and says so to the producer, who may fill it again one turn later.      *)
LEMMA PopStoreStep == ASSUME IInv, PopStore PROVE IInv'
<1>1. /\ cpc = "store" /\ cpc' = "idle"
      /\ Store("C", HEAD, c_cached_head, "Release", "None")
      /\ UNCHANGED <<c_cached_head, c_cached_tail, ppc, p_cached_head, p_cached_tail>>
      /\ UNCHANGED <<overflow_checks, arc, dropper, written, popped, dropped, lost>>
  BY DEF PopStore, HeadStoreOrdering, producerVars, dropVars, ghostVars
<1>2. /\ Newest(TAIL) \in Nat /\ Newest(HEAD) \in Nat \ {0} /\ CAPACITY \in Nat \ {0}
      /\ TakenOut \in Nat /\ Pushed \in Nat /\ Popped \in Nat
  BY Order
<1>3. Popped = Newest(HEAD)  BY <1>1 DEF Popped
<1>4. c_cached_head = Newest(HEAD) % WORD /\ c_cached_head \in Nat
  BY <1>2, <1>3, IncExact DEF IInv, Counts
<1>5. MemoryOK(Loc, Thread) /\ cur["C"] \in Views(Loc) /\ cur["C"][HEAD] = Newest(HEAD)
  BY LocFacts DEF IInv, TypeOK, MemoryOK, Counts
<1>6. /\ Newest(HEAD)' = Newest(HEAD) + 1
      /\ \A k \in Loc : k # HEAD => Newest(k)' = Newest(k)
  BY <1>1, <1>2, <1>4, <1>5, LocFacts, StoreView
<1>7. Popped' = Popped  BY <1>1, <1>2, <1>3, <1>6 DEF Popped
<1>8. Pushed' = Pushed  BY <1>1, <1>6, LocFacts DEF Pushed
<1>9. PICK w \in Views(Loc) : w = [cur["C"] EXCEPT ![HEAD] = Newest(HEAD) + 1]
  <2>1. Newest(HEAD) + 1 \in Nat \ {0}  BY <1>2
  <2>2. [cur["C"] EXCEPT ![HEAD] = Newest(HEAD) + 1] \in Views(Loc)
    BY <1>5, <2>1 DEF Views
  <2>3. QED  BY <2>2
<1>10. w[HEAD] = Newest(HEAD) + 1 /\ \A k \in Loc : k # HEAD => w[k] = cur["C"][k]
  BY <1>5, <1>9, LocFacts DEF Views
<1>11. \A q \in Int : Knows(cur["C"], q) => Knows(w, q)
  BY <1>10, LocFacts DEF Knows
<1>12. KnowsItems(w)
  <2>1. w[TAIL] = cur["C"][TAIL] /\ cur["C"][TAIL] \in Nat
    BY <1>5, <1>10, LocFacts DEF Views
  <2>2. KnowsItems(cur["C"])  BY LocFacts DEF IInv, ViewsCoherent, Coherent
  <2>3. QED  BY <1>2, <1>11, <2>1, <2>2 DEF KnowsItems
<1>13. KnowsHoles(w)
  <2> SUFFICES ASSUME NEW q \in Pushed .. Newest(HEAD) + CAPACITY - 1,
                      q > Pushed \/ written = Pushed
               PROVE  Knows(w, q)
    BY <1>2, <1>10 DEF KnowsHoles
  <2>1. q \in Int  BY <1>2
  <2>2. CASE q = Newest(HEAD) + CAPACITY - 1
    <3>1. PICK p \in Int : p = Popped - 1 /\ q = p + CAPACITY  BY <2>2, <1>2, <1>3
    <3>2. Knows(cur["C"], p)  BY <3>1, <1>1 DEF IInv, ViewsCoherent
    <3>3. SlotOf(q) = SlotOf(p)  BY <3>1, SlotAgain
    <3>4. Knows(cur["C"], q)  BY <3>2, <3>3 DEF Knows
    <3>5. QED  BY <2>1, <3>4, <1>11
  <2>3. CASE q # Newest(HEAD) + CAPACITY - 1
    <3>1. q \in Pushed .. cur["C"][HEAD] + CAPACITY - 2  BY <2>3, <1>2, <1>5
    <3>2. Knows(cur["C"], q)
      BY <3>1, LocFacts DEF IInv, ViewsCoherent, Coherent, KnowsHoles
    <3>3. QED  BY <2>1, <3>2, <1>11
  <2>4. QED  BY <2>2, <2>3
<1>14. /\ MemoryOK(Loc, Thread)'
       /\ mem'[HEAD] \in Seq(IndexMessage) /\ mem'[TAIL] \in Seq(IndexMessage)
       /\ cur'["C"] = w /\ cur'["P"] = cur["P"]
       /\ Counts' /\ ViewsCoherent' /\ Contents' /\ Accounts'
  BY <1>1, <1>4, <1>7, <1>8, <1>9, <1>12, <1>13, LocFacts, CounterStore
<1>15. TypeOK'  BY <1>1, <1>14 DEF IInv, TypeOK
<1>16. Handles'  BY <1>1, <1>14, HandlesAlive
<1>17. Cached'
  <2>1. PICK h \in Nat : CachedHead(h)  BY DEF IInv, Cached
  <2>2. PICK t \in Nat : CachedTail(t)  BY DEF IInv, Cached
  <2>3. cur'["C"][TAIL] = cur["C"][TAIL]  BY <1>10, <1>14, LocFacts
  <2>4. CachedTail(t)'  BY <1>1, <1>7, <2>2, <2>3 DEF CachedTail
  <2>5. CachedHead(h)'  BY <1>1, <1>8, <1>14, <2>1 DEF CachedHead
  <2>6. QED  BY <2>4, <2>5 DEF Cached
<1>18. QED  BY <1>14, <1>15, <1>16, <1>17 DEF IInv

-----------------------------------------------------------------------------
(* Dropping the handles, and Drop for Queue. *)

(* A handle is dropped.  The last one learns all that the other knew when  *)
(* it was dropped, the newest head and tail above all.                     *)
LEMMA DropHandleStep ==
    ASSUME IInv, NEW th \in Thread, DropHandle(th),
           UNCHANGED <<p_cached_head, p_cached_tail, c_cached_head, c_cached_tail>>,
           th = "P" => ppc = "idle" /\ ppc' = "gone" /\ cpc' = cpc,
           th = "C" => cpc = "idle" /\ cpc' = "gone" /\ ppc' = ppc
    PROVE  IInv'
<1>1. MemoryOK(Loc, Thread) /\ arc.view \in Views(Loc) /\ arc.strong \in 0 .. 2
  BY DEF IInv, TypeOK
<1>2. PICK v \in Views(Loc), w \in Views(Loc) : v = cur[th] /\ w = arc.view
  BY <1>1 DEF MemoryOK
<1>3. PICK j \in Views(Loc) :
         /\ j = Join(v, w) /\ Coherent(j) /\ \A k \in Loc : j[k] >= v[k] /\ j[k] >= w[k]
  <2>1. Coherent(v) /\ Coherent(w)  BY <1>2 DEF IInv, ViewsCoherent
  <2>2. /\ Join(v, w) \in Views(Loc) /\ Coherent(Join(v, w))
        /\ \A k \in Loc : Join(v, w)[k] >= v[k] /\ Join(v, w)[k] >= w[k]
    BY <2>1, JoinFacts, JoinCoherent
  <2>3. QED  BY <2>2
<1> DEFINE last == arc.strong = 1
<1>4. /\ arc' = [strong |-> arc.strong - 1, view |-> j]
      /\ dropper' = IF last THEN [dropper EXCEPT !.th = th, !.pc = "head"] ELSE dropper
      /\ cur' = IF last THEN [cur EXCEPT ![th] = j] ELSE cur
      /\ acq' = IF last THEN [acq EXCEPT ![th] = Join(acq[th], j)] ELSE acq
      /\ mem' = mem /\ rel' = rel /\ UNCHANGED overflow_checks
      /\ UNCHANGED <<written, popped, dropped, lost>>
  BY <1>2, <1>3 DEF DropHandle, ghostVars
<1>5. \A k \in Loc : v[k] \in Nat /\ j[k] \in Nat /\ w[k] \in Nat  BY DEF Views
<1>6. PICK c \in [Thread -> Views(Loc)] :
         /\ c = cur' /\ \A u \in Thread : Coherent(c[u])
         /\ \A u \in Thread : \A k \in Loc : c[u][k] >= cur[u][k]
         /\ last => c[th] = j
         /\ \A u \in Thread : u # th => c[u] = cur[u]
  <2>1. PICK c \in [Thread -> Views(Loc)] : c = cur'  BY <1>1, <1>4 DEF MemoryOK
  <2>2. /\ c[th] = IF last THEN j ELSE cur[th]
        /\ \A u \in Thread : u # th => c[u] = cur[u]
    BY <1>1, <1>4, <2>1 DEF MemoryOK
  <2>3. \A u \in Thread : Coherent(cur[u])  BY DEF IInv, ViewsCoherent
  <2>4. \A u \in Thread : Coherent(c[u])  BY <1>3, <2>2, <2>3
  <2>5. \A u \in Thread : \A k \in Loc : c[u][k] >= cur[u][k]
    <3>1. \A u \in Thread : \A k \in Loc : cur[u][k] \in Nat  BY <1>1 DEF MemoryOK, Views
    <3>2. \A k \in Loc : c[th][k] >= cur[th][k]  BY <1>2, <1>3, <2>2, <3>1
    <3>3. QED  BY <2>2, <3>1, <3>2
  <2>6. QED  BY <2>1, <2>2, <2>4, <2>5
<1>7. Pushed' = Pushed /\ Popped' = Popped
  BY <1>4, LocFacts DEF Pushed, Popped, Newest, Thread
<1>8. dropper.pc = "alive" /\ arc.strong > 0
  <2>1. ppc # "gone" \/ cpc # "gone"  BY DEF Thread
  <2>2. arc.strong > 0  BY <2>1 DEF IInv, Handles
  <2>3. QED  BY <2>2 DEF IInv, Handles
<1>9. dropper'.pc \in {"alive", "head"} /\ dropper'.k = dropper.k
  BY <1>4, <1>8 DEF IInv, TypeOK
<1>10. lost' = (IF dropper'.pc \in {"free", "freed"} THEN TakenOut ELSE Pushed) + 1 .. written
  BY <1>4, <1>8, <1>9 DEF IInv, Accounts
<1>11. Counts' /\ ViewsCoherent' /\ Contents' /\ Accounts'
  <2>1. arc'.view = j  BY <1>4
  <2>2. ppc' = "store" => ppc = "store"  BY DEF Thread
  <2>3. cpc' = "store" => cpc = "store"  BY DEF Thread
  <2>4. QED  BY <1>3, <1>4, <1>6, <1>7, <1>10, <2>1, <2>2, <2>3, QuietStep
<1>12. TypeOK'
  <2>1. MemoryOK(Loc, Thread)'
    <3>1. acq[th] \in Views(Loc)  BY <1>1 DEF MemoryOK
    <3>2. Join(acq[th], j) \in Views(Loc)  BY <3>1, JoinFacts
    <3>3. acq' \in [Thread -> Views(Loc)]  BY <1>1, <1>4, <3>2 DEF MemoryOK
    <3>4. QED  BY <1>1, <1>4, <1>6, <3>3 DEF MemoryOK
  <2>2. arc' \in [strong : 0 .. 2, view : Views(Loc)]  BY <1>1, <1>4, <1>8
  <2>3. dropper' \in [th : Thread, pc : {"alive", "head", "tail", "items", "free", "freed"},
                      head : Usize, count : Usize, k : Nat]
    BY <1>4 DEF IInv, TypeOK
  <2>4. /\ ppc' \in {"idle", "still_full", "write", "store", "gone"}
        /\ cpc' \in {"idle", "still_empty", "read", "store", "gone"}
    BY DEF IInv, TypeOK, Thread
  <2>5. QED  BY <1>4, <2>1, <2>2, <2>3, <2>4 DEF IInv, TypeOK
<1>13. Cached'
  <2>1. PICK h \in Nat : CachedHead(h)  BY DEF IInv, Cached
  <2>2. PICK t \in Nat : CachedTail(t)  BY DEF IInv, Cached
  <2>3. /\ cur["P"][HEAD] \in Nat /\ c["P"][HEAD] \in Nat /\ c["P"][HEAD] >= cur["P"][HEAD]
        /\ cur["C"][TAIL] \in Nat /\ c["C"][TAIL] \in Nat /\ c["C"][TAIL] >= cur["C"][TAIL]
    BY <1>1, <1>6, LocFacts DEF MemoryOK, Views
  <2>4. ppc' = "write" => ppc = "write"  BY DEF Thread
  <2>5. cpc' = "read" => cpc = "read"  BY DEF Thread
  <2>6. CachedHead(h)'  BY <1>6, <1>7, <2>1, <2>3, <2>4 DEF CachedHead
  <2>7. CachedTail(t)'  BY <1>6, <1>7, <2>2, <2>3, <2>5 DEF CachedTail
  <2>8. QED  BY <2>6, <2>7 DEF Cached
<1>14. Handles'
  <2>1. /\ arc.strong = (IF ppc = "gone" THEN 0 ELSE 1) + (IF cpc = "gone" THEN 0 ELSE 1)
        /\ arc'.strong = arc.strong - 1 /\ arc'.view = j
    BY <1>4 DEF IInv, Handles
  <2>2. arc'.strong = (IF ppc' = "gone" THEN 0 ELSE 1) + (IF cpc' = "gone" THEN 0 ELSE 1)
    BY <2>1 DEF Thread
  <2>3. Len(dropped) = 0 /\ dropper.k = 0  BY <1>8 DEF IInv, Handles
  <2>4. CASE ~last
    <3>1. dropper' = dropper /\ cur' = cur  BY <1>4, <2>4
    <3>2. arc'.strong > 0  BY <1>1, <1>8, <2>1, <2>4
    <3>3. ppc' = "gone" => th = "P"  BY <2>1, <2>4, <1>1, <1>8 DEF Thread
    <3>4. cpc' = "gone" => th = "C"  BY <2>1, <2>4, <1>1, <1>8 DEF Thread
    <3>5. \A k \in Loc : cur'[th][k] <= arc'.view[k]
      BY <1>2, <1>3, <1>5, <2>1, <3>1
    <3>6. QED  BY <1>4, <1>8, <2>2, <2>3, <3>1, <3>2, <3>3, <3>4, <3>5 DEF Handles
  <2>5. CASE last
    <3>1. dropper'.th = th /\ dropper'.pc = "head" /\ dropper'.k = dropper.k
      BY <1>4, <2>5 DEF IInv, TypeOK
    <3>2. arc'.strong = 0  BY <2>1, <2>5
    <3>3. \A u \in Thread : \A k \in Loc : cur[u][k] <= j[k]
      <4>1. \A u \in Thread : \A k \in Loc : cur[u][k] \in Nat
        BY <1>1 DEF MemoryOK, Views
      <4>2. th = "P" => cpc = "gone"  BY <2>1, <2>5
      <4>3. th = "C" => ppc = "gone"  BY <2>1, <2>5
      <4>4. \A u \in Thread : u # th => \A k \in Loc : cur[u][k] <= w[k]
        BY <1>2, <1>8, <4>2, <4>3 DEF IInv, Handles, Thread
      <4>5. \A k \in Loc : cur[th][k] <= j[k]  BY <1>2, <1>3, <1>5, <4>1
      <4>6. QED  BY <1>3, <1>5, <4>1, <4>4, <4>5
    <3>4. /\ cur["P"][TAIL] = Newest(TAIL) /\ cur["C"][HEAD] = Newest(HEAD)
          /\ j[TAIL] <= Newest(TAIL) /\ j[HEAD] <= Newest(HEAD)
      BY <1>3, LocFacts DEF IInv, Counts, Coherent, Bounded
    <3>5. Newest(TAIL) \in Nat /\ Newest(HEAD) \in Nat  BY Order
    <3>6. j[TAIL] = Newest(TAIL) /\ j[HEAD] = Newest(HEAD)
      BY <1>5, <3>3, <3>4, <3>5, LocFacts
    <3>7. cur'[th] = j  BY <1>6, <2>5
    <3>8. Newest(TAIL)' = Newest(TAIL) /\ Newest(HEAD)' = Newest(HEAD)
      BY <1>4 DEF Newest
    <3>9. QED  BY <1>4, <2>2, <2>3, <3>1, <3>2, <3>6, <3>7, <3>8 DEF Handles
  <2>6. QED  BY <2>4, <2>5
<1>15. QED  BY <1>11, <1>12, <1>13, <1>14 DEF IInv

(* A step of Drop for Queue that stores nothing. *)
LEMMA DropQuiet ==
    ASSUME IInv, MemoryOK(Loc, Thread)', dropper.pc # "alive",
           UNCHANGED <<mem, cur, arc, ppc, p_cached_head, p_cached_tail>>,
           UNCHANGED <<cpc, c_cached_head, c_cached_tail>>,
           UNCHANGED <<overflow_checks, written, popped, dropped, lost>>,
           dropper' \in [th : Thread, pc : {"alive", "head", "tail", "items", "free", "freed"},
                         head : Usize, count : Usize, k : Nat],
           lost = (IF dropper'.pc \in {"free", "freed"} THEN TakenOut ELSE Pushed)
                     + 1 .. written,
           dropper'.pc # "alive" /\ dropper'.th = dropper.th,
           dropper'.pc \in {"head", "tail"} => Len(dropped) = 0 /\ dropper'.k = 0,
           dropper'.pc \in {"tail", "items"} => dropper'.head = Popped % WORD,
           dropper'.pc = "items" =>
              dropper'.count = Pushed - Popped /\ dropper'.k = Len(dropped)
    PROVE  IInv'
<1>1. Pushed' = Pushed /\ Popped' = Popped  BY DEF Pushed, Popped, Newest
<1>2. Counts' /\ ViewsCoherent' /\ Contents' /\ Accounts'
  BY <1>1, IdleStep
<1>3. TypeOK'  BY DEF IInv, TypeOK
<1>4. Cached'
  <2>1. PICK h \in Nat : CachedHead(h)  BY DEF IInv, Cached
  <2>2. PICK t \in Nat : CachedTail(t)  BY DEF IInv, Cached
  <2>3. CachedHead(h)'  BY <1>1, <2>1 DEF CachedHead
  <2>4. CachedTail(t)'  BY <1>1, <2>2 DEF CachedTail
  <2>5. QED  BY <2>3, <2>4 DEF Cached
<1>5. Handles'  BY <1>1 DEF IInv, Handles, Newest
<1>6. QED  BY <1>2, <1>3, <1>4, <1>5 DEF IInv

(* Once both handles are gone the counters stand still. *)
LEMMA DropFacts ==
    ASSUME IInv, dropper.pc # "alive"
    PROVE  /\ ppc = "gone" /\ cpc = "gone" /\ dropper.th \in Thread
           /\ Pushed = Newest(TAIL) - 1 /\ Popped = Newest(HEAD) - 1
           /\ Popped <= Pushed /\ Pushed - Popped < WORD
           /\ TakenOut = Popped + Len(dropped)
           /\ Pushed - Popped \in Usize
<1>1. arc.strong = 0  BY DEF IInv, TypeOK, Handles
<1>2. ppc = "gone" /\ cpc = "gone"  BY <1>1 DEF IInv, Handles
<1>3. Pushed = Newest(TAIL) - 1 /\ Popped = Newest(HEAD) - 1
  BY <1>2 DEF Pushed, Popped
<1>4. /\ Newest(TAIL) \in Nat /\ Newest(HEAD) \in Nat /\ Pushed \in Nat /\ Popped \in Nat
      /\ TakenOut \in Nat /\ Popped <= TakenOut /\ TakenOut <= Pushed
      /\ Pushed <= Newest(HEAD) - 1 + CAPACITY
      /\ TakenOut = Popped + Len(dropped)
      /\ CAPACITY \in Nat /\ WORD \in Nat /\ CAPACITY < WORD
  BY Order
<1>5. Popped <= Pushed /\ Pushed - Popped < WORD
  <2>1. Pushed <= Popped + CAPACITY  BY <1>3, <1>4
  <2>2. Popped <= Pushed  BY <1>4
  <2>3. QED  BY <1>4, <2>1, <2>2
<1>6. Pushed - Popped \in Usize  BY <1>4, <1>5 DEF Usize
<1>7. dropper.th \in Thread  BY DEF IInv, TypeOK
<1>8. QED  BY <1>2, <1>3, <1>4, <1>5, <1>6, <1>7

(* let head = self.head.load(Relaxed): it is the newest one. *)
LEMMA DropLoadHeadStep == ASSUME IInv, DropLoadHead PROVE IInv'
<1>1. PICK t : /\ dropper.pc = "head" /\ Load(dropper.th, HEAD, t, "Relaxed", "None")
               /\ dropper' = [dropper EXCEPT !.pc = "tail", !.head = mem[HEAD][t].val]
  BY DEF DropLoadHead
<1>2. /\ UNCHANGED <<ppc, p_cached_head, p_cached_tail, cpc, c_cached_head, c_cached_tail>>
      /\ UNCHANGED <<overflow_checks, arc, written, popped, dropped, lost>>
  BY DEF DropLoadHead, producerVars, consumerVars, ghostVars
<1>3. /\ dropper.th \in Thread /\ cur[dropper.th][HEAD] = Newest(HEAD)
      /\ MemoryOK(Loc, Thread) /\ Popped = Newest(HEAD) - 1 /\ Popped \in Nat
  BY <1>1, DropFacts, Order DEF IInv, TypeOK, Handles
<1>4. /\ MemoryOK(Loc, Thread)' /\ mem' = mem /\ cur' = cur
      /\ t = Newest(HEAD) /\ t \in 1 .. Newest(HEAD)
  BY <1>1, <1>3, LocFacts, NewestLoad
<1>5. mem[HEAD][t].val = Popped % WORD /\ Popped % WORD \in Usize
  BY <1>3, <1>4, IncExact DEF IInv, Counts
<1>6. /\ dropper'.pc = "tail" /\ dropper'.head = Popped % WORD /\ dropper'.th = dropper.th
      /\ dropper'.k = dropper.k
      /\ dropper' \in [th : Thread, pc : {"alive", "head", "tail", "items", "free", "freed"},
                       head : Usize, count : Usize, k : Nat]
  BY <1>1, <1>5 DEF IInv, TypeOK
<1>7. Len(dropped) = 0 /\ dropper.k = 0 /\ lost = Pushed + 1 .. written
  BY <1>1 DEF IInv, Handles, Accounts
<1>8. QED  BY <1>1, <1>2, <1>4, <1>6, <1>7, DropQuiet

(* let tail = self.tail.load(Relaxed): it is the newest one, and count is  *)
(* the number of items left, wrapped around or not.                        *)
LEMMA DropLoadTailStep == ASSUME IInv, DropLoadTail PROVE IInv'
<1>1. PICK t : /\ dropper.pc = "tail" /\ Load(dropper.th, TAIL, t, "Relaxed", "None")
               /\ dropper' = [dropper EXCEPT !.pc = "items",
                                 !.count = (mem[TAIL][t].val - dropper.head) % WORD]
  BY DEF DropLoadTail
<1>2. /\ UNCHANGED <<ppc, p_cached_head, p_cached_tail, cpc, c_cached_head, c_cached_tail>>
      /\ UNCHANGED <<overflow_checks, arc, written, popped, dropped, lost>>
  BY DEF DropLoadTail, producerVars, consumerVars, ghostVars
<1>3. /\ dropper.th \in Thread /\ cur[dropper.th][TAIL] = Newest(TAIL)
      /\ MemoryOK(Loc, Thread) /\ Pushed = Newest(TAIL) - 1
      /\ Pushed \in Nat /\ Popped \in Nat /\ WORD \in Nat \ {0}
      /\ Pushed - Popped \in Usize
  BY <1>1, DropFacts, Order DEF IInv, TypeOK, Handles
<1>4. /\ MemoryOK(Loc, Thread)' /\ mem' = mem /\ cur' = cur
      /\ t = Newest(TAIL) /\ t \in 1 .. Newest(TAIL)
  BY <1>1, <1>3, LocFacts, NewestLoad
<1>5. mem[TAIL][t].val = Pushed % WORD /\ dropper.head = Popped % WORD
  BY <1>1, <1>3, <1>4 DEF IInv, Counts, Handles
<1>6. (mem[TAIL][t].val - dropper.head) % WORD = Pushed - Popped
  <2>1. ((Pushed % WORD) - (Popped % WORD)) % WORD = (Pushed - Popped) % WORD
    <3>1. Pushed \in Int /\ Popped \in Int  BY <1>3
    <3>2. QED  BY <1>3, <3>1, ModDifference, Zenon
  <2>2. (Pushed - Popped) % WORD = Pushed - Popped  BY <1>3, ModSmall DEF Usize
  <2>3. QED  BY <1>5, <2>1, <2>2
<1>7. /\ dropper'.pc = "items" /\ dropper'.head = Popped % WORD /\ dropper'.th = dropper.th
      /\ dropper'.k = dropper.k /\ dropper'.count = Pushed - Popped
      /\ dropper' \in [th : Thread, pc : {"alive", "head", "tail", "items", "free", "freed"},
                       head : Usize, count : Usize, k : Nat]
  BY <1>1, <1>3, <1>5, <1>6 DEF IInv, TypeOK
<1>8. Len(dropped) = 0 /\ dropper.k = 0 /\ lost = Pushed + 1 .. written
  BY <1>1 DEF IInv, Handles, Accounts
<1>9. QED  BY <1>1, <1>2, <1>4, <1>7, <1>8, DropQuiet

(* The loop is over: nothing is left, or a destructor panicked. *)
LEMMA DropFreeStep == ASSUME IInv, DropFree PROVE IInv'
<1>1. /\ (dropper.pc = "items" /\ dropper.k = dropper.count) \/ dropper.pc = "free"
      /\ dropper' = [dropper EXCEPT !.pc = "freed"]
      /\ mem' = mem /\ cur' = cur /\ acq' = acq /\ rel' = rel
      /\ UNCHANGED <<ppc, p_cached_head, p_cached_tail, cpc, c_cached_head, c_cached_tail>>
      /\ UNCHANGED <<overflow_checks, arc, written, popped, dropped, lost>>
  BY DEF DropFree, memVars, producerVars, consumerVars, ghostVars
<1>2. MemoryOK(Loc, Thread)'  BY <1>1 DEF IInv, TypeOK, MemoryOK
<1>3. /\ dropper'.pc = "freed" /\ dropper'.th = dropper.th
      /\ dropper' \in [th : Thread, pc : {"alive", "head", "tail", "items", "free", "freed"},
                       head : Usize, count : Usize, k : Nat]
  BY <1>1 DEF IInv, TypeOK
<1>4. lost = TakenOut + 1 .. written
  <2>1. CASE dropper.pc = "free"  BY <2>1 DEF IInv, Accounts
  <2>2. CASE dropper.pc = "items" /\ dropper.k = dropper.count
    <3>1. TakenOut = Popped + Len(dropped) /\ Pushed \in Nat /\ Popped \in Nat
      BY Order
    <3>2. Len(dropped) = Pushed - Popped  BY <2>2 DEF IInv, Handles
    <3>3. TakenOut = Pushed  BY <3>1, <3>2
    <3>4. QED  BY <2>2, <3>3 DEF IInv, Accounts
  <2>3. QED  BY <1>1, <2>1, <2>2
<1>5. QED  BY <1>1, <1>2, <1>3, <1>4, DropQuiet

(* The items that Drop for Queue is still to visit. *)
LEMMA DropSlots ==
    ASSUME IInv, dropper.pc = "items"
    PROVE  \A k \in Nat : k >= dropper.k /\ k < dropper.count =>
              /\ DropSlot(k) = SlotOf(Popped + k)
              /\ ItemIn(DropSlot(k)) = Popped + k + 1
<1> SUFFICES ASSUME NEW k \in Nat, k >= dropper.k, k < dropper.count
             PROVE  /\ DropSlot(k) = SlotOf(Popped + k)
                    /\ ItemIn(DropSlot(k)) = Popped + k + 1
  OBVIOUS
<1>1. /\ Popped \in Nat /\ Pushed \in Nat /\ WORD \in Nat \ {0} /\ TakenOut \in Nat
      /\ TakenOut = Popped + Len(dropped) /\ Len(dropped) \in Nat
  BY Order
<1>2. /\ dropper.head = Popped % WORD /\ dropper.k = Len(dropped)
      /\ dropper.count = Pushed - Popped
  BY DEF IInv, Handles
<1>3. Popped \in Int /\ k \in Int /\ Popped + k \in Int  BY <1>1
<1>4. ((Popped % WORD) + k) % WORD = (Popped + k) % WORD  BY <1>1, <1>3, ModAdd, Zenon
<1>5. SlotOf((Popped + k) % WORD) = SlotOf(Popped + k)  BY <1>3, SlotWrap
<1>6. DropSlot(k) = SlotOf(Popped + k)  BY <1>2, <1>4, <1>5 DEF DropSlot
<1>7. Popped + k \in TakenOut .. Pushed - 1  BY <1>1, <1>2
<1>8. QED  BY <1>6, <1>7 DEF IInv, Contents

(* One turn of the loop. *)
LEMMA DropItemStep ==
    ASSUME IInv, NEW panics \in BOOLEAN, DropItem(panics)
    PROVE  IInv'
<1> DEFINE rest == {ItemIn(DropSlot(k)) : k \in dropper.k + 1 .. dropper.count - 1}
<1>1. /\ dropper.pc = "items" /\ dropper.k < dropper.count
      /\ Store(dropper.th, DropSlot(dropper.k), 0, "Relaxed", "None")
      /\ dropped' = Append(dropped, ItemIn(DropSlot(dropper.k)))
      /\ dropper' = IF panics THEN [dropper EXCEPT !.pc = "free"]
                    ELSE [dropper EXCEPT !.k = @ + 1]
      /\ lost' = IF panics THEN lost \cup rest ELSE lost
      /\ UNCHANGED <<ppc, p_cached_head, p_cached_tail, cpc, c_cached_head, c_cached_tail>>
      /\ UNCHANGED <<overflow_checks, arc, written, popped>>
  BY DEF DropItem, producerVars, consumerVars
<1>2. /\ Pushed \in Nat /\ Popped \in Nat /\ TakenOut \in Nat /\ Len(dropped) \in Nat
      /\ Newest(TAIL) \in Nat /\ Newest(HEAD) \in Nat /\ written \in Nat
      /\ TakenOut = Popped + Len(dropped) /\ CAPACITY \in Nat
  BY Order
<1>3. /\ ppc = "gone" /\ cpc = "gone" /\ dropper.th \in Thread
      /\ Pushed = Newest(TAIL) - 1 /\ Popped = Newest(HEAD) - 1
  BY <1>1, DropFacts
<1>4. /\ dropper.k = Len(dropped) /\ dropper.count = Pushed - Popped /\ arc.strong = 0
      /\ dropper.head = Popped % WORD
      /\ cur[dropper.th][HEAD] = Newest(HEAD) /\ cur[dropper.th][TAIL] = Newest(TAIL)
  BY <1>1 DEF IInv, TypeOK, Handles
<1>5. PICK l \in Loc : /\ l = DropSlot(dropper.k) /\ l = SlotOf(TakenOut)
                       /\ ItemIn(l) = TakenOut + 1
  <2>1. /\ DropSlot(dropper.k) = SlotOf(Popped + dropper.k)
        /\ ItemIn(DropSlot(dropper.k)) = Popped + dropper.k + 1
    BY <1>1, <1>2, <1>4, DropSlots
  <2>2. SlotOf(TakenOut) \in Loc  BY <1>2, LocFacts
  <2>3. QED  BY <1>2, <1>4, <2>1, <2>2
<1>6. dropped \in Seq(Nat) /\ dropped' = Append(dropped, TakenOut + 1)
  BY <1>1, <1>5 DEF IInv, TypeOK
<1>7. /\ dropped' \in Seq(Nat) /\ Len(dropped') = Len(dropped) + 1
      /\ \A n \in 1 .. Len(dropped) : dropped'[n] = dropped[n]
      /\ dropped'[Len(dropped) + 1] = TakenOut + 1
  BY <1>2, <1>6
<1>8. TakenOut' = TakenOut + 1
  <2>1. Len(popped) \in Nat  BY DEF IInv, TypeOK
  <2>2. QED  BY <1>1, <1>2, <1>7, <2>1 DEF TakenOut
<1>9. TakenOut < Newest(TAIL) - 1  BY <1>1, <1>2, <1>3, <1>4
<1>10. /\ MemoryOK(Loc, Thread)' /\ l \notin Sync /\ Pushed' = Pushed
       /\ mem'[HEAD] = mem[HEAD] /\ mem'[TAIL] = mem[TAIL]
       /\ Newest(HEAD)' = Newest(HEAD) /\ Newest(TAIL)' = Newest(TAIL)
       /\ \A k \in Loc : Newest(k)' >= 1
       /\ \A k \in Loc : k # l => cur'[dropper.th][k] = cur[dropper.th][k]
       /\ \A u \in Thread : u # dropper.th => cur'[u] = cur[u]
       /\ Contents'
       /\ (cpc' = "store" => Knows(cur["C"], Popped - 1)') => ViewsCoherent'
       /\ written > Pushed => Knows(cur["P"], Pushed)'
  <2>1. PICK th \in Thread : th = dropper.th  BY <1>3
  <2>2. Store(th, l, 0, "Relaxed", "None")  BY <1>1, <1>5, <2>1
  <2>3. /\ MemoryOK(Loc, Thread)' /\ l \notin Sync /\ Pushed' = Pushed
        /\ mem'[HEAD] = mem[HEAD] /\ mem'[TAIL] = mem[TAIL]
        /\ Newest(HEAD)' = Newest(HEAD) /\ Newest(TAIL)' = Newest(TAIL)
        /\ \A k \in Loc : Newest(k)' >= 1
        /\ \A k \in Loc : k # l => cur'[th][k] = cur[th][k]
        /\ \A u \in Thread : u # th => cur'[u] = cur[u]
        /\ Contents'
        /\ (cpc' = "store" => Knows(cur["C"], Popped - 1)') => ViewsCoherent'
        /\ written > Pushed => Knows(cur["P"], Pushed)'
    BY <1>1, <1>5, <1>8, <1>9, <2>2, TakeStep
  <2>4. QED  BY <2>1, <2>3
<1>11. Popped' = Popped  BY <1>1, <1>10 DEF Popped
<1>12. ViewsCoherent'  BY <1>1, <1>3, <1>10
<1>13. \A u \in Thread : \A k \in {HEAD, TAIL} : cur'[u][k] = cur[u][k]
  BY <1>10, LocFacts
<1>14. Counts'  BY <1>1, <1>10, <1>11, <1>13, LocFacts DEF IInv, Counts
<1>15. Cached'
  <2>1. PICK h \in Nat : CachedHead(h)  BY DEF IInv, Cached
  <2>2. PICK t \in Nat : CachedTail(t)  BY DEF IInv, Cached
  <2>3. CachedHead(h)'  BY <1>1, <1>10, <1>13, <2>1, LocFacts DEF CachedHead
  <2>4. CachedTail(t)'  BY <1>1, <1>11, <1>13, <2>2, LocFacts DEF CachedTail
  <2>5. QED  BY <2>3, <2>4 DEF Cached
<1>16. lost = Pushed + 1 .. written /\ written >= Pushed
  BY <1>1 DEF IInv, Accounts
<1>17. panics => lost' = TakenOut' + 1 .. written
  <2> SUFFICES ASSUME panics PROVE lost' = TakenOut' + 1 .. written  OBVIOUS
  <2>1. \A k \in dropper.k + 1 .. dropper.count - 1 : ItemIn(DropSlot(k)) = Popped + k + 1
    <3> SUFFICES ASSUME NEW k \in dropper.k + 1 .. dropper.count - 1
                 PROVE  ItemIn(DropSlot(k)) = Popped + k + 1
      OBVIOUS
    <3>1. k \in Nat /\ k >= dropper.k /\ k < dropper.count  BY <1>2, <1>4
    <3>2. QED  BY <1>1, <3>1, DropSlots
  <2>2. rest = {Popped + k + 1 : k \in dropper.k + 1 .. dropper.count - 1}
    BY <2>1
  <2>3. {Popped + k + 1 : k \in dropper.k + 1 .. dropper.count - 1} = TakenOut + 2 .. Pushed
    <3> DEFINE S == {Popped + k + 1 : k \in dropper.k + 1 .. dropper.count - 1}
    <3>1. ASSUME NEW x \in S PROVE x \in TakenOut + 2 .. Pushed
      <4>1. PICK k \in dropper.k + 1 .. dropper.count - 1 : x = Popped + k + 1  OBVIOUS
      <4>2. QED  BY <4>1, <1>2, <1>4
    <3>2. ASSUME NEW x \in TakenOut + 2 .. Pushed PROVE x \in S
      <4>1. PICK k \in Int : k = x - Popped - 1  BY <1>2
      <4>2. k \in dropper.k + 1 .. dropper.count - 1 /\ x = Popped + k + 1
        BY <4>1, <1>2, <1>4
      <4>3. QED  BY <4>2
    <3>3. QED  BY <3>1, <3>2
  <2>4. lost' = (Pushed + 1 .. written) \cup (TakenOut + 2 .. Pushed)
    <3> HIDE DEF rest
    <3>1. QED  BY <1>1, <1>16, <2>2, <2>3
  <2>5. \A a, b, c \in Nat : a <= b /\ b <= c =>
           (b + 1 .. c) \cup (a + 2 .. b) = (a + 1) + 1 .. c \/ a = b
    OBVIOUS
  <2>6. TakenOut < Pushed  BY <1>3, <1>9
  <2>7. (Pushed + 1 .. written) \cup (TakenOut + 2 .. Pushed) = (TakenOut + 1) + 1 .. written
    BY <1>2, <1>16, <2>5, <2>6
  <2>8. QED  BY <1>8, <2>4, <2>7
<1>18. Accounts'
  <2>1. TakenOut' <= Newest(TAIL)' - 1  BY <1>2, <1>8, <1>9, <1>10
  <2>2. Len(popped') = Popped' /\ \A n \in 1 .. Popped' : popped'[n] = n
    BY <1>1, <1>11 DEF IInv, Accounts
  <2>3. \A n \in 1 .. Len(dropped') : dropped'[n] = Popped' + n
    <3>1. \A n \in 1 .. Len(dropped) : dropped[n] = Popped + n  BY DEF IInv, Accounts
    <3>2. dropped'[Len(dropped) + 1] = Popped + (Len(dropped) + 1)  BY <1>2, <1>7
    <3>3. \A n \in 1 .. Len(dropped) + 1 : n \in 1 .. Len(dropped) \/ n = Len(dropped) + 1
      BY <1>2
    <3>4. QED  BY <1>7, <1>11, <3>1, <3>2, <3>3
  <2>4. written > Pushed => /\ overflow_checks /\ Pushed = WORD - 1 /\ ppc # "store"
                            /\ Pushed < TakenOut' + CAPACITY
    <3>1. written > Pushed => /\ overflow_checks /\ Pushed = WORD - 1 /\ ppc # "store"
                              /\ Pushed < TakenOut + CAPACITY
      BY DEF IInv, Accounts
    <3>2. QED  BY <1>2, <1>8, <3>1
  <2>5. lost' = (IF dropper'.pc \in {"free", "freed"} THEN TakenOut' ELSE Pushed) + 1 .. written
    <3>1. CASE panics
      <4>1. dropper'.pc = "free"  BY <1>1, <3>1 DEF IInv, TypeOK
      <4>2. QED  BY <1>17, <3>1, <4>1
    <3>2. CASE ~panics
      <4>1. dropper'.pc = "items" /\ lost' = lost  BY <1>1, <3>2 DEF IInv, TypeOK
      <4>2. QED  BY <1>16, <4>1
    <3>3. QED  BY <3>1, <3>2
  <2>6. QED  BY <1>1, <1>10, <1>16, <2>1, <2>2, <2>3, <2>4, <2>5 DEF Accounts
<1>19. /\ dropper'.th = dropper.th /\ dropper'.head = dropper.head
       /\ dropper'.count = dropper.count
       /\ dropper' \in [th : Thread, pc : {"alive", "head", "tail", "items", "free", "freed"},
                        head : Usize, count : Usize, k : Nat]
       /\ \/ dropper'.pc = "free"
          \/ dropper'.pc = "items" /\ dropper'.k = dropper.k + 1
  <2>1. dropper \in [th : Thread, pc : {"alive", "head", "tail", "items", "free", "freed"},
                     head : Usize, count : Usize, k : Nat]
    BY DEF IInv, TypeOK
  <2>2. CASE panics
    <3>1. dropper' = [dropper EXCEPT !.pc = "free"]  BY <1>1, <2>2
    <3>2. QED  BY <2>1, <3>1
  <2>3. CASE ~panics
    <3>1. dropper' = [dropper EXCEPT !.k = dropper.k + 1]  BY <1>1, <2>3
    <3>2. QED  BY <1>1, <2>1, <3>1
  <2>4. QED  BY <2>2, <2>3
<1>20. TypeOK'
  <2>1. lost' \in SUBSET Nat
    <3>1. CASE panics  BY <1>2, <1>8, <1>17, <3>1
    <3>2. CASE ~panics  BY <1>1, <3>2 DEF IInv, TypeOK
    <3>3. QED  BY <3>1, <3>2
  <2>2. QED  BY <1>1, <1>7, <1>10, <1>19, <2>1 DEF IInv, TypeOK
<1>21. Handles'
  <2>1. /\ cur'[dropper.th][HEAD] = Newest(HEAD)' /\ cur'[dropper.th][TAIL] = Newest(TAIL)'
    BY <1>3, <1>4, <1>10, <1>13
  <2>2. dropper'.pc = "items" => dropper'.k = Len(dropped')  BY <1>2, <1>4, <1>7, <1>19
  <2>3. QED  BY <1>1, <1>3, <1>4, <1>10, <1>11, <1>19, <2>1, <2>2 DEF Handles
<1>22. QED
  BY <1>10, <1>12, <1>14, <1>15, <1>18, <1>20, <1>21 DEF IInv

-----------------------------------------------------------------------------
(* The invariant holds at first ... *)
LEMMA InitIInv == ASSUME Init PROVE IInv
<1>1. CAPACITY \in Nat \ {0} /\ WORD \in Nat /\ CAPACITY < WORD /\ Builds \subseteq BOOLEAN
  BY SpscAssumption
<1> DEFINE first == FirstView(Loc)
           message == [val |-> 0, view |-> first]
<1>2. /\ mem = [l \in Loc |-> <<message>>]
      /\ cur = [th \in Thread |-> first] /\ acq = [th \in Thread |-> first]
      /\ rel = [th \in Thread |-> first]
      /\ overflow_checks \in Builds
      /\ ppc = "idle" /\ p_cached_head = 0 /\ p_cached_tail = 0
      /\ cpc = "idle" /\ c_cached_head = 0 /\ c_cached_tail = 0
      /\ arc = [strong |-> 2, view |-> first]
      /\ dropper = [th |-> "P", pc |-> "alive", head |-> 0, count |-> 0, k |-> 0]
      /\ written = 0 /\ popped = <<>> /\ dropped = <<>> /\ lost = {}
  <2>1. \A l \in Loc : [k \in Loc |-> 0][l] = 0  OBVIOUS
  <2>2. QED  BY <2>1 DEF Init, InitMemory
<1>3. first \in Views(Loc) /\ \A l \in Loc : first[l] = 1  BY DEF FirstView, Views
<1>4. /\ message \in Messages(Loc) /\ message \in IndexMessage
      /\ message.val = 0 /\ message.view = first
  BY <1>1, <1>3 DEF Messages, IndexMessage, Usize
<1> HIDE DEF first, message
<1>5. \A l \in Loc : /\ mem[l] = <<message>> /\ Newest(l) = 1 /\ mem[l][1] = message
                     /\ mem[l] \in Seq(Messages(Loc)) /\ mem[l] \in Seq(IndexMessage)
                     /\ ItemIn(l) = 0
  BY <1>2, <1>4 DEF Newest, ItemIn
<1>6. TypeOK
  <2>1. MemoryOK(Loc, Thread)  BY <1>2, <1>3, <1>5 DEF MemoryOK
  <2>2. 0 \in Usize  BY <1>1 DEF Usize
  <2>3. popped \in Seq(Nat) /\ dropped \in Seq(Nat)  BY <1>2
  <2>4. overflow_checks \in BOOLEAN  BY <1>1, <1>2
  <2>5. arc \in [strong : 0 .. 2, view : Views(Loc)]  BY <1>2, <1>3
  <2>6. dropper \in [th : Thread, pc : {"alive", "head", "tail", "items", "free", "freed"},
                     head : Usize, count : Usize, k : Nat]
    BY <1>2, <2>2, LocFacts
  <2>7. QED
    BY <1>2, <1>5, <2>1, <2>2, <2>3, <2>4, <2>5, <2>6, LocFacts DEF TypeOK
<1>7. /\ Newest(TAIL) = 1 /\ Newest(HEAD) = 1 /\ Pushed = 0 /\ Popped = 0 /\ TakenOut = 0
      /\ Len(popped) = 0 /\ Len(dropped) = 0
  BY <1>2, <1>5, LocFacts DEF Pushed, Popped, TakenOut
<1>8. 0 % WORD = 0
  <2>1. 0 \in 0 .. WORD - 1 /\ WORD \in Nat \ {0}  BY <1>1
  <2>2. QED  BY <2>1, ModSmall
<1>9. cur["P"] = first /\ cur["C"] = first  BY <1>2, LocFacts
<1>10. Counts
  <2>1. \A l \in Loc : \A t \in 1 .. Newest(l) : mem[l][t].val = (t - 1) % WORD
    <3> SUFFICES ASSUME NEW l \in Loc, NEW t \in 1 .. Newest(l)
                 PROVE  mem[l][t].val = (t - 1) % WORD
      OBVIOUS
    <3>1. t = 1 /\ t - 1 = 0  BY <1>5
    <3>2. QED  BY <1>4, <1>5, <1>8, <3>1
  <2>2. \A l \in Loc : Newest(l) >= 1  BY <1>5
  <2>3. Pushed < WORD  BY <1>1, <1>7
  <2>4. QED
    BY <1>2, <1>3, <1>7, <1>8, <1>9, <2>1, <2>2, <2>3, LocFacts DEF Counts
<1>11. Cached
  <2>1. CachedHead(0)  BY <1>1, <1>2, <1>3, <1>7, <1>8, <1>9, LocFacts DEF CachedHead
  <2>2. CachedTail(0)  BY <1>1, <1>2, <1>3, <1>7, <1>8, <1>9, LocFacts DEF CachedTail
  <2>3. QED  BY <2>1, <2>2 DEF Cached
<1>12. Coherent(first)
  <2>1. \A q \in Int : Knows(first, q)  BY <1>3, <1>5, LocFacts DEF Knows
  <2>2. Bounded(first)  BY <1>3, <1>5 DEF Bounded
  <2>3. KnowsItems(first)  BY <1>3, <1>7, <2>1, LocFacts DEF KnowsItems
  <2>4. KnowsHoles(first)  BY <1>1, <1>3, <1>7, <2>1, LocFacts DEF KnowsHoles
  <2>5. QED  BY <2>2, <2>3, <2>4 DEF Coherent
<1>13. ViewsCoherent
  <2>1. \A th \in Thread : Coherent(cur[th])  BY <1>2, <1>12
  <2>2. Coherent(arc.view)  BY <1>2, <1>12
  <2>3. ASSUME NEW l \in Sync, NEW t \in 1 .. Newest(l)
        PROVE  mem[l][t].view[l] = t /\ Coherent(mem[l][t].view)
    <3>1. l \in Loc  BY LocFacts
    <3>2. t = 1  BY <1>5, <3>1
    <3>3. mem[l][t].view = first  BY <1>4, <1>5, <3>1, <3>2
    <3>4. QED  BY <1>3, <1>12, <3>1, <3>2, <3>3
  <2>4. QED  BY <1>2, <2>1, <2>2, <2>3 DEF ViewsCoherent
<1>14. Contents
  <2>1. \A q \in Int : ItemIn(SlotOf(q)) = 0  BY <1>5, LocFacts
  <2>2. QED  BY <1>1, <1>2, <1>7, <2>1 DEF Contents
<1>15. Accounts  BY <1>2, <1>7 DEF Accounts
<1>16. Handles  BY <1>2, <1>7 DEF Handles
<1>17. QED  BY <1>6, <1>10, <1>11, <1>13, <1>14, <1>15, <1>16 DEF IInv

(* ... and every step keeps it. *)
LEMMA NextIInv == ASSUME IInv, [Next]_vars PROVE IInv'
<1>1. CASE Push  BY <1>1, PushStep
<1>2. CASE StillFull  BY <1>2, StillFullStep
<1>3. CASE PushWrite  BY <1>3, PushWriteStep
<1>4. CASE PushStore  BY <1>4, PushStoreStep
<1>5. CASE Pop  BY <1>5, PopStep
<1>6. CASE StillEmpty  BY <1>6, StillEmptyStep
<1>7. CASE PopRead  BY <1>7, PopReadStep
<1>8. CASE PopStore  BY <1>8, PopStoreStep
<1>9. CASE DropProducer
  BY <1>9, LocFacts, DropHandleStep DEF DropProducer, consumerVars
<1>10. CASE DropConsumer
  BY <1>10, LocFacts, DropHandleStep DEF DropConsumer, producerVars
<1>11. CASE DropLoadHead  BY <1>11, DropLoadHeadStep
<1>12. CASE DropLoadTail  BY <1>12, DropLoadTailStep
<1>13. ASSUME NEW panics \in BOOLEAN, DropItem(panics) PROVE IInv'
  BY <1>13, DropItemStep
<1>14. CASE DropFree  BY <1>14, DropFreeStep
<1>15. CASE UNCHANGED vars
  <2>1. /\ mem' = mem /\ cur' = cur /\ acq' = acq /\ rel' = rel
        /\ UNCHANGED <<ppc, p_cached_head, p_cached_tail>>
        /\ UNCHANGED <<cpc, c_cached_head, c_cached_tail, overflow_checks, arc, dropper>>
        /\ UNCHANGED <<written, popped, dropped, lost>>
    BY <1>15 DEF vars, memVars, producerVars, consumerVars, dropVars, ghostVars
  <2>2. Pushed' = Pushed /\ Popped' = Popped  BY <2>1 DEF Pushed, Popped, Newest
  <2>3. lost' = (IF dropper'.pc \in {"free", "freed"} THEN TakenOut ELSE Pushed) + 1 .. written
    BY <2>1 DEF IInv, Accounts
  <2>4. Counts' /\ ViewsCoherent' /\ Contents' /\ Accounts'
    BY <2>1, <2>2, <2>3, IdleStep
  <2>5. TypeOK'  BY <2>1 DEF IInv, TypeOK, MemoryOK
  <2>6. Handles'  BY <2>1, <2>2 DEF IInv, Handles, Newest
  <2>7. Cached'
    <3>1. PICK h \in Nat : CachedHead(h)  BY DEF IInv, Cached
    <3>2. PICK t \in Nat : CachedTail(t)  BY DEF IInv, Cached
    <3>3. CachedHead(h)'  BY <2>1, <2>2, <3>1 DEF CachedHead
    <3>4. CachedTail(t)'  BY <2>1, <2>2, <3>2 DEF CachedTail
    <3>5. QED  BY <3>3, <3>4 DEF Cached
  <2>8. QED  BY <2>4, <2>5, <2>6, <2>7 DEF IInv
<1>16. QED
  BY <1>1, <1>2, <1>3, <1>4, <1>5, <1>6, <1>7, <1>8, <1>9, <1>10, <1>11, <1>12,
     <1>13, <1>14, <1>15
     DEF Next, InPush, InPop, InDrop, Terminated

(* The inductive invariant holds in every reachable state of the queue. *)
THEOREM Invariance == Spec => []IInv
<1>1. Init => IInv  BY InitIInv
<1>2. IInv /\ [Next]_vars => IInv'  BY NextIInv
<1>3. QED  BY <1>1, <1>2, PTL DEF Spec

(* The memory, both handles, the Arc and Drop for Queue stay well formed:  *)
(* no counter ever leaves the range of usize.                              *)
THEOREM SpscTypeOK == Spec => []TypeOK
<1>1. IInv => TypeOK  BY DEF IInv
<1>2. QED  BY <1>1, Invariance, PTL

-----------------------------------------------------------------------------
(* What the invariant says of each access to a slot. *)

(* push writes to the hole at Pushed, which the producer knows all about. *)
LEMMA WriteAccess ==
    ASSUME IInv, ppc = "write"
    PROVE  /\ HappensAfterAll("P", SlotOf(p_cached_tail))
           /\ ItemIn(SlotOf(p_cached_tail)) \in {0} \cup lost
<1>1. /\ Pushed \in Nat /\ TakenOut \in Nat /\ written \in Nat /\ CAPACITY \in Nat
      /\ Newest(HEAD) \in Nat /\ Newest(HEAD) - 1 <= TakenOut
      /\ Pushed < Newest(HEAD) - 1 + CAPACITY
  BY Order
<1>2. SlotOf(p_cached_tail) = SlotOf(Pushed)
  <2>1. p_cached_tail = Pushed % WORD  BY DEF IInv, Counts
  <2>2. QED  BY <1>1, <2>1, SlotWrap
<1>3. Knows(cur["P"], Pushed)
  <2>1. CASE written > Pushed  BY <2>1 DEF IInv, Accounts
  <2>2. CASE written = Pushed
    <3>1. PICK h \in Nat : CachedHead(h)  BY DEF IInv, Cached
    <3>2. cur["P"][HEAD] \in Nat  BY LocFacts DEF IInv, TypeOK, MemoryOK, Views
    <3>3. h < cur["P"][HEAD] /\ Pushed < h + CAPACITY  BY <3>1 DEF CachedHead
    <3>4. Pushed \in Pushed .. cur["P"][HEAD] + CAPACITY - 2  BY <1>1, <3>2, <3>3
    <3>5. KnowsHoles(cur["P"])  BY LocFacts DEF IInv, ViewsCoherent, Coherent
    <3>6. QED  BY <2>2, <3>4, <3>5 DEF KnowsHoles
  <2>3. written >= Pushed  BY DEF IInv, Accounts
  <2>4. QED  BY <1>1, <2>1, <2>2, <2>3
<1>4. ItemIn(SlotOf(Pushed)) \in {0} \cup lost
  <2>1. Pushed \in Pushed .. TakenOut + CAPACITY - 1  BY <1>1
  <2>2. ItemIn(SlotOf(Pushed)) = IF written > Pushed THEN written ELSE 0
    BY <2>1 DEF IInv, Contents
  <2>3. dropper.pc = "alive"
    <3>1. arc.strong > 0  BY DEF IInv, Handles
    <3>2. QED  BY <3>1 DEF IInv, Handles
  <2>4. lost = Pushed + 1 .. written  BY <2>3 DEF IInv, Accounts
  <2>5. QED  BY <1>1, <2>2, <2>4
<1>5. QED  BY <1>2, <1>3, <1>4 DEF Knows, HappensAfterAll

(* pop takes the item at Popped, which the consumer knows all about. *)
LEMMA ReadAccess ==
    ASSUME IInv, cpc = "read"
    PROVE  /\ HappensAfterAll("C", SlotOf(c_cached_head))
           /\ ItemIn(SlotOf(c_cached_head)) = Popped + 1
           /\ ~PopPanics /\ TakenOut = Popped /\ dropper.pc = "alive"
           /\ TakenOut < Newest(TAIL) - 1
<1>1. /\ Popped \in Nat /\ Pushed \in Nat /\ Newest(TAIL) \in Nat /\ Len(dropped) \in Nat
      /\ TakenOut = Popped + Len(dropped) /\ Newest(TAIL) - 1 <= Pushed
      /\ WORD \in Nat \ {0}
  BY Order
<1>2. PICK t \in Nat : CachedTail(t)  BY DEF IInv, Cached
<1>3. Popped < t /\ t <= Newest(TAIL) - 1 /\ t < cur["C"][TAIL]
  BY <1>2, CachedFacts DEF CachedTail
<1>4. c_cached_head = Popped % WORD  BY DEF IInv, Counts
<1>5. SlotOf(c_cached_head) = SlotOf(Popped)  BY <1>1, <1>4, SlotWrap
<1>6. dropper.pc = "alive" /\ Len(dropped) = 0
  <2>1. arc.strong > 0  BY DEF IInv, Handles
  <2>2. QED  BY <2>1 DEF IInv, Handles
<1>7. TakenOut = Popped  BY <1>1, <1>6
<1>8. Knows(cur["C"], Popped)
  <2>1. cur["C"][TAIL] \in Nat  BY LocFacts DEF IInv, TypeOK, MemoryOK, Views
  <2>2. Popped \in TakenOut .. cur["C"][TAIL] - 2  BY <1>1, <1>3, <1>7, <2>1
  <2>3. KnowsItems(cur["C"])  BY LocFacts DEF IInv, ViewsCoherent, Coherent
  <2>4. QED  BY <2>2, <2>3 DEF KnowsItems
<1>9. ItemIn(SlotOf(Popped)) = Popped + 1
  <2>1. Popped \in TakenOut .. Pushed - 1  BY <1>1, <1>3, <1>7
  <2>2. QED  BY <2>1 DEF IInv, Contents
<1>10. ~PopPanics
  <2>1. overflow_checks => Pushed < WORD  BY DEF IInv, Counts
  <2>2. Pushed < WORD => Popped % WORD = Popped
    <3>1. Pushed < WORD => Popped \in 0 .. WORD - 1  BY <1>1, <1>3
    <3>2. QED  BY <1>1, <3>1, ModSmall
  <2>3. QED  BY <1>1, <1>3, <1>4, <2>1, <2>2 DEF PopPanics
<1>11. TakenOut < Newest(TAIL) - 1  BY <1>1, <1>3, <1>7
<1>12. QED
  BY <1>5, <1>6, <1>7, <1>8, <1>9, <1>10, <1>11 DEF Knows, HappensAfterAll

(* Drop for Queue takes the item at TakenOut, and its thread knows all     *)
(* about every item that is left.                                          *)
LEMMA DropAccess ==
    ASSUME IInv, AboutToDrop
    PROVE  /\ HappensAfterAll(dropper.th, DropSlot(dropper.k))
           /\ ItemIn(DropSlot(dropper.k)) = TakenOut + 1
           /\ TakenOut < Newest(TAIL) - 1
<1>1. dropper.pc = "items" /\ dropper.k < dropper.count  BY DEF AboutToDrop
<1>2. /\ Popped \in Nat /\ Pushed \in Nat /\ Newest(TAIL) \in Nat /\ TakenOut \in Nat
      /\ Len(dropped) \in Nat /\ TakenOut = Popped + Len(dropped)
  BY Order
<1>3. dropper.th \in Thread /\ Pushed = Newest(TAIL) - 1  BY <1>1, DropFacts
<1>4. /\ dropper.k = Len(dropped) /\ dropper.count = Pushed - Popped
      /\ cur[dropper.th][TAIL] = Newest(TAIL)
  BY <1>1 DEF IInv, Handles
<1>5. /\ DropSlot(dropper.k) = SlotOf(Popped + dropper.k)
      /\ ItemIn(DropSlot(dropper.k)) = Popped + dropper.k + 1
  BY <1>1, <1>2, <1>4, DropSlots
<1>6. Popped + dropper.k = TakenOut /\ TakenOut \in TakenOut .. cur[dropper.th][TAIL] - 2
  BY <1>1, <1>2, <1>3, <1>4
<1>7. KnowsItems(cur[dropper.th])  BY <1>3 DEF IInv, ViewsCoherent, Coherent
<1>8. Knows(cur[dropper.th], TakenOut)  BY <1>6, <1>7 DEF KnowsItems
<1>9. TakenOut < Newest(TAIL) - 1  BY <1>1, <1>2, <1>3, <1>4
<1>10. QED  BY <1>2, <1>5, <1>6, <1>8, <1>9 DEF Knows, HappensAfterAll

(* Neither push, nor pop, nor Drop for Queue races with an earlier access  *)
(* to the slot it touches, whatever copies of the counters the threads     *)
(* hold and whichever messages their loads return.                         *)
THEOREM SpscNoDataRace == Spec => []NoDataRace
<1>1. IInv => NoDataRace  BY WriteAccess, ReadAccess, DropAccess DEF NoDataRace
<1>2. QED  BY <1>1, Invariance, PTL

(* No item is overwritten, taken twice or taken from an empty slot, and    *)
(* the slots are freed only when both handles are gone.                    *)
THEOREM SpscSlotDiscipline == Spec => []SlotDiscipline
<1>1. ASSUME IInv PROVE SlotDiscipline
  <2>1. ppc = "write" => ItemIn(SlotOf(p_cached_tail)) \in {0} \cup lost  BY <1>1, WriteAccess
  <2>2. cpc = "read" => ItemIn(SlotOf(c_cached_head)) # 0
    <3>1. Popped \in Nat  BY <1>1, Order
    <3>2. cpc = "read" => ItemIn(SlotOf(c_cached_head)) = Popped + 1  BY <1>1, ReadAccess
    <3>3. QED  BY <3>1, <3>2
  <2>3. AboutToDrop => ItemIn(DropSlot(dropper.k)) # 0
    <3>1. TakenOut \in Nat  BY <1>1, Order
    <3>2. AboutToDrop => ItemIn(DropSlot(dropper.k)) = TakenOut + 1  BY <1>1, DropAccess
    <3>3. QED  BY <3>1, <3>2
  <2>4. dropper.pc = "freed" => ppc = "gone" /\ cpc = "gone"  BY <1>1, DropFacts
  <2>5. QED  BY <2>1, <2>2, <2>3, <2>4 DEF SlotDiscipline
<1>2. QED  BY <1>1, Invariance, PTL

(* The elements of a concatenation. *)
LEMMA ConcatFacts ==
    ASSUME NEW s \in Seq(Nat), NEW t \in Seq(Nat)
    PROVE  /\ Len(s \o t) = Len(s) + Len(t)
           /\ \A i \in 1 .. Len(s) : (s \o t)[i] = s[i]
           /\ \A j \in 1 .. Len(t) : (s \o t)[Len(s) + j] = t[j]
<1>1. Len(s) \in Nat /\ Len(t) \in Nat /\ Len(s \o t) = Len(s) + Len(t)  OBVIOUS
<1>2. ASSUME NEW i \in 1 .. Len(s) PROVE (s \o t)[i] = s[i]  BY <1>1
<1>3. ASSUME NEW j \in 1 .. Len(t) PROVE (s \o t)[Len(s) + j] = t[j]
  <2>1. Len(s) + j \in 1 .. Len(s) + Len(t) /\ ~(Len(s) + j <= Len(s))  BY <1>1
  <2>2. (Len(s) + j) - Len(s) = j  BY <1>1
  <2>3. QED  BY <1>1, <2>1, <2>2
<1>4. QED  BY <1>1, <1>2, <1>3

(* Items come out in order and at most once, and when the queue has been   *)
(* destroyed every item written was popped, dropped or leaked by a panic.  *)
THEOREM SpscAccountedFor == Spec => []AccountedFor
<1>1. ASSUME IInv PROVE AccountedFor
  <2> DEFINE out == popped \o dropped
  <2>1. /\ Popped \in Nat /\ Pushed \in Nat /\ TakenOut \in Nat /\ written \in Nat
        /\ Len(dropped) \in Nat /\ TakenOut = Popped + Len(dropped) /\ TakenOut <= Pushed
    BY <1>1, Order
  <2>2. /\ popped \in Seq(Nat) /\ dropped \in Seq(Nat)
        /\ Len(popped) = Popped /\ \A i \in 1 .. Popped : popped[i] = i
        /\ \A i \in 1 .. Len(dropped) : dropped[i] = Popped + i
        /\ written >= Pushed
    BY <1>1 DEF IInv, TypeOK, Accounts
  <2>3. /\ Len(out) = Len(popped) + Len(dropped)
        /\ \A i \in 1 .. Len(popped) : out[i] = popped[i]
        /\ \A j \in 1 .. Len(dropped) : out[Len(popped) + j] = dropped[j]
    BY <2>2, ConcatFacts
  <2> HIDE DEF out
  <2>4. Len(out) = TakenOut /\ \A i \in 1 .. TakenOut : out[i] = i
    <3>1. Len(out) = TakenOut  BY <2>1, <2>2, <2>3
    <3>2. ASSUME NEW i \in 1 .. TakenOut PROVE out[i] = i
      <4>1. CASE i <= Popped
        <5>1. i \in 1 .. Popped  BY <4>1, <2>1
        <5>2. QED  BY <5>1, <2>2, <2>3
      <4>2. CASE i > Popped
        <5>1. PICK j \in Int : j = i - Popped  BY <2>1
        <5>2. j \in 1 .. Len(dropped) /\ i = Popped + j  BY <4>2, <5>1, <2>1
        <5>3. QED  BY <5>2, <2>2, <2>3
      <4>3. QED  BY <4>1, <4>2, <2>1
    <3>3. QED  BY <3>1, <3>2
  <2>5. ItemsOf(out) = 1 .. TakenOut  BY <2>4 DEF ItemsOf
  <2>6. \A i, j \in 1 .. Len(out) : i < j => out[i] < out[j]  BY <2>1, <2>4
  <2>7. dropper.pc = "freed" => lost = TakenOut + 1 .. written
    BY <1>1 DEF IInv, Accounts
  <2>8. /\ (1 .. TakenOut) \cup (TakenOut + 1 .. written) = 1 .. written
        /\ (1 .. TakenOut) \cap (TakenOut + 1 .. written) = {}
    BY <2>1, <2>2
  <2>9. QED  BY <2>5, <2>6, <2>7, <2>8 DEF AccountedFor, out
<1>2. QED  BY <1>1, Invariance, PTL

-----------------------------------------------------------------------------
(* The queue implements BoundedFifo.  The slots hold consecutive items, so *)
(* the abstract queue is given by how many were taken out and published.   *)
Run(a, len) == [i \in 1 .. len |-> a + i]

(* Adding an item to a run, and taking its first one. *)
LEMMA RunFacts ==
    ASSUME NEW a \in Nat, NEW len \in Nat
    PROVE  /\ Run(a, len) \in Seq(Nat) /\ Len(Run(a, len)) = len
           /\ Append(Run(a, len), a + len + 1) = Run(a, len + 1)
           /\ len > 0 => /\ Run(a, len) # <<>> /\ Head(Run(a, len)) = a + 1
                         /\ Tail(Run(a, len)) = Run(a + 1, len - 1)
<1>1. Run(a, len) \in Seq(Nat) /\ Len(Run(a, len)) = len  BY DEF Run
<1>2. Append(Run(a, len), a + len + 1) = Run(a, len + 1)
  <2>1. Run(a, len + 1) \in Seq(Nat) /\ Len(Run(a, len + 1)) = len + 1  BY DEF Run
  <2>2. ASSUME NEW i \in 1 .. len + 1
        PROVE  Append(Run(a, len), a + len + 1)[i] = Run(a, len + 1)[i]
    <3>1. Run(a, len + 1)[i] = a + i  BY DEF Run
    <3>2. CASE i = len + 1  BY <1>1, <3>1, <3>2
    <3>3. CASE i # len + 1
      <4>1. i \in 1 .. len  BY <3>3
      <4>2. Run(a, len)[i] = a + i  BY <4>1 DEF Run
      <4>3. QED  BY <1>1, <3>1, <4>1, <4>2
    <3>4. QED  BY <3>2, <3>3
  <2>3. /\ Append(Run(a, len), a + len + 1) \in Seq(Nat)
        /\ Len(Append(Run(a, len), a + len + 1)) = len + 1
    BY <1>1
  <2>4. QED  BY <2>1, <2>2, <2>3
<1>3. ASSUME len > 0
      PROVE  /\ Run(a, len) # <<>> /\ Head(Run(a, len)) = a + 1
             /\ Tail(Run(a, len)) = Run(a + 1, len - 1)
  <2>1. Run(a, len) # <<>>  BY <1>1, <1>3
  <2>2. Head(Run(a, len)) = a + 1  BY <1>1, <1>3 DEF Run
  <2>3. /\ Run(a + 1, len - 1) \in Seq(Nat) /\ Len(Run(a + 1, len - 1)) = len - 1
    BY <1>3 DEF Run
  <2>4. /\ Tail(Run(a, len)) \in Seq(Nat) /\ Len(Tail(Run(a, len))) = len - 1
        /\ \A i \in 1 .. len - 1 : Tail(Run(a, len))[i] = Run(a, len)[i + 1]
    BY <1>1, <2>1
  <2>5. \A i \in 1 .. len - 1 : Tail(Run(a, len))[i] = Run(a + 1, len - 1)[i]
    BY <1>3, <2>4 DEF Run
  <2>6. QED  BY <2>1, <2>2, <2>3, <2>4, <2>5
<1>4. QED  BY <1>1, <1>2, <1>3

InQueue == Newest(TAIL) - 1 - TakenOut
QueueRun ==
    [i \in 1 .. InQueue |-> ItemIn(SlotOf(TakenOut + i - 1))] = Run(TakenOut, InQueue)

(* The published items that are not taken out are consecutive. *)
LEMMA IInvQueueRun == ASSUME IInv PROVE QueueRun
<1>1. /\ TakenOut \in Nat /\ Pushed \in Nat /\ Newest(TAIL) \in Nat
      /\ Newest(TAIL) - 1 <= Pushed
  BY Order
<1>2. ASSUME NEW i \in 1 .. InQueue PROVE ItemIn(SlotOf(TakenOut + i - 1)) = TakenOut + i
  <2>1. PICK q \in Int : q = TakenOut + i - 1  BY <1>1 DEF InQueue
  <2>2. q \in TakenOut .. Pushed - 1 /\ q + 1 = TakenOut + i
    BY <1>1, <2>1 DEF InQueue
  <2>3. ItemIn(SlotOf(q)) = q + 1  BY <2>2 DEF IInv, Contents
  <2>4. QED  BY <2>1, <2>2, <2>3
<1>3. QED  BY <1>2 DEF QueueRun, Run

(* A store that is not to tail leaves the number of published items alone. *)
LEMMA OtherStore ==
    ASSUME MemoryOK(Loc, Thread), NEW th, NEW l \in Loc, l # TAIL, NEW val, NEW ordering,
           NEW fence, Store(th, l, val, ordering, fence)
    PROVE  Newest(TAIL)' = Newest(TAIL)
<1>1. PICK m : mem' = [mem EXCEPT ![l] = Append(@, m)]  BY DEF Store
<1>2. QED  BY <1>1, LocFacts DEF MemoryOK, Newest

(* A step that neither publishes an item nor takes one out nor drops the   *)
(* last handle leaves the abstract queue alone.                            *)
LEMMA FifoStutter ==
    ASSUME IInv, QueueRun, QueueRun', Newest(TAIL)' = Newest(TAIL),
           popped' = popped, dropped' = dropped, (arc'.strong = 0) = (arc.strong = 0)
    PROVE  UNCHANGED Fifo!fifoVars
<1>1. TakenOut' = TakenOut  BY DEF TakenOut
<1>2. InQueue' = InQueue  BY <1>1 DEF InQueue
<1>3. [i \in 1 .. InQueue |-> ItemIn(SlotOf(TakenOut + i - 1))]'
        = [i \in 1 .. InQueue |-> ItemIn(SlotOf(TakenOut + i - 1))]
  BY <1>1, <1>2 DEF QueueRun, Run
<1>4. QED  BY <1>3 DEF Fifo!fifoVars, InQueue

(* Every step of the queue is a step of BoundedFifo, or leaves it alone. *)
LEMMA FifoNext ==
    ASSUME IInv, QueueRun, QueueRun', [Next]_vars
    PROVE  [Fifo!Next]_(Fifo!fifoVars)
<1>1. MemoryOK(Loc, Thread)  BY DEF IInv, TypeOK
<1>2. /\ TakenOut \in Nat /\ Newest(TAIL) \in Nat \ {0} /\ Pushed \in Nat
      /\ TakenOut <= Newest(TAIL) - 1 /\ CAPACITY \in Nat
      /\ Newest(HEAD) \in Nat /\ Newest(HEAD) - 1 <= TakenOut
      /\ Pushed <= Newest(HEAD) - 1 + CAPACITY
  BY Order
<1>3. InQueue \in Nat  BY <1>2 DEF InQueue
<1>4. \A q \in Int : SlotOf(q) \in Loc /\ SlotOf(q) # TAIL  BY LocFacts
<1>5. ASSUME mem' = mem, UNCHANGED <<popped, dropped, arc>>
      PROVE  [Fifo!Next]_(Fifo!fifoVars)
  <2>1. Newest(TAIL)' = Newest(TAIL)  BY <1>5 DEF Newest
  <2>2. QED  BY <1>5, <2>1, FifoStutter
<1>6. CASE Push
  BY <1>5, <1>6 DEF Push, memVars, dropVars, ghostVars
<1>7. CASE StillFull
  BY <1>5, <1>7 DEF StillFull, StillFullAt, Load, dropVars, ghostVars
<1>8. CASE PushWrite
  <2>1. p_cached_tail \in Int  BY DEF IInv, TypeOK, Usize
  <2>2. Newest(TAIL)' = Newest(TAIL)
    BY <1>1, <1>4, <1>8, <2>1, OtherStore DEF PushWrite
  <2>3. UNCHANGED <<popped, dropped, arc>>  BY <1>8 DEF PushWrite, dropVars
  <2>4. QED  BY <2>2, <2>3, FifoStutter
<1>9. CASE PushStore
  <2>1. /\ ppc = "store" /\ UNCHANGED <<popped, dropped, arc>>
        /\ Store("P", TAIL, p_cached_tail, "Release", "None")
    BY <1>9 DEF PushStore, TailStoreOrdering, dropVars, ghostVars
  <2>2. Newest(TAIL)' = Newest(TAIL) + 1
    <3>1. p_cached_tail \in Nat /\ cur["P"][TAIL] <= Newest(TAIL)
      BY <1>2 DEF IInv, TypeOK, Usize, Counts
    <3>2. QED  BY <1>1, <2>1, <3>1, LocFacts, StoreView
  <2>3. TakenOut' = TakenOut  BY <2>1 DEF TakenOut
  <2>4. InQueue' = InQueue + 1  BY <1>2, <2>2, <2>3 DEF InQueue
  <2>5. InQueue < CAPACITY
    <3>1. Pushed = Newest(TAIL)  BY <2>1 DEF Pushed
    <3>2. QED  BY <1>2, <3>1 DEF InQueue
  <2>6. TakenOut + InQueue = Newest(TAIL) - 1  BY <1>2 DEF InQueue
  <2>7. arc.strong # 0  BY <2>1 DEF IInv, Handles
  <2> DEFINE Q == [i \in 1 .. InQueue |-> ItemIn(SlotOf(TakenOut + i - 1))]
  <2>8. Q = Run(TakenOut, InQueue) /\ Q' = Run(TakenOut, InQueue + 1)
    BY <2>3, <2>4 DEF QueueRun, Run
  <2> HIDE DEF Q
  <2>9. Len(Q) < CAPACITY /\ Q' = Append(Q, (Newest(TAIL) - 1) + 1)
    <3>1. /\ Len(Run(TakenOut, InQueue)) = InQueue
          /\ Append(Run(TakenOut, InQueue), TakenOut + InQueue + 1) = Run(TakenOut, InQueue + 1)
      BY <1>2, <1>3, RunFacts
    <3>2. QED  BY <2>5, <2>6, <2>8, <3>1
  <2>10. Fifo!Enqueue
    <3>1. Newest(TAIL)' - 1 = Newest(TAIL) - 1 + 1  BY <1>2, <2>2
    <3>2. QED  BY <2>1, <2>7, <2>9, <3>1 DEF Fifo!Enqueue, Q, InQueue
  <2>11. QED  BY <2>10 DEF Fifo!Next
<1>10. CASE Pop
  BY <1>5, <1>10 DEF Pop, memVars, dropVars, ghostVars
<1>11. CASE StillEmpty
  BY <1>5, <1>11 DEF StillEmpty, StillEmptyAt, Load, dropVars, ghostVars
<1>12. CASE PopRead
  <2>1. ~PopPanics /\ TakenOut < Newest(TAIL) - 1 /\ TakenOut = Popped /\ dropper.pc = "alive"
    BY <1>12, ReadAccess DEF PopRead
  <2>2. /\ cpc = "read" /\ UNCHANGED <<dropped, arc>>
        /\ popped' = Append(popped, ItemIn(SlotOf(c_cached_head)))
    BY <1>12, <2>1 DEF PopRead, dropVars
  <2>3. ItemIn(SlotOf(c_cached_head)) = Popped + 1 /\ Popped \in Nat
    BY <2>2, ReadAccess, Order
  <2>4. popped \in Seq(Nat) /\ Len(popped) = Popped  BY DEF IInv, TypeOK, Accounts
  <2>5. Len(popped') = Len(popped) + 1  BY <2>2, <2>3, <2>4
  <2>6. Newest(TAIL)' = Newest(TAIL)
    <3>1. c_cached_head \in Int  BY DEF IInv, TypeOK, Usize
    <3>2. QED  BY <1>1, <1>4, <1>12, <3>1, OtherStore DEF PopRead
  <2>7. TakenOut' = TakenOut + 1
    <3>1. Len(dropped) \in Nat /\ Len(popped) \in Nat  BY <2>3, <2>4, Order
    <3>2. QED  BY <2>2, <2>5, <3>1 DEF TakenOut
  <2>8. InQueue' = InQueue - 1 /\ InQueue > 0  BY <1>2, <2>1, <2>6, <2>7 DEF InQueue
  <2>9. arc.strong # 0  BY <2>1 DEF IInv, Handles
  <2> DEFINE Q == [i \in 1 .. InQueue |-> ItemIn(SlotOf(TakenOut + i - 1))]
  <2>10. Q = Run(TakenOut, InQueue) /\ Q' = Run(TakenOut + 1, InQueue - 1)
    BY <2>7, <2>8 DEF QueueRun, Run
  <2> HIDE DEF Q
  <2>11. Q # <<>> /\ Head(Q) = TakenOut + 1 /\ Q' = Tail(Q)
    BY <1>2, <1>3, <2>8, <2>10, RunFacts
  <2>12. Fifo!Dequeue
    BY <2>1, <2>2, <2>4, <2>5, <2>6, <2>9, <2>11 DEF Fifo!Dequeue, Q, InQueue
  <2>13. QED  BY <2>12 DEF Fifo!Next
<1>13. CASE PopStore
  <2>1. Newest(TAIL)' = Newest(TAIL)
    BY <1>1, <1>13, LocFacts, OtherStore DEF PopStore
  <2>2. UNCHANGED <<popped, dropped, arc>>  BY <1>13 DEF PopStore, dropVars, ghostVars
  <2>3. QED  BY <2>1, <2>2, FifoStutter
<1>14. ASSUME NEW th \in Thread, DropHandle(th), arc.strong # 0
       PROVE  [Fifo!Next]_(Fifo!fifoVars)
  <2>1. mem' = mem /\ UNCHANGED <<popped, dropped>>  BY <1>14 DEF DropHandle, ghostVars
  <2>2. arc'.strong = arc.strong - 1 /\ arc.strong \in 0 .. 2
    BY <1>14 DEF DropHandle, IInv, TypeOK
  <2>3. Newest(TAIL)' = Newest(TAIL)  BY <2>1 DEF Newest
  <2>4. CASE arc'.strong = 0
    <3>1. TakenOut' = TakenOut /\ InQueue' = InQueue  BY <2>1, <2>3 DEF TakenOut, InQueue
    <3>2. [i \in 1 .. InQueue |-> ItemIn(SlotOf(TakenOut + i - 1))]'
            = [i \in 1 .. InQueue |-> ItemIn(SlotOf(TakenOut + i - 1))]
      BY <3>1 DEF QueueRun, Run
    <3>3. Fifo!Close  BY <2>1, <2>3, <2>4, <3>2 DEF Fifo!Close, InQueue
    <3>4. QED  BY <3>3 DEF Fifo!Next
  <2>5. CASE arc'.strong # 0  BY <1>14, <2>1, <2>3, <2>5, FifoStutter
  <2>6. QED  BY <2>4, <2>5
<1>15. CASE DropProducer
  <2>1. arc.strong # 0  BY <1>15 DEF DropProducer, IInv, Handles
  <2>2. QED  BY <1>14, <1>15, <2>1, LocFacts DEF DropProducer
<1>16. CASE DropConsumer
  <2>1. arc.strong # 0  BY <1>16 DEF DropConsumer, IInv, Handles
  <2>2. QED  BY <1>14, <1>16, <2>1, LocFacts DEF DropConsumer
<1>17. CASE DropLoadHead
  BY <1>5, <1>17 DEF DropLoadHead, Load, ghostVars
<1>18. CASE DropLoadTail
  BY <1>5, <1>18 DEF DropLoadTail, Load, ghostVars
<1>19. ASSUME NEW panics \in BOOLEAN, DropItem(panics) PROVE [Fifo!Next]_(Fifo!fifoVars)
  <2>1. /\ AboutToDrop /\ UNCHANGED <<popped, arc>>
        /\ dropped' = Append(dropped, ItemIn(DropSlot(dropper.k)))
        /\ Store(dropper.th, DropSlot(dropper.k), 0, "Relaxed", "None")
    BY <1>19 DEF DropItem, AboutToDrop
  <2>2. TakenOut < Newest(TAIL) - 1  BY <2>1, DropAccess
  <2>3. Newest(TAIL)' = Newest(TAIL)
    <3>1. PICK q \in Int : q = (dropper.head + dropper.k) % WORD
      <4>1. dropper.head \in Int /\ dropper.k \in Int  BY DEF IInv, TypeOK, Usize
      <4>2. PICK n \in Int : n = dropper.head + dropper.k  BY <4>1
      <4>3. n % WORD \in 0 .. WORD - 1  BY SpscAssumption, DivMod
      <4>4. QED  BY <4>2, <4>3
    <3>2. PICK l \in Loc : l = DropSlot(dropper.k) /\ l # TAIL
      BY <1>4, <3>1 DEF DropSlot
    <3>3. QED  BY <1>1, <2>1, <3>2, OtherStore
  <2>4. TakenOut' = TakenOut + 1
    <3>1. dropped \in Seq(Nat) /\ popped \in Seq(Nat)  BY DEF IInv, TypeOK
    <3>2. Len(dropped') = Len(dropped) + 1  BY <2>1, <3>1
    <3>3. QED  BY <2>1, <3>1, <3>2 DEF TakenOut
  <2>5. InQueue' = InQueue - 1 /\ InQueue > 0  BY <1>2, <2>2, <2>3, <2>4 DEF InQueue
  <2>6. arc.strong = 0  BY <2>1 DEF AboutToDrop, IInv, TypeOK, Handles
  <2> DEFINE Q == [i \in 1 .. InQueue |-> ItemIn(SlotOf(TakenOut + i - 1))]
  <2>7. Q = Run(TakenOut, InQueue) /\ Q' = Run(TakenOut + 1, InQueue - 1)
    BY <2>4, <2>5 DEF QueueRun, Run
  <2> HIDE DEF Q
  <2>8. Q # <<>> /\ Q' = Tail(Q)  BY <1>2, <1>3, <2>5, <2>7, RunFacts
  <2>9. Fifo!Discard  BY <2>1, <2>3, <2>6, <2>8 DEF Fifo!Discard, Q, InQueue
  <2>10. QED  BY <2>9 DEF Fifo!Next
<1>20. CASE DropFree
  BY <1>5, <1>20 DEF DropFree, memVars, ghostVars
<1>21. CASE UNCHANGED vars
  BY <1>5, <1>21 DEF vars, memVars, dropVars, ghostVars
<1>22. QED
  BY <1>6, <1>7, <1>8, <1>9, <1>10, <1>11, <1>12, <1>13, <1>15, <1>16, <1>17, <1>18, <1>19,
     <1>20, <1>21
  DEF Next, InPush, InPop, InDrop, Terminated

(* A new queue is an empty BoundedFifo. *)
LEMMA FifoInit == ASSUME Init PROVE Fifo!Init
<1>1. Newest(TAIL) = 1
  BY LocFacts DEF Init, InitMemory, Newest
<1>2. TakenOut = 0 /\ Len(popped) = 0  BY DEF Init, TakenOut
<1>3. [i \in 1 .. Newest(TAIL) - 1 - TakenOut |-> ItemIn(SlotOf(TakenOut + i - 1))] = <<>>
  BY <1>1, <1>2
<1>4. arc.strong # 0  BY DEF Init
<1>5. QED  BY <1>1, <1>2, <1>3, <1>4 DEF Fifo!Init

(* push, pop, the dropping of handles and Drop for Queue implement a       *)
(* bounded first-in first-out queue that owns its items.                   *)
THEOREM SpscImplementsFifo == Spec => ImplementsFifo
<1>1. IInv => QueueRun  BY IInvQueueRun
<1>2. Init => Fifo!Init  BY FifoInit
<1>3. IInv /\ QueueRun /\ QueueRun' /\ [Next]_vars => [Fifo!Next]_(Fifo!fifoVars)
  BY FifoNext
<1>4. QED  BY <1>1, <1>2, <1>3, Invariance, PTL DEF Spec, ImplementsFifo, Fifo!Spec
=============================================================================

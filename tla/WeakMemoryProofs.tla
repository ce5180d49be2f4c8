------------------------- MODULE WeakMemoryProofs -------------------------
(***************************************************************************)
(* Lemmas about the memory, for every set of locations and of threads.     *)
(* They say, location by location, what a load, a store and a hand-over do *)
(* to the views, so that the proofs about the data structures never look   *)
(* inside Join and Advance.                                                *)
(***************************************************************************)
EXTENDS WeakMemory, TLAPS

(* Join is the pointwise maximum of two views. *)
LEMMA JoinFacts ==
    ASSUME NEW Loc, NEW v \in Views(Loc), NEW w \in Views(Loc)
    PROVE  /\ Join(v, w) \in Views(Loc)
           /\ \A l \in Loc : Join(v, w)[l] >= v[l] /\ Join(v, w)[l] >= w[l]
           /\ \A l \in Loc : v[l] >= w[l] => Join(v, w)[l] = v[l]
BY DEF Join, Views

(* Advance raises a view at one location. *)
LEMMA AdvanceFacts ==
    ASSUME NEW Loc, NEW v \in Views(Loc), NEW l \in Loc, NEW t \in Nat \ {0}
    PROVE  /\ Advance(v, l, t) \in Views(Loc)
           /\ \A k \in Loc : k # l => Advance(v, l, t)[k] = v[k]
           /\ Advance(v, l, t)[l] >= v[l]
           /\ Advance(v, l, t)[l] >= t
           /\ v[l] <= t => Advance(v, l, t)[l] = t
BY DEF Advance, Views

(* A location of a well-formed memory holds a sequence of messages. *)
LEMMA MessageFacts ==
    ASSUME NEW Loc, NEW Thread, MemoryOK(Loc, Thread), NEW l \in Loc
    PROVE  /\ Newest(l) \in Nat
           /\ DOMAIN mem[l] = 1 .. Newest(l)
           /\ \A t \in 1 .. Newest(l) : /\ mem[l][t] \in Messages(Loc)
                                        /\ mem[l][t].val \in Nat
                                        /\ mem[l][t].view \in Views(Loc)
<1>1. mem[l] \in Seq(Messages(Loc))  BY DEF MemoryOK
<1>2. Newest(l) \in Nat /\ DOMAIN mem[l] = 1 .. Newest(l)  BY <1>1 DEF Newest
<1>3. \A t \in 1 .. Newest(l) : mem[l][t] \in Messages(Loc)  BY <1>1, <1>2 DEF Newest
<1>4. QED  BY <1>2, <1>3 DEF Messages

(* A load: other threads and the memory are unchanged; the loading thread  *)
(* observes at least what it had observed, the message it read and, when   *)
(* the load acquires, the view of the message.                             *)
LEMMA LoadFacts ==
    ASSUME NEW Loc, NEW Thread, MemoryOK(Loc, Thread),
           NEW th \in Thread, NEW l \in Loc, NEW t, NEW ordering, NEW fence,
           \A k \in Loc : acq[th][k] >= cur[th][k],
           Load(th, l, t, ordering, fence)
    PROVE  /\ MemoryOK(Loc, Thread)' /\ mem' = mem /\ rel' = rel
           /\ t \in 1 .. Newest(l) /\ t >= cur[th][l]
           /\ \A u \in Thread : u # th => cur'[u] = cur[u] /\ acq'[u] = acq[u]
           /\ \A k \in Loc : cur'[th][k] >= cur[th][k] /\ acq'[th][k] >= acq[th][k]
           /\ cur'[th][l] >= t
           /\ \A k \in Loc : acq'[th][k] >= mem[l][t].view[k]
           /\ ordering = "Acquire" => \A k \in Loc : cur'[th][k] >= mem[l][t].view[k]
           /\ fence = "Acquire" => t >= acq[th][l]
           /\ \A k \in Loc : acq'[th][k] >= cur'[th][k]
           /\ (ordering # "Acquire" /\ fence # "Acquire") =>
                 /\ \A k \in Loc : k # l => cur'[th][k] = cur[th][k]
                 /\ cur'[th][l] = t
<1> DEFINE base == IF fence = "Acquire" THEN acq[th] ELSE cur[th]
           view == mem[l][t].view
           advanced == Advance(base, l, t)
           seen == Advance(acq[th], l, t)
<1>1. /\ t \in base[l] .. Newest(l)
      /\ cur' = [cur EXCEPT ![th] = IF ordering = "Acquire" THEN Join(advanced, view)
                                    ELSE advanced]
      /\ acq' = [acq EXCEPT ![th] = Join(seen, view)]
      /\ mem' = mem /\ rel' = rel
  BY DEF Load
<1>2. /\ cur[th] \in Views(Loc) /\ acq[th] \in Views(Loc) /\ base \in Views(Loc)
      /\ \A k \in Loc : base[k] >= cur[th][k] /\ base[k] <= acq[th][k]
  BY DEF MemoryOK, Views
<1>3. t \in 1 .. Newest(l) /\ t \in Nat \ {0} /\ t >= base[l]
  BY <1>1, <1>2, MessageFacts DEF Views
<1>4. view \in Views(Loc)  BY <1>3, MessageFacts
<1>5. /\ advanced \in Views(Loc) /\ seen \in Views(Loc)
      /\ \A k \in Loc : k # l => advanced[k] = base[k] /\ seen[k] = acq[th][k]
      /\ advanced[l] = t /\ seen[l] >= t /\ seen[l] >= acq[th][l]
  <2> HIDE DEF base
  <2>1. /\ advanced \in Views(Loc)
        /\ \A k \in Loc : k # l => advanced[k] = base[k]
        /\ advanced[l] = t
    BY <1>2, <1>3, AdvanceFacts
  <2>2. /\ seen \in Views(Loc)
        /\ \A k \in Loc : k # l => seen[k] = acq[th][k]
        /\ seen[l] >= t /\ seen[l] >= acq[th][l]
    BY <1>2, <1>3, AdvanceFacts
  <2>3. QED  BY <2>1, <2>2
<1>6. \A k \in Loc : /\ base[k] \in Nat /\ acq[th][k] \in Nat /\ cur[th][k] \in Nat
                     /\ view[k] \in Nat /\ advanced[k] \in Nat /\ seen[k] \in Nat
                     /\ advanced[k] >= base[k] /\ seen[k] >= acq[th][k]
                     /\ seen[k] >= advanced[k]
  BY <1>2, <1>3, <1>4, <1>5 DEF Views
<1>7. /\ Join(advanced, view) \in Views(Loc) /\ Join(seen, view) \in Views(Loc)
      /\ \A k \in Loc : /\ Join(advanced, view)[k] >= advanced[k]
                        /\ Join(advanced, view)[k] >= view[k]
                        /\ Join(seen, view)[k] >= seen[k]
                        /\ Join(seen, view)[k] >= view[k]
                        /\ Join(seen, view)[k] >= Join(advanced, view)[k]
  <2>1. DOMAIN advanced = Loc /\ DOMAIN seen = Loc  BY <1>5 DEF Views
  <2>2. \A k \in Loc : Join(seen, view)[k] >= Join(advanced, view)[k]
    BY <2>1, <1>6 DEF Join
  <2>3. QED  BY <1>4, <1>5, <2>2, JoinFacts
<1>8. /\ cur'[th] = IF ordering = "Acquire" THEN Join(advanced, view) ELSE advanced
      /\ acq'[th] = Join(seen, view)
      /\ \A u \in Thread : u # th => cur'[u] = cur[u] /\ acq'[u] = acq[u]
      /\ cur' \in [Thread -> Views(Loc)] /\ acq' \in [Thread -> Views(Loc)]
  BY <1>1, <1>5, <1>7 DEF MemoryOK
<1>9. MemoryOK(Loc, Thread)'  BY <1>1, <1>8 DEF MemoryOK
<1>10. /\ \A k \in Loc : cur'[th][k] >= advanced[k] /\ acq'[th][k] >= seen[k]
       /\ \A k \in Loc : acq'[th][k] >= cur'[th][k]
       /\ \A k \in Loc : cur'[th][k] \in Nat /\ acq'[th][k] \in Nat
  <2> HIDE DEF advanced, seen, view, base
  <2>1. CASE ordering = "Acquire"
    BY <2>1, <1>6, <1>7, <1>8 DEF Views
  <2>2. CASE ordering # "Acquire"
    <3>1. \A k \in Loc : cur'[th][k] = advanced[k]  BY <2>2, <1>8
    <3>2. \A k \in Loc : acq'[th][k] >= seen[k] /\ acq'[th][k] \in Nat
      BY <1>7, <1>8 DEF Views
    <3>3. QED  BY <3>1, <3>2, <1>6
  <2>3. QED  BY <2>1, <2>2
<1>11. \A k \in Loc : cur'[th][k] >= cur[th][k] /\ acq'[th][k] >= acq[th][k]
  BY <1>2, <1>6, <1>10
<1>12. cur'[th][l] >= t  BY <1>3, <1>5, <1>10
<1>13. t >= cur[th][l]  BY <1>2, <1>3, <1>6
<1>14. /\ \A k \in Loc : acq'[th][k] >= view[k]
       /\ ordering = "Acquire" => \A k \in Loc : cur'[th][k] >= view[k]
  BY <1>7, <1>8
<1>15. (ordering # "Acquire" /\ fence # "Acquire") =>
          /\ \A k \in Loc : k # l => cur'[th][k] = cur[th][k]
          /\ cur'[th][l] = t
  BY <1>5, <1>8
<1>16. fence = "Acquire" => t >= acq[th][l]  BY <1>3
<1>17. QED
  BY <1>1, <1>3, <1>8, <1>9, <1>10, <1>11, <1>12, <1>13, <1>14, <1>15, <1>16

(* A store: one message is appended to l and nothing else of the memory    *)
(* changes; the message carries the storing thread's view when the store   *)
(* releases, and the view of its last release fence otherwise.             *)
LEMMA StoreFacts ==
    ASSUME NEW Loc, NEW Thread, MemoryOK(Loc, Thread),
           NEW th \in Thread, NEW l \in Loc, NEW val \in Nat, NEW ordering, NEW fence,
           \A k \in Loc : acq[th][k] >= cur[th][k],
           Store(th, l, val, ordering, fence)
    PROVE  /\ MemoryOK(Loc, Thread)'
           /\ \A k \in Loc : k # l => mem'[k] = mem[k]
           /\ Newest(l)' = Newest(l) + 1
           /\ \A t \in 1 .. Newest(l) : mem'[l][t] = mem[l][t]
           /\ mem'[l][Newest(l) + 1].val = val
           /\ ordering = "Release" =>
                 \A k \in Loc : k # l => mem'[l][Newest(l) + 1].view[k] = cur[th][k]
           /\ ordering # "Release" =>
                 \A k \in Loc : k # l => mem'[l][Newest(l) + 1].view[k] = rel[th][k]
           /\ mem'[l][Newest(l) + 1].view[l] >= Newest(l) + 1
           /\ \A u \in Thread : u # th =>
                 cur'[u] = cur[u] /\ acq'[u] = acq[u] /\ rel'[u] = rel[u]
           /\ \A k \in Loc : k # l => cur'[th][k] = cur[th][k] /\ acq'[th][k] = acq[th][k]
           /\ cur'[th][l] >= Newest(l) + 1
           /\ cur[th][l] <= Newest(l) + 1 => cur'[th][l] = Newest(l) + 1
           /\ \A k \in Loc : acq'[th][k] >= cur'[th][k]
           /\ rel'[th] = IF fence = "Release" THEN cur'[th] ELSE rel[th]
<1> DEFINE t == Newest(l) + 1
           new == Advance(cur[th], l, t)
           old == Advance(rel[th], l, t)
           seen == Advance(acq[th], l, t)
           view == IF ordering = "Release" THEN new ELSE old
           m == [val |-> val, view |-> view]
<1>1. /\ mem' = [mem EXCEPT ![l] = Append(@, m)]
      /\ cur' = [cur EXCEPT ![th] = new]
      /\ acq' = [acq EXCEPT ![th] = seen]
      /\ rel' = IF fence = "Release" THEN [rel EXCEPT ![th] = new] ELSE rel
  BY DEF Store
<1>2. /\ cur[th] \in Views(Loc) /\ acq[th] \in Views(Loc) /\ rel[th] \in Views(Loc)
      /\ mem[l] \in Seq(Messages(Loc))
      /\ Newest(l) \in Nat /\ t \in Nat \ {0}
  <2>1. /\ cur[th] \in Views(Loc) /\ acq[th] \in Views(Loc) /\ rel[th] \in Views(Loc)
        /\ mem[l] \in Seq(Messages(Loc))
    BY DEF MemoryOK
  <2>2. Newest(l) \in Nat  BY MessageFacts
  <2>3. t \in Nat \ {0}  BY <2>2
  <2>4. QED  BY <2>1, <2>2, <2>3
<1> HIDE DEF t
<1>3. /\ new \in Views(Loc)
      /\ \A k \in Loc : k # l => new[k] = cur[th][k]
      /\ new[l] >= t /\ new[l] >= cur[th][l] /\ (cur[th][l] <= t => new[l] = t)
  BY <1>2, AdvanceFacts
<1>4. /\ old \in Views(Loc)
      /\ \A k \in Loc : k # l => old[k] = rel[th][k]
      /\ old[l] >= t
  BY <1>2, AdvanceFacts
<1>5. /\ seen \in Views(Loc)
      /\ \A k \in Loc : k # l => seen[k] = acq[th][k]
      /\ seen[l] >= t /\ seen[l] >= acq[th][l]
  BY <1>2, AdvanceFacts
<1>6. seen[l] >= new[l]
  BY <1>2 DEF Advance, Views
<1> HIDE DEF new, old, seen
<1>7. m \in Messages(Loc) /\ m.val = val /\ m.view = view
  BY <1>3, <1>4 DEF Messages
<1> HIDE DEF m
<1>8. /\ mem'[l] = Append(mem[l], m)
      /\ \A k \in Loc : k # l => mem'[k] = mem[k]
      /\ mem' \in [Loc -> Seq(Messages(Loc))]
  BY <1>1, <1>2, <1>7 DEF MemoryOK
<1>9. /\ Len(mem'[l]) = t
      /\ \A u \in 1 .. Newest(l) : mem'[l][u] = mem[l][u]
      /\ mem'[l][t] = m
  BY <1>2, <1>7, <1>8 DEF t, Newest
<1>10. Newest(l)' = t  BY <1>9 DEF Newest
<1>11. /\ cur' \in [Thread -> Views(Loc)] /\ acq' \in [Thread -> Views(Loc)]
       /\ rel' \in [Thread -> Views(Loc)]
       /\ cur'[th] = new /\ acq'[th] = seen
       /\ rel'[th] = IF fence = "Release" THEN new ELSE rel[th]
       /\ \A u \in Thread : u # th =>
             cur'[u] = cur[u] /\ acq'[u] = acq[u] /\ rel'[u] = rel[u]
  BY <1>1, <1>3, <1>5 DEF MemoryOK
<1>12. MemoryOK(Loc, Thread)'  BY <1>8, <1>11 DEF MemoryOK
<1>13. \A k \in Loc : acq'[th][k] >= cur'[th][k]
  BY <1>3, <1>5, <1>6, <1>11
<1>14. /\ mem'[l][t].val = val
       /\ mem'[l][t].view[l] >= t
       /\ ordering = "Release" => \A k \in Loc : k # l => mem'[l][t].view[k] = cur[th][k]
       /\ ordering # "Release" => \A k \in Loc : k # l => mem'[l][t].view[k] = rel[th][k]
  BY <1>3, <1>4, <1>7, <1>9
<1>15. /\ \A k \in Loc : k # l => cur'[th][k] = cur[th][k] /\ acq'[th][k] = acq[th][k]
       /\ cur'[th][l] >= t
       /\ cur[th][l] <= t => cur'[th][l] = t
  BY <1>3, <1>5, <1>11
<1>16. t = Newest(l) + 1  BY DEF t
<1>17. QED
  BY <1>8, <1>9, <1>10, <1>11, <1>12, <1>13, <1>14, <1>15, <1>16

(* A hand-over: the receiver has observed all that it and the giver had. *)
LEMMA HandOverFacts ==
    ASSUME NEW Loc, NEW Thread, MemoryOK(Loc, Thread),
           NEW th \in Thread, NEW to \in Thread,
           \A k \in Loc : acq[to][k] >= cur[to][k],
           HandOver(th, to)
    PROVE  /\ MemoryOK(Loc, Thread)' /\ mem' = mem /\ rel' = rel
           /\ \A u \in Thread : u # to => cur'[u] = cur[u] /\ acq'[u] = acq[u]
           /\ \A k \in Loc : cur'[to][k] >= cur[to][k] /\ cur'[to][k] >= cur[th][k]
           /\ \A k \in Loc : acq'[to][k] >= cur'[to][k]
<1>1. /\ cur[th] \in Views(Loc) /\ cur[to] \in Views(Loc) /\ acq[to] \in Views(Loc)
  BY DEF MemoryOK
<1>2. /\ cur' = [cur EXCEPT ![to] = Join(cur[to], cur[th])]
      /\ acq' = [acq EXCEPT ![to] = Join(acq[to], cur[th])]
      /\ mem' = mem /\ rel' = rel
  BY DEF HandOver
<1>3. /\ Join(cur[to], cur[th]) \in Views(Loc)
      /\ \A k \in Loc : /\ Join(cur[to], cur[th])[k] >= cur[to][k]
                        /\ Join(cur[to], cur[th])[k] >= cur[th][k]
  BY <1>1, JoinFacts
<1>4. Join(acq[to], cur[th]) \in Views(Loc)
  BY <1>1, JoinFacts
<1>5. \A k \in Loc : Join(acq[to], cur[th])[k] >= Join(cur[to], cur[th])[k]
  BY <1>1 DEF Join, Views
<1>6. /\ cur' \in [Thread -> Views(Loc)] /\ acq' \in [Thread -> Views(Loc)]
      /\ cur'[to] = Join(cur[to], cur[th]) /\ acq'[to] = Join(acq[to], cur[th])
      /\ \A u \in Thread : u # to => cur'[u] = cur[u] /\ acq'[u] = acq[u]
  BY <1>2, <1>3, <1>4 DEF MemoryOK
<1>7. MemoryOK(Loc, Thread)'  BY <1>2, <1>6 DEF MemoryOK
<1>8. QED  BY <1>2, <1>3, <1>5, <1>6, <1>7

(* An Acquire load without a fence before it, of a message that carries    *)
(* its own time stamp: the loading thread joins the view of the message.   *)
LEMMA AcquireLoadView ==
    ASSUME NEW Loc, NEW Thread, MemoryOK(Loc, Thread),
           NEW th \in Thread, NEW l \in Loc, NEW t,
           Load(th, l, t, "Acquire", "None"),
           t \in 1 .. Newest(l) => mem[l][t].view[l] = t
    PROVE  /\ MemoryOK(Loc, Thread)' /\ mem' = mem /\ rel' = rel
           /\ t \in 1 .. Newest(l) /\ t >= cur[th][l]
           /\ cur' = [cur EXCEPT ![th] = Join(cur[th], mem[l][t].view)]
<1> DEFINE view == mem[l][t].view
           advanced == Advance(cur[th], l, t)
           seen == Advance(acq[th], l, t)
<1>1. /\ t \in cur[th][l] .. Newest(l)
      /\ cur' = [cur EXCEPT ![th] = Join(advanced, view)]
      /\ acq' = [acq EXCEPT ![th] = Join(seen, view)]
      /\ mem' = mem /\ rel' = rel
  BY DEF Load
<1>2. cur[th] \in Views(Loc) /\ acq[th] \in Views(Loc)  BY DEF MemoryOK
<1>3. t \in 1 .. Newest(l) /\ t \in Nat \ {0} /\ t >= cur[th][l]
  BY <1>1, <1>2, MessageFacts DEF Views
<1>4. view \in Views(Loc) /\ view[l] = t  BY <1>3, MessageFacts
<1> HIDE DEF view
<1>5. advanced \in Views(Loc) /\ seen \in Views(Loc)  BY <1>2, <1>3, AdvanceFacts
<1>6. Join(advanced, view) \in Views(Loc) /\ Join(seen, view) \in Views(Loc)
  BY <1>4, <1>5, JoinFacts
<1>7. Join(advanced, view) = Join(cur[th], view)
  <2>1. DOMAIN advanced = Loc /\ DOMAIN cur[th] = Loc  BY <1>2, <1>5 DEF Views
  <2>2. \A k \in Loc : k # l => advanced[k] = cur[th][k]
    BY <1>2, <1>3, AdvanceFacts
  <2>3. advanced[l] = t  BY <1>2, <1>3, AdvanceFacts
  <2>4. \A k \in Loc : (IF advanced[k] >= view[k] THEN advanced[k] ELSE view[k])
                         = (IF cur[th][k] >= view[k] THEN cur[th][k] ELSE view[k])
    <3> SUFFICES ASSUME NEW k \in Loc
                 PROVE  (IF advanced[k] >= view[k] THEN advanced[k] ELSE view[k])
                          = (IF cur[th][k] >= view[k] THEN cur[th][k] ELSE view[k])
      OBVIOUS
    <3>1. CASE k # l  BY <3>1, <2>2
    <3>2. CASE k = l
      <4>1. cur[th][l] \in Nat  BY <1>2 DEF Views
      <4>2. QED  BY <3>2, <4>1, <2>3, <1>3, <1>4
    <3>3. QED  BY <3>1, <3>2
  <2>5. QED  BY <2>1, <2>4 DEF Join
<1>8. cur' = [cur EXCEPT ![th] = Join(cur[th], view)]  BY <1>1, <1>7
<1>9. cur' \in [Thread -> Views(Loc)] /\ acq' \in [Thread -> Views(Loc)]
  BY <1>1, <1>6 DEF MemoryOK
<1>10. QED  BY <1>1, <1>3, <1>8, <1>9 DEF MemoryOK, view

(* A store by a thread whose view does not point past the end, the views   *)
(* being known exactly: the thread has observed its own message, and a     *)
(* Release store puts all it has observed in the message.                  *)
LEMMA StoreView ==
    ASSUME NEW Loc, NEW Thread, MemoryOK(Loc, Thread),
           NEW th \in Thread, NEW l \in Loc, NEW val \in Nat, NEW ordering,
           cur[th][l] <= Newest(l),
           Store(th, l, val, ordering, "None")
    PROVE  /\ MemoryOK(Loc, Thread)'
           /\ \A k \in Loc : k # l => mem'[k] = mem[k] /\ Newest(k)' = Newest(k)
           /\ Newest(l)' = Newest(l) + 1
           /\ \A t \in 1 .. Newest(l) : mem'[l][t] = mem[l][t]
           /\ mem'[l][Newest(l) + 1].val = val
           /\ ordering = "Release" => mem'[l][Newest(l) + 1].view = cur'[th]
           /\ cur' = [cur EXCEPT ![th] = [cur[th] EXCEPT ![l] = Newest(l) + 1]]
           /\ mem'[l] = Append(mem[l], mem'[l][Newest(l) + 1])
<1> DEFINE t == Newest(l) + 1
           new == Advance(cur[th], l, t)
           old == Advance(rel[th], l, t)
           seen == Advance(acq[th], l, t)
           view == IF ordering = "Release" THEN new ELSE old
           m == [val |-> val, view |-> view]
<1>1. /\ mem' = [mem EXCEPT ![l] = Append(@, m)]
      /\ cur' = [cur EXCEPT ![th] = new]
      /\ acq' = [acq EXCEPT ![th] = seen]
      /\ rel' = rel
  BY DEF Store
<1>2. /\ cur[th] \in Views(Loc) /\ acq[th] \in Views(Loc) /\ rel[th] \in Views(Loc)
      /\ mem[l] \in Seq(Messages(Loc))
  BY DEF MemoryOK
<1>3. Newest(l) \in Nat  BY MessageFacts
<1>4. t \in Nat \ {0}  BY <1>3
<1>5. cur[th][l] \in Nat /\ cur[th][l] <= t  BY <1>2, <1>3 DEF Views
<1> HIDE DEF t
<1>6. new = [cur[th] EXCEPT ![l] = t]
  <2>1. (IF cur[th][l] >= t THEN cur[th][l] ELSE t) = t  BY <1>4, <1>5
  <2>2. QED  BY <2>1 DEF Advance
<1>7. new \in Views(Loc) /\ old \in Views(Loc) /\ seen \in Views(Loc)
  BY <1>2, <1>4, AdvanceFacts
<1> HIDE DEF new, old, seen
<1>8. m \in Messages(Loc) /\ m.val = val /\ m.view = view  BY <1>7 DEF Messages
<1> HIDE DEF m
<1>9. /\ mem'[l] = Append(mem[l], m)
      /\ \A k \in Loc : k # l => mem'[k] = mem[k]
      /\ mem' \in [Loc -> Seq(Messages(Loc))]
  BY <1>1, <1>2, <1>8 DEF MemoryOK
<1>10. /\ Len(mem'[l]) = t /\ mem'[l][t] = m
       /\ \A u \in 1 .. Newest(l) : mem'[l][u] = mem[l][u]
  BY <1>2, <1>8, <1>9 DEF t, Newest
<1>11. /\ Newest(l)' = t
       /\ \A k \in Loc : k # l => Newest(k)' = Newest(k)
  BY <1>9, <1>10 DEF Newest
<1>12. /\ cur' \in [Thread -> Views(Loc)] /\ acq' \in [Thread -> Views(Loc)]
       /\ cur'[th] = new
  BY <1>1, <1>7 DEF MemoryOK
<1>13. MemoryOK(Loc, Thread)'  BY <1>1, <1>9, <1>12 DEF MemoryOK
<1>14. QED  BY <1>1, <1>6, <1>8, <1>9, <1>10, <1>11, <1>12, <1>13 DEF t

(* A Relaxed load by a thread that has seen the newest message of l can    *)
(* only return that one, and tells the thread nothing new.                 *)
LEMMA NewestLoad ==
    ASSUME NEW Loc, NEW Thread, MemoryOK(Loc, Thread),
           NEW th \in Thread, NEW l \in Loc, NEW t,
           Load(th, l, t, "Relaxed", "None"), cur[th][l] = Newest(l)
    PROVE  /\ MemoryOK(Loc, Thread)' /\ mem' = mem /\ cur' = cur
           /\ t = Newest(l) /\ t \in 1 .. Newest(l)
<1> DEFINE view == mem[l][t].view
           seen == Advance(acq[th], l, t)
<1>1. /\ t \in cur[th][l] .. Newest(l)
      /\ cur' = [cur EXCEPT ![th] = Advance(cur[th], l, t)]
      /\ acq' = [acq EXCEPT ![th] = Join(seen, view)]
      /\ mem' = mem /\ rel' = rel
  BY DEF Load
<1>2. cur[th] \in Views(Loc) /\ acq[th] \in Views(Loc)  BY DEF MemoryOK
<1>3. Newest(l) \in Nat /\ cur[th][l] \in Nat \ {0}  BY <1>2, MessageFacts DEF Views
<1>4. t = Newest(l) /\ t \in 1 .. Newest(l) /\ t \in Nat \ {0}  BY <1>1, <1>3
<1>5. view \in Views(Loc)  BY <1>4, MessageFacts
<1>6. seen \in Views(Loc)  BY <1>2, <1>4, AdvanceFacts
<1>7. Join(seen, view) \in Views(Loc)  BY <1>5, <1>6, JoinFacts
<1>8. Advance(cur[th], l, t) = cur[th]
  <2>1. (IF cur[th][l] >= t THEN cur[th][l] ELSE t) = cur[th][l]  BY <1>3, <1>4
  <2>2. [cur[th] EXCEPT ![l] = cur[th][l]] = cur[th]  BY <1>2 DEF Views
  <2>3. QED  BY <2>1, <2>2 DEF Advance
<1>9. cur' = cur  BY <1>1, <1>8 DEF MemoryOK
<1>10. acq' \in [Thread -> Views(Loc)]  BY <1>1, <1>7 DEF MemoryOK
<1>11. QED  BY <1>1, <1>4, <1>9, <1>10 DEF MemoryOK

(* A load raises the thread's view of k no higher than what it had, what   *)
(* it reads and, when it acquires, what the message carries.               *)
LEMMA LoadBound ==
    ASSUME NEW Loc, NEW Thread, MemoryOK(Loc, Thread),
           NEW th \in Thread, NEW l \in Loc, NEW t, NEW ordering, NEW fence,
           Load(th, l, t, ordering, fence), t \in 1 .. Newest(l),
           NEW k \in Loc, NEW n \in Nat,
           (IF fence = "Acquire" THEN acq[th][k] ELSE cur[th][k]) <= n,
           k = l => t <= n, ordering = "Acquire" => mem[l][t].view[k] <= n
    PROVE  cur'[th][k] <= n
<1> DEFINE base == IF fence = "Acquire" THEN acq[th] ELSE cur[th]
           view == mem[l][t].view
           advanced == Advance(base, l, t)
<1>1. cur' = [cur EXCEPT ![th] = IF ordering = "Acquire" THEN Join(advanced, view)
                                 ELSE advanced]
  BY DEF Load
<1>2. base \in Views(Loc) /\ view \in Views(Loc) /\ t \in Nat \ {0}
  <2>1. cur[th] \in Views(Loc) /\ acq[th] \in Views(Loc)  BY DEF MemoryOK
  <2>2. mem[l][t].view \in Views(Loc) /\ Newest(l) \in Nat  BY MessageFacts
  <2>3. QED  BY <2>1, <2>2
<1>3. base[k] <= n  OBVIOUS
<1>4. cur \in [Thread -> Views(Loc)]  BY DEF MemoryOK
<1> HIDE DEF base, view
<1>5. advanced \in Views(Loc) /\ advanced[k] <= n
  BY <1>2, <1>3 DEF Advance, Views
<1> HIDE DEF advanced
<1>6. CASE ordering = "Acquire"
  <2>1. cur'[th] = Join(advanced, view)  BY <1>1, <1>4, <1>6
  <2>2. view[k] <= n  BY <1>6 DEF view
  <2>3. Join(advanced, view)[k] <= n  BY <1>2, <1>5, <2>2 DEF Join, Views
  <2>4. QED  BY <2>1, <2>3
<1>7. CASE ordering # "Acquire"  BY <1>1, <1>4, <1>5, <1>7
<1>8. QED  BY <1>6, <1>7

(* The message a thread stores says that it exists, and no more. *)
LEMMA StoreBound ==
    ASSUME NEW Loc, NEW Thread, MemoryOK(Loc, Thread),
           NEW th \in Thread, NEW l \in Loc, NEW val, NEW ordering, NEW fence,
           Store(th, l, val, ordering, fence),
           cur[th][l] <= Newest(l), rel[th][l] <= Newest(l)
    PROVE  mem'[l][Newest(l) + 1].view[l] = Newest(l) + 1
<1> DEFINE t == Newest(l) + 1
           new == Advance(cur[th], l, t)
           old == Advance(rel[th], l, t)
           view == IF ordering = "Release" THEN new ELSE old
           m == [val |-> val, view |-> view]
<1>1. mem' = [mem EXCEPT ![l] = Append(mem[l], m)]  BY DEF Store
<1>2. /\ mem \in [Loc -> Seq(Messages(Loc))] /\ Newest(l) \in Nat
      /\ cur[th] \in Views(Loc) /\ rel[th] \in Views(Loc)
  BY MessageFacts DEF MemoryOK
<1>3. t \in Nat \ {0} /\ cur[th][l] <= t /\ rel[th][l] <= t
  BY <1>2 DEF Views
<1> HIDE DEF t
<1>4. new[l] = t /\ old[l] = t  BY <1>2, <1>3, AdvanceFacts
<1>5. view[l] = t  BY <1>4
<1> HIDE DEF view
<1>6. m.view[l] = t  BY <1>5
<1> HIDE DEF m
<1>7. mem'[l] = Append(mem[l], m)  BY <1>1, <1>2
<1>8. mem'[l][Len(mem[l]) + 1] = m  BY <1>2, <1>7
<1>9. QED  BY <1>6, <1>8 DEF t, Newest

(* A thread that is handed a view learns no more than the two knew. *)
LEMMA HandOverBound ==
    ASSUME NEW Loc, NEW Thread, MemoryOK(Loc, Thread),
           NEW th \in Thread, NEW to \in Thread, HandOver(th, to),
           NEW k \in Loc, NEW n \in Nat, cur[to][k] <= n, cur[th][k] <= n
    PROVE  cur'[to][k] <= n
<1>1. cur' = [cur EXCEPT ![to] = Join(cur[to], cur[th])]  BY DEF HandOver
<1>2. cur \in [Thread -> Views(Loc)]  BY DEF MemoryOK
<1>3. cur'[to] = Join(cur[to], cur[th])  BY <1>1, <1>2
<1>4. Join(cur[to], cur[th])[k] <= n  BY <1>2 DEF Join, Views
<1>5. QED  BY <1>3, <1>4
=============================================================================

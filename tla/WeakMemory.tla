----------------------------- MODULE WeakMemory -----------------------------
(***************************************************************************)
(* The release/acquire memory of Rust's std::sync::atomic, as the data     *)
(* structures of this crate use it (external: the crate does not implement *)
(* it).  It is an operational, view-based presentation of the C11 model    *)
(* restricted to what the crate needs: every location has one writer at a  *)
(* time, there is no read-modify-write and no SeqCst access.               *)
(*                                                                         *)
(* mem[l] is the modification order of location l, a sequence of messages; *)
(* the index of a message is its timestamp.  A view maps each location to  *)
(* a timestamp.  A thread th has three views:                              *)
(*   cur[th]  what th has observed: th cannot read an older message;       *)
(*   acq[th]  what th will have observed after fence(Acquire);             *)
(*   rel[th]  what th had observed at its last fence(Release).             *)
(* A message carries the view its reader acquires: all of the writer's     *)
(* cur for a Release store, only the writer's rel for a Relaxed one.       *)
(***************************************************************************)
EXTENDS Integers, Sequences

VARIABLES mem, cur, acq, rel

memVars == <<mem, cur, acq, rel>>

Views(Loc) == [Loc -> Nat \ {0}]
Messages(Loc) == [val : Nat, view : Views(Loc)]

(* The memory and the views of all threads are well formed: the part of    *)
(* each type invariant that is about the memory.                           *)
MemoryOK(Loc, Thread) ==
    /\ mem \in [Loc -> Seq(Messages(Loc))]
    /\ cur \in [Thread -> Views(Loc)]
    /\ acq \in [Thread -> Views(Loc)]
    /\ rel \in [Thread -> Views(Loc)]

Join(v, w) == [l \in DOMAIN v |-> IF v[l] >= w[l] THEN v[l] ELSE w[l]]
Advance(v, l, t) == [v EXCEPT ![l] = IF v[l] >= t THEN v[l] ELSE t]

(* The memory before any thread runs: one message per location. *)
FirstView(Loc) == [l \in Loc |-> 1]
InitMemory(Loc, Thread, val) ==
    /\ mem = [l \in Loc |-> <<[val |-> val[l], view |-> FirstView(Loc)]>>]
    /\ cur = [th \in Thread |-> FirstView(Loc)]
    /\ acq = [th \in Thread |-> FirstView(Loc)]
    /\ rel = [th \in Thread |-> FirstView(Loc)]

Newest(l) == Len(mem[l])
Readable(th, l) == cur[th][l] .. Newest(l)

(* Thread th loads message t of l with the given ordering, right after     *)
(* executing fence(fence) ("None" when there is no fence before the load). *)
Load(th, l, t, ordering, fence) ==
    LET base == IF fence = "Acquire" THEN acq[th] ELSE cur[th]
        seen == Join(Advance(acq[th], l, t), mem[l][t].view)
    IN  /\ t \in base[l] .. Newest(l)
        /\ cur' = [cur EXCEPT ![th] =
                      IF ordering = "Acquire"
                      THEN Join(Advance(base, l, t), mem[l][t].view)
                      ELSE Advance(base, l, t)]
        /\ acq' = [acq EXCEPT ![th] = seen]
        /\ UNCHANGED <<mem, rel>>

(* Thread th stores val to l with the given ordering and then executes     *)
(* fence(fence).                                                           *)
Store(th, l, val, ordering, fence) ==
    LET t == Newest(l) + 1
        new == Advance(cur[th], l, t)
        view == IF ordering = "Release" THEN new ELSE Advance(rel[th], l, t)
    IN  /\ mem' = [mem EXCEPT ![l] = Append(@, [val |-> val, view |-> view])]
        /\ cur' = [cur EXCEPT ![th] = new]
        /\ acq' = [acq EXCEPT ![th] = Advance(@, l, t)]
        /\ rel' = IF fence = "Release" THEN [rel EXCEPT ![th] = new] ELSE rel

(* An access through UnsafeCell::with_mut is not atomic: it races unless   *)
(* every earlier access to l happened before it.                           *)
HappensAfterAll(th, l) == cur[th][l] = Newest(l)

(* Thread th hands everything it has observed to thread to (spawn, a move  *)
(* through a synchronised channel, a join).                                *)
HandOver(th, to) ==
    /\ cur' = [cur EXCEPT ![to] = Join(@, cur[th])]
    /\ acq' = [acq EXCEPT ![to] = Join(@, cur[th])]
    /\ UNCHANGED <<mem, rel>>
=============================================================================

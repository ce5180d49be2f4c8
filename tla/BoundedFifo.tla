---------------------------- MODULE BoundedFifo ----------------------------
(***************************************************************************)
(* What the SPSC queue promises: a first-in first-out queue of at most     *)
(* CAPACITY items that owns each of them until it hands it out, and that   *)
(* drops the ones nobody took when it is destroyed.                        *)
(***************************************************************************)
EXTENDS Integers, Sequences

CONSTANT CAPACITY

VARIABLES
    queue,   \* the items in the queue, oldest first
    sent,    \* number of items accepted; item n is the n-th
    taken,   \* number of items handed out by pop
    closed   \* both handles are gone

fifoVars == <<queue, sent, taken, closed>>

Init == queue = <<>> /\ sent = 0 /\ taken = 0 /\ closed = FALSE

Enqueue ==
    /\ ~closed /\ Len(queue) < CAPACITY
    /\ queue' = Append(queue, sent + 1)
    /\ sent' = sent + 1
    /\ UNCHANGED <<taken, closed>>

Dequeue ==
    /\ ~closed /\ queue # <<>>
    /\ Head(queue) = taken + 1
    /\ queue' = Tail(queue)
    /\ taken' = taken + 1
    /\ UNCHANGED <<sent, closed>>

Close ==
    /\ closed' = TRUE
    /\ UNCHANGED <<queue, sent, taken>>

(* Destroying the queue drops what is left, oldest first. *)
Discard ==
    /\ closed /\ queue # <<>>
    /\ queue' = Tail(queue)
    /\ UNCHANGED <<sent, taken, closed>>

Next == Enqueue \/ Dequeue \/ Close \/ Discard

Spec == Init /\ [][Next]_fifoVars
=============================================================================

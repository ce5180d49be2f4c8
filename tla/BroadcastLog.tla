---------------------------- MODULE BroadcastLog ----------------------------
(***************************************************************************)
(* What the SPMC broadcast queue promises: a log of which only the last    *)
(* CAPACITY entries are kept.  Entry p holds the value p + 1.  A reader    *)
(* gets the entries in order, one by one, except that once it is more than *)
(* CAPACITY entries behind it may be moved forward, and told by how much.  *)
(***************************************************************************)
EXTENDS Integers

CONSTANTS Readers, CAPACITY

VARIABLES
    begun, published, \* entries being written, entries complete
    pos,              \* pos[c]: the next entry for reader c
    out               \* out[c]: what c's last read delivered, 0 for nothing

logVars == <<begun, published, pos, out>>

Init ==
    /\ begun = 0 /\ published = 0
    /\ pos = [c \in Readers |-> 0]
    /\ out = [c \in Readers |-> 0]

Begin ==
    /\ begun = published
    /\ begun' = begun + 1
    /\ UNCHANGED <<published, pos, out>>

Publish ==
    /\ published < begun
    /\ published' = begun
    /\ UNCHANGED <<begun, pos, out>>

Deliver(c) ==
    /\ pos[c] < published
    /\ out' = [out EXCEPT ![c] = pos[c] + 1]
    /\ pos' = [pos EXCEPT ![c] = @ + 1]
    /\ UNCHANGED <<begun, published>>

(* Entry pos[c] has been overwritten: only then is the reader moved, and   *)
(* at least CAPACITY - 1 entries on.                                       *)
Skip(c) ==
    /\ begun > pos[c] + CAPACITY
    /\ \E n \in CAPACITY - 1 .. published - 1 - pos[c] : pos' = [pos EXCEPT ![c] = @ + n]
    /\ out' = [out EXCEPT ![c] = 0]
    /\ UNCHANGED <<begun, published>>

(* A reader may be told that there is nothing new, although an entry that  *)
(* it does not know of yet has been published.                             *)
Nothing(c) ==
    /\ out' = [out EXCEPT ![c] = 0]
    /\ UNCHANGED <<begun, published, pos>>

(* A new reader starts where the reader it is a copy of is. *)
Copy(c, new) ==
    /\ pos' = [pos EXCEPT ![new] = pos[c]]
    /\ UNCHANGED <<begun, published, out>>

Next ==
    \/ Begin \/ Publish
    \/ \E c \in Readers : Deliver(c) \/ Skip(c) \/ Nothing(c)
    \/ \E c, new \in Readers : Copy(c, new)

Spec == Init /\ [][Next]_logVars
=============================================================================

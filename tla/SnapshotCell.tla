---------------------------- MODULE SnapshotCell ----------------------------
(***************************************************************************)
(* What a seqlock promises: an atomic cell whose value is the number of    *)
(* the last completed write.  A read returns the value of one completed    *)
(* write, never an older one than the reader already knows of.             *)
(***************************************************************************)
EXTENDS Integers

CONSTANT Readers

VARIABLES
    version, \* number of completed writes
    floor,   \* floor[r]: the newest write reader r is known to have observed
    last     \* last[r]: the value r's last read returned

cellVars == <<version, floor, last>>

Init ==
    /\ version = 0
    /\ floor = [r \in Readers |-> 0]
    /\ last = [r \in Readers |-> 0]

Write ==
    /\ version' = version + 1
    /\ UNCHANGED <<floor, last>>

(* r learns of a write: from another thread, or half-way through a read. *)
Observe(r) ==
    /\ \E v \in floor[r] .. version : floor' = [floor EXCEPT ![r] = v]
    /\ UNCHANGED <<version, last>>

(* r's read returns a value, and it is the newest one r knows of. *)
Return(r) ==
    /\ last' = [last EXCEPT ![r] = floor'[r]]
    /\ \E v \in floor[r] .. version : floor' = [floor EXCEPT ![r] = v]
    /\ UNCHANGED version

Next == Write \/ \E r \in Readers : Observe(r) \/ Return(r)

Spec == Init /\ [][Next]_cellVars
=============================================================================

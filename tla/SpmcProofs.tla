----------------------------- MODULE SpmcProofs -----------------------------
(***************************************************************************)
(* The SPMC broadcast queue delivers every value whole and at its position *)
(* or says how many were lost, for every number of consumers, capacity,    *)
(* number of words and every word size that is a multiple of the capacity. *)
(*                                                                         *)
(* The argument.  Position q is the q-th publish, counted without the      *)
(* wrap-around; it is in the slot of q, in turn Turn(q) of the ring.  Each *)
(* slot's messages come in that order: the odd sequence number of q is     *)
(* message OddAt(q), the even one EvenAt(q), its words are WordAt(q).      *)
(* Three facts about the views of messages carry the proof (History):      *)
(* the even number comes with the words, a word comes with the odd number  *)
(* that was stored before it, and the cursor with the even numbers of all  *)
(* positions before it.  So a consumer past the empty check cannot see its *)
(* slot before its own position, and if it reads a word of a later turn,   *)
(* seq2 is at least that turn's odd number: unless the sequence numbers    *)
(* went round, it differs from seq1.                                       *)
(*                                                                         *)
(* The benchmarks around the queue keep this invariant: their flag is one  *)
(* more location.  It is stored after the last publish with a view of the  *)
(* newest cursor (Flag), so a consumer that acquired it and then finds the *)
(* queue empty is at the end; each result it has counted has moved it on   *)
(* (Counted).                                                              *)
(***************************************************************************)
EXTENDS SpmcBench, WeakMemoryProofs, ModLemmas

Turn(q) == q \div CAPACITY
OddAt(q) == 2 * Turn(q) + 2
EvenAt(q) == 2 * Turn(q) + 3
WordAt(q) == Turn(q) + 2

(* Positions that the write cursor has gone past. *)
Published == Newest(CURSOR) - 1

(* How many messages of position Published the producer has stored. *)
SeqsStored == IF ppc = "words" THEN 1 ELSE IF ppc = "cursor" THEN 2 ELSE 0
WordsStored(w) == IF ppc = "cursor" \/ (ppc = "words" /\ w \notin wtodo) THEN 1 ELSE 0

(* Where the producer is, and how many messages each location has: q is    *)
(* the position that will be, or is being, written to its slot.            *)
Producing ==
    /\ begun = IF ppc = "idle" THEN Published ELSE Published + 1
    /\ begun <= MAX_PUBLISH
    /\ ppc # "idle" => w_pos = Wrap(Published)
    /\ \A l \in Loc : cur["P"][l] = Newest(l)
    /\ \A q \in Published .. Published + CAPACITY - 1 :
          /\ Newest(SeqAt(slot(q))) = OddAt(q) - 1 + (IF q = Published THEN SeqsStored ELSE 0)
          /\ \A w \in Words :
                Newest(DataAt(slot(q), w))
                    = WordAt(q) - 1 + (IF q = Published THEN WordsStored(w) ELSE 0)

(* The messages: what they say, and what a thread that acquires one learns *)
(* (an odd number is loaded with Acquire too, but nothing depends on it).  *)
CursorMessage(t) ==
    LET m == mem[CURSOR][t]
    IN  m.val = Wrap(t - 1) /\ \A q \in 0 .. t - 2 : m.view[SeqAt(slot(q))] >= EvenAt(q)
OddMessage(q) ==
    LET l == SeqAt(slot(q))
    IN  OddAt(q) <= Newest(l) => mem[l][OddAt(q)].val = Wrap(2 * q + 1)
EvenMessage(q) ==
    LET l == SeqAt(slot(q))
        m == mem[l][EvenAt(q)]
    IN  EvenAt(q) <= Newest(l) =>
            /\ m.val = Wrap(2 * q + 2) /\ m.view[CURSOR] >= q + 1
            /\ \A w \in Words : m.view[DataAt(slot(q), w)] >= WordAt(q)
WordMessage(q, w) ==
    LET l == DataAt(slot(q), w)
        m == mem[l][WordAt(q)]
    IN  WordAt(q) <= Newest(l) => m.val = q + 1 /\ m.view[SeqAt(slot(q))] >= OddAt(q)
History ==
    /\ \A t \in 1 .. Newest(CURSOR) : CursorMessage(t)
    /\ \A q \in Nat : OddMessage(q) /\ EvenMessage(q) /\ \A w \in Words : WordMessage(q, w)

(* What fences give: the words will be stored with the odd number; and a   *)
(* thread has acquired at least what it has observed.                      *)
Fences ==
    /\ ppc = "words" => rel["P"][SeqAt(slot(Published))] >= OddAt(Published)
    /\ \A th \in Thread : \A l \in Loc : acq[th][l] >= cur[th][l]

(* A consumer that holds the write cursor cw. *)
Knows(c, cw) ==
    /\ cached_write_cursor[c] = Wrap(cw)
    /\ pos[c] <= cw /\ cw <= Published /\ cur[c][CURSOR] >= cw + 1
    /\ \A q \in 0 .. cw - 1 : cur[c][SeqAt(slot(q))] >= EvenAt(q)
    /\ cpc[c] \in {"seq1", "lapped", "words"} => pos[c] < cw

(* A word that has been read is of this position or of a later turn, which *)
(* then has been announced.                                                *)
WordRead(c, w, q) ==
    /\ slot(q) = slot(pos[c]) /\ pos[c] <= q
    /\ got[c][w] = q + 1
    /\ acq[c][SeqAt(slot(pos[c]))] >= OddAt(q)

Reader(c) ==
    /\ read_cursor[c] = Wrap(pos[c])
    /\ \E cw \in Nat : Knows(c, cw)
    /\ cpc[c] = "lapped" =>
          cur[c][CURSOR] >= pos[c] + CAPACITY + 1 /\ begun >= pos[c] + CAPACITY + 1
    /\ cpc[c] = "words" => \A w \in Words :
          /\ cur[c][DataAt(slot(pos[c]), w)] >= WordAt(pos[c])
          /\ w \in rtodo[c] \/ \E q \in Nat : WordRead(c, w, q)

(* What try_read has returned. *)
Returned(c) ==
    /\ res[c].lag <= MAX_PUBLISH
    /\ res[c].kind = "Value" /\ res[c].lag <= WORD \div 2 =>
          \A w \in Words : res[c].val[w] = res[c].at + 1
    /\ res[c].kind = "Lapped" /\ res[c].lag <= WORD /\ CAPACITY > 1 => res[c].skipped > 0

Readers == \A c \in Consumers : Reader(c) /\ Returned(c)

IInv == TypeOK /\ Producing /\ History /\ Fences /\ Readers

-----------------------------------------------------------------------------
(* The ring. *)

(* The constants. *)
LEMMA Constants ==
    /\ CAPACITY \in Nat \ {0} /\ WORD \in Nat \ {0} /\ WORD % CAPACITY = 0 /\ WORD % 2 = 0
    /\ 2 * CAPACITY < WORD /\ MAX_PUBLISH \in Nat /\ NWords \in Nat \ {0}
BY SpmcAssumption

(* A position has a slot and a turn, ... *)
LEMMA PositionFacts ==
    ASSUME NEW q \in Nat
    PROVE  /\ slot(q) \in Slots /\ Turn(q) \in Nat /\ q = Turn(q) * CAPACITY + slot(q)
           /\ OddAt(q) \in Nat /\ EvenAt(q) \in Nat /\ WordAt(q) \in Nat
           /\ OddAt(q) >= 2 /\ EvenAt(q) = OddAt(q) + 1 /\ WordAt(q) >= 2
<1>1. /\ q % CAPACITY \in 0 .. CAPACITY - 1
      /\ q = (q \div CAPACITY) * CAPACITY + (q % CAPACITY)
  BY q \in Int, Constants, DivMod
<1>2. q \div CAPACITY \in Nat  BY Constants, DivNat
<1>3. slot(q) \in Slots /\ Turn(q) \in Nat /\ q = Turn(q) * CAPACITY + slot(q)
  BY <1>1, <1>2 DEF slot, Turn, Slots
<1>4. QED  BY <1>3 DEF OddAt, EvenAt, WordAt

(* ... and is known by them. *)
LEMMA PositionOf ==
    ASSUME NEW s \in Slots, NEW k \in Nat
    PROVE  \E q \in Nat : slot(q) = s /\ Turn(q) = k
<1>1. s \in 0 .. CAPACITY - 1 /\ k \in Int  BY DEF Slots
<1>2. k * CAPACITY + s \in Nat
  <2>1. k * CAPACITY \in Nat  BY Constants
  <2>2. QED  BY <1>1, <2>1, Constants
<1>3. PICK q \in Nat : q = k * CAPACITY + s  BY <1>2
<1>4. q \in Int  BY <1>3
<1>5. q % CAPACITY = s /\ q \div CAPACITY = k
  BY <1>1, <1>3, <1>4, Constants, ModUnique
<1>6. QED  BY <1>5 DEF slot, Turn

(* Positions of one slot are in the order of their turns. *)
LEMMA TurnOrder ==
    ASSUME NEW p \in Nat, NEW q \in Nat, slot(p) = slot(q)
    PROVE  /\ p < q => Turn(p) + 1 <= Turn(q) /\ p + CAPACITY <= q
           /\ Turn(p) <= Turn(q) => p <= q
           /\ Turn(p) = Turn(q) => p = q
<1> DEFINE a == Turn(p)
           b == Turn(q)
           s == slot(p)
<1>1. /\ a \in Nat /\ b \in Nat /\ s \in Nat
      /\ p = a * CAPACITY + s /\ q = b * CAPACITY + s
  BY PositionFacts DEF Slots
<1>2. a < b => a * CAPACITY + CAPACITY <= b * CAPACITY
  BY <1>1, Constants, MultiplesApart
<1>3. b < a => b * CAPACITY + CAPACITY <= a * CAPACITY
  BY <1>1, Constants, MultiplesApart
<1> HIDE DEF a, b, s
<1>4. PICK x \in Int, y \in Int : x = a * CAPACITY /\ y = b * CAPACITY
  BY <1>1, Constants
<1>5. /\ p = x + s /\ q = y + s /\ (a < b => x + CAPACITY <= y)
      /\ (b < a => y + CAPACITY <= x) /\ (a = b => x = y)
  BY <1>1, <1>2, <1>3, <1>4
<1>6. /\ p < q => a + 1 <= b /\ p + CAPACITY <= q
      /\ a <= b => p <= q
      /\ a = b => p = q
  BY <1>1, <1>5, Constants
<1>7. QED  BY <1>6 DEF a, b

(* A message belongs to one position. *)
LEMMA OnePosition ==
    ASSUME NEW p \in Nat, NEW q \in Nat, slot(p) = slot(q),
           OddAt(p) = OddAt(q) \/ EvenAt(p) = EvenAt(q) \/ WordAt(p) = WordAt(q)
    PROVE  p = q
<1>1. Turn(p) \in Nat /\ Turn(q) \in Nat  BY PositionFacts
<1>2. Turn(p) = Turn(q)  BY <1>1 DEF OddAt, EvenAt, WordAt
<1>3. QED  BY <1>2, TurnOrder

(* The positions of one turn of the ring have a slot each. *)
LEMMA SlotIn ==
    ASSUME NEW n \in Nat, NEW s \in Slots
    PROVE  \E r \in n .. n + CAPACITY - 1 : r \in Nat /\ slot(r) = s
<1>1. s \in 0 .. CAPACITY - 1 /\ s \in Int  BY DEF Slots
<1>2. PICK d \in Int : d = (s - n) % CAPACITY
  <2>1. s - n \in Int  BY <1>1
  <2>2. (s - n) % CAPACITY \in 0 .. CAPACITY - 1  BY <2>1, Constants, DivMod
  <2>3. QED  BY <2>2
<1>3. d \in 0 .. CAPACITY - 1
  <2>1. s - n \in Int  BY <1>1
  <2>2. QED  BY <1>2, <2>1, Constants, DivMod
<1>4. (d + n) % CAPACITY = ((s - n) + n) % CAPACITY
  <2>1. s - n \in Int /\ n \in Int  BY <1>1
  <2>2. QED  BY <1>2, <2>1, Constants, ModAdd
<1>5. (s - n) + n = s /\ d + n = n + d  BY <1>1, <1>2
<1>6. s % CAPACITY = s  BY <1>1, Constants, ModSmall
<1>7. slot(n + d) = s  BY <1>4, <1>5, <1>6 DEF slot
<1>8. n + d \in n .. n + CAPACITY - 1 /\ n + d \in Nat  BY <1>3, Constants
<1>9. QED  BY <1>7, <1>8

(* A counter that has wrapped finds the slot of its position. *)
LEMMA SlotWrap ==
    ASSUME NEW q \in Nat
    PROVE  slot(Wrap(q)) = slot(q) /\ Wrap(q) \in 0 .. WORD - 1
<1>1. q % WORD \in 0 .. WORD - 1  BY q \in Int, Constants, DivMod
<1>2. (q % WORD) % CAPACITY = q % CAPACITY  BY q \in Int, Constants, ModOfMod
<1>3. QED  BY <1>1, <1>2 DEF slot, Wrap

(* Locations are distinct. *)
LEMMA LocFacts ==
    /\ CURSOR \in Loc /\ "P" \in Thread /\ Consumers \subseteq Thread /\ "P" \notin Consumers
    /\ \A s \in Slots : SeqAt(s) \in Loc /\ SeqAt(s) # CURSOR
    /\ \A s \in Slots, w \in Words : DataAt(s, w) \in Loc /\ DataAt(s, w) # CURSOR
    /\ \A s, j \in Slots : SeqAt(s) = SeqAt(j) => s = j
    /\ \A s, j \in Slots, w \in Words : SeqAt(s) # DataAt(j, w)
    /\ \A s, j \in Slots, v, w \in Words : DataAt(s, v) = DataAt(j, w) => s = j /\ v = w
BY SpmcAssumption DEF Loc, Thread, CURSOR, SeqAt, DataAt

-----------------------------------------------------------------------------
(* What the invariant says of a state. *)

(* Types, in the form the steps need. *)
LEMMA Basics ==
    ASSUME IInv
    PROVE  /\ MemoryOK(Loc, Thread)
           /\ \A l \in Loc : Newest(l) \in Nat \ {0}
           /\ \A th \in Thread, l \in Loc : cur[th][l] \in Nat /\ acq[th][l] \in Nat
           /\ Published \in Nat /\ begun \in Nat /\ Published <= begun /\ begun <= MAX_PUBLISH
           /\ \A c \in Consumers : pos[c] \in Nat /\ slot(read_cursor[c]) = slot(pos[c])
<1>1. MemoryOK(Loc, Thread) /\ begun \in Nat /\ \A c \in Consumers : pos[c] \in Nat
  BY DEF IInv, TypeOK
<1>2. \A th \in Thread, l \in Loc : cur[th][l] \in Nat \ {0} /\ acq[th][l] \in Nat
  BY <1>1 DEF MemoryOK, Views
<1>3. \A l \in Loc : Newest(l) \in Nat \ {0}
  <2>1. \A l \in Loc : cur["P"][l] = Newest(l)  BY DEF IInv, Producing
  <2>2. QED  BY <1>2, <2>1, LocFacts
<1>4. Published \in Nat  BY <1>3, LocFacts DEF Published
<1>5. begun <= MAX_PUBLISH /\ Published <= begun  BY <1>1, <1>4 DEF IInv, Producing
<1>6. \A c \in Consumers : slot(read_cursor[c]) = slot(pos[c])
  <2>1. \A c \in Consumers : read_cursor[c] = Wrap(pos[c])  BY DEF IInv, Readers, Reader
  <2>2. QED  BY <1>1, <2>1, SlotWrap
<1>7. QED  BY <1>1, <1>2, <1>3, <1>4, <1>5, <1>6

(* The messages of a position are there exactly when the producer has      *)
(* stored them.                                                            *)
LEMMA Stored ==
    ASSUME IInv, NEW q \in Nat
    PROVE  /\ OddAt(q) <= Newest(SeqAt(slot(q))) => q < begun
           /\ EvenAt(q) <= Newest(SeqAt(slot(q))) =>
                 q < Published \/ (q = Published /\ ppc = "cursor")
           /\ q < Published \/ (q = Published /\ ppc = "cursor") =>
                 Newest(SeqAt(slot(q))) >= EvenAt(q)
<1>1. Published \in Nat /\ begun \in Nat /\ Published <= begun  BY Basics
<1>2. slot(q) \in Slots /\ Turn(q) \in Nat  BY PositionFacts
<1>3. PICK r \in Published .. Published + CAPACITY - 1 : r \in Nat /\ slot(r) = slot(q)
  BY <1>1, <1>2, SlotIn
<1>4. Turn(r) \in Nat  BY <1>3, PositionFacts
<1>5. Newest(SeqAt(slot(q))) = 2 * Turn(r) + 1 + (IF r = Published THEN SeqsStored ELSE 0)
  <2>1. Newest(SeqAt(slot(r))) = OddAt(r) - 1 + (IF r = Published THEN SeqsStored ELSE 0)
    BY <1>3 DEF IInv, Producing
  <2>2. QED  BY <1>3, <1>4, <2>1 DEF OddAt, SeqsStored
<1>6. /\ q < r => Turn(q) + 1 <= Turn(r) /\ q + CAPACITY <= r
      /\ r < q => Turn(r) + 1 <= Turn(q)
  BY <1>3, TurnOrder
<1>7. /\ q > r => OddAt(q) > Newest(SeqAt(slot(q)))
      /\ q = r => \/ r # Published /\ OddAt(q) > Newest(SeqAt(slot(q)))
                  \/ r = Published /\ Newest(SeqAt(slot(q))) = OddAt(q) - 1 + SeqsStored
      /\ q < r => Newest(SeqAt(slot(q))) >= EvenAt(q) /\ q < Published
  BY <1>1, <1>2, <1>3, <1>4, <1>5, <1>6, Constants DEF OddAt, EvenAt, SeqsStored
<1>8. ppc # "idle" => begun = Published + 1  BY DEF IInv, Producing
<1>9. EvenAt(q) = OddAt(q) + 1 /\ OddAt(q) \in Nat /\ r \in Int
  BY <1>3, PositionFacts
<1>10. Newest(SeqAt(slot(q))) \in Nat  BY <1>2, Basics, LocFacts
<1>11. CASE q > r
  <2>1. q > Published  BY <1>1, <1>3, <1>11
  <2>2. QED  BY <1>1, <1>7, <1>9, <1>10, <1>11, <2>1
<1>12. CASE q < r  BY <1>1, <1>7, <1>12
<1>13. CASE q = r
  <2>1. CASE r # Published
    <3>1. q > Published  BY <1>1, <1>3, <1>13, <2>1
    <3>2. QED  BY <1>1, <1>7, <1>9, <1>10, <1>13, <2>1, <3>1
  <2>2. CASE r = Published
    BY <1>1, <1>7, <1>8, <1>9, <1>10, <1>13, <2>2 DEF SeqsStored
  <2>3. QED  BY <2>1, <2>2
<1>14. QED  BY <1>9, <1>11, <1>12, <1>13

-----------------------------------------------------------------------------
(* What the steps have in common. *)

(* A consumer that does nothing may learn of more messages. *)
Resting(c) ==
    /\ cpc'[c] = cpc[c] /\ read_cursor'[c] = read_cursor[c] /\ pos'[c] = pos[c]
    /\ cached_write_cursor'[c] = cached_write_cursor[c]
    /\ rtodo'[c] = rtodo[c] /\ got'[c] = got[c] /\ res'[c] = res[c]
    /\ \A l \in Loc : /\ cur'[c][l] \in Nat /\ cur'[c][l] >= cur[c][l]
                      /\ acq'[c][l] \in Nat /\ acq'[c][l] >= acq[c][l]

(* What a consumer knows stays true while the producer goes on. *)
LEMMA KnowsStep ==
    ASSUME IInv, NEW c \in Consumers, NEW cw \in Nat, Knows(c, cw),
           Published' \in Nat, Published' >= Published,
           cached_write_cursor'[c] = cached_write_cursor[c], pos'[c] = pos[c],
           \A l \in Loc : cur'[c][l] \in Nat /\ cur'[c][l] >= cur[c][l],
           cpc'[c] \in {"seq1", "lapped", "words"} => pos[c] < cw
    PROVE  Knows(c, cw)'
<1>1. c \in Thread /\ CURSOR \in Loc  BY LocFacts
<1>2. \A l \in Loc : cur[c][l] \in Nat  BY <1>1, Basics
<1>3. Published \in Nat  BY Basics
<1>4. cw <= Published' /\ cur'[c][CURSOR] >= cw + 1
  BY <1>1, <1>2, <1>3 DEF Knows
<1>5. \A q \in 0 .. cw - 1 : cur'[c][SeqAt(slot(q))] >= EvenAt(q)
  <2> SUFFICES ASSUME NEW q \in 0 .. cw - 1 PROVE cur'[c][SeqAt(slot(q))] >= EvenAt(q)
    OBVIOUS
  <2>1. q \in Nat  OBVIOUS
  <2>2. PICK l \in Loc : l = SeqAt(slot(q))  BY <2>1, PositionFacts, LocFacts
  <2>3. EvenAt(q) \in Nat  BY <2>1, PositionFacts
  <2>4. cur[c][l] >= EvenAt(q)  BY <2>2 DEF Knows
  <2>5. QED  BY <1>2, <2>2, <2>3, <2>4
<1>6. QED  BY <1>4, <1>5 DEF Knows

(* So a consumer that does nothing keeps its part of the invariant. *)
LEMMA RestingStep ==
    ASSUME IInv, NEW c \in Consumers, Resting(c),
           Published' \in Nat, Published' >= Published, begun' \in Nat, begun' >= begun
    PROVE  Reader(c)' /\ Returned(c)'
<1>1. c \in Thread /\ CURSOR \in Loc  BY LocFacts
<1>2. \A l \in Loc : /\ cur[c][l] \in Nat /\ acq[c][l] \in Nat
                     /\ cur'[c][l] \in Nat /\ cur'[c][l] >= cur[c][l]
                     /\ acq'[c][l] \in Nat /\ acq'[c][l] >= acq[c][l]
  BY <1>1, Basics DEF Resting
<1>3. Reader(c) /\ Returned(c)  BY DEF IInv, Readers
<1>4. Returned(c)'  BY <1>3 DEF Resting, Returned
<1>5. read_cursor'[c] = Wrap(pos'[c])  BY <1>3 DEF Reader, Resting
<1>6. (\E cw \in Nat : Knows(c, cw))'
  <2>1. PICK cw \in Nat : Knows(c, cw)  BY <1>3 DEF Reader
  <2>2. cpc'[c] \in {"seq1", "lapped", "words"} => pos[c] < cw  BY <2>1 DEF Knows, Resting
  <2>3. Knows(c, cw)'  BY <1>2, <2>1, <2>2, KnowsStep DEF Resting
  <2>4. QED  BY <2>3
<1>7. pos[c] \in Nat /\ begun \in Nat /\ slot(pos[c]) \in Slots /\ pos'[c] = pos[c]
  BY Basics, PositionFacts DEF Resting
<1>8. cpc'[c] = "lapped" =>
        cur'[c][CURSOR] >= pos'[c] + CAPACITY + 1 /\ begun' >= pos'[c] + CAPACITY + 1
  BY <1>1, <1>2, <1>3, <1>7, Constants DEF Reader, Resting
<1>9. ASSUME cpc'[c] = "words", NEW w \in Words
      PROVE  /\ cur'[c][DataAt(slot(pos'[c]), w)] >= WordAt(pos'[c])
             /\ w \in rtodo'[c] \/ (\E q \in Nat : WordRead(c, w, q)')
  <2>1. PICK l \in Loc : l = DataAt(slot(pos[c]), w)  BY <1>7, LocFacts
  <2>2. PICK k \in Loc : k = SeqAt(slot(pos[c]))  BY <1>7, LocFacts
  <2>3. /\ cur[c][l] >= WordAt(pos[c]) /\ WordAt(pos[c]) \in Nat
        /\ w \in rtodo[c] \/ \E q \in Nat : WordRead(c, w, q)
    BY <1>3, <1>7, <1>9, <2>1, PositionFacts DEF Reader, Resting
  <2>4. cur'[c][l] >= WordAt(pos[c])  BY <1>2, <2>3
  <2>5. ASSUME NEW q \in Nat, WordRead(c, w, q) PROVE WordRead(c, w, q)'
    <3>1. OddAt(q) \in Nat /\ acq[c][k] >= OddAt(q)  BY <2>2, <2>5, PositionFacts DEF WordRead
    <3>2. acq'[c][k] >= OddAt(q)  BY <1>2, <3>1
    <3>3. QED  BY <1>7, <2>2, <2>5, <3>2 DEF WordRead, Resting
  <2>6. QED  BY <1>7, <2>1, <2>3, <2>4, <2>5 DEF Resting
<1>10. QED  BY <1>4, <1>5, <1>6, <1>8, <1>9 DEF Reader

(* A step of consumer c leaves the producer, the messages and the other    *)
(* consumers alone.                                                        *)
Untouched(d) ==
    /\ cpc'[d] = cpc[d] /\ read_cursor'[d] = read_cursor[d] /\ pos'[d] = pos[d]
    /\ cached_write_cursor'[d] = cached_write_cursor[d]
    /\ rtodo'[d] = rtodo[d] /\ got'[d] = got[d] /\ res'[d] = res[d]
ConsumerOnly(c) ==
    /\ mem' = mem /\ rel' = rel /\ UNCHANGED producerVars
    /\ \A th \in Thread : th # c => cur'[th] = cur[th] /\ acq'[th] = acq[th]
    /\ \A l \in Loc : acq'[c][l] >= cur'[c][l]
    /\ \A d \in Consumers : d # c => Untouched(d)

(* So only its own part of the invariant has to be shown. *)
LEMMA ConsumerOnlyStep ==
    ASSUME IInv, NEW c \in Consumers, ConsumerOnly(c), TypeOK', Reader(c)', Returned(c)'
    PROVE  IInv'
<1>1. "P" \in Thread /\ c \in Thread /\ c # "P" /\ CURSOR \in Loc  BY LocFacts
<1>2. /\ mem' = mem /\ rel' = rel /\ UNCHANGED <<ppc, w_pos, wtodo, begun>>
      /\ cur'["P"] = cur["P"]
  BY <1>1 DEF ConsumerOnly, producerVars
<1>3. /\ Published' = Published /\ SeqsStored' = SeqsStored
      /\ \A w : WordsStored(w)' = WordsStored(w)
      /\ \A l : Newest(l)' = Newest(l)
  BY <1>2 DEF Published, SeqsStored, WordsStored, Newest
<1>4. Producing'  BY <1>2, <1>3 DEF IInv, Producing
<1>5. History'
  BY <1>2, <1>3 DEF IInv, History, CursorMessage, OddMessage, EvenMessage, WordMessage
<1>6. \A th \in Thread : \A l \in Loc : acq'[th][l] >= cur'[th][l]
  BY DEF ConsumerOnly, IInv, Fences
<1>7. Fences'  BY <1>2, <1>3, <1>6 DEF IInv, Fences
<1>8. ASSUME NEW d \in Consumers, d # c PROVE Reader(d)' /\ Returned(d)'
  <2>1. cur'[d] = cur[d] /\ acq'[d] = acq[d] /\ Untouched(d)
    BY <1>8, LocFacts DEF ConsumerOnly
  <2>2. \A l \in Loc : cur[d][l] \in Nat /\ acq[d][l] \in Nat  BY Basics, LocFacts
  <2>3. Resting(d)  BY <2>1, <2>2 DEF Resting, Untouched
  <2>4. Published \in Nat /\ begun \in Nat  BY Basics
  <2>5. QED  BY <1>2, <1>3, <2>3, <2>4, RestingStep
<1>9. Readers'  BY <1>8 DEF Readers
<1>10. QED  BY <1>4, <1>5, <1>7, <1>9 DEF IInv

(* A consumer's load. *)
LEMMA ConsumerLoad ==
    ASSUME IInv, NEW c \in Consumers, NEW l \in Loc, NEW t, NEW ordering, NEW fence,
           Load(c, l, t, ordering, fence), UNCHANGED producerVars,
           \A d \in Consumers : d # c => Untouched(d)
    PROVE  /\ ConsumerOnly(c) /\ MemoryOK(Loc, Thread)'
           /\ Published' = Published /\ begun' = begun
           /\ t \in 1 .. Newest(l) /\ t >= cur[c][l] /\ cur'[c][l] >= t
           /\ \A k \in Loc : /\ cur'[c][k] \in Nat /\ cur'[c][k] >= cur[c][k]
                             /\ acq'[c][k] \in Nat /\ acq'[c][k] >= acq[c][k]
                             /\ acq'[c][k] >= mem[l][t].view[k]
           /\ ordering = "Acquire" => \A k \in Loc : cur'[c][k] >= mem[l][t].view[k]
           /\ fence = "Acquire" => t >= acq[c][l]
<1>1. c \in Thread /\ MemoryOK(Loc, Thread)  BY LocFacts, Basics
<1>2. \A k \in Loc : acq[c][k] >= cur[c][k]  BY <1>1 DEF IInv, Fences
<1>3. /\ MemoryOK(Loc, Thread)' /\ mem' = mem /\ rel' = rel
      /\ t \in 1 .. Newest(l) /\ t >= cur[c][l]
      /\ \A u \in Thread : u # c => cur'[u] = cur[u] /\ acq'[u] = acq[u]
      /\ \A k \in Loc : cur'[c][k] >= cur[c][k] /\ acq'[c][k] >= acq[c][k]
      /\ cur'[c][l] >= t
      /\ \A k \in Loc : acq'[c][k] >= mem[l][t].view[k]
      /\ ordering = "Acquire" => \A k \in Loc : cur'[c][k] >= mem[l][t].view[k]
      /\ fence = "Acquire" => t >= acq[c][l]
      /\ \A k \in Loc : acq'[c][k] >= cur'[c][k]
  BY <1>1, <1>2, LoadFacts
<1>4. \A k \in Loc : cur'[c][k] \in Nat /\ acq'[c][k] \in Nat
  BY <1>1, <1>3 DEF MemoryOK, Views
<1>5. Published' = Published /\ begun' = begun
  BY <1>3 DEF Published, Newest, producerVars
<1>6. ConsumerOnly(c)  BY <1>3 DEF ConsumerOnly
<1>7. QED  BY <1>3, <1>4, <1>5, <1>6

-----------------------------------------------------------------------------
(* One lemma per action of a consumer. *)

(* The check against the cached write cursor: different when wrapped means *)
(* different.                                                              *)
LEMMA TryReadStep == ASSUME IInv, NEW c \in Consumers, TryRead(c) PROVE IInv'
<1>1. /\ cpc[c] = "idle"
      /\ cpc' = [cpc EXCEPT ![c] =
                   IF read_cursor[c] = cached_write_cursor[c] THEN "empty" ELSE "seq1"]
      /\ UNCHANGED <<memVars, producerVars, read_cursor, cached_write_cursor,
                     rtodo, got, pos, res>>
  BY DEF TryRead
<1>2. TypeOK  BY DEF IInv
<1>3. TypeOK'
  BY <1>1, <1>2 DEF TypeOK, memVars, producerVars, MemoryOK
<1>4. /\ cpc'[c] = IF read_cursor[c] = cached_write_cursor[c] THEN "empty" ELSE "seq1"
      /\ \A d \in Consumers : d # c => cpc'[d] = cpc[d]
  BY <1>1, <1>2 DEF TypeOK
<1>5. ConsumerOnly(c)
  <2>1. \A l \in Loc : acq[c][l] >= cur[c][l]  BY LocFacts DEF IInv, Fences
  <2>2. QED  BY <1>1, <1>4, <2>1 DEF ConsumerOnly, Untouched, memVars
<1>6. Reader(c) /\ Returned(c)  BY DEF IInv, Readers
<1>7. (\E cw \in Nat : Knows(c, cw))'
  <2>1. PICK cw \in Nat : Knows(c, cw)  BY <1>6 DEF Reader
  <2>2. cpc'[c] \in {"seq1", "lapped", "words"} => pos[c] < cw
    <3>1. pos[c] \in Nat /\ pos[c] <= cw /\ cached_write_cursor[c] = Wrap(cw)
      BY <2>1, Basics DEF Knows
    <3>2. read_cursor[c] = Wrap(pos[c])  BY <1>6 DEF Reader
    <3>3. QED  BY <1>4, <3>1, <3>2
  <2>3. Published \in Nat /\ Published' = Published
    BY <1>1, Basics DEF Published, Newest, memVars
  <2>4. \A l \in Loc : cur[c][l] \in Nat /\ cur' = cur
    BY <1>1, Basics, LocFacts DEF memVars
  <2>5. Knows(c, cw)'  BY <1>1, <2>1, <2>2, <2>3, <2>4, KnowsStep
  <2>6. QED  BY <2>5
<1>8. Reader(c)'  BY <1>1, <1>4, <1>6, <1>7 DEF Reader
<1>9. Returned(c)'  BY <1>1, <1>6 DEF Returned
<1>10. QED  BY <1>3, <1>5, <1>8, <1>9, ConsumerOnlyStep

(* An Acquire load of the write cursor. *)
LEMMA CursorLoad ==
    ASSUME IInv, NEW c \in Consumers, NEW t, Load(c, CURSOR, t, "Acquire", "None"),
           UNCHANGED producerVars, \A d \in Consumers : d # c => Untouched(d)
    PROVE  /\ t \in Nat /\ t - 1 \in Nat /\ t - 1 <= Published /\ cur'[c][CURSOR] >= t
           /\ mem[CURSOR][t].val = Wrap(t - 1) /\ t >= cur[c][CURSOR]
           /\ \A q \in 0 .. t - 2 : cur'[c][SeqAt(slot(q))] >= EvenAt(q)
           /\ \A cw \in Nat : Knows(c, cw) => cw <= t - 1
<1>1. CURSOR \in Loc /\ c \in Thread  BY LocFacts
<1>2. /\ t \in 1 .. Newest(CURSOR) /\ t >= cur[c][CURSOR] /\ cur'[c][CURSOR] >= t
      /\ \A k \in Loc : cur'[c][k] \in Nat /\ cur'[c][k] >= mem[CURSOR][t].view[k]
  BY <1>1, ConsumerLoad
<1>3. Newest(CURSOR) \in Nat /\ cur[c][CURSOR] \in Nat  BY <1>1, Basics
<1>4. t \in Nat /\ t - 1 \in Nat /\ t - 1 <= Published  BY <1>2, <1>3 DEF Published
<1>5. mem[CURSOR][t].val = Wrap(t - 1)  BY <1>2 DEF IInv, History, CursorMessage
<1>6. mem[CURSOR][t].view \in Views(Loc)  BY <1>1, <1>2, Basics, MessageFacts
<1>7. ASSUME NEW q \in 0 .. t - 2 PROVE cur'[c][SeqAt(slot(q))] >= EvenAt(q)
  <2>1. q \in Nat  BY <1>4
  <2>2. PICK l \in Loc : l = SeqAt(slot(q))  BY <2>1, PositionFacts, LocFacts
  <2>3. mem[CURSOR][t].view[l] >= EvenAt(q)
    BY <1>2, <2>2 DEF IInv, History, CursorMessage
  <2>4. mem[CURSOR][t].view[l] \in Nat /\ EvenAt(q) \in Nat
    BY <1>6, <2>1, PositionFacts DEF Views
  <2>5. QED  BY <1>2, <2>2, <2>3, <2>4
<1>8. \A cw \in Nat : Knows(c, cw) => cw <= t - 1
  BY <1>2, <1>3, <1>4 DEF Knows
<1>9. QED  BY <1>2, <1>4, <1>5, <1>7, <1>8

(* is_still_empty() *)
LEMMA IsStillEmptyStep ==
    ASSUME IInv, NEW c \in Consumers, NEW t, IsStillEmptyAt(c, t)
    PROVE  IInv'
<1> DEFINE w == mem[CURSOR][t].val
<1>1. /\ cpc[c] = "empty" /\ Load(c, CURSOR, t, "Acquire", "None")
      /\ cached_write_cursor' = [cached_write_cursor EXCEPT ![c] = w]
      /\ cpc' = [cpc EXCEPT ![c] = IF read_cursor[c] = w THEN "idle" ELSE "seq1"]
      /\ res' = [res EXCEPT ![c] =
                   IF read_cursor[c] = w THEN Result("Empty", Blank, pos[c], 0, 0) ELSE @]
      /\ UNCHANGED <<producerVars, read_cursor, rtodo, got, pos>>
  BY DEF IsStillEmptyAt, CursorLoadOrdering
<1>2. TypeOK  BY DEF IInv
<1>3. /\ cached_write_cursor'[c] = w
      /\ cpc'[c] = IF read_cursor[c] = w THEN "idle" ELSE "seq1"
      /\ res'[c] = IF read_cursor[c] = w THEN Result("Empty", Blank, pos[c], 0, 0) ELSE res[c]
      /\ \A d \in Consumers : d # c => Untouched(d)
  BY <1>1, <1>2 DEF TypeOK, Untouched
<1>4. /\ ConsumerOnly(c) /\ MemoryOK(Loc, Thread)' /\ Published' = Published
      /\ \A k \in Loc : cur'[c][k] \in Nat
  BY <1>1, <1>3, ConsumerLoad, LocFacts
<1>5. /\ t \in Nat /\ t - 1 \in Nat /\ t - 1 <= Published /\ cur'[c][CURSOR] >= t
      /\ w = Wrap(t - 1)
      /\ \A q \in 0 .. t - 2 : cur'[c][SeqAt(slot(q))] >= EvenAt(q)
      /\ \A cw \in Nat : Knows(c, cw) => cw <= t - 1
  BY <1>1, <1>3, CursorLoad
<1>6. Reader(c) /\ Returned(c) /\ pos[c] \in Nat  BY Basics DEF IInv, Readers
<1>7. w \in 0 .. WORD - 1  BY <1>5, SlotWrap
<1>8. Result("Empty", Blank, pos[c], 0, 0)
        \in [kind : {"Empty", "Value", "Lapped"}, val : [Words -> Nat],
             at : Nat, skipped : 0 .. WORD - 1, lag : Nat]
  BY <1>6, Constants DEF Result, Blank
<1>9. TypeOK'
  <2> HIDE DEF w
  <2>1. cached_write_cursor' \in [Consumers -> 0 .. WORD - 1]  BY <1>1, <1>2, <1>7 DEF TypeOK
  <2>2. res' \in [Consumers -> [kind : {"Empty", "Value", "Lapped"}, val : [Words -> Nat],
                                at : Nat, skipped : 0 .. WORD - 1, lag : Nat]]
    BY <1>1, <1>2, <1>8 DEF TypeOK
  <2>3. cpc' \in [Consumers -> {"off", "idle", "empty", "seq1", "lapped", "words"}]
    BY <1>1, <1>2 DEF TypeOK
  <2>4. QED  BY <1>1, <1>2, <1>4, <2>1, <2>2, <2>3 DEF TypeOK, producerVars
<1>10. (\E cw \in Nat : Knows(c, cw))'
  <2>1. PICK old \in Nat : Knows(c, old)  BY <1>6 DEF Reader
  <2>2. PICK cw \in Nat : cw = t - 1  BY <1>5
  <2>3. pos[c] <= cw  BY <1>5, <1>6, <2>1, <2>2 DEF Knows
  <2>4. read_cursor[c] = Wrap(pos[c])  BY <1>6 DEF Reader
  <2>5. cpc'[c] \in {"seq1", "lapped", "words"} => pos[c] < cw
    BY <1>3, <1>5, <1>6, <2>2, <2>3, <2>4
  <2>6. cur'[c][CURSOR] >= cw + 1 /\ cw - 1 = t - 2  BY <1>4, <1>5, <2>2, LocFacts
  <2>7. Knows(c, cw)'
    BY <1>1, <1>3, <1>4, <1>5, <2>2, <2>3, <2>5, <2>6 DEF Knows
  <2>8. QED  BY <2>7
<1>11. Reader(c)'  BY <1>1, <1>3, <1>6, <1>10 DEF Reader
<1>12. Returned(c)'
  <2>1. CASE read_cursor[c] = w  BY <1>3, <2>1, Constants DEF Returned, Result
  <2>2. CASE read_cursor[c] # w  BY <1>3, <1>6, <2>2 DEF Returned
  <2>3. QED  BY <2>1, <2>2
<1>13. QED  BY <1>4, <1>9, <1>11, <1>12, ConsumerOnlyStep

(* Sequence numbers computed from a wrapped cursor are those of its        *)
(* position: try_read's expected_seq, and what publish stores.             *)
LEMMA SeqWrap ==
    ASSUME NEW p \in Nat, NEW k \in {1, 2}
    PROVE  Wrap(2 * Wrap(p) + k) = Wrap(2 * p + k)
<1>1. PICK a \in Int, r \in 0 .. WORD - 1 :
        r = p % WORD /\ p = a * WORD + r
  <2>1. /\ p \div WORD \in Int /\ p % WORD \in 0 .. WORD - 1
        /\ p = (p \div WORD) * WORD + (p % WORD)
    BY p \in Int, Constants, DivMod
  <2>2. QED  BY <2>1
<1>2. 2 * p + k = (2 * r + k) + (2 * a) * WORD
  <2>1. PICK b \in Int : b = a * WORD  BY Constants
  <2>2. (2 * a) * WORD = 2 * b  BY <2>1, Constants
  <2>3. QED  BY <1>1, <2>1, <2>2
<1>3. ((2 * r + k) + (2 * a) * WORD) % WORD = (2 * r + k) % WORD
  <2>1. 2 * r + k \in Int /\ 2 * a \in Int  BY Constants
  <2>2. QED  BY <2>1, Constants, ModShift
<1>4. QED  BY <1>1, <1>2, <1>3 DEF Wrap

(* A message of the slot's sequence number that is not before the even one *)
(* of position p is of p or of a later turn that has begun.                *)
SeqOf(t, q) ==
    LET m == mem[SeqAt(slot(q))][t]
    IN  \/ t = OddAt(q) /\ m.val = Wrap(2 * q + 1) /\ m.val % 2 = 1
        \/ t = EvenAt(q) /\ m.val = Wrap(2 * q + 2) /\ m.val % 2 = 0
LEMMA SeqMessage ==
    ASSUME IInv, NEW p \in Nat, NEW t \in Nat, t <= Newest(SeqAt(slot(p))), t >= EvenAt(p)
    PROVE  \E q \in Nat : slot(q) = slot(p) /\ q >= p /\ q < begun /\ SeqOf(t, q)
<1>1. slot(p) \in Slots /\ Turn(p) \in Nat /\ t >= 2 * Turn(p) + 3
  BY PositionFacts DEF EvenAt
<1>2. PICK k \in Nat : t = 2 * k + 2 \/ t = 2 * k + 3
  <2>1. (t - 2) \div 2 \in Nat /\ (t = 2 * ((t - 2) \div 2) + 2 \/ t = 2 * ((t - 2) \div 2) + 3)
    BY <1>1
  <2>2. QED  BY <2>1
<1>3. PICK q \in Nat : slot(q) = slot(p) /\ Turn(q) = k  BY <1>1, PositionOf
<1>4. t = OddAt(q) \/ t = EvenAt(q)  BY <1>2, <1>3 DEF OddAt, EvenAt
<1>5. OddAt(q) \in Nat /\ OddAt(q) <= t /\ EvenAt(q) = OddAt(q) + 1
  BY <1>4, PositionFacts
<1>6. q >= p
  <2>1. Turn(p) <= Turn(q)  BY <1>1, <1>2, <1>3
  <2>2. QED  BY <1>3, <2>1, TurnOrder
<1>7. q < begun
  <2>1. Newest(SeqAt(slot(p))) \in Nat  BY <1>1, Basics, LocFacts
  <2>2. OddAt(q) <= Newest(SeqAt(slot(q)))  BY <1>3, <1>5, <2>1
  <2>3. QED  BY <2>2, Stored
<1>8. SeqOf(t, q)
  <2>1. (2 * q + 1) % 2 = 1 /\ (2 * q + 2) % 2 = 0  OBVIOUS
  <2>2. Wrap(2 * q + 1) % 2 = 1 /\ Wrap(2 * q + 2) % 2 = 0
    <3>1. 2 * q + 1 \in Int /\ 2 * q + 2 \in Int  OBVIOUS
    <3>2. QED  BY <2>1, <3>1, Constants, ModParity DEF Wrap
  <2>3. CASE t = OddAt(q)
    <3>1. mem[SeqAt(slot(q))][OddAt(q)].val = Wrap(2 * q + 1)
      BY <1>3, <2>3 DEF IInv, History, OddMessage
    <3>2. QED  BY <2>2, <2>3, <3>1 DEF SeqOf
  <2>4. CASE t = EvenAt(q)
    <3>1. mem[SeqAt(slot(q))][EvenAt(q)].val = Wrap(2 * q + 2)
      BY <1>3, <2>4 DEF IInv, History, EvenMessage
    <3>2. QED  BY <2>2, <2>4, <3>1 DEF SeqOf
  <2>5. QED  BY <1>4, <2>3, <2>4
<1>9. QED  BY <1>3, <1>6, <1>7, <1>8

(* Past the empty check, a consumer sees its slot at its position or       *)
(* later: the message of its slot's sequence number that a load returns.   *)
LEMMA OwnTurn ==
    ASSUME IInv, NEW c \in Consumers, cpc[c] \in {"seq1", "lapped", "words"}
    PROVE  cur[c][SeqAt(slot(pos[c]))] >= EvenAt(pos[c]) /\ pos[c] < Published
<1>1. PICK cw \in Nat : Knows(c, cw)  BY DEF IInv, Readers, Reader
<1>2. pos[c] \in Nat /\ pos[c] < cw /\ cw <= Published /\ Published \in Nat
  BY <1>1, Basics DEF Knows
<1>3. pos[c] \in 0 .. cw - 1  BY <1>2
<1>4. QED  BY <1>1, <1>2, <1>3 DEF Knows

(* seq1: an even number other than the expected one is of a later turn,    *)
(* and the expected one comes with the words of the position.              *)
LEMMA Seq1Step == ASSUME IInv, NEW c \in Consumers, NEW t, Seq1At(c, t) PROVE IInv'
<1>1. pos[c] \in Nat /\ slot(read_cursor[c]) = slot(pos[c]) /\ begun \in Nat  BY Basics
<1>2. PICK p \in Nat : p = pos[c]  BY <1>1
<1>3. slot(p) \in Slots /\ Turn(p) \in Nat  BY PositionFacts
<1>4. PICK l \in Loc : l = SeqAt(slot(p))  BY <1>3, LocFacts
<1> DEFINE seq1 == mem[l][t].val
           next == IF seq1 % 2 = 1 THEN "seq1"
                   ELSE IF seq1 # ExpectedSeq(c) THEN "lapped" ELSE "words"
<1>5. /\ cpc[c] = "seq1" /\ Load(c, l, t, "Acquire", "None")
      /\ cpc' = [cpc EXCEPT ![c] = next]
      /\ rtodo' = [rtodo EXCEPT ![c] = IF next = "words" THEN Words ELSE {}]
      /\ UNCHANGED <<producerVars, read_cursor, cached_write_cursor, got, pos, res>>
  BY <1>1, <1>2, <1>4 DEF Seq1At, Seq1LoadOrdering
<1> HIDE DEF next
<1>6. next \in {"seq1", "lapped", "words"}  BY DEF next
<1>7. TypeOK  BY DEF IInv
<1>8. /\ cpc'[c] = next /\ rtodo'[c] = (IF next = "words" THEN Words ELSE {})
      /\ \A d \in Consumers : d # c => Untouched(d)
  BY <1>5, <1>7 DEF TypeOK, Untouched
<1>9. /\ ConsumerOnly(c) /\ MemoryOK(Loc, Thread)' /\ Published' = Published /\ begun' = begun
      /\ t \in 1 .. Newest(l) /\ t >= cur[c][l]
      /\ \A k \in Loc : cur'[c][k] \in Nat /\ cur'[c][k] >= cur[c][k]
      /\ \A k \in Loc : cur'[c][k] >= mem[l][t].view[k]
  BY <1>5, <1>8, ConsumerLoad
<1>10. TypeOK'
  <2>1. cpc' \in [Consumers -> {"off", "idle", "empty", "seq1", "lapped", "words"}]
    BY <1>5, <1>6, <1>7 DEF TypeOK
  <2>2. rtodo' \in [Consumers -> SUBSET Words]  BY <1>5, <1>7 DEF TypeOK
  <2>3. QED  BY <1>5, <1>7, <1>9, <2>1, <2>2 DEF TypeOK, producerVars
<1>11. Reader(c) /\ Returned(c)  BY DEF IInv, Readers
<1>12. PICK q \in Nat : slot(q) = slot(p) /\ q >= p /\ q < begun /\ SeqOf(t, q)
  <2>1. Newest(l) \in Nat /\ cur[c][l] \in Nat  BY Basics, LocFacts
  <2>2. cur[c][l] >= EvenAt(p) /\ EvenAt(p) \in Nat
    BY <1>2, <1>4, <1>5, OwnTurn, PositionFacts
  <2>3. t \in Nat /\ t <= Newest(SeqAt(slot(p))) /\ t >= EvenAt(p)
    BY <1>4, <1>9, <2>1, <2>2
  <2>4. QED  BY <2>3, SeqMessage
<1>13. ExpectedSeq(c) = Wrap(2 * p + 2)
  BY <1>2, <1>11, SeqWrap DEF Reader, ExpectedSeq
<1>14. next # "seq1" => t = EvenAt(q) /\ seq1 = Wrap(2 * q + 2)
  BY <1>4, <1>12 DEF next, SeqOf
<1>15. /\ next = "lapped" => q >= p + CAPACITY
       /\ Turn(p) <= Turn(q) /\ Turn(q) \in Nat
  <2>1. next = "lapped" => q # p  BY <1>13, <1>14 DEF next
  <2>2. /\ p < q => Turn(p) + 1 <= Turn(q) /\ p + CAPACITY <= q
        /\ Turn(q) \in Nat
    BY <1>12, TurnOrder, PositionFacts
  <2>3. QED  BY <1>3, <1>12, <2>1, <2>2, Constants
<1>16. next # "seq1" =>
         /\ mem[l][t].view[CURSOR] >= q + 1
         /\ \A w \in Words : mem[l][t].view[DataAt(slot(p), w)] >= WordAt(q)
  <2> SUFFICES ASSUME next # "seq1"
               PROVE  /\ mem[l][t].view[CURSOR] >= q + 1
                      /\ \A w \in Words : mem[l][t].view[DataAt(slot(p), w)] >= WordAt(q)
    OBVIOUS
  <2>1. EvenAt(q) <= Newest(SeqAt(slot(q)))
    <3>1. Newest(l) \in Nat  BY Basics
    <3>2. QED  BY <1>4, <1>9, <1>12, <1>14, <3>1
  <2>2. QED  BY <1>4, <1>12, <1>14, <2>1 DEF IInv, History, EvenMessage
<1>17. mem[l][t].view \in Views(Loc)  BY <1>9, Basics, MessageFacts
<1>18. (\E cw \in Nat : Knows(c, cw))'
  <2>1. PICK cw \in Nat : Knows(c, cw)  BY <1>11 DEF Reader
  <2>2. pos[c] < cw /\ Published \in Nat  BY <1>5, <2>1, Basics DEF Knows
  <2>3. Knows(c, cw)'  BY <1>5, <1>9, <2>1, <2>2, KnowsStep
  <2>4. QED  BY <2>3
<1>19. next = "lapped" =>
         cur'[c][CURSOR] >= pos'[c] + CAPACITY + 1 /\ begun' >= pos'[c] + CAPACITY + 1
  <2>1. mem[l][t].view[CURSOR] \in Nat /\ CURSOR \in Loc  BY <1>17, LocFacts DEF Views
  <2>2. next = "lapped" => q >= p + CAPACITY /\ mem[l][t].view[CURSOR] >= q + 1
    BY <1>15, <1>16
  <2>3. QED  BY <1>1, <1>2, <1>5, <1>9, <1>12, <2>1, <2>2, Constants
<1>20. next = "words" =>
         \A w \in Words : cur'[c][DataAt(slot(p), w)] >= WordAt(p)
  <2> SUFFICES ASSUME next = "words", NEW w \in Words
               PROVE  cur'[c][DataAt(slot(p), w)] >= WordAt(p)
    OBVIOUS
  <2>1. PICK k \in Loc : k = DataAt(slot(p), w)  BY <1>3, LocFacts
  <2>2. mem[l][t].view[k] >= WordAt(q) /\ mem[l][t].view[k] \in Nat
    BY <1>16, <1>17, <2>1 DEF Views
  <2>3. WordAt(q) >= WordAt(p) /\ WordAt(q) \in Nat /\ WordAt(p) \in Nat
    BY <1>3, <1>15 DEF WordAt
  <2>4. QED  BY <1>9, <2>1, <2>2, <2>3
<1>21. Reader(c)'
  BY <1>2, <1>5, <1>8, <1>11, <1>18, <1>19, <1>20 DEF Reader
<1>22. Returned(c)'  BY <1>5, <1>11 DEF Returned
<1>23. QED  BY <1>9, <1>10, <1>21, <1>22, ConsumerOnlyStep

(* Lapped: the target is past the position, by at most what was published. *)
LEMMA LappedFacts ==
    ASSUME IInv, NEW c \in Consumers, NEW t, cpc[c] = "lapped",
           Load(c, CURSOR, t, "Acquire", "None"),
           UNCHANGED producerVars, \A d \in Consumers : d # c => Untouched(d)
    PROVE  \E T \in Nat :
              /\ T = t - 2 /\ LapTarget(c, mem[CURSOR][t].val) = Wrap(T)
              /\ T >= pos[c] + CAPACITY - 1 /\ T <= Published - 1
              /\ Wrap(Wrap(T) - read_cursor[c]) = Wrap(T - pos[c])
              /\ Wrap(T - pos[c]) \in Nat /\ Wrap(T - pos[c]) <= T - pos[c]
              /\ Wrap(T - pos[c]) < WORD
              /\ Wrap(pos[c] + Wrap(T - pos[c])) = Wrap(T)
              /\ T - pos[c] < WORD => Wrap(T - pos[c]) = T - pos[c]
<1>1. pos[c] \in Nat /\ Published \in Nat /\ CURSOR \in Loc /\ cur[c][CURSOR] \in Nat
  BY Basics, LocFacts
<1>2. PICK p \in Nat : p = pos[c]  BY <1>1
<1>3. /\ t \in Nat /\ t - 1 \in Nat /\ t - 1 <= Published
      /\ mem[CURSOR][t].val = Wrap(t - 1) /\ t >= cur[c][CURSOR]
  BY CursorLoad
<1>4. Reader(c)  BY DEF IInv, Readers
<1>5. cur[c][CURSOR] >= p + CAPACITY + 1 /\ read_cursor[c] = Wrap(p)
  BY <1>2, <1>4 DEF Reader
<1>6. PICK T \in Nat : T = t - 2  BY <1>1, <1>3, <1>5, Constants
<1>7. T >= p + CAPACITY - 1 /\ T <= Published - 1  BY <1>1, <1>3, <1>5, <1>6, Constants
<1>8. LapTarget(c, mem[CURSOR][t].val) = Wrap(T)
  <2>1. (((t - 1) % WORD) + (-1)) % WORD = ((t - 1) + (-1)) % WORD
    BY <1>3, t - 1 \in Int, -1 \in Int, Constants, ModAdd
  <2>2. (t - 1) + (-1) = T  BY <1>3, <1>6
  <2>3. PICK x \in Int : x = (t - 1) % WORD
    <3>1. (t - 1) % WORD \in 0 .. WORD - 1  BY <1>3, t - 1 \in Int, Constants, DivMod
    <3>2. QED  BY <3>1
  <2>4. x - 1 = x + (-1)  OBVIOUS
  <2>5. QED  BY <1>3, <2>1, <2>2, <2>3, <2>4 DEF LapTarget, Wrap
<1>9. Wrap(Wrap(T) - read_cursor[c]) = Wrap(T - p)
  <2>1. ((T % WORD) - (p % WORD)) % WORD = (T - p) % WORD
    BY T \in Int, p \in Int, Constants, ModDifference
  <2>2. QED  BY <1>5, <2>1 DEF Wrap
<1>10. PICK n \in Nat : n = T - p  BY <1>7, Constants
<1>11. PICK a \in Nat, r \in 0 .. WORD - 1 : r = Wrap(n) /\ n = a * WORD + r
  <2>1. /\ n % WORD \in 0 .. WORD - 1 /\ n = (n \div WORD) * WORD + (n % WORD)
    BY n \in Int, Constants, DivMod
  <2>2. n \div WORD \in Nat  BY Constants, DivNat
  <2>3. QED  BY <2>1, <2>2 DEF Wrap
<1>12. r <= n /\ r \in Nat /\ r < WORD
  <2>1. PICK b \in Nat : b = a * WORD  BY Constants
  <2>2. QED  BY <1>11, <2>1, Constants
<1>13. Wrap(p + r) = Wrap(T)
  <2>1. ((p + r) + a * WORD) % WORD = (p + r) % WORD
    BY p + r \in Int, a \in Int, Constants, ModShift, <1>12
  <2>2. (p + r) + a * WORD = T
    <3>1. PICK b \in Nat : b = a * WORD  BY Constants
    <3>2. QED  BY <1>10, <1>11, <1>12, <3>1
  <2>3. QED  BY <2>1, <2>2 DEF Wrap
<1>14. n < WORD => Wrap(n) = n
  <2>1. n < WORD => n \in 0 .. WORD - 1  BY Constants
  <2>2. QED  BY <2>1, Constants, ModSmall DEF Wrap
<1>15. QED
  BY <1>2, <1>6, <1>7, <1>8, <1>9, <1>10, <1>11, <1>12, <1>13, <1>14

(* Lapped *)
LEMMA LappedStep == ASSUME IInv, NEW c \in Consumers, NEW t, LappedAt(c, t) PROVE IInv'
<1> DEFINE w == mem[CURSOR][t].val
           skipped == Wrap(LapTarget(c, w) - read_cursor[c])
           result == Result("Lapped", Blank, pos[c], skipped, begun - pos[c])
<1>1. /\ cpc[c] = "lapped" /\ Load(c, CURSOR, t, "Acquire", "None")
      /\ cached_write_cursor' = [cached_write_cursor EXCEPT ![c] = w]
      /\ read_cursor' = [read_cursor EXCEPT ![c] = LapTarget(c, w)]
      /\ pos' = [pos EXCEPT ![c] = @ + skipped]
      /\ res' = [res EXCEPT ![c] = result]
      /\ cpc' = [cpc EXCEPT ![c] = "idle"]
      /\ UNCHANGED <<producerVars, rtodo, got>>
  BY DEF LappedAt, CursorLoadOrdering
<1> HIDE DEF skipped, result
<1>2. TypeOK  BY DEF IInv
<1>3. /\ cached_write_cursor'[c] = w /\ read_cursor'[c] = LapTarget(c, w)
      /\ pos'[c] = pos[c] + skipped /\ res'[c] = result /\ cpc'[c] = "idle"
      /\ \A d \in Consumers : d # c => Untouched(d)
  BY <1>1, <1>2 DEF TypeOK, Untouched
<1>4. /\ ConsumerOnly(c) /\ MemoryOK(Loc, Thread)' /\ Published' = Published
      /\ \A k \in Loc : cur'[c][k] \in Nat
  BY <1>1, <1>3, ConsumerLoad, LocFacts
<1>5. /\ t \in Nat /\ t - 1 \in Nat /\ t - 1 <= Published /\ cur'[c][CURSOR] >= t
      /\ w = Wrap(t - 1)
      /\ \A q \in 0 .. t - 2 : cur'[c][SeqAt(slot(q))] >= EvenAt(q)
  BY <1>1, <1>3, CursorLoad
<1>6. pos[c] \in Nat /\ begun \in Nat /\ Published \in Nat /\ Published <= begun
      /\ begun <= MAX_PUBLISH
  BY Basics
<1>7. PICK T \in Nat :
        /\ T = t - 2 /\ LapTarget(c, w) = Wrap(T)
        /\ T >= pos[c] + CAPACITY - 1 /\ T <= Published - 1
        /\ skipped = Wrap(T - pos[c])
        /\ skipped \in Nat /\ skipped <= T - pos[c] /\ skipped < WORD
        /\ Wrap(pos[c] + skipped) = Wrap(T)
        /\ T - pos[c] < WORD => skipped = T - pos[c]
  BY <1>1, <1>3, LappedFacts DEF skipped
<1>8. begun - pos[c] \in Nat /\ begun - pos[c] <= MAX_PUBLISH
  BY <1>6, <1>7, Constants
<1>9. TypeOK'
  <2>1. w \in 0 .. WORD - 1 /\ Wrap(T) \in 0 .. WORD - 1  BY <1>5, SlotWrap
  <2> HIDE DEF w
  <2>2. cached_write_cursor' \in [Consumers -> 0 .. WORD - 1]  BY <1>1, <1>2, <2>1 DEF TypeOK
  <2>3. read_cursor' \in [Consumers -> 0 .. WORD - 1]  BY <1>1, <1>2, <1>7, <2>1 DEF TypeOK
  <2>4. pos' \in [Consumers -> Nat]  BY <1>1, <1>2, <1>6, <1>7 DEF TypeOK
  <2>5. result \in [kind : {"Empty", "Value", "Lapped"}, val : [Words -> Nat],
                    at : Nat, skipped : 0 .. WORD - 1, lag : Nat]
    BY <1>6, <1>7, <1>8, Constants DEF result, Result, Blank
  <2>6. res' \in [Consumers -> [kind : {"Empty", "Value", "Lapped"}, val : [Words -> Nat],
                                at : Nat, skipped : 0 .. WORD - 1, lag : Nat]]
    BY <1>1, <1>2, <2>5 DEF TypeOK
  <2>7. cpc' \in [Consumers -> {"off", "idle", "empty", "seq1", "lapped", "words"}]
    BY <1>1, <1>2 DEF TypeOK
  <2>8. QED  BY <1>1, <1>2, <1>4, <2>2, <2>3, <2>4, <2>6, <2>7 DEF TypeOK, producerVars
<1>10. (\E cw \in Nat : Knows(c, cw))'
  <2>1. PICK cw \in Nat : cw = t - 1  BY <1>5
  <2>2. cur'[c][CURSOR] >= cw + 1 /\ cw - 1 = t - 2  BY <1>4, <1>5, <2>1, LocFacts
  <2>3. pos'[c] <= cw  BY <1>3, <1>5, <1>6, <1>7, <2>1
  <2>4. Knows(c, cw)'  BY <1>3, <1>4, <1>5, <2>1, <2>2, <2>3 DEF Knows
  <2>5. QED  BY <2>4
<1>11. read_cursor'[c] = Wrap(pos'[c])  BY <1>3, <1>7
<1>12. Reader(c)'  BY <1>3, <1>10, <1>11 DEF Reader
<1>13. Returned(c)'
  <2>1. /\ res'[c].lag = begun - pos[c] /\ res'[c].kind = "Lapped"
        /\ res'[c].skipped = skipped
    BY <1>3 DEF result, Result
  <2>2. res'[c].lag <= WORD /\ CAPACITY > 1 => res'[c].skipped > 0
    BY <1>6, <1>7, <2>1, Constants
  <2>3. QED  BY <1>8, <2>1, <2>2 DEF Returned
<1>14. QED  BY <1>4, <1>9, <1>12, <1>13, ConsumerOnlyStep

(* One word of read_volatile: of the position or of a later turn, and then *)
(* fence(Acquire) will have seen that turn's odd number.                   *)
LEMMA ReadWordStep ==
    ASSUME IInv, NEW c \in Consumers, NEW w \in Words, ReadWord(c, w)
    PROVE  IInv'
<1>1. pos[c] \in Nat /\ slot(read_cursor[c]) = slot(pos[c])  BY Basics
<1>2. PICK p \in Nat : p = pos[c]  BY <1>1
<1>3. slot(p) \in Slots /\ Turn(p) \in Nat  BY PositionFacts
<1>4. PICK l \in Loc : l = DataAt(slot(p), w)  BY <1>3, LocFacts
<1>5. PICK t : /\ cpc[c] = "words" /\ w \in rtodo[c]
               /\ Load(c, l, t, "Relaxed", "None")
               /\ got' = [got EXCEPT ![c][w] = mem[l][t].val]
               /\ rtodo' = [rtodo EXCEPT ![c] = @ \ {w}]
               /\ UNCHANGED <<producerVars, cpc, read_cursor, cached_write_cursor, pos, res>>
  BY <1>1, <1>2, <1>4 DEF ReadWord
<1>6. TypeOK  BY DEF IInv
<1>7. /\ rtodo'[c] = rtodo[c] \ {w} /\ got'[c] = [got[c] EXCEPT ![w] = mem[l][t].val]
      /\ \A d \in Consumers : d # c => Untouched(d)
  BY <1>5, <1>6 DEF TypeOK, Untouched
<1>8. /\ ConsumerOnly(c) /\ MemoryOK(Loc, Thread)' /\ Published' = Published /\ begun' = begun
      /\ t \in 1 .. Newest(l) /\ t >= cur[c][l]
      /\ \A k \in Loc : /\ cur'[c][k] \in Nat /\ cur'[c][k] >= cur[c][k]
                        /\ acq'[c][k] \in Nat /\ acq'[c][k] >= acq[c][k]
                        /\ acq'[c][k] >= mem[l][t].view[k]
  BY <1>5, <1>7, ConsumerLoad
<1>9. mem[l][t].view \in Views(Loc) /\ mem[l][t].val \in Nat  BY <1>8, Basics, MessageFacts
<1>10. TypeOK'
  <2>1. got' \in [Consumers -> [Words -> Nat]]  BY <1>5, <1>6, <1>9 DEF TypeOK
  <2>2. rtodo' \in [Consumers -> SUBSET Words]  BY <1>5, <1>6 DEF TypeOK
  <2>3. QED  BY <1>5, <1>6, <1>8, <2>1, <2>2 DEF TypeOK, producerVars
<1>11. Reader(c) /\ Returned(c)  BY DEF IInv, Readers
<1>12. PICK k \in Loc : k = SeqAt(slot(p))  BY <1>3, LocFacts
<1>13. \E q \in Nat : slot(q) = slot(p) /\ p <= q /\ mem[l][t].val = q + 1
                      /\ acq'[c][k] >= OddAt(q)
  <2>1. cur[c][l] >= WordAt(p) /\ cur[c][l] \in Nat /\ WordAt(p) \in Nat
    BY <1>2, <1>4, <1>5, <1>11, Basics, LocFacts, PositionFacts DEF Reader
  <2>2. t \in Nat /\ t >= Turn(p) + 2  BY <1>3, <1>8, <2>1, Basics DEF WordAt
  <2>3. PICK q \in Nat : slot(q) = slot(p) /\ Turn(q) = t - 2
    BY <1>3, <2>2, PositionOf
  <2>4. p <= q  BY <1>3, <2>2, <2>3, TurnOrder
  <2>5. t = WordAt(q)  BY <2>2, <2>3 DEF WordAt
  <2>6. WordAt(q) <= Newest(DataAt(slot(q), w))
    <3>1. Newest(l) \in Nat  BY Basics
    <3>2. QED  BY <1>4, <1>8, <2>3, <2>5, <3>1
  <2>7. mem[l][t].val = q + 1
    BY <1>4, <2>3, <2>5, <2>6 DEF IInv, History, WordMessage
  <2>8. mem[l][t].view[k] >= OddAt(q) /\ OddAt(q) \in Nat
    BY <1>4, <1>12, <2>3, <2>5, <2>6, PositionFacts DEF IInv, History, WordMessage
  <2>9. acq'[c][k] >= OddAt(q)
    <3>1. mem[l][t].view[k] \in Nat  BY <1>9 DEF Views
    <3>2. QED  BY <1>8, <2>8, <3>1
  <2>10. QED  BY <2>3, <2>4, <2>7, <2>9
<1>14. (\E cw \in Nat : Knows(c, cw))'
  <2>1. PICK cw \in Nat : Knows(c, cw)  BY <1>11 DEF Reader
  <2>2. pos[c] < cw /\ Published \in Nat  BY <1>5, <2>1, Basics DEF Knows
  <2>3. Knows(c, cw)'  BY <1>5, <1>8, <2>1, <2>2, KnowsStep
  <2>4. QED  BY <2>3
<1>15. ASSUME NEW v \in Words
       PROVE  /\ cur'[c][DataAt(slot(pos'[c]), v)] >= WordAt(pos'[c])
              /\ v \in rtodo'[c] \/ (\E q \in Nat : WordRead(c, v, q)')
  <2>1. PICK j \in Loc : j = DataAt(slot(p), v)  BY <1>3, LocFacts
  <2>2. /\ cur[c][j] >= WordAt(p) /\ cur[c][j] \in Nat /\ WordAt(p) \in Nat
        /\ v \in rtodo[c] \/ \E q \in Nat : WordRead(c, v, q)
    BY <1>2, <1>5, <1>11, <2>1, Basics, LocFacts, PositionFacts DEF Reader
  <2>3. cur'[c][j] >= WordAt(p)  BY <1>8, <2>2
  <2>4. CASE v = w
    <3>1. got'[c][w] = mem[l][t].val  BY <1>6, <1>7 DEF TypeOK
    <3>2. QED  BY <1>2, <1>5, <1>12, <1>13, <2>1, <2>3, <2>4, <3>1 DEF WordRead
  <2>5. CASE v # w
    <3>1. got'[c][v] = got[c][v]  BY <1>6, <1>7, <2>5 DEF TypeOK
    <3>2. ASSUME NEW q \in Nat, WordRead(c, v, q) PROVE WordRead(c, v, q)'
      <4>1. acq[c][k] >= OddAt(q) /\ OddAt(q) \in Nat /\ acq[c][k] \in Nat
        BY <1>2, <1>12, <3>2, PositionFacts, Basics, LocFacts DEF WordRead
      <4>2. acq'[c][k] >= OddAt(q)  BY <1>8, <4>1
      <4>3. QED  BY <1>2, <1>5, <1>12, <3>1, <3>2, <4>2 DEF WordRead
    <3>3. v \in rtodo'[c] \/ \E q \in Nat : WordRead(c, v, q)  BY <1>7, <2>2, <2>5
    <3>4. QED  BY <1>2, <1>5, <2>1, <2>3, <3>2, <3>3
  <2>6. QED  BY <2>4, <2>5
<1>16. Reader(c)'  BY <1>5, <1>11, <1>14, <1>15 DEF Reader
<1>17. Returned(c)'  BY <1>5, <1>11 DEF Returned
<1>18. QED  BY <1>8, <1>10, <1>16, <1>17, ConsumerOnlyStep

(* Sequence numbers of positions less than half a word apart are distinct. *)
LEMMA SeqsApart ==
    ASSUME NEW p \in Nat, NEW q \in Nat, p <= q, q - p < WORD \div 2,
           Wrap(2 * q + 2) = Wrap(2 * p + 2)
    PROVE  p = q
<1>1. 2 * q - 2 * p < WORD  BY Constants
<1>2. 2 * p + 2 \in Int /\ 2 * q + 2 \in Int /\ 2 * p + 2 <= 2 * q + 2
      /\ (2 * q + 2) - (2 * p + 2) < WORD
  BY <1>1, Constants
<1>3. 2 * p + 2 = 2 * q + 2  BY <1>2, Constants, ModInjective DEF Wrap
<1>4. QED  BY <1>3

(* What the words are when seq2 is the expected number, unless the         *)
(* sequence numbers went round.                                            *)
LEMMA WholeValue ==
    ASSUME IInv, NEW c \in Consumers, cpc[c] = "words", rtodo[c] = {}, NEW t \in Nat,
           t <= Newest(SeqAt(slot(pos[c]))), t >= acq[c][SeqAt(slot(pos[c]))],
           mem[SeqAt(slot(pos[c]))][t].val = ExpectedSeq(c), begun - pos[c] <= WORD \div 2
    PROVE  \A w \in Words : got[c][w] = pos[c] + 1
<1>1. pos[c] \in Nat /\ begun \in Nat  BY Basics
<1>2. PICK p \in Nat : p = pos[c]  BY <1>1
<1>3. slot(p) \in Slots /\ Turn(p) \in Nat /\ EvenAt(p) \in Nat  BY PositionFacts
<1>4. PICK l \in Loc : l = SeqAt(slot(p))  BY <1>3, LocFacts
<1>5. acq[c][l] \in Nat /\ cur[c][l] \in Nat /\ acq[c][l] >= cur[c][l]
  BY Basics, LocFacts DEF IInv, Fences
<1>6. t >= EvenAt(p)
  <2>1. cur[c][l] >= EvenAt(p)  BY <1>2, <1>4, OwnTurn
  <2>2. QED  BY <1>2, <1>3, <1>4, <1>5, <2>1
<1>7. Reader(c)  BY DEF IInv, Readers
<1>8. ExpectedSeq(c) = Wrap(2 * p + 2)
  BY <1>2, <1>7, SeqWrap DEF Reader, ExpectedSeq
<1>9. PICK q \in Nat : slot(q) = slot(p) /\ q >= p /\ q < begun /\ SeqOf(t, q)
  BY <1>2, <1>6, SeqMessage
<1>10. Wrap(2 * p + 2) % 2 = 0
  <2>1. 2 * p + 2 \in Int /\ (2 * p + 2) % 2 = 0  OBVIOUS
  <2>2. QED  BY <2>1, Constants, ModParity DEF Wrap
<1>11. t = EvenAt(q) /\ Wrap(2 * q + 2) = Wrap(2 * p + 2)
  BY <1>2, <1>8, <1>9, <1>10 DEF SeqOf
<1>12. q = p
  <2>1. q - p < WORD \div 2  BY <1>1, <1>2, <1>9, Constants
  <2>2. QED  BY <1>9, <1>11, <2>1, SeqsApart
<1>13. ASSUME NEW w \in Words PROVE got[c][w] = pos[c] + 1
  <2>1. PICK r \in Nat : WordRead(c, w, r)  BY <1>7 DEF Reader
  <2>2. slot(r) = slot(p) /\ p <= r /\ got[c][w] = r + 1 /\ acq[c][l] >= OddAt(r)
    BY <1>2, <1>4, <2>1 DEF WordRead
  <2>3. Turn(r) \in Nat /\ Turn(r) <= Turn(p)
    <3>1. Turn(r) \in Nat  BY PositionFacts
    <3>2. t >= OddAt(r)
      <4>1. OddAt(r) \in Nat  BY PositionFacts
      <4>2. QED  BY <1>2, <1>4, <1>5, <2>2, <4>1
    <3>3. QED  BY <1>3, <1>11, <1>12, <3>1, <3>2 DEF OddAt, EvenAt
  <2>4. r <= p  BY <2>2, <2>3, TurnOrder
  <2>5. r = p  BY <2>2, <2>4
  <2>6. QED  BY <1>2, <2>2, <2>5
<1>14. QED  BY <1>13

(* fence(Acquire) and seq2 *)
LEMMA Seq2Step == ASSUME IInv, NEW c \in Consumers, NEW t, Seq2At(c, t) PROVE IInv'
<1>1. pos[c] \in Nat /\ slot(read_cursor[c]) = slot(pos[c]) /\ begun \in Nat
      /\ Published \in Nat /\ Published <= begun /\ begun <= MAX_PUBLISH
  BY Basics
<1>2. PICK l \in Loc : l = SeqAt(slot(pos[c]))  BY <1>1, PositionFacts, LocFacts
<1> DEFINE same == mem[l][t].val = ExpectedSeq(c)
           value == Result("Value", got[c], pos[c], 0, begun - pos[c])
<1>3. /\ cpc[c] = "words" /\ rtodo[c] = {} /\ Load(c, l, t, "Relaxed", "Acquire")
      /\ cpc' = [cpc EXCEPT ![c] = IF same THEN "idle" ELSE "seq1"]
      /\ read_cursor' = [read_cursor EXCEPT ![c] = IF same THEN Wrap(@ + 1) ELSE @]
      /\ pos' = [pos EXCEPT ![c] = IF same THEN @ + 1 ELSE @]
      /\ res' = [res EXCEPT ![c] = IF same THEN value ELSE @]
      /\ got' = [got EXCEPT ![c] = Blank]
      /\ UNCHANGED <<producerVars, cached_write_cursor, rtodo>>
  BY <1>1, <1>2 DEF Seq2At, Seq2LoadFence
<1> HIDE DEF same, value
<1>4. TypeOK  BY DEF IInv
<1>5. /\ cpc'[c] = (IF same THEN "idle" ELSE "seq1")
      /\ read_cursor'[c] = (IF same THEN Wrap(read_cursor[c] + 1) ELSE read_cursor[c])
      /\ pos'[c] = (IF same THEN pos[c] + 1 ELSE pos[c])
      /\ res'[c] = (IF same THEN value ELSE res[c])
      /\ \A d \in Consumers : d # c => Untouched(d)
  BY <1>3, <1>4 DEF TypeOK, Untouched
<1>6. /\ ConsumerOnly(c) /\ MemoryOK(Loc, Thread)' /\ Published' = Published /\ begun' = begun
      /\ t \in 1 .. Newest(l) /\ t >= acq[c][l]
      /\ \A k \in Loc : cur'[c][k] \in Nat /\ cur'[c][k] >= cur[c][k]
  BY <1>3, <1>5, ConsumerLoad
<1>7. Reader(c) /\ Returned(c)  BY DEF IInv, Readers
<1>8. pos[c] < Published  BY <1>3, OwnTurn
<1>9. Wrap(read_cursor[c] + 1) = Wrap(pos[c] + 1)
  <2>1. read_cursor[c] = Wrap(pos[c])  BY <1>7 DEF Reader
  <2>2. ((pos[c] % WORD) + 1) % WORD = (pos[c] + 1) % WORD
    BY <1>1, pos[c] \in Int, 1 \in Int, Constants, ModAdd
  <2>3. QED  BY <2>1, <2>2 DEF Wrap
<1>10. TypeOK'
  <2>1. cpc' \in [Consumers -> {"off", "idle", "empty", "seq1", "lapped", "words"}]
    BY <1>3, <1>4 DEF TypeOK
  <2>2. read_cursor' \in [Consumers -> 0 .. WORD - 1]
    <3>1. Wrap(read_cursor[c] + 1) \in 0 .. WORD - 1
      <4>1. pos[c] + 1 \in Nat  BY <1>1
      <4>2. QED  BY <1>9, <4>1, SlotWrap
    <3>2. QED  BY <1>3, <1>4, <3>1 DEF TypeOK
  <2>3. pos' \in [Consumers -> Nat]  BY <1>1, <1>3, <1>4 DEF TypeOK
  <2>4. value \in [kind : {"Empty", "Value", "Lapped"}, val : [Words -> Nat],
                   at : Nat, skipped : 0 .. WORD - 1, lag : Nat]
    <3>1. begun - pos[c] \in Nat /\ got[c] \in [Words -> Nat] /\ 0 \in 0 .. WORD - 1
      BY <1>1, <1>4, <1>8, Constants DEF TypeOK
    <3>2. QED  BY <1>1, <3>1 DEF value, Result
  <2>5. res' \in [Consumers -> [kind : {"Empty", "Value", "Lapped"}, val : [Words -> Nat],
                                at : Nat, skipped : 0 .. WORD - 1, lag : Nat]]
    BY <1>3, <1>4, <2>4 DEF TypeOK
  <2>6. got' \in [Consumers -> [Words -> Nat]]  BY <1>3, <1>4 DEF TypeOK, Blank
  <2>7. QED  BY <1>3, <1>4, <1>6, <2>1, <2>2, <2>3, <2>5, <2>6 DEF TypeOK, producerVars
<1>11. (\E cw \in Nat : Knows(c, cw))'
  <2>1. PICK cw \in Nat : Knows(c, cw)  BY <1>7 DEF Reader
  <2>2. pos[c] < cw  BY <1>3, <2>1 DEF Knows
  <2>3. CASE ~same
    <3>1. Knows(c, cw)'  BY <1>1, <1>3, <1>5, <1>6, <2>1, <2>2, <2>3, KnowsStep
    <3>2. QED  BY <3>1
  <2>4. CASE same
    <3>1. pos'[c] <= cw  BY <1>1, <1>5, <2>2, <2>4
    <3>2. cur'[c][CURSOR] >= cw + 1
      <4>1. cur[c][CURSOR] >= cw + 1 /\ cur[c][CURSOR] \in Nat
        BY <2>1, Basics, LocFacts DEF Knows
      <4>2. QED  BY <1>6, <4>1, LocFacts
    <3>3. ASSUME NEW q \in 0 .. cw - 1 PROVE cur'[c][SeqAt(slot(q))] >= EvenAt(q)
      <4>1. q \in Nat  OBVIOUS
      <4>2. PICK k \in Loc : k = SeqAt(slot(q))  BY <4>1, PositionFacts, LocFacts
      <4>3. cur[c][k] >= EvenAt(q) /\ cur[c][k] \in Nat /\ EvenAt(q) \in Nat
        BY <2>1, <4>1, <4>2, Basics, LocFacts, PositionFacts DEF Knows
      <4>4. QED  BY <1>6, <4>2, <4>3
    <3>4. Knows(c, cw)'
      BY <1>3, <1>5, <1>6, <2>1, <2>4, <3>1, <3>2, <3>3 DEF Knows
    <3>5. QED  BY <3>4
  <2>5. QED  BY <2>3, <2>4
<1>12. Reader(c)'
  <2>1. read_cursor'[c] = Wrap(pos'[c])  BY <1>5, <1>7, <1>9 DEF Reader
  <2>2. QED  BY <1>5, <1>11, <2>1 DEF Reader
<1>13. Returned(c)'
  <2>1. CASE ~same  BY <1>5, <1>7, <2>1 DEF Returned
  <2>2. CASE same
    <3>1. /\ res'[c].kind = "Value" /\ res'[c].lag = begun - pos[c]
          /\ res'[c].val = got[c] /\ res'[c].at = pos[c]
      BY <1>5, <2>2 DEF value, Result
    <3>2. begun - pos[c] <= MAX_PUBLISH  BY <1>1, Constants
    <3>3. ASSUME begun - pos[c] <= WORD \div 2 PROVE \A w \in Words : got[c][w] = pos[c] + 1
      <4>1. Newest(l) \in Nat  BY Basics
      <4>2. t \in Nat /\ t <= Newest(SeqAt(slot(pos[c])))  BY <1>2, <1>6, <4>1
      <4>3. QED  BY <1>2, <1>3, <1>6, <2>2, <3>3, <4>2, WholeValue DEF same
    <3>4. QED  BY <3>1, <3>2, <3>3 DEF Returned
  <2>3. QED  BY <2>1, <2>2
<1>14. QED  BY <1>6, <1>10, <1>12, <1>13, ConsumerOnlyStep

(* Clone for Consumer *)
LEMMA CloneStep == ASSUME IInv, NEW c \in Consumers, NEW new \in Consumers, Clone(c, new)
                   PROVE  IInv'
<1>1. /\ cpc[c] = "idle" /\ cpc[new] = "off" /\ HandOver(c, new)
      /\ cpc' = [cpc EXCEPT ![new] = "idle"]
      /\ read_cursor' = [read_cursor EXCEPT ![new] = read_cursor[c]]
      /\ cached_write_cursor' = [cached_write_cursor EXCEPT ![new] = cached_write_cursor[c]]
      /\ pos' = [pos EXCEPT ![new] = pos[c]]
      /\ UNCHANGED <<producerVars, rtodo, got, res>>
  BY DEF Clone
<1>2. TypeOK /\ c \in Thread /\ new \in Thread  BY LocFacts DEF IInv
<1>3. /\ cpc'[new] = "idle" /\ read_cursor'[new] = read_cursor[c] /\ pos'[new] = pos[c]
      /\ cached_write_cursor'[new] = cached_write_cursor[c]
      /\ \A d \in Consumers : d # new => Untouched(d)
  BY <1>1, <1>2 DEF TypeOK, Untouched
<1>4. /\ MemoryOK(Loc, Thread)' /\ mem' = mem /\ rel' = rel
      /\ \A u \in Thread : u # new => cur'[u] = cur[u] /\ acq'[u] = acq[u]
      /\ \A k \in Loc : cur'[new][k] >= cur[c][k]
      /\ \A k \in Loc : acq'[new][k] >= cur'[new][k]
  <2>1. MemoryOK(Loc, Thread) /\ \A k \in Loc : acq[new][k] >= cur[new][k]
    BY <1>2, Basics DEF IInv, Fences
  <2>2. QED  BY <1>1, <1>2, <2>1, HandOverFacts
<1>5. ConsumerOnly(new)  BY <1>1, <1>3, <1>4 DEF ConsumerOnly
<1>6. TypeOK'
  BY <1>1, <1>2, <1>4 DEF TypeOK, producerVars
<1>7. Reader(c) /\ Returned(new) /\ Published \in Nat  BY Basics DEF IInv, Readers
<1>8. (\E cw \in Nat : Knows(new, cw))'
  <2>1. PICK cw \in Nat : Knows(c, cw)  BY <1>7 DEF Reader
  <2>2. \A k \in Loc : cur'[new][k] \in Nat /\ cur[c][k] \in Nat
    BY <1>2, <1>4, Basics DEF MemoryOK, Views
  <2>3. Published' = Published  BY <1>4 DEF Published, Newest
  <2>4. cur'[new][CURSOR] >= cw + 1  BY <1>4, <2>1, <2>2, LocFacts DEF Knows
  <2>5. ASSUME NEW q \in 0 .. cw - 1 PROVE cur'[new][SeqAt(slot(q))] >= EvenAt(q)
    <3>1. q \in Nat  OBVIOUS
    <3>2. PICK k \in Loc : k = SeqAt(slot(q))  BY <3>1, PositionFacts, LocFacts
    <3>3. cur[c][k] >= EvenAt(q) /\ EvenAt(q) \in Nat  BY <2>1, <3>1, <3>2, PositionFacts DEF Knows
    <3>4. QED  BY <1>4, <2>2, <3>2, <3>3
  <2>6. Knows(new, cw)'  BY <1>3, <2>1, <2>3, <2>4, <2>5 DEF Knows
  <2>7. QED  BY <2>6
<1>9. Reader(new)'  BY <1>3, <1>7, <1>8 DEF Reader
<1>10. Returned(new)'  BY <1>1, <1>7 DEF Returned
<1>11. QED  BY <1>5, <1>6, <1>9, <1>10, ConsumerOnlyStep

-----------------------------------------------------------------------------
(* One lemma per action of the producer. *)

(* The effect of a store by the producer: it has seen all messages. *)
Stores(l, val, ordering) ==
    LET t == Newest(l) + 1
    IN  /\ \A k \in Loc : k # l => mem'[k] = mem[k] /\ Newest(k)' = Newest(k)
        /\ Newest(l)' = t
        /\ \A u \in 1 .. Newest(l) : mem'[l][u] = mem[l][u]
        /\ mem'[l][t].val = val
        /\ \A k \in Loc : k # l =>
              mem'[l][t].view[k] = IF ordering = "Release" THEN Newest(k) ELSE rel["P"][k]
        /\ \A k \in Loc : cur'["P"][k] = Newest(k)'
LEMMA ProducerStore ==
    ASSUME IInv, NEW l \in Loc, NEW val \in Nat, NEW ordering, NEW fence,
           Store("P", l, val, ordering, fence), UNCHANGED <<consumerVars, begun>>
    PROVE  /\ Stores(l, val, ordering) /\ MemoryOK(Loc, Thread)' /\ Readers'
           /\ \A th \in Thread : \A k \in Loc : acq'[th][k] >= cur'[th][k]
           /\ rel'["P"] = IF fence = "Release" THEN cur'["P"] ELSE rel["P"]
<1>1. "P" \in Thread /\ MemoryOK(Loc, Thread) /\ Newest(l) \in Nat /\ cur["P"][l] = Newest(l)
  BY LocFacts, Basics DEF IInv, Producing
<1>2. \A th \in Thread : \A k \in Loc : acq[th][k] >= cur[th][k]  BY DEF IInv, Fences
<1>3. /\ MemoryOK(Loc, Thread)'
      /\ \A k \in Loc : k # l => mem'[k] = mem[k]
      /\ Newest(l)' = Newest(l) + 1
      /\ \A t \in 1 .. Newest(l) : mem'[l][t] = mem[l][t]
      /\ mem'[l][Newest(l) + 1].val = val
      /\ ordering = "Release" =>
            \A k \in Loc : k # l => mem'[l][Newest(l) + 1].view[k] = cur["P"][k]
      /\ ordering # "Release" =>
            \A k \in Loc : k # l => mem'[l][Newest(l) + 1].view[k] = rel["P"][k]
      /\ \A u \in Thread : u # "P" => cur'[u] = cur[u] /\ acq'[u] = acq[u] /\ rel'[u] = rel[u]
      /\ \A k \in Loc : k # l => cur'["P"][k] = cur["P"][k]
      /\ cur'["P"][l] = Newest(l) + 1
      /\ \A k \in Loc : acq'["P"][k] >= cur'["P"][k]
      /\ rel'["P"] = IF fence = "Release" THEN cur'["P"] ELSE rel["P"]
  BY <1>1, <1>2, StoreFacts
<1>4. \A k \in Loc : k # l => Newest(k)' = Newest(k)  BY <1>3 DEF Newest
<1>5. \A k \in Loc : cur["P"][k] = Newest(k)  BY DEF IInv, Producing
<1>6. Stores(l, val, ordering)  BY <1>3, <1>4, <1>5 DEF Stores
<1>7. \A th \in Thread : \A k \in Loc : acq'[th][k] >= cur'[th][k]
  BY <1>2, <1>3 DEF Thread
<1>8. Readers'
  <2> SUFFICES ASSUME NEW c \in Consumers PROVE Reader(c)' /\ Returned(c)'  BY DEF Readers
  <2>1. c \in Thread /\ c # "P"  BY LocFacts
  <2>2. cur'[c] = cur[c] /\ acq'[c] = acq[c]  BY <1>3, <2>1
  <2>3. \A k \in Loc : cur[c][k] \in Nat /\ acq[c][k] \in Nat  BY <2>1, Basics
  <2>4. Resting(c)  BY <2>2, <2>3 DEF Resting, consumerVars
  <2>5. Published' \in Nat /\ Published' >= Published
    <3>1. Published \in Nat /\ CURSOR \in Loc  BY Basics, LocFacts
    <3>2. QED  BY <1>1, <1>3, <1>4, <3>1 DEF Published
  <2>6. begun \in Nat  BY Basics
  <2>7. QED  BY <2>4, <2>5, <2>6, RestingStep
<1>9. QED  BY <1>3, <1>6, <1>7, <1>8

(* A store changes no message that is there. *)
LEMMA KeepHistory ==
    ASSUME IInv, NEW l \in Loc, NEW val, NEW ordering, Stores(l, val, ordering)
    PROVE  /\ \A t \in 1 .. Newest(CURSOR) : CursorMessage(t)'
           /\ \A q \in Nat :
                 /\ l # SeqAt(slot(q)) \/ OddAt(q) # Newest(l) + 1 => OddMessage(q)'
                 /\ l # SeqAt(slot(q)) \/ EvenAt(q) # Newest(l) + 1 => EvenMessage(q)'
                 /\ \A w \in Words : l # DataAt(slot(q), w) \/ WordAt(q) # Newest(l) + 1 =>
                       WordMessage(q, w)'
<1>1. \A k \in Loc : Newest(k) \in Nat /\ \A t \in 1 .. Newest(k) : mem'[k][t] = mem[k][t]
  BY Basics DEF Stores
<1>2. \A k \in Loc : Newest(k)' = IF k = l THEN Newest(k) + 1 ELSE Newest(k)
  BY DEF Stores
<1>3. ASSUME NEW t \in 1 .. Newest(CURSOR) PROVE CursorMessage(t)'
  <2>1. mem'[CURSOR][t] = mem[CURSOR][t]  BY <1>1, LocFacts
  <2>2. CursorMessage(t)  BY DEF IInv, History
  <2>3. QED  BY <2>1, <2>2 DEF CursorMessage
<1>4. ASSUME NEW q \in Nat, l # SeqAt(slot(q)) \/ OddAt(q) # Newest(l) + 1
      PROVE  OddMessage(q)'
  <2>1. PICK k \in Loc : k = SeqAt(slot(q))  BY PositionFacts, LocFacts
  <2>2. OddAt(q) \in Nat /\ OddAt(q) >= 1  BY PositionFacts
  <2>3. OddAt(q) <= Newest(k)' => OddAt(q) \in 1 .. Newest(k)
    BY <1>1, <1>2, <1>4, <2>1, <2>2
  <2>4. OddMessage(q)  BY DEF IInv, History
  <2>5. QED  BY <1>1, <2>1, <2>2, <2>3, <2>4 DEF OddMessage
<1>5. ASSUME NEW q \in Nat, l # SeqAt(slot(q)) \/ EvenAt(q) # Newest(l) + 1
      PROVE  EvenMessage(q)'
  <2>1. PICK k \in Loc : k = SeqAt(slot(q))  BY PositionFacts, LocFacts
  <2>2. EvenAt(q) \in Nat /\ EvenAt(q) >= 1  BY PositionFacts
  <2>3. EvenAt(q) <= Newest(k)' => EvenAt(q) \in 1 .. Newest(k)
    BY <1>1, <1>2, <1>5, <2>1, <2>2
  <2>4. EvenMessage(q)  BY DEF IInv, History
  <2>5. QED  BY <1>1, <2>1, <2>2, <2>3, <2>4 DEF EvenMessage
<1>6. ASSUME NEW q \in Nat, NEW w \in Words,
             l # DataAt(slot(q), w) \/ WordAt(q) # Newest(l) + 1
      PROVE  WordMessage(q, w)'
  <2>1. PICK k \in Loc : k = DataAt(slot(q), w)  BY PositionFacts, LocFacts
  <2>2. WordAt(q) \in Nat /\ WordAt(q) >= 1  BY PositionFacts
  <2>3. WordAt(q) <= Newest(k)' => WordAt(q) \in 1 .. Newest(k)
    BY <1>1, <1>2, <1>6, <2>1, <2>2
  <2>4. WordMessage(q, w)  BY DEF IInv, History
  <2>5. QED  BY <1>1, <2>1, <2>2, <2>3, <2>4 DEF WordMessage
<1>7. QED  BY <1>3, <1>4, <1>5, <1>6

(* The position one turn later. *)
LEMMA NextTurn ==
    ASSUME NEW q \in Nat
    PROVE  slot(q + CAPACITY) = slot(q) /\ Turn(q + CAPACITY) = Turn(q) + 1
<1>1. slot(q) \in Slots /\ Turn(q) \in Nat /\ q = Turn(q) * CAPACITY + slot(q)
  BY PositionFacts
<1>2. Turn(q) + 1 \in Nat /\ slot(q) \in Int  BY <1>1 DEF Slots
<1>3. PICK r \in Nat : slot(r) = slot(q) /\ Turn(r) = Turn(q) + 1  BY <1>1, <1>2, PositionOf
<1>4. r = (Turn(q) + 1) * CAPACITY + slot(q)  BY <1>3, PositionFacts
<1>5. (Turn(q) + 1) * CAPACITY = Turn(q) * CAPACITY + CAPACITY  BY <1>1, Constants
<1>6. PICK x \in Int : x = Turn(q) * CAPACITY  BY <1>1, Constants
<1>7. r = q + CAPACITY
  <2>1. q = x + slot(q) /\ r = (x + CAPACITY) + slot(q)  BY <1>1, <1>4, <1>5, <1>6
  <2>2. QED  BY <1>2, <2>1, Constants
<1>8. QED  BY <1>3, <1>7

(* In the course of a publish. *)
LEMMA Writing ==
    ASSUME IInv, ppc # "idle"
    PROVE  /\ Published \in Nat /\ begun = Published + 1 /\ begun \in Nat
           /\ w_pos = Wrap(Published) /\ slot(w_pos) = slot(Published)
           /\ slot(Published) \in Slots
           /\ Newest(SeqAt(slot(Published))) = OddAt(Published) - 1 + SeqsStored
           /\ \A w \in Words : Newest(DataAt(slot(Published), w))
                                 = WordAt(Published) - 1 + WordsStored(w)
           /\ OddAt(Published) \in Nat /\ WordAt(Published) \in Nat
           /\ \A q \in Published .. Published + CAPACITY - 1 :
                 q # Published => slot(q) # slot(Published)
<1>1. Published \in Nat /\ begun \in Nat  BY Basics
<1>2. begun = Published + 1 /\ w_pos = Wrap(Published)  BY DEF IInv, Producing
<1>3. slot(w_pos) = slot(Published)  BY <1>1, <1>2, SlotWrap
<1>4. slot(Published) \in Slots /\ OddAt(Published) \in Nat /\ WordAt(Published) \in Nat
  BY <1>1, PositionFacts
<1>5. Published \in Published .. Published + CAPACITY - 1  BY <1>1, Constants
<1>6. /\ Newest(SeqAt(slot(Published))) = OddAt(Published) - 1 + SeqsStored
      /\ \A w \in Words : Newest(DataAt(slot(Published), w))
                            = WordAt(Published) - 1 + WordsStored(w)
  BY <1>5 DEF IInv, Producing
<1>7. ASSUME NEW q \in Published .. Published + CAPACITY - 1, q # Published,
             slot(q) = slot(Published)
      PROVE  FALSE
  <2>1. q \in Nat /\ Published < q /\ q < Published + CAPACITY  BY <1>1, <1>7, Constants
  <2>2. Published + CAPACITY <= q  BY <1>1, <1>7, <2>1, TurnOrder
  <2>3. QED  BY <1>1, <2>1, <2>2, Constants
<1>8. QED  BY <1>1, <1>2, <1>3, <1>4, <1>6, <1>7

(* let w_pos = write_cursor.load(Relaxed): its own newest store *)
LEMMA PublishLoadStep == ASSUME IInv, PublishLoad PROVE IInv'
<1>1. PICK t : /\ ppc = "idle" /\ begun < MAX_PUBLISH
               /\ Load("P", CURSOR, t, "Relaxed", "None")
               /\ w_pos' = mem[CURSOR][t].val /\ ppc' = "odd" /\ begun' = begun + 1
               /\ UNCHANGED <<wtodo, consumerVars>>
  BY DEF PublishLoad
<1>2. /\ "P" \in Thread /\ CURSOR \in Loc /\ MemoryOK(Loc, Thread)
      /\ \A l \in Loc : cur["P"][l] = Newest(l)
      /\ \A th \in Thread : \A l \in Loc : acq[th][l] >= cur[th][l]
  BY LocFacts, Basics DEF IInv, Producing, Fences
<1>3. /\ mem' = mem /\ cur' = cur /\ t = Newest(CURSOR) /\ t \in 1 .. Newest(CURSOR)
  BY <1>1, <1>2, NewestLoad
<1>4. /\ MemoryOK(Loc, Thread)' /\ rel' = rel
      /\ \A u \in Thread : u # "P" => acq'[u] = acq[u]
      /\ \A l \in Loc : acq'["P"][l] >= cur'["P"][l]
  BY <1>1, <1>2, LoadFacts
<1>5. Published \in Nat /\ begun \in Nat /\ begun = Published
  BY <1>1, Basics DEF IInv, Producing
<1>6. mem[CURSOR][t].val = Wrap(Published)
  BY <1>3 DEF IInv, History, CursorMessage, Published
<1>7. /\ Published' = Published /\ SeqsStored' = SeqsStored /\ \A l : Newest(l)' = Newest(l)
      /\ \A w : WordsStored(w)' = WordsStored(w)
  BY <1>1, <1>3 DEF Published, Newest, SeqsStored, WordsStored
<1>8. TypeOK'
  <2>1. w_pos' \in 0 .. WORD - 1  BY <1>1, <1>5, <1>6, SlotWrap
  <2>2. QED  BY <1>1, <1>4, <1>5, <2>1 DEF IInv, TypeOK, consumerVars
<1>9. Producing'
  <2>1. begun' = Published + 1 /\ begun' <= MAX_PUBLISH  BY <1>1, <1>5, Constants
  <2>2. QED  BY <1>1, <1>3, <1>6, <1>7, <2>1 DEF IInv, Producing
<1>10. History'
  BY <1>3, <1>7 DEF IInv, History, CursorMessage, OddMessage, EvenMessage, WordMessage
<1>11. Fences'
  <2>1. \A th \in Thread : \A l \in Loc : acq'[th][l] >= cur'[th][l]  BY <1>2, <1>3, <1>4
  <2>2. QED  BY <1>1, <2>1 DEF Fences
<1>12. Readers'
  <2> SUFFICES ASSUME NEW c \in Consumers PROVE Reader(c)' /\ Returned(c)'  BY DEF Readers
  <2>1. c \in Thread /\ c # "P"  BY LocFacts
  <2>2. cur'[c] = cur[c] /\ acq'[c] = acq[c]  BY <1>3, <1>4, <2>1
  <2>3. \A k \in Loc : cur[c][k] \in Nat /\ acq[c][k] \in Nat  BY <2>1, Basics
  <2>4. Resting(c)  BY <1>1, <2>2, <2>3 DEF Resting, consumerVars
  <2>5. begun' \in Nat /\ begun' >= begun  BY <1>1, <1>5
  <2>6. QED  BY <1>5, <1>7, <2>4, <2>5, RestingStep
<1>13. QED  BY <1>8, <1>9, <1>10, <1>11, <1>12 DEF IInv

(* slot.seq.store(2 * w_pos + 1, Relaxed); fence(Release) *)
LEMMA PublishOddStep == ASSUME IInv, PublishOdd PROVE IInv'
<1>1. ppc = "odd"  BY DEF PublishOdd
<1>2. PICK n \in Nat : n = Published  BY Basics
<1>3. /\ w_pos = Wrap(n) /\ slot(w_pos) = slot(n) /\ slot(n) \in Slots
      /\ Newest(SeqAt(slot(n))) = OddAt(n) - 1 /\ OddAt(n) \in Nat
      /\ \A q \in n .. n + CAPACITY - 1 : q # n => slot(q) # slot(n)
  BY <1>1, <1>2, Writing DEF SeqsStored
<1>4. PICK l \in Loc : l = SeqAt(slot(n))  BY <1>3, LocFacts
<1>5. PICK val \in Nat : val = Wrap(2 * n + 1)
  <2>1. 2 * n + 1 \in Nat  OBVIOUS
  <2>2. QED  BY <2>1, SlotWrap
<1>6. /\ Store("P", l, val, "Relaxed", "Release") /\ ppc' = "words" /\ wtodo' = Words
      /\ UNCHANGED <<w_pos, begun, consumerVars>>
  BY <1>3, <1>4, <1>5, SeqWrap DEF PublishOdd, OddStoreFence
<1>7. /\ Stores(l, val, "Relaxed") /\ MemoryOK(Loc, Thread)' /\ Readers'
      /\ \A th \in Thread : \A k \in Loc : acq'[th][k] >= cur'[th][k]
      /\ rel'["P"] = cur'["P"]
  BY <1>6, ProducerStore
<1>8. /\ Newest(l)' = OddAt(n) /\ Newest(l) + 1 = OddAt(n) /\ CURSOR # l /\ CURSOR \in Loc
      /\ \A k \in Loc : k # l => Newest(k)' = Newest(k)
      /\ mem'[l][OddAt(n)].val = val /\ \A k \in Loc : cur'["P"][k] = Newest(k)'
  BY <1>3, <1>4, <1>7, LocFacts DEF Stores
<1>9. Published' = n /\ Newest(CURSOR)' = Newest(CURSOR)  BY <1>2, <1>8 DEF Published
<1>10. TypeOK'  BY <1>6, <1>7 DEF IInv, TypeOK, consumerVars
<1>11. Producing'
  <2>1. ASSUME NEW q \in n .. n + CAPACITY - 1
        PROVE  /\ Newest(SeqAt(slot(q)))' = OddAt(q) - 1 + (IF q = n THEN 1 ELSE 0)
               /\ \A w \in Words : Newest(DataAt(slot(q), w))' = WordAt(q) - 1
    <3>1. q \in Nat /\ slot(q) \in Slots  BY PositionFacts
    <3>2. /\ Newest(SeqAt(slot(q))) = OddAt(q) - 1
          /\ \A w \in Words : Newest(DataAt(slot(q), w)) = WordAt(q) - 1
      <4>1. /\ Newest(SeqAt(slot(q))) = OddAt(q) - 1 + 0
            /\ \A w \in Words : Newest(DataAt(slot(q), w)) = WordAt(q) - 1 + 0
        BY <1>1, <1>2 DEF IInv, Producing, SeqsStored, WordsStored
      <4>2. OddAt(q) \in Nat /\ WordAt(q) \in Nat  BY <3>1, PositionFacts
      <4>3. QED  BY <4>1, <4>2
    <3>3. \A w \in Words : Newest(DataAt(slot(q), w))' = WordAt(q) - 1
      BY <1>3, <1>4, <1>8, <3>1, <3>2, LocFacts
    <3>4. CASE q = n  BY <1>3, <1>4, <1>8, <3>3, <3>4
    <3>5. CASE q # n
      <4>1. SeqAt(slot(q)) \in Loc /\ SeqAt(slot(q)) # l  BY <1>3, <1>4, <3>1, <3>5, LocFacts
      <4>2. OddAt(q) \in Nat  BY <3>1, PositionFacts
      <4>3. QED  BY <1>8, <3>2, <3>3, <3>5, <4>1, <4>2
    <3>6. QED  BY <3>4, <3>5
  <2>2. SeqsStored' = 1 /\ \A w \in Words : WordsStored(w)' = 0
    BY <1>6 DEF SeqsStored, WordsStored
  <2>3. ASSUME NEW q \in n .. n + CAPACITY - 1, NEW w \in Words
        PROVE  WordAt(q) - 1 = WordAt(q) - 1 + (IF q = n THEN 0 ELSE 0)
    <3>1. q \in Nat  OBVIOUS
    <3>2. WordAt(q) \in Nat  BY <3>1, PositionFacts
    <3>3. QED  BY <3>2
  <2>4. begun = n + 1 /\ begun <= MAX_PUBLISH  BY <1>1, <1>2, Writing, Basics
  <2>5. QED  BY <1>3, <1>6, <1>8, <1>9, <2>1, <2>2, <2>3, <2>4 DEF Producing
<1>12. History'
  <2>1. /\ \A t \in 1 .. Newest(CURSOR) : CursorMessage(t)'
        /\ \A q \in Nat :
              /\ l # SeqAt(slot(q)) \/ OddAt(q) # OddAt(n) => OddMessage(q)'
              /\ l # SeqAt(slot(q)) \/ EvenAt(q) # OddAt(n) => EvenMessage(q)'
              /\ \A w \in Words : l # DataAt(slot(q), w) => WordMessage(q, w)'
    BY <1>7, <1>8, KeepHistory
  <2>2. ASSUME NEW q \in Nat PROVE OddMessage(q)'
    <3>1. CASE l = SeqAt(slot(q)) /\ OddAt(q) = OddAt(n)
      <4>1. slot(q) = slot(n)  BY <1>3, <1>4, <3>1, PositionFacts, LocFacts
      <4>2. q = n  BY <3>1, <4>1, OnePosition
      <4>3. QED  BY <1>4, <1>5, <1>8, <4>2 DEF OddMessage
    <3>2. QED  BY <2>1, <3>1
  <2>3. ASSUME NEW q \in Nat PROVE EvenMessage(q)'
    <3>1. EvenAt(q) # OddAt(n)
      <4>1. Turn(q) \in Nat /\ Turn(n) \in Nat  BY PositionFacts
      <4>2. QED  BY <4>1 DEF EvenAt, OddAt
    <3>2. QED  BY <2>1, <3>1
  <2>4. ASSUME NEW q \in Nat, NEW w \in Words PROVE WordMessage(q, w)'
    <3>1. l # DataAt(slot(q), w)  BY <1>3, <1>4, PositionFacts, LocFacts
    <3>2. QED  BY <2>1, <3>1
  <2>5. QED  BY <1>9, <2>1, <2>2, <2>3, <2>4 DEF History
<1>13. Fences'
  <2>1. rel'["P"][l] >= OddAt(n)  BY <1>3, <1>7, <1>8
  <2>2. QED  BY <1>4, <1>7, <1>9, <2>1 DEF Fences
<1>14. QED  BY <1>7, <1>10, <1>11, <1>12, <1>13 DEF IInv

(* One word of write_volatile: it is stored with the odd number, because   *)
(* of the fence before it.                                                 *)
LEMMA PublishWordStep == ASSUME IInv, NEW w \in Words, PublishWord(w) PROVE IInv'
<1>1. ppc = "words" /\ w \in wtodo  BY DEF PublishWord
<1>2. PICK n \in Nat : n = Published  BY Basics
<1>3. /\ w_pos = Wrap(n) /\ slot(w_pos) = slot(n) /\ slot(n) \in Slots
      /\ Newest(DataAt(slot(n), w)) = WordAt(n) - 1 + 0 /\ WordAt(n) \in Nat
      /\ begun = n + 1 /\ begun \in Nat
      /\ \A q \in n .. n + CAPACITY - 1 : q # n => slot(q) # slot(n)
  BY <1>1, <1>2, Writing DEF WordsStored
<1>4. PICK l \in Loc : l = DataAt(slot(n), w)  BY <1>3, LocFacts
<1>5. /\ Store("P", l, begun, "Relaxed", "None") /\ wtodo' = wtodo \ {w}
      /\ UNCHANGED <<ppc, w_pos, begun, consumerVars>>
  BY <1>3, <1>4 DEF PublishWord
<1>6. /\ Stores(l, begun, "Relaxed") /\ MemoryOK(Loc, Thread)' /\ Readers'
      /\ \A th \in Thread : \A k \in Loc : acq'[th][k] >= cur'[th][k]
      /\ rel'["P"] = rel["P"]
  BY <1>3, <1>5, ProducerStore
<1>7. /\ Newest(l)' = WordAt(n) /\ Newest(l) + 1 = WordAt(n) /\ CURSOR # l /\ CURSOR \in Loc
      /\ \A k \in Loc : k # l => Newest(k)' = Newest(k)
      /\ mem'[l][WordAt(n)].val = begun /\ \A k \in Loc : cur'["P"][k] = Newest(k)'
      /\ \A k \in Loc : k # l => mem'[l][WordAt(n)].view[k] = rel["P"][k]
  BY <1>3, <1>4, <1>6, LocFacts DEF Stores
<1>8. Published' = n /\ Newest(CURSOR)' = Newest(CURSOR)  BY <1>2, <1>7 DEF Published
<1>9. TypeOK'  BY <1>5, <1>6 DEF IInv, TypeOK, consumerVars
<1>10. Producing'
  <2>1. SeqsStored' = SeqsStored /\ \A v \in Words : v # w => WordsStored(v)' = WordsStored(v)
    BY <1>5 DEF SeqsStored, WordsStored
  <2>2. WordsStored(w)' = 1  BY <1>1, <1>5 DEF WordsStored
  <2>3. ASSUME NEW q \in n .. n + CAPACITY - 1
        PROVE  /\ Newest(SeqAt(slot(q)))' = OddAt(q) - 1 + (IF q = n THEN SeqsStored ELSE 0)'
               /\ \A v \in Words : Newest(DataAt(slot(q), v))'
                      = WordAt(q) - 1 + (IF q = n THEN WordsStored(v) ELSE 0)'
    <3>1. q \in Nat /\ slot(q) \in Slots  BY PositionFacts
    <3>2. /\ Newest(SeqAt(slot(q))) = OddAt(q) - 1 + (IF q = n THEN SeqsStored ELSE 0)
          /\ \A v \in Words : Newest(DataAt(slot(q), v))
                 = WordAt(q) - 1 + (IF q = n THEN WordsStored(v) ELSE 0)
      BY <1>2 DEF IInv, Producing
    <3>3. Newest(SeqAt(slot(q)))' = Newest(SeqAt(slot(q)))
      BY <1>3, <1>4, <1>7, <3>1, LocFacts
    <3>4. ASSUME NEW v \in Words
          PROVE  Newest(DataAt(slot(q), v))'
                     = WordAt(q) - 1 + (IF q = n THEN WordsStored(v) ELSE 0)'
      <4>1. CASE q = n /\ v = w
        <5>1. WordAt(n) = WordAt(n) - 1 + 1  BY <1>3
        <5>2. QED  BY <1>4, <1>7, <2>2, <4>1, <5>1
      <4>2. CASE ~(q = n /\ v = w)
        <5>1. DataAt(slot(q), v) \in Loc /\ DataAt(slot(q), v) # l
          BY <1>3, <1>4, <3>1, <4>2, LocFacts
        <5>2. QED  BY <1>7, <2>1, <3>2, <4>2, <5>1
      <4>3. QED  BY <4>1, <4>2
    <3>5. QED  BY <2>1, <3>2, <3>3, <3>4
  <2>4. begun <= MAX_PUBLISH  BY Basics
  <2>5. QED  BY <1>1, <1>3, <1>5, <1>7, <1>8, <2>3, <2>4 DEF Producing
<1>11. History'
  <2>1. /\ \A t \in 1 .. Newest(CURSOR) : CursorMessage(t)'
        /\ \A q \in Nat :
              /\ l # SeqAt(slot(q)) => OddMessage(q)' /\ EvenMessage(q)'
              /\ \A v \in Words : l # DataAt(slot(q), v) \/ WordAt(q) # WordAt(n) =>
                    WordMessage(q, v)'
    BY <1>6, <1>7, KeepHistory
  <2>2. ASSUME NEW q \in Nat PROVE OddMessage(q)' /\ EvenMessage(q)'
    <3>1. l # SeqAt(slot(q))  BY <1>3, <1>4, PositionFacts, LocFacts
    <3>2. QED  BY <2>1, <3>1
  <2>3. ASSUME NEW q \in Nat, NEW v \in Words PROVE WordMessage(q, v)'
    <3>1. CASE l = DataAt(slot(q), v) /\ WordAt(q) = WordAt(n)
      <4>1. slot(q) = slot(n) /\ v = w
        <5>1. slot(q) \in Slots /\ DataAt(slot(q), v) = DataAt(slot(n), w)
          BY <1>4, <3>1, PositionFacts
        <5>2. QED  BY <1>3, <5>1, LocFacts
      <4>2. q = n  BY <3>1, <4>1, OnePosition
      <4>3. SeqAt(slot(n)) \in Loc /\ SeqAt(slot(n)) # l  BY <1>3, <1>4, LocFacts
      <4>4. rel["P"][SeqAt(slot(n))] >= OddAt(n)  BY <1>1, <1>2 DEF IInv, Fences
      <4>5. QED  BY <1>3, <1>4, <1>7, <4>1, <4>2, <4>3, <4>4 DEF WordMessage
    <3>2. QED  BY <2>1, <3>1
  <2>4. QED  BY <1>8, <2>1, <2>2, <2>3 DEF History
<1>12. Fences'  BY <1>1, <1>2, <1>6, <1>8 DEF IInv, Fences
<1>13. QED  BY <1>6, <1>9, <1>10, <1>11, <1>12 DEF IInv

(* slot.seq.store(2 * w_pos + 2, Release): stored with all the words *)
LEMMA PublishEvenStep == ASSUME IInv, PublishEven PROVE IInv'
<1>1. ppc = "words" /\ wtodo = {}  BY DEF PublishEven
<1>2. PICK n \in Nat : n = Published  BY Basics
<1>3. /\ w_pos = Wrap(n) /\ slot(w_pos) = slot(n) /\ slot(n) \in Slots
      /\ Newest(SeqAt(slot(n))) = OddAt(n) - 1 + 1 /\ OddAt(n) \in Nat
      /\ \A w \in Words : Newest(DataAt(slot(n), w)) = WordAt(n) - 1 + 1
      /\ WordAt(n) \in Nat /\ begun = n + 1
      /\ \A q \in n .. n + CAPACITY - 1 : q # n => slot(q) # slot(n)
  BY <1>1, <1>2, Writing DEF SeqsStored, WordsStored
<1>4. PICK l \in Loc : l = SeqAt(slot(n))  BY <1>3, LocFacts
<1>5. PICK val \in Nat : val = Wrap(2 * n + 2)
  <2>1. 2 * n + 2 \in Nat  OBVIOUS
  <2>2. QED  BY <2>1, SlotWrap
<1>6. /\ Store("P", l, val, "Release", "None") /\ ppc' = "cursor"
      /\ UNCHANGED <<w_pos, wtodo, begun, consumerVars>>
  BY <1>3, <1>4, <1>5, SeqWrap DEF PublishEven, EvenStoreOrdering
<1>7. /\ Stores(l, val, "Release") /\ MemoryOK(Loc, Thread)' /\ Readers'
      /\ \A th \in Thread : \A k \in Loc : acq'[th][k] >= cur'[th][k]
  BY <1>6, ProducerStore
<1>8. EvenAt(n) = OddAt(n) + 1 /\ EvenAt(n) \in Nat  BY PositionFacts
<1>9. /\ Newest(l)' = EvenAt(n) /\ Newest(l) + 1 = EvenAt(n) /\ CURSOR # l /\ CURSOR \in Loc
      /\ \A k \in Loc : k # l => Newest(k)' = Newest(k)
      /\ mem'[l][EvenAt(n)].val = val /\ \A k \in Loc : cur'["P"][k] = Newest(k)'
      /\ \A k \in Loc : k # l => mem'[l][EvenAt(n)].view[k] = Newest(k)
  BY <1>3, <1>4, <1>7, <1>8, LocFacts DEF Stores
<1>10. Published' = n /\ Newest(CURSOR)' = Newest(CURSOR) /\ Newest(CURSOR) = n + 1
  BY <1>2, <1>9, Basics DEF Published
<1>11. TypeOK'  BY <1>6, <1>7 DEF IInv, TypeOK, consumerVars
<1>12. Producing'
  <2>1. /\ SeqsStored' = 2 /\ \A w \in Words : WordsStored(w)' = WordsStored(w)
    BY <1>1, <1>6 DEF SeqsStored, WordsStored
  <2>2. ASSUME NEW q \in n .. n + CAPACITY - 1
        PROVE  /\ Newest(SeqAt(slot(q)))' = OddAt(q) - 1 + (IF q = n THEN SeqsStored ELSE 0)'
               /\ \A w \in Words : Newest(DataAt(slot(q), w))'
                      = WordAt(q) - 1 + (IF q = n THEN WordsStored(w) ELSE 0)'
    <3>1. q \in Nat /\ slot(q) \in Slots  BY PositionFacts
    <3>2. /\ Newest(SeqAt(slot(q))) = OddAt(q) - 1 + (IF q = n THEN SeqsStored ELSE 0)
          /\ \A w \in Words : Newest(DataAt(slot(q), w))
                 = WordAt(q) - 1 + (IF q = n THEN WordsStored(w) ELSE 0)
      BY <1>2 DEF IInv, Producing
    <3>3. \A w \in Words : Newest(DataAt(slot(q), w))' = Newest(DataAt(slot(q), w))
      BY <1>3, <1>4, <1>9, <3>1, LocFacts
    <3>4. CASE q = n
      <4>1. EvenAt(n) = OddAt(n) - 1 + 2  BY <1>3, <1>8
      <4>2. QED  BY <1>4, <1>9, <2>1, <3>2, <3>3, <3>4, <4>1
    <3>5. CASE q # n
      <4>1. SeqAt(slot(q)) \in Loc /\ SeqAt(slot(q)) # l  BY <1>3, <1>4, <3>1, <3>5, LocFacts
      <4>2. QED  BY <1>9, <2>1, <3>2, <3>3, <3>5, <4>1
    <3>6. QED  BY <3>4, <3>5
  <2>3. begun <= MAX_PUBLISH  BY Basics
  <2>4. QED  BY <1>3, <1>6, <1>9, <1>10, <2>2, <2>3 DEF Producing
<1>13. History'
  <2>1. /\ \A t \in 1 .. Newest(CURSOR) : CursorMessage(t)'
        /\ \A q \in Nat :
              /\ l # SeqAt(slot(q)) \/ OddAt(q) # EvenAt(n) => OddMessage(q)'
              /\ l # SeqAt(slot(q)) \/ EvenAt(q) # EvenAt(n) => EvenMessage(q)'
              /\ \A w \in Words : l # DataAt(slot(q), w) => WordMessage(q, w)'
    BY <1>7, <1>9, KeepHistory
  <2>2. ASSUME NEW q \in Nat PROVE OddMessage(q)'
    <3>1. OddAt(q) # EvenAt(n)
      <4>1. Turn(q) \in Nat /\ Turn(n) \in Nat  BY PositionFacts
      <4>2. QED  BY <4>1 DEF EvenAt, OddAt
    <3>2. QED  BY <2>1, <3>1
  <2>3. ASSUME NEW q \in Nat PROVE EvenMessage(q)'
    <3>1. CASE l = SeqAt(slot(q)) /\ EvenAt(q) = EvenAt(n)
      <4>1. slot(q) = slot(n)  BY <1>3, <1>4, <3>1, PositionFacts, LocFacts
      <4>2. q = n  BY <3>1, <4>1, OnePosition
      <4>3. mem'[l][EvenAt(n)].view[CURSOR] >= n + 1  BY <1>9, <1>10
      <4>4. ASSUME NEW w \in Words
            PROVE  mem'[l][EvenAt(n)].view[DataAt(slot(n), w)] >= WordAt(n)
        BY <1>3, <1>4, <1>9, LocFacts
      <4>5. QED  BY <1>4, <1>5, <1>9, <4>2, <4>3, <4>4 DEF EvenMessage
    <3>2. QED  BY <2>1, <3>1
  <2>4. ASSUME NEW q \in Nat, NEW w \in Words PROVE WordMessage(q, w)'
    <3>1. l # DataAt(slot(q), w)  BY <1>3, <1>4, PositionFacts, LocFacts
    <3>2. QED  BY <2>1, <3>1
  <2>5. QED  BY <1>10, <2>1, <2>2, <2>3, <2>4 DEF History
<1>14. Fences'  BY <1>6, <1>7 DEF Fences
<1>15. QED  BY <1>7, <1>11, <1>12, <1>13, <1>14 DEF IInv

(* write_cursor.store(w_pos + 1, Release): stored with the even numbers of *)
(* all positions before it                                                 *)
LEMMA PublishCursorStep == ASSUME IInv, PublishCursor PROVE IInv'
<1>1. ppc = "cursor"  BY DEF PublishCursor
<1>2. PICK n \in Nat : n = Published  BY Basics
<1>3. /\ w_pos = Wrap(n) /\ slot(n) \in Slots /\ begun = n + 1
      /\ Newest(SeqAt(slot(n))) = OddAt(n) - 1 + 2 /\ OddAt(n) \in Nat
      /\ \A w \in Words : Newest(DataAt(slot(n), w)) = WordAt(n) - 1 + 1
      /\ WordAt(n) \in Nat
  BY <1>1, <1>2, Writing DEF SeqsStored, WordsStored
<1>4. PICK val \in Nat : val = Wrap(n + 1)
  <2>1. n + 1 \in Nat  OBVIOUS
  <2>2. QED  BY <2>1, SlotWrap
<1>5. Wrap(w_pos + 1) = val
  <2>1. ((n % WORD) + 1) % WORD = (n + 1) % WORD  BY n \in Int, 1 \in Int, Constants, ModAdd
  <2>2. QED  BY <1>3, <1>4, <2>1 DEF Wrap
<1>6. /\ Store("P", CURSOR, val, "Release", "None") /\ ppc' = "idle"
      /\ UNCHANGED <<w_pos, wtodo, begun, consumerVars>>
  BY <1>5 DEF PublishCursor, CursorStoreOrdering
<1>7. /\ Stores(CURSOR, val, "Release") /\ MemoryOK(Loc, Thread)' /\ Readers'
      /\ \A th \in Thread : \A k \in Loc : acq'[th][k] >= cur'[th][k]
  BY <1>6, LocFacts, ProducerStore
<1>8. Newest(CURSOR) = n + 1 /\ CURSOR \in Loc  BY <1>2, Basics, LocFacts DEF Published
<1>9. /\ Newest(CURSOR)' = n + 2
      /\ \A k \in Loc : k # CURSOR => Newest(k)' = Newest(k)
      /\ mem'[CURSOR][n + 2].val = val /\ \A k \in Loc : cur'["P"][k] = Newest(k)'
      /\ \A k \in Loc : k # CURSOR => mem'[CURSOR][n + 2].view[k] = Newest(k)
  <2>1. Newest(CURSOR) + 1 = n + 2  BY <1>8
  <2>2. QED  BY <1>7, <2>1 DEF Stores
<1>10. Published' = n + 1  BY <1>9 DEF Published
<1>11. TypeOK'  BY <1>6, <1>7 DEF IInv, TypeOK, consumerVars
<1>12. Producing'
  <2>1. SeqsStored' = 0 /\ \A w \in Words : WordsStored(w)' = 0
    BY <1>6 DEF SeqsStored, WordsStored
  <2>2. ASSUME NEW q \in n + 1 .. n + 1 + CAPACITY - 1
        PROVE  /\ Newest(SeqAt(slot(q)))' = OddAt(q) - 1 + 0
               /\ \A w \in Words : Newest(DataAt(slot(q), w))' = WordAt(q) - 1 + 0
    <3>1. q \in Nat /\ slot(q) \in Slots  BY Constants, PositionFacts
    <3>2. /\ Newest(SeqAt(slot(q)))' = Newest(SeqAt(slot(q)))
          /\ \A w \in Words : Newest(DataAt(slot(q), w))' = Newest(DataAt(slot(q), w))
      BY <1>9, <3>1, LocFacts
    <3>3. CASE q = n + CAPACITY
      <4>1. slot(q) = slot(n) /\ Turn(q) = Turn(n) + 1 /\ Turn(n) \in Nat
        BY <3>3, NextTurn, PositionFacts
      <4>2. OddAt(q) - 1 + 0 = OddAt(n) - 1 + 2 /\ WordAt(q) - 1 + 0 = WordAt(n) - 1 + 1
        BY <4>1 DEF OddAt, WordAt
      <4>3. QED  BY <1>3, <3>2, <4>1, <4>2
    <3>4. CASE q # n + CAPACITY
      <4>1. q \in n .. n + CAPACITY - 1 /\ q # n  BY <3>4, Constants
      <4>2. /\ Newest(SeqAt(slot(q))) = OddAt(q) - 1 + 0
            /\ \A w \in Words : Newest(DataAt(slot(q), w)) = WordAt(q) - 1 + 0
        BY <1>2, <4>1 DEF IInv, Producing
      <4>3. QED  BY <3>2, <4>2
    <3>5. QED  BY <3>3, <3>4
  <2>3. begun <= MAX_PUBLISH  BY Basics
  <2>4. QED  BY <1>3, <1>6, <1>9, <1>10, <2>1, <2>2, <2>3 DEF Producing
<1>13. History'
  <2>1. /\ \A t \in 1 .. n + 1 : CursorMessage(t)'
        /\ \A q \in Nat :
              /\ CURSOR # SeqAt(slot(q)) => OddMessage(q)' /\ EvenMessage(q)'
              /\ \A w \in Words : CURSOR # DataAt(slot(q), w) => WordMessage(q, w)'
    BY <1>7, <1>8, KeepHistory
  <2>2. \A q \in Nat :
           OddMessage(q)' /\ EvenMessage(q)' /\ \A w \in Words : WordMessage(q, w)'
    BY <2>1, PositionFacts, LocFacts
  <2>3. CursorMessage(n + 2)'
    <3>1. ASSUME NEW q \in 0 .. (n + 2) - 2
          PROVE  mem'[CURSOR][n + 2].view[SeqAt(slot(q))] >= EvenAt(q)
      <4>1. q \in Nat /\ (q < n \/ q = n)  OBVIOUS
      <4>2. Newest(SeqAt(slot(q))) >= EvenAt(q)  BY <1>1, <1>2, <4>1, Stored
      <4>3. SeqAt(slot(q)) \in Loc /\ SeqAt(slot(q)) # CURSOR  BY <4>1, PositionFacts, LocFacts
      <4>4. QED  BY <1>9, <4>2, <4>3
    <3>2. (n + 2) - 1 = n + 1  OBVIOUS
    <3>3. QED  BY <1>4, <1>9, <3>1, <3>2 DEF CursorMessage
  <2>4. \A t \in 1 .. n + 2 : CursorMessage(t)'
    <3>1. \A t \in 1 .. n + 2 : t \in 1 .. n + 1 \/ t = n + 2  OBVIOUS
    <3>2. QED  BY <2>1, <2>3, <3>1
  <2>5. QED  BY <1>9, <2>2, <2>4 DEF History
<1>14. Fences'  BY <1>6, <1>7 DEF Fences
<1>15. QED  BY <1>7, <1>11, <1>12, <1>13, <1>14 DEF IInv

-----------------------------------------------------------------------------
(* The theorems. *)

(* new() establishes the invariant. *)
LEMMA InitIInv == ASSUME Init PROVE IInv
<1>1. /\ mem = [l \in Loc |-> <<[val |-> 0, view |-> FirstView(Loc)]>>]
      /\ cur = [th \in Thread |-> FirstView(Loc)]
      /\ acq = [th \in Thread |-> FirstView(Loc)]
      /\ rel = [th \in Thread |-> FirstView(Loc)]
  BY DEF Init, InitMemory
<1>2. FirstView(Loc) \in Views(Loc)  BY DEF FirstView, Views
<1>3. MemoryOK(Loc, Thread)
  <2>1. [val |-> 0, view |-> FirstView(Loc)] \in Messages(Loc)  BY <1>2 DEF Messages
  <2>2. QED  BY <1>1, <1>2, <2>1 DEF MemoryOK
<1>4. /\ \A l \in Loc : Newest(l) = 1
      /\ \A th \in Thread, l \in Loc : cur[th][l] = 1 /\ acq[th][l] = 1
      /\ mem[CURSOR][1].val = 0
  BY <1>1, LocFacts DEF Newest, FirstView
<1>5. Published = 0 /\ Wrap(0) = 0
  <2>1. 0 \in 0 .. WORD - 1  BY Constants
  <2>2. 0 % WORD = 0  BY <2>1, Constants, ModSmall
  <2>3. QED  BY <1>4, <2>2, LocFacts DEF Published, Wrap
<1>6. TypeOK
  <2>1. Result("Empty", Blank, 0, 0, 0)
          \in [kind : {"Empty", "Value", "Lapped"}, val : [Words -> Nat],
               at : Nat, skipped : 0 .. WORD - 1, lag : Nat]
    BY Constants DEF Result, Blank
  <2>2. got \in [Consumers -> [Words -> Nat]]  BY DEF Init, Blank
  <2>3. 0 \in 0 .. WORD - 1  BY Constants
  <2>4. QED  BY <1>3, <2>1, <2>2, <2>3 DEF Init, TypeOK
<1>7. ppc = "idle" /\ begun = 0  BY DEF Init
<1>8. ASSUME NEW q \in 0 .. CAPACITY - 1 PROVE Turn(q) = 0
  <2>1. q = 0 * CAPACITY + q /\ q \in Int /\ 0 \in Int  BY Constants
  <2>2. q \div CAPACITY = 0  BY <2>1, Constants, ModUnique
  <2>3. QED  BY <2>2 DEF Turn
<1>9. Producing
  <2>1. SeqsStored = 0 /\ \A w \in Words : WordsStored(w) = 0
    BY <1>7 DEF SeqsStored, WordsStored
  <2>2. ASSUME NEW q \in 0 .. CAPACITY - 1
        PROVE  /\ Newest(SeqAt(slot(q))) = OddAt(q) - 1 + 0
               /\ \A w \in Words : Newest(DataAt(slot(q), w)) = WordAt(q) - 1 + 0
    <3>1. q \in Nat /\ slot(q) \in Slots  BY PositionFacts
    <3>2. OddAt(q) = 2 /\ WordAt(q) = 2  BY <1>8 DEF OddAt, WordAt
    <3>3. QED  BY <1>4, <3>1, <3>2, LocFacts
  <2>3. 0 + CAPACITY - 1 = CAPACITY - 1 /\ 0 <= MAX_PUBLISH  BY Constants
  <2>4. \A l \in Loc : cur["P"][l] = Newest(l)  BY <1>4, LocFacts
  <2>5. QED  BY <1>5, <1>7, <2>1, <2>2, <2>3, <2>4 DEF Producing
<1>10. History
  <2>1. CursorMessage(1)  BY <1>4, <1>5 DEF CursorMessage
  <2>2. \A t \in 1 .. Newest(CURSOR) : CursorMessage(t)
    <3>1. \A t \in 1 .. 1 : t = 1  OBVIOUS
    <3>2. QED  BY <1>4, <2>1, <3>1, LocFacts
  <2>3. ASSUME NEW q \in Nat
        PROVE  /\ OddMessage(q) /\ EvenMessage(q)
               /\ \A w \in Words : WordMessage(q, w)
    <3>1. /\ slot(q) \in Slots /\ OddAt(q) \in Nat /\ OddAt(q) >= 2 /\ EvenAt(q) = OddAt(q) + 1
          /\ WordAt(q) \in Nat /\ WordAt(q) >= 2
      BY PositionFacts
    <3>2. /\ Newest(SeqAt(slot(q))) = 1
          /\ \A w \in Words : Newest(DataAt(slot(q), w)) = 1
      BY <1>4, <3>1, LocFacts
    <3>3. ~(OddAt(q) <= 1) /\ ~(EvenAt(q) <= 1) /\ ~(WordAt(q) <= 1)  BY <3>1
    <3>4. QED  BY <3>2, <3>3 DEF OddMessage, EvenMessage, WordMessage
  <2>4. QED  BY <2>2, <2>3 DEF History
<1>11. Fences  BY <1>4, <1>7 DEF Fences
<1>12. Readers
  <2> SUFFICES ASSUME NEW c \in Consumers PROVE Reader(c) /\ Returned(c)  BY DEF Readers
  <2>1. /\ read_cursor[c] = 0 /\ cached_write_cursor[c] = 0 /\ pos[c] = 0
        /\ cpc[c] \in {"idle", "off"} /\ res[c] = Result("Empty", Blank, 0, 0, 0)
    BY DEF Init
  <2>2. Knows(c, 0)  BY <1>4, <1>5, <2>1, LocFacts DEF Knows
  <2>3. Reader(c)  BY <1>5, <2>1, <2>2 DEF Reader
  <2>4. Returned(c)  BY <2>1, Constants DEF Returned, Result
  <2>5. QED  BY <2>3, <2>4
<1>13. QED  BY <1>6, <1>9, <1>10, <1>11, <1>12 DEF IInv

(* Every step keeps it. *)
LEMMA NextIInv == ASSUME IInv, [Next]_vars PROVE IInv'
<1>1. CASE PublishLoad  BY <1>1, PublishLoadStep
<1>2. CASE InPublish
  BY <1>2, PublishOddStep, PublishWordStep, PublishEvenStep, PublishCursorStep DEF InPublish
<1>3. ASSUME NEW c \in Consumers, TryRead(c) PROVE IInv'  BY <1>3, TryReadStep
<1>4. ASSUME NEW c \in Consumers, InTryRead(c) PROVE IInv'
  BY <1>4, IsStillEmptyStep, Seq1Step, LappedStep, ReadWordStep, Seq2Step
  DEF InTryRead, IsStillEmpty, Seq1, Lapped, Seq2
<1>5. ASSUME NEW c \in Consumers, NEW new \in Consumers, Clone(c, new) PROVE IInv'
  BY <1>5, CloneStep
<1>6. CASE UNCHANGED vars
  <2> USE <1>6 DEF vars, memVars, producerVars, consumerVars, IInv
  <2>1. TypeOK'  BY DEF TypeOK, MemoryOK
  <2>2. Producing'  BY DEF Producing, Published, SeqsStored, WordsStored, Newest
  <2>3. History'
    BY DEF History, CursorMessage, OddMessage, EvenMessage, WordMessage, Newest
  <2>4. Fences'  BY DEF Fences, Published, Newest
  <2>5. Readers'
    <3> SUFFICES ASSUME NEW c \in Consumers PROVE (Reader(c) /\ Returned(c))'  BY DEF Readers
    <3>1. Reader(c) /\ Returned(c)  BY DEF Readers
    <3>2. Reader(c)'  BY <3>1 DEF Reader, Knows, WordRead, Published, Newest
    <3>3. Returned(c)'  BY <3>1 DEF Returned
    <3>4. QED  BY <3>2, <3>3
  <2>6. QED  BY <2>1, <2>2, <2>3, <2>4, <2>5
<1>7. QED  BY <1>1, <1>2, <1>3, <1>4, <1>5, <1>6 DEF Next

(* The inductive invariant holds in every reachable state. *)
THEOREM Invariance == Spec => []IInv
<1>1. Init => IInv  BY InitIInv
<1>2. IInv /\ [Next]_vars => IInv'  BY NextIInv
<1>3. QED  BY <1>1, <1>2, PTL DEF Spec

(* The memory and the locals of publish and try_read have their types. *)
THEOREM SpmcTypeOK == Spec => []TypeOK
<1>1. IInv => TypeOK  BY DEF IInv
<1>2. QED  BY <1>1, Invariance, PTL

(* Every value that try_read returns is whole and is the one published at  *)
(* the position the caller has counted, however often slots are            *)
(* overwritten while they are read, unless the producer is WORD / 2        *)
(* publishes ahead.                                                        *)
THEOREM SpmcValueAtItsPosition == Spec => []ValueAtItsPosition
<1>1. IInv => ValueAtItsPosition  BY DEF IInv, Readers, Returned, ValueAtItsPosition
<1>2. QED  BY <1>1, Invariance, PTL

(* A consumer past the empty check sees its slot at its own position or a  *)
(* later one: an odd sequence number means that it has been lapped.        *)
THEOREM SpmcOddMeansLapped == Spec => []OddMeansLapped
<1>1. ASSUME IInv PROVE OddMeansLapped
  <2>1. \A c \in Consumers : slot(read_cursor[c]) = slot(pos[c])  BY <1>1, Basics
  <2>2. ASSUME NEW c \in Consumers, cpc[c] \in {"seq1", "lapped", "words"}
        PROVE  cur[c][SeqAt(slot(pos[c]))] >= EvenAt(pos[c])
    BY <1>1, <2>2, OwnTurn
  <2>3. QED  BY <2>1, <2>2 DEF OddMeansLapped, EvenAt, Turn
<1>2. QED  BY <1>1, Invariance, PTL

(* With more than one slot, and before the cursors wrap, Lapped always     *)
(* moves the cursor forward and says by how much.                          *)
THEOREM SpmcLappedAdvances ==
    ASSUME CAPACITY > 1, MAX_PUBLISH <= WORD
    PROVE  Spec => []LappedAdvances
<1>1. ASSUME IInv PROVE LappedAdvances
  <2> SUFFICES ASSUME NEW c \in Consumers, res[c].kind = "Lapped" PROVE res[c].skipped > 0
    BY DEF LappedAdvances
  <2>1. Returned(c)  BY <1>1 DEF IInv, Readers
  <2>2. res[c].lag \in Nat /\ res[c].lag <= MAX_PUBLISH
    BY <1>1, <2>1 DEF IInv, TypeOK, Returned
  <2>3. res[c].lag <= WORD  BY <2>2, Constants
  <2>4. QED  BY <2>1, <2>3 DEF Returned
<1>2. QED  BY <1>1, Invariance, PTL

-----------------------------------------------------------------------------
(* The queue implements the log of BroadcastLog.                           *)

(* What the log sees of a result: the value, 0 for none, -1 for a torn one *)
OutOf(c) ==
    IF res[c].kind # "Value" THEN 0
    ELSE IF \A w \in Words : res[c].val[w] = res[c].val[1] THEN res[c].val[1] ELSE -1
Out == [c \in Consumers |-> OutOf(c)]

(* A step that returns nothing and does not move the cursor is invisible.  *)
LEMMA LogStutter ==
    ASSUME Newest(CURSOR)' = Newest(CURSOR), UNCHANGED <<begun, pos, res>>
    PROVE  UNCHANGED Log!logVars
<1>1. Out' = Out  BY DEF Out, OutOf
<1>2. QED  BY <1>1 DEF Log!logVars, Out, OutOf

(* A result of consumer c changes only what c has been given. *)
LEMMA OutStep ==
    ASSUME IInv, NEW c \in Consumers, NEW r, res' = [res EXCEPT ![c] = r], NEW o,
           o = OutOf(c)'
    PROVE  Out' = [Out EXCEPT ![c] = o]
<1>1. \A d \in Consumers : d # c => res'[d] = res[d]  BY DEF IInv, TypeOK
<1>2. \A d \in Consumers : d # c => OutOf(d)' = OutOf(d)  BY <1>1 DEF OutOf
<1>3. Out' = [d \in Consumers |-> IF d = c THEN o ELSE OutOf(d)]  BY <1>2 DEF Out
<1>4. [Out EXCEPT ![c] = o] = [d \in Consumers |-> IF d = c THEN o ELSE OutOf(d)]  BY DEF Out
<1>5. QED  BY <1>3, <1>4

(* Beginning and ending a publish. *)
LEMMA LogProducer ==
    ASSUME IInv, PublishLoad \/ InPublish
    PROVE  [Log!Next]_(Log!logVars)
<1>1. CASE PublishLoad
  <2>1. /\ ppc = "idle" /\ begun' = begun + 1 /\ UNCHANGED consumerVars /\ mem' = mem
    BY <1>1 DEF PublishLoad, Load
  <2>2. Out' = Out /\ pos' = pos /\ Newest(CURSOR)' = Newest(CURSOR)
    BY <2>1 DEF consumerVars, Out, OutOf, Newest
  <2>3. begun = Newest(CURSOR) - 1  BY <2>1 DEF IInv, Producing, Published
  <2>4. Log!Begin  BY <2>1, <2>2, <2>3 DEF Log!Begin, Out, OutOf
  <2>5. QED  BY <2>4 DEF Log!Next
<1>2. ASSUME NEW l \in Loc, NEW val, NEW ordering, NEW fence, l # CURSOR,
             Store("P", l, val, ordering, fence), UNCHANGED <<begun, consumerVars>>
      PROVE  UNCHANGED Log!logVars
  <2>1. mem'[CURSOR] = mem[CURSOR]
    BY <1>2, Basics, LocFacts DEF Store, MemoryOK
  <2>2. QED  BY <1>2, <2>1, LogStutter DEF Newest, consumerVars
<1>3. ppc # "idle" => slot(w_pos) \in Slots /\ Published < begun
  <2>1. Published \in Nat  BY Basics
  <2>2. ppc # "idle" => w_pos = Wrap(Published) /\ begun = Published + 1
    BY DEF IInv, Producing
  <2>3. slot(Published) \in Slots /\ slot(Wrap(Published)) = slot(Published)
    BY <2>1, PositionFacts, SlotWrap
  <2>4. QED  BY <2>1, <2>2, <2>3
<1>4. CASE PublishOdd
  <2>1. SeqAt(slot(w_pos)) \in Loc /\ SeqAt(slot(w_pos)) # CURSOR
    BY <1>3, <1>4, LocFacts DEF PublishOdd
  <2>2. QED  BY <1>2, <1>4, <2>1 DEF PublishOdd
<1>5. ASSUME NEW w \in Words, PublishWord(w) PROVE UNCHANGED Log!logVars
  <2>1. DataAt(slot(w_pos), w) \in Loc /\ DataAt(slot(w_pos), w) # CURSOR
    BY <1>3, <1>5, LocFacts DEF PublishWord
  <2>2. QED  BY <1>2, <1>5, <2>1 DEF PublishWord
<1>6. CASE PublishEven
  <2>1. SeqAt(slot(w_pos)) \in Loc /\ SeqAt(slot(w_pos)) # CURSOR
    BY <1>3, <1>6, LocFacts DEF PublishEven
  <2>2. QED  BY <1>2, <1>6, <2>1 DEF PublishEven
<1>7. CASE PublishCursor
  <2>1. ppc = "cursor" /\ ppc' = "idle" /\ UNCHANGED <<begun, consumerVars>>
    BY <1>7 DEF PublishCursor
  <2>2. IInv'  BY <1>7, PublishCursorStep
  <2>3. begun' = Newest(CURSOR)' - 1  BY <2>1, <2>2 DEF IInv, Producing, Published
  <2>4. Newest(CURSOR) - 1 < begun  BY <1>3, <2>1 DEF Published
  <2>5. Out' = Out /\ pos' = pos  BY <2>1 DEF consumerVars, Out, OutOf
  <2>6. Log!Publish  BY <2>1, <2>3, <2>4, <2>5 DEF Log!Publish, Out, OutOf
  <2>7. QED  BY <2>6 DEF Log!Next
<1>8. QED  BY <1>1, <1>4, <1>5, <1>6, <1>7 DEF InPublish

(* seq2 is the expected number: the next entry is delivered. *)
LEMMA LogDeliver ==
    ASSUME IInv, MAX_PUBLISH <= WORD \div 2, NEW c \in Consumers, NEW t, Seq2At(c, t)
    PROVE  [Log!Next]_(Log!logVars)
<1>1. pos[c] \in Nat /\ slot(read_cursor[c]) = slot(pos[c]) /\ begun \in Nat
      /\ Published \in Nat /\ begun <= MAX_PUBLISH
  BY Basics
<1>2. PICK l \in Loc : l = SeqAt(slot(pos[c]))  BY <1>1, PositionFacts, LocFacts
<1> DEFINE same == mem[l][t].val = ExpectedSeq(c)
           value == Result("Value", got[c], pos[c], 0, begun - pos[c])
<1>3. /\ cpc[c] = "words" /\ rtodo[c] = {} /\ Load(c, l, t, "Relaxed", "Acquire")
      /\ pos' = [pos EXCEPT ![c] = IF same THEN @ + 1 ELSE @]
      /\ res' = [res EXCEPT ![c] = IF same THEN value ELSE @]
      /\ UNCHANGED producerVars
  BY <1>1, <1>2 DEF Seq2At, Seq2LoadFence
<1> HIDE DEF same, value
<1>4. TypeOK  BY DEF IInv
<1>5. t \in acq[c][l] .. Newest(l) /\ mem' = mem  BY <1>3 DEF Load
<1>6. Newest(CURSOR)' = Newest(CURSOR) /\ begun' = begun
  BY <1>3, <1>5 DEF Newest, producerVars
<1>7. CASE ~same
  <2>1. pos' = pos /\ res' = res  BY <1>3, <1>4, <1>7 DEF TypeOK
  <2>2. QED  BY <1>6, <2>1, LogStutter
<1>8. CASE same
  <2>1. pos[c] < Newest(CURSOR) - 1  BY <1>3, OwnTurn DEF Published
  <2>2. \A w \in Words : got[c][w] = pos[c] + 1
    <3>1. Newest(l) \in Nat /\ acq[c][l] \in Nat  BY Basics, LocFacts
    <3>2. t \in Nat /\ t <= Newest(l) /\ t >= acq[c][l]  BY <1>5, <3>1
    <3>3. begun - pos[c] <= WORD \div 2  BY <1>1, Constants
    <3>4. QED  BY <1>2, <1>3, <1>8, <3>2, <3>3, WholeValue DEF same
  <2>3. res' = [res EXCEPT ![c] = value]  BY <1>3, <1>8
  <2>4. res'[c].kind = "Value" /\ res'[c].val = got[c]
    BY <1>4, <2>3 DEF TypeOK, value, Result
  <2>5. 1 \in Words  BY Constants DEF Words
  <2>6. OutOf(c)' = pos[c] + 1  BY <2>2, <2>4, <2>5 DEF OutOf
  <2>7. Out' = [Out EXCEPT ![c] = pos[c] + 1]  BY <2>3, <2>6, OutStep
  <2>8. pos' = [pos EXCEPT ![c] = @ + 1]  BY <1>3, <1>8
  <2>9. Log!Deliver(c)  BY <1>6, <2>1, <2>7, <2>8 DEF Log!Deliver, Out, OutOf
  <2>10. QED  BY <2>9 DEF Log!Next
<1>9. QED  BY <1>7, <1>8

(* Lapped: entries are skipped, all of them overwritten or still there. *)
LEMMA LogSkip ==
    ASSUME IInv, MAX_PUBLISH <= WORD, NEW c \in Consumers, NEW t, LappedAt(c, t)
    PROVE  [Log!Next]_(Log!logVars)
<1> DEFINE w == mem[CURSOR][t].val
           skipped == Wrap(LapTarget(c, w) - read_cursor[c])
           result == Result("Lapped", Blank, pos[c], skipped, begun - pos[c])
<1>1. /\ cpc[c] = "lapped" /\ Load(c, CURSOR, t, "Acquire", "None")
      /\ cached_write_cursor' = [cached_write_cursor EXCEPT ![c] = w]
      /\ read_cursor' = [read_cursor EXCEPT ![c] = LapTarget(c, w)]
      /\ pos' = [pos EXCEPT ![c] = @ + skipped]
      /\ res' = [res EXCEPT ![c] = result]
      /\ cpc' = [cpc EXCEPT ![c] = "idle"]
      /\ UNCHANGED <<producerVars, rtodo, got>>
  BY DEF LappedAt, CursorLoadOrdering
<1> HIDE DEF skipped, result
<1>2. TypeOK  BY DEF IInv
<1>3. \A d \in Consumers : d # c => Untouched(d)  BY <1>1, <1>2 DEF TypeOK, Untouched
<1>4. pos[c] \in Nat /\ begun \in Nat /\ Published \in Nat /\ Published <= begun
      /\ begun <= MAX_PUBLISH
  BY Basics
<1>5. PICK T \in Nat :
        /\ LapTarget(c, w) = Wrap(T)
        /\ T >= pos[c] + CAPACITY - 1 /\ T <= Published - 1
        /\ skipped = Wrap(T - pos[c])
        /\ T - pos[c] < WORD => skipped = T - pos[c]
  BY <1>1, <1>3, LappedFacts DEF skipped
<1>6. skipped = T - pos[c] /\ skipped \in CAPACITY - 1 .. (Newest(CURSOR) - 1) - 1 - pos[c]
  <2>1. T - pos[c] < WORD  BY <1>4, <1>5, Constants
  <2>2. skipped = T - pos[c]  BY <1>5, <2>1
  <2>3. Published = Newest(CURSOR) - 1 /\ Newest(CURSOR) \in Nat
    BY Basics, LocFacts DEF Published
  <2>4. QED  BY <1>4, <1>5, <2>2, <2>3, Constants
<1>7. begun > pos[c] + CAPACITY
  <2>1. begun >= pos[c] + CAPACITY + 1  BY <1>1 DEF IInv, Readers, Reader
  <2>2. QED  BY <1>4, <2>1, Constants
<1>8. Newest(CURSOR)' = Newest(CURSOR) /\ begun' = begun
  BY <1>1 DEF Load, Newest, producerVars
<1>9. res'[c].kind = "Lapped"  BY <1>1, <1>2 DEF TypeOK, result, Result
<1>10. OutOf(c)' = 0  BY <1>9 DEF OutOf
<1>11. Out' = [Out EXCEPT ![c] = 0]  BY <1>1, <1>10, OutStep
<1>12. Log!Skip(c)  BY <1>1, <1>6, <1>7, <1>8, <1>11 DEF Log!Skip, Out, OutOf
<1>13. QED  BY <1>12 DEF Log!Next

(* is_still_empty(): nothing is delivered. *)
LEMMA LogNothing ==
    ASSUME IInv, NEW c \in Consumers, NEW t, IsStillEmptyAt(c, t)
    PROVE  [Log!Next]_(Log!logVars)
<1> DEFINE w == mem[CURSOR][t].val
           empty == Result("Empty", Blank, pos[c], 0, 0)
<1>1. /\ res' = [res EXCEPT ![c] = IF read_cursor[c] = w THEN empty ELSE @]
      /\ pos' = pos /\ begun' = begun /\ mem' = mem
  BY DEF IsStillEmptyAt, producerVars, Load
<1> HIDE DEF w, empty
<1>2. Newest(CURSOR)' = Newest(CURSOR)  BY <1>1 DEF Newest
<1>3. CASE read_cursor[c] # w
  <2>1. res' = res  BY <1>1, <1>3 DEF IInv, TypeOK
  <2>2. QED  BY <1>1, <1>2, <2>1, LogStutter
<1>4. CASE read_cursor[c] = w
  <2>1. res' = [res EXCEPT ![c] = empty]  BY <1>1, <1>4
  <2>2. res'[c].kind = "Empty"  BY <2>1 DEF IInv, TypeOK, empty, Result
  <2>3. OutOf(c)' = 0  BY <2>2 DEF OutOf
  <2>4. Out' = [Out EXCEPT ![c] = 0]  BY <2>1, <2>3, OutStep
  <2>5. Log!Nothing(c)  BY <1>1, <1>2, <2>4 DEF Log!Nothing, Out, OutOf
  <2>6. QED  BY <2>5 DEF Log!Next
<1>5. QED  BY <1>3, <1>4

(* Every step is a step of the log or is invisible to it. *)
LEMMA LogNext ==
    ASSUME IInv, MAX_PUBLISH <= WORD \div 2, [Next]_vars
    PROVE  [Log!Next]_(Log!logVars)
<1>1. CASE PublishLoad \/ InPublish  BY <1>1, LogProducer
<1>2. MAX_PUBLISH <= WORD  BY Constants
<1>3. ASSUME NEW c \in Consumers, TryRead(c) PROVE [Log!Next]_(Log!logVars)
  BY <1>3, LogStutter DEF TryRead, memVars, producerVars, Newest
<1>4. ASSUME NEW c \in Consumers, InTryRead(c) PROVE [Log!Next]_(Log!logVars)
  <2>1. ASSUME NEW t, Seq1At(c, t) PROVE UNCHANGED Log!logVars
    <3>1. mem' = mem /\ UNCHANGED <<begun, pos, res>>
      BY <2>1 DEF Seq1At, Load, producerVars
    <3>2. QED  BY <3>1, LogStutter DEF Newest
  <2>2. ASSUME NEW w \in Words, ReadWord(c, w) PROVE UNCHANGED Log!logVars
    <3>1. mem' = mem /\ UNCHANGED <<begun, pos, res>>
      BY <2>2 DEF ReadWord, Load, producerVars
    <3>2. QED  BY <3>1, LogStutter DEF Newest
  <2>3. QED  BY <1>2, <1>4, <2>1, <2>2, LogNothing, LogSkip, LogDeliver
             DEF InTryRead, IsStillEmpty, Seq1, Lapped, Seq2
<1>5. ASSUME NEW c \in Consumers, NEW new \in Consumers, Clone(c, new)
      PROVE  [Log!Next]_(Log!logVars)
  <2>1. /\ pos' = [pos EXCEPT ![new] = pos[c]] /\ res' = res /\ begun' = begun /\ mem' = mem
    BY <1>5 DEF Clone, HandOver, producerVars
  <2>2. Out' = Out /\ Newest(CURSOR)' = Newest(CURSOR)  BY <2>1 DEF Out, OutOf, Newest
  <2>3. Log!Copy(c, new)  BY <2>1, <2>2 DEF Log!Copy, Out, OutOf
  <2>4. QED  BY <2>3 DEF Log!Next
<1>6. CASE UNCHANGED vars
  BY <1>6, LogStutter DEF vars, memVars, producerVars, consumerVars, Newest
<1>7. QED  BY <1>1, <1>3, <1>4, <1>5, <1>6 DEF Next

(* The new queue is an empty log. *)
LEMMA LogInit == ASSUME Init PROVE Log!Init
<1>1. IInv  BY InitIInv
<1>2. ppc = "idle" /\ begun = 0 /\ pos = [c \in Consumers |-> 0]  BY DEF Init
<1>3. Newest(CURSOR) - 1 = 0  BY <1>1, <1>2 DEF IInv, Producing, Published
<1>4. \A c \in Consumers : res[c].kind = "Empty"  BY DEF Init, Result
<1>5. Out = [c \in Consumers |-> 0]  BY <1>4 DEF Out, OutOf
<1>6. QED  BY <1>2, <1>3, <1>5 DEF Log!Init, Out, OutOf

(* publish, try_read and Clone implement a log that keeps CAPACITY         *)
(* entries, as long as the sequence numbers do not go round: then twice    *)
(* the number of publishes is at most WORD.                                *)
THEOREM SpmcImplementsLog ==
    ASSUME MAX_PUBLISH <= WORD \div 2
    PROVE  Spec => ImplementsLog
<1>1. Init => Log!Init  BY LogInit
<1>2. IInv /\ [Next]_vars => [Log!Next]_(Log!logVars)  BY LogNext
<1>3. QED  BY <1>1, <1>2, Invariance, PTL DEF Spec, ImplementsLog, Log!Spec
-----------------------------------------------------------------------------
(* The queue inside the benchmarks. *)

(* Where the threads are, relative to each other and to their calls. *)
Protocol ==
    /\ queue \in {"ours", "bus"}
    /\ main = "called" => producer = "none" /\ consumer = "none"
    /\ ppc # "idle" => queue = "ours" /\ producer \in {"loop", "retry"}
    /\ cpc[C] \notin {"idle", "off"} => queue = "ours" /\ consumer \in {"poll", "drain"}
    /\ queue = "bus" /\ bench = "lapped" => producer = "none" /\ consumer = "none"
    /\ consumer = "drain" => bench = "handoff"
    /\ consumer \in {"drain", "returned"} => producer = "returned"
    /\ bench = "handoff" /\ producer = "returned" => published = N

(* bus keeps what it has accepted until it is read. *)
Accepted ==
    /\ i \in Nat /\ sent \in Nat /\ received \in Nat
    /\ received <= sent /\ (queue = "bus" => i = sent)

(* The flag is stored once, after the last publish, and says so. *)
Flag ==
    /\ Newest(DONE) = IF producer = "returned" THEN 2 ELSE 1
    /\ mem[DONE][1].val = 0
    /\ producer = "returned" => mem[DONE][2].view[CURSOR] >= Newest(CURSOR)
    /\ consumer \in {"drain", "returned"} => cur[C][CURSOR] >= Newest(CURSOR)

(* What the consumer has counted: each result has moved it on. *)
Counted ==
    /\ seen \in Nat /\ values \in Nat /\ lapped \in Nat /\ values + lapped <= seen
    /\ CAPACITY > 1 => seen <= Observed

BenchInv == IInv /\ Protocol /\ Accepted /\ Flag /\ Counted /\ NothingUnobserved

(* The flag is a location of its own. *)
LEMMA FlagLoc ==
    ASSUME BenchConstants
    PROVE  /\ C \in Consumers /\ DONE \in Loc /\ DONE # CURSOR
           /\ \A s \in Slots : DONE # SeqAt(s) /\ \A w \in Words : DONE # DataAt(s, w)
BY SpmcAssumption DEF BenchConstants, C, DONE, Client, Loc, CURSOR, SeqAt, DataAt

(* Storing the flag keeps the queue's invariant, and the message says what *)
(* the producer knows: the newest cursor.                                  *)
LEMMA StoreFlag ==
    ASSUME BenchConstants, IInv, StoreDone
    PROVE  /\ IInv' /\ Newest(DONE)' = Newest(DONE) + 1
           /\ mem'[CURSOR] = mem[CURSOR] /\ cur'[C] = cur[C]
           /\ Newest(DONE) = 1 => /\ mem'[DONE][1] = mem[DONE][1]
                                  /\ mem'[DONE][2].view[CURSOR] = Newest(CURSOR)
<1>1. /\ Store("P", DONE, 1, "Release", "None") /\ ppc = "idle"
      /\ UNCHANGED <<ppc, w_pos, wtodo, begun, consumerVars>>
  BY DEF StoreDone, LoopDone, DoneStoreOrdering, producerVars
<1>2. DONE \in Loc /\ CURSOR \in Loc /\ DONE # CURSOR /\ C \in Consumers  BY FlagLoc, LocFacts
<1>3. /\ Stores(DONE, 1, "Release") /\ MemoryOK(Loc, Thread)' /\ Readers'
      /\ \A th \in Thread : \A k \in Loc : acq'[th][k] >= cur'[th][k]
  BY <1>1, <1>2, ProducerStore
<1>4. /\ \A k \in Loc : k # DONE => mem'[k] = mem[k] /\ Newest(k)' = Newest(k)
      /\ Newest(DONE)' = Newest(DONE) + 1 /\ \A k \in Loc : cur'["P"][k] = Newest(k)'
      /\ \A u \in 1 .. Newest(DONE) : mem'[DONE][u] = mem[DONE][u]
      /\ mem'[DONE][Newest(DONE) + 1].view[CURSOR] = Newest(CURSOR)
  BY <1>2, <1>3 DEF Stores
<1>5. \A q \in Nat : /\ SeqAt(slot(q)) \in Loc /\ SeqAt(slot(q)) # DONE
                     /\ \A w \in Words : /\ DataAt(slot(q), w) \in Loc
                                         /\ DataAt(slot(q), w) # DONE
  BY FlagLoc, PositionFacts, LocFacts
<1>6. Published' = Published /\ SeqsStored' = SeqsStored /\ Newest(CURSOR)' = Newest(CURSOR)
      /\ \A w : WordsStored(w)' = WordsStored(w)
  BY <1>1, <1>2, <1>4 DEF Published, SeqsStored, WordsStored
<1>7. TypeOK'  BY <1>1, <1>3 DEF IInv, TypeOK, consumerVars
<1>8. Producing'
  <2>1. Published \in Nat  BY Basics
  <2>2. \A q \in Published .. Published + CAPACITY - 1 :
           /\ Newest(SeqAt(slot(q)))' = Newest(SeqAt(slot(q)))
           /\ \A w \in Words : Newest(DataAt(slot(q), w))' = Newest(DataAt(slot(q), w))
    BY <1>4, <1>5, <2>1
  <2>3. Producing  BY DEF IInv
  <2>4. QED  BY <1>1, <1>4, <1>6, <2>2, <2>3 DEF Producing
<1>9. History'
  <2>1. /\ \A t \in 1 .. Newest(CURSOR) : CursorMessage(t)'
        /\ \A q \in Nat : OddMessage(q)' /\ EvenMessage(q)' /\ \A w \in Words : WordMessage(q, w)'
    BY <1>2, <1>3, <1>5, KeepHistory
  <2>2. QED  BY <1>6, <2>1 DEF History
<1>10. Fences'  BY <1>1, <1>3 DEF Fences
<1>11. IInv'  BY <1>3, <1>7, <1>8, <1>9, <1>10 DEF IInv
<1>12. cur'[C] = cur[C]
  <2>1. cur \in [Thread -> Views(Loc)] /\ C \in Thread /\ C # "P"
    BY <1>2, LocFacts, Basics DEF MemoryOK
  <2>2. QED  BY <1>1, <2>1 DEF Store
<1>13. Newest(DONE) = 1 => /\ mem'[DONE][1] = mem[DONE][1]
                           /\ mem'[DONE][2].view[CURSOR] = Newest(CURSOR)
  BY <1>4
<1>14. QED  BY <1>2, <1>4, <1>11, <1>12, <1>13

(* A consumer that sees the flag knows what its message says. *)
LEMMA LoadFlag ==
    ASSUME BenchConstants, IInv, NEW t, CheckDoneAt(t)
    PROVE  /\ IInv' /\ mem' = mem /\ t \in 1 .. Newest(DONE)
           /\ cur'[C][CURSOR] >= cur[C][CURSOR]
           /\ cur'[C][CURSOR] >= mem[DONE][t].view[CURSOR]
<1>1. /\ Load(C, DONE, t, "Acquire", "None")
      /\ UNCHANGED <<producerVars, cpc, read_cursor, cached_write_cursor, rtodo, got, pos, res>>
  BY DEF CheckDoneAt, DoneLoadOrdering, consumerVars
<1>2. DONE \in Loc /\ CURSOR \in Loc /\ C \in Consumers  BY FlagLoc, LocFacts
<1>3. \A d \in Consumers : d # C => Untouched(d)  BY <1>1 DEF Untouched
<1>4. /\ ConsumerOnly(C) /\ MemoryOK(Loc, Thread)'
      /\ Published' = Published /\ begun' = begun /\ t \in 1 .. Newest(DONE)
      /\ \A k \in Loc : /\ cur'[C][k] \in Nat /\ cur'[C][k] >= cur[C][k]
                        /\ acq'[C][k] \in Nat /\ acq'[C][k] >= acq[C][k]
                        /\ cur'[C][k] >= mem[DONE][t].view[k]
  BY <1>1, <1>2, <1>3, ConsumerLoad
<1>5. Resting(C)  BY <1>1, <1>4 DEF Resting
<1>6. Reader(C)' /\ Returned(C)'
  <2>1. Published \in Nat /\ begun \in Nat  BY Basics
  <2>2. QED  BY <1>2, <1>4, <1>5, <2>1, RestingStep
<1>7. TypeOK'  BY <1>1, <1>4 DEF IInv, TypeOK, producerVars
<1>8. IInv'  BY <1>2, <1>4, <1>6, <1>7, ConsumerOnlyStep
<1>9. mem' = mem  BY <1>4 DEF ConsumerOnly
<1>10. QED  BY <1>2, <1>4, <1>8, <1>9

(* publish leaves the flag alone, ... *)
LEMMA PublishKeeps ==
    ASSUME BenchConstants, IInv, PublishLoad \/ InPublish
    PROVE  mem'[DONE] = mem[DONE] /\ UNCHANGED consumerVars
<1>1. /\ DONE \in Loc /\ DONE # CURSOR /\ mem \in [Loc -> Seq(Messages(Loc))]
      /\ DONE # SeqAt(slot(w_pos)) /\ \A w \in Words : DONE # DataAt(slot(w_pos), w)
  <2>1. w_pos \in Nat  BY Constants DEF IInv, TypeOK
  <2>2. QED  BY <2>1, FlagLoc, PositionFacts, Basics DEF MemoryOK
<1>2. CASE PublishLoad  BY <1>2 DEF PublishLoad, Load
<1>3. CASE PublishOdd  BY <1>1, <1>3 DEF PublishOdd, Store
<1>4. ASSUME NEW w \in Words, PublishWord(w) PROVE mem'[DONE] = mem[DONE] /\ UNCHANGED consumerVars
  BY <1>1, <1>4 DEF PublishWord, Store
<1>5. CASE PublishEven  BY <1>1, <1>5 DEF PublishEven, Store
<1>6. CASE PublishCursor  BY <1>1, <1>6 DEF PublishCursor, Store
<1>7. QED  BY <1>2, <1>3, <1>4, <1>5, <1>6 DEF InPublish

(* ... and try_read changes no message and forgets none. *)
LEMMA ReadKeeps ==
    ASSUME IInv, NEW c \in Consumers, TryRead(c) \/ InTryRead(c)
    PROVE  mem' = mem /\ cur'[c][CURSOR] >= cur[c][CURSOR] /\ UNCHANGED producerVars
<1>1. /\ c \in Thread /\ CURSOR \in Loc /\ MemoryOK(Loc, Thread)
      /\ cur[c][CURSOR] \in Nat /\ slot(read_cursor[c]) \in Slots
      /\ \A k \in Loc : acq[c][k] >= cur[c][k]
  <2>1. slot(read_cursor[c]) \in Slots  BY Basics, PositionFacts
  <2>2. QED  BY <2>1, LocFacts, Basics DEF IInv, Fences
<1>2. ASSUME NEW l \in Loc, NEW t, NEW ordering, NEW fence, Load(c, l, t, ordering, fence)
      PROVE  mem' = mem /\ cur'[c][CURSOR] >= cur[c][CURSOR]
  BY <1>1, <1>2, LoadFacts
<1>3. CASE TryRead(c)  BY <1>1, <1>3 DEF TryRead, memVars
<1>4. ASSUME NEW t, IsStillEmptyAt(c, t) PROVE mem' = mem /\ cur'[c][CURSOR] >= cur[c][CURSOR]
  BY <1>1, <1>2, <1>4 DEF IsStillEmptyAt
<1>5. ASSUME NEW t, LappedAt(c, t) PROVE mem' = mem /\ cur'[c][CURSOR] >= cur[c][CURSOR]
  BY <1>1, <1>2, <1>5 DEF LappedAt
<1>6. ASSUME NEW t, Seq1At(c, t) \/ Seq2At(c, t)
      PROVE  mem' = mem /\ cur'[c][CURSOR] >= cur[c][CURSOR]
  <2>1. PICK l \in Loc : l = SeqAt(slot(read_cursor[c]))  BY <1>1, LocFacts
  <2>2. PICK ordering, fence : Load(c, l, t, ordering, fence)
    BY <1>6, <2>1 DEF Seq1At, Seq2At
  <2>3. QED  BY <1>2, <2>2
<1>7. ASSUME NEW w \in Words, ReadWord(c, w)
      PROVE  mem' = mem /\ cur'[c][CURSOR] >= cur[c][CURSOR]
  <2>1. PICK l \in Loc : l = DataAt(slot(read_cursor[c]), w)  BY <1>1, LocFacts
  <2>2. PICK t : Load(c, l, t, "Relaxed", "None")  BY <1>7, <2>1 DEF ReadWord
  <2>3. QED  BY <1>2, <2>2
<1>8. UNCHANGED producerVars
  BY DEF TryRead, InTryRead, IsStillEmpty, IsStillEmptyAt, Seq1, Seq1At, Lapped, LappedAt,
         ReadWord, Seq2, Seq2At
<1>9. QED
  BY <1>3, <1>4, <1>5, <1>6, <1>7, <1>8 DEF InTryRead, IsStillEmpty, Seq1, Lapped, Seq2

(* Steps that leave the queue alone. *)
LEMMA QueueStill ==
    ASSUME IInv, UNCHANGED vars
    PROVE  /\ IInv' /\ mem' = mem /\ cur' = cur /\ (\A l : Newest(l)' = Newest(l))
           /\ ppc' = ppc /\ begun' = begun /\ cpc' = cpc /\ pos' = pos
<1>1. IInv'  BY NextIInv
<1>2. QED  BY <1>1 DEF vars, memVars, producerVars, consumerVars, Newest

(* The start of the threads, the barrier and the joins. *)
LEMMA ThreadStep ==
    ASSUME BenchInv,
           Spawn \/ ProducerPin \/ ConsumerPin \/ PinFails
                 \/ MainWait \/ JoinProducer \/ JoinConsumer
    PROVE  BenchInv'
<1>1. /\ UNCHANGED vars /\ UNCHANGED <<bench, queue, i, sent, received, seen, values, lapped>>
      /\ main' = "called" => main = "called"
      /\ \/ UNCHANGED <<producer, consumer>>
         \/ /\ Measurable /\ producer' = "pin" /\ consumer' = "pin"
            /\ main = "called" /\ main' # "called"
         \/ producer = "pin" /\ producer' \in {"loop", "panicked"} /\ UNCHANGED consumer
         \/ consumer = "pin" /\ consumer' \in {"poll", "panicked"} /\ UNCHANGED producer
  BY DEF Spawn, ProducerPin, ConsumerPin, PinFails, MainWait, JoinProducer, JoinConsumer,
         setup, busVars, counters
<1>2. /\ IInv' /\ mem' = mem /\ cur' = cur /\ (\A l : Newest(l)' = Newest(l))
      /\ ppc' = ppc /\ begun' = begun /\ cpc' = cpc /\ pos' = pos
  BY <1>1, QueueStill DEF BenchInv
<1>3. Observed' = Observed /\ published' = published  BY <1>1, <1>2 DEF Observed, published
<1>4. Protocol'
  BY <1>1, <1>2, <1>3 DEF BenchInv, Protocol, Measurable, SEMANTICS
<1>5. Accepted' /\ Counted'  BY <1>1, <1>3 DEF BenchInv, Accepted, Counted
<1>6. Flag'  BY <1>1, <1>2 DEF BenchInv, Flag, Protocol
<1>7. NothingUnobserved'  BY <1>1, <1>3 DEF BenchInv, NothingUnobserved
<1>8. QED  BY <1>2, <1>4, <1>5, <1>6, <1>7 DEF BenchInv

(* bus. *)
LEMMA BusTryPublishStep == ASSUME BenchInv, BusTryPublish PROVE BenchInv'
<1>1. /\ UNCHANGED vars /\ UNCHANGED <<bench, queue, received, main, consumer, seen, values, lapped>>
      /\ queue = "bus" /\ producer \in {"loop", "retry"} /\ producer' \in {"loop", "retry"}
  BY DEF BusTryPublish, Publishing, counters
<1>2. /\ IInv' /\ mem' = mem /\ cur' = cur /\ (\A l : Newest(l)' = Newest(l))
      /\ ppc' = ppc /\ begun' = begun /\ cpc' = cpc /\ pos' = pos
  BY <1>1, QueueStill DEF BenchInv
<1>3. bench # "lapped" /\ i = sent /\ i \in Nat /\ sent \in Nat /\ received \in Nat /\ received <= sent
  BY <1>1 DEF BenchInv, Protocol, Accepted
<1>4. i' = sent' /\ sent' \in Nat /\ sent' >= sent  BY <1>3 DEF BusTryPublish
<1>5. Protocol'  BY <1>1, <1>2 DEF BenchInv, Protocol
<1>6. Accepted'  BY <1>1, <1>3, <1>4 DEF Accepted
<1>7. Flag'  BY <1>1, <1>2 DEF BenchInv, Flag
<1>8. Observed' = Observed  BY <1>1 DEF Observed
<1>9. Counted'  BY <1>1, <1>8 DEF BenchInv, Counted
<1>10. NothingUnobserved'  BY <1>1, <1>8 DEF BenchInv, NothingUnobserved
<1>11. QED  BY <1>2, <1>5, <1>6, <1>7, <1>9, <1>10 DEF BenchInv

LEMMA BusTryReadStep == ASSUME BenchInv, BusTryRead PROVE BenchInv'
<1>1. /\ UNCHANGED vars /\ UNCHANGED <<bench, queue, i, sent, main, producer, lapped>>
      /\ queue = "bus" /\ consumer \in {"poll", "drain"}
      /\ \/ /\ received < sent /\ received' = received + 1 /\ seen' = seen + 1
            /\ values' \in {values, values + 1} /\ consumer' = consumer
         \/ received = sent /\ consumer' = WhenEmpty /\ UNCHANGED <<received, seen, values>>
  BY DEF BusTryRead, Reading
<1>2. /\ IInv' /\ mem' = mem /\ cur' = cur /\ (\A l : Newest(l)' = Newest(l))
      /\ ppc' = ppc /\ begun' = begun /\ cpc' = cpc /\ pos' = pos
  BY <1>1, QueueStill DEF BenchInv
<1>3. /\ i \in Nat /\ sent \in Nat /\ received \in Nat /\ received <= sent /\ i = sent
      /\ seen \in Nat /\ values \in Nat /\ lapped \in Nat /\ values + lapped <= seen
      /\ CAPACITY > 1 => seen <= received
  BY <1>1 DEF BenchInv, Accepted, Counted, Observed
<1>4. consumer' \in {"drain", "returned"} => consumer = "drain"  BY <1>1 DEF WhenEmpty
<1>5. consumer' \in {"poll", "drain", "check", "returned"}  BY <1>1 DEF WhenEmpty
<1>6. Observed' = received' /\ published' = published /\ published = i
  BY <1>1 DEF Observed, published
<1>7. Protocol'  BY <1>1, <1>2, <1>4, <1>5, <1>6 DEF BenchInv, Protocol
<1>8. Accepted'  BY <1>1, <1>3 DEF Accepted
<1>9. Flag'  BY <1>1, <1>2, <1>4 DEF BenchInv, Flag
<1>10. Counted'  BY <1>1, <1>3, <1>6 DEF Counted
<1>11. NothingUnobserved'
  <2>1. ASSUME bench' = "handoff", consumer' = "returned" PROVE Observed' = N
    <3>1. consumer = "drain"  BY <1>4, <2>1
    <3>2. consumer' # consumer  BY <2>1, <3>1
    <3>3. received = sent /\ received' = received  BY <1>1, <3>2
    <3>4. published = N  BY <1>1, <2>1, <3>1 DEF BenchInv, Protocol
    <3>5. QED  BY <1>3, <1>6, <3>3, <3>4
  <2>2. QED  BY <2>1 DEF NothingUnobserved
<1>12. QED  BY <1>2, <1>7, <1>8, <1>9, <1>10, <1>11 DEF BenchInv

(* The producer: publish, and the flag. *)
LEMMA TryPublishStep == ASSUME BenchConstants, BenchInv, TryPublish PROVE BenchInv'
<1>1. /\ queue = "ours" /\ producer \in {"loop", "retry"} /\ (PublishLoad \/ InPublish)
      /\ UNCHANGED <<bench, queue, i, sent, received, main, producer, consumer, seen, values, lapped>>
  BY DEF TryPublish, Publishing, benchVars, setup, busVars, threadVars, counters
<1>2. IInv  BY DEF BenchInv
<1>3. IInv'  BY <1>1, <1>2, NextIInv DEF Next
<1>4. /\ mem'[DONE] = mem[DONE] /\ Newest(DONE)' = Newest(DONE)
      /\ cpc' = cpc /\ pos' = pos
  BY <1>1, <1>2, PublishKeeps DEF consumerVars, Newest
<1>5. Observed' = Observed  BY <1>1, <1>4 DEF Observed
<1>6. consumer \notin {"drain", "returned"}  BY <1>1 DEF BenchInv, Protocol
<1>7. Protocol'  BY <1>1, <1>4, <1>6 DEF BenchInv, Protocol
<1>8. Accepted' /\ Counted'  BY <1>1, <1>5 DEF BenchInv, Accepted, Counted
<1>9. Flag'  BY <1>1, <1>4, <1>6 DEF BenchInv, Flag
<1>10. NothingUnobserved'  BY <1>1, <1>6 DEF NothingUnobserved
<1>11. QED  BY <1>3, <1>7, <1>8, <1>9, <1>10 DEF BenchInv

LEMMA StoreDoneStep == ASSUME BenchConstants, BenchInv, StoreDone PROVE BenchInv'
<1>1. /\ producer = "loop" /\ producer' = "returned" /\ LoopDone
      /\ UNCHANGED <<bench, queue, i, sent, received, main, consumer, seen, values, lapped>>
      /\ ppc' = ppc /\ begun' = begun /\ cpc' = cpc /\ pos' = pos
  BY DEF StoreDone, LoopDone, setup, busVars, counters, producerVars, consumerVars
<1>2. IInv  BY DEF BenchInv
<1>3. Newest(DONE) = 1 /\ mem[DONE][1].val = 0  BY <1>1 DEF BenchInv, Flag
<1>4. /\ IInv' /\ Newest(DONE)' = 2 /\ mem'[CURSOR] = mem[CURSOR]
      /\ mem'[DONE][1] = mem[DONE][1] /\ mem'[DONE][2].view[CURSOR] = Newest(CURSOR)
  BY <1>2, <1>3, StoreFlag
<1>5. Newest(CURSOR)' = Newest(CURSOR) /\ Newest(CURSOR) \in Nat
  BY <1>2, <1>4, Basics, LocFacts DEF Newest
<1>6. consumer \notin {"drain", "returned"}  BY <1>1 DEF BenchInv, Protocol
<1>7. Observed' = Observed /\ published' = published  BY <1>1 DEF Observed, published
<1>8. ppc = "idle" /\ (bench = "handoff" => published = N)  BY <1>1 DEF LoopDone
<1>9. main # "called"  BY <1>1 DEF BenchInv, Protocol
<1>10. ~(queue = "bus" /\ bench = "lapped")  BY <1>1 DEF BenchInv, Protocol
<1>11. Protocol'  BY <1>1, <1>6, <1>7, <1>8, <1>9, <1>10 DEF BenchInv, Protocol
<1>12. Accepted' /\ Counted'  BY <1>1, <1>7 DEF BenchInv, Accepted, Counted
<1>13. Flag'  BY <1>1, <1>3, <1>4, <1>5, <1>6 DEF Flag
<1>14. NothingUnobserved'  BY <1>1, <1>6 DEF NothingUnobserved
<1>15. QED  BY <1>4, <1>11, <1>12, <1>13, <1>14 DEF BenchInv

(* The consumer inside try_read: what all of its steps leave alone. *)
LEMMA ConsumerReads ==
    ASSUME BenchConstants, BenchInv, Reading, TryRead(C) \/ InTryRead(C),
           UNCHANGED <<setup, main, producer>>,
           cpc'[C] \notin {"idle", "off"} => queue = "ours" /\ consumer' = consumer,
           consumer' \in {"drain", "returned"} => consumer = "drain", consumer' # "none",
           Counted', NothingUnobserved'
    PROVE  BenchInv'
<1>1. UNCHANGED <<bench, queue, i, sent, received, main, producer>> /\ consumer \in {"poll", "drain"}
  BY DEF setup, busVars, Reading
<1>2. IInv /\ C \in Consumers  BY FlagLoc DEF BenchInv
<1>3. IInv'  BY <1>2, NextIInv DEF Next
<1>4. /\ mem' = mem /\ cur'[C][CURSOR] >= cur[C][CURSOR] /\ (\A l : Newest(l)' = Newest(l))
      /\ ppc' = ppc /\ begun' = begun
  BY <1>2, ReadKeeps DEF producerVars, Newest
<1>5. published' = published  BY <1>1, <1>4 DEF published
<1>6. Protocol'  BY <1>1, <1>4, <1>5 DEF BenchInv, Protocol
<1>7. Accepted'  BY <1>1 DEF BenchInv, Accepted
<1>8. Flag'
  <2>1. /\ cur[C][CURSOR] \in Nat /\ cur'[C][CURSOR] \in Nat /\ Newest(CURSOR) \in Nat
    <3>1. cur' \in [Thread -> [Loc -> Nat \ {0}]]  BY <1>3 DEF IInv, TypeOK, MemoryOK, Views
    <3>2. C \in Thread /\ CURSOR \in Loc  BY <1>2, LocFacts
    <3>3. QED  BY <1>2, <3>1, <3>2, Basics
  <2>2. QED  BY <1>1, <1>4, <2>1 DEF BenchInv, Flag
<1>9. QED  BY <1>3, <1>6, <1>7, <1>8 DEF BenchInv

LEMMA CallTryReadStep ==
    ASSUME BenchConstants, BenchInv, CallTryRead \/ InsideTryRead PROVE BenchInv'
<1>1. /\ Reading /\ UNCHANGED benchVars
      /\ \/ queue = "ours" /\ TryRead(C)
         \/ Seq1(C) \/ \E w \in Words : ReadWord(C, w)
  BY DEF CallTryRead, InsideTryRead
<1>2. UNCHANGED <<setup, main, producer, queue, consumer, bench, received, seen, values, lapped>>
  BY <1>1 DEF benchVars, setup, busVars, threadVars, counters
<1>3. TryRead(C) \/ InTryRead(C)  BY <1>1 DEF InTryRead
<1>4. pos' = pos  BY <1>1 DEF TryRead, Seq1, Seq1At, ReadWord
<1>5. queue = "ours"
  <2>1. Seq1(C) \/ (\E w \in Words : ReadWord(C, w)) => cpc[C] \notin {"idle", "off"}
    BY DEF Seq1, Seq1At, ReadWord
  <2>2. QED  BY <1>1, <2>1 DEF BenchInv, Protocol
<1>6. Observed' = Observed  BY <1>2, <1>4 DEF Observed
<1>7. Counted' /\ NothingUnobserved'
  BY <1>2, <1>6 DEF BenchInv, Counted, NothingUnobserved
<1>8. consumer' \in {"poll", "drain"}  BY <1>1, <1>2 DEF Reading
<1>9. QED  BY <1>1, <1>2, <1>3, <1>5, <1>7, <1>8, ConsumerReads

(* An Empty after the flag: the consumer has the newest cursor, and fewer  *)
(* than WORD values were published, so it is at the last one.              *)
LEMMA TryReadEmptyStep == ASSUME BenchConstants, BenchInv, TryReadEmpty PROVE BenchInv'
<1>1. PICK t : IsStillEmptyAt(C, t) /\ t \in Readable(C, CURSOR)
  BY DEF TryReadEmpty, IsStillEmpty
<1>2. /\ Reading /\ consumer \in {"poll", "drain"}
      /\ consumer' = IF cpc'[C] = "idle" THEN WhenEmpty ELSE consumer
      /\ UNCHANGED <<setup, main, producer, queue, bench, received, seen, values, lapped>>
  BY DEF TryReadEmpty, Reading, setup, busVars, counters
<1>3. IInv /\ C \in Consumers /\ CURSOR \in Loc  BY FlagLoc, LocFacts DEF BenchInv
<1>4. InTryRead(C)  BY DEF TryReadEmpty, InTryRead
<1>5. /\ pos' = pos /\ cpc[C] = "empty" /\ Load(C, CURSOR, t, "Acquire", "None")
      /\ UNCHANGED producerVars
      /\ cpc' = [cpc EXCEPT ![C] = IF read_cursor[C] = mem[CURSOR][t].val THEN "idle" ELSE "seq1"]
  BY <1>1 DEF IsStillEmptyAt, CursorLoadOrdering
<1>6. cpc'[C] = IF read_cursor[C] = mem[CURSOR][t].val THEN "idle" ELSE "seq1"
  BY <1>3, <1>5 DEF IInv, TypeOK
<1>7. queue = "ours"  BY <1>5 DEF BenchInv, Protocol
<1>8. Observed' = pos[C] /\ Observed = pos[C]  BY <1>2, <1>5, <1>7 DEF Observed
<1>9. Counted'  BY <1>2, <1>8 DEF BenchInv, Counted
<1>10. NothingUnobserved'
  <2> SUFFICES ASSUME bench' = "handoff", consumer' = "returned" PROVE pos[C] = N
    BY <1>8 DEF NothingUnobserved
  <2>1. consumer = "drain" /\ cpc'[C] = "idle"  BY <1>2 DEF WhenEmpty
  <2>2. read_cursor[C] = mem[CURSOR][t].val  BY <1>6, <2>1
  <2>3. cur[C][CURSOR] >= Newest(CURSOR) /\ producer = "returned" /\ published = N
    BY <1>2, <2>1 DEF BenchInv, Flag, Protocol
  <2>4. begun = N /\ ppc = "idle"  BY <1>7, <2>3 DEF published, BenchInv, Protocol
  <2>5. Published = N  BY <1>3, <2>4 DEF IInv, Producing
  <2>6. Newest(CURSOR) \in Nat /\ cur[C][CURSOR] \in Nat  BY <1>3, Basics, LocFacts
  <2>7. t = Newest(CURSOR) /\ t \in 1 .. Newest(CURSOR)
    <3>1. t \in cur[C][CURSOR] .. Newest(CURSOR)  BY <1>1 DEF Readable
    <3>2. Newest(CURSOR) # 0  BY <1>3, Basics
    <3>3. QED  BY <2>3, <2>6, <3>1, <3>2
  <2>8. mem[CURSOR][t].val = Wrap(t - 1)
    BY <1>3, <2>7 DEF IInv, History, CursorMessage
  <2>9. t - 1 = N  BY <2>5, <2>7 DEF Published
  <2>10. read_cursor[C] = Wrap(pos[C]) /\ pos[C] \in Nat /\ pos[C] <= N
    <3>1. Reader(C)  BY <1>3 DEF IInv, Readers
    <3>2. PICK cw \in Nat : Knows(C, cw)  BY <3>1 DEF Reader
    <3>3. pos[C] \in Nat /\ Published \in Nat  BY <1>3, Basics
    <3>4. QED  BY <2>5, <3>1, <3>2, <3>3 DEF Reader, Knows
  <2>11. N \in Nat /\ N < WORD  BY DEF BenchConstants
  <2>12. pos[C] % WORD = pos[C] /\ N % WORD = N
    BY <2>10, <2>11, Constants, ModSmall
  <2>13. QED  BY <2>2, <2>8, <2>9, <2>10, <2>12 DEF Wrap
<1>11. consumer' \in {"drain", "returned"} => consumer = "drain"  BY <1>2 DEF WhenEmpty
<1>12. consumer' \in {"poll", "drain", "check", "returned"}  BY <1>2 DEF WhenEmpty
<1>13. cpc'[C] \notin {"idle", "off"} => queue = "ours" /\ consumer' = consumer
  BY <1>2, <1>7
<1>14. QED  BY <1>2, <1>4, <1>9, <1>10, <1>11, <1>12, <1>13, ConsumerReads

(* Value: the position moves on by one. *)
LEMMA TryReadValueStep == ASSUME BenchConstants, BenchInv, TryReadValue PROVE BenchInv'
<1>1. PICK t : Seq2At(C, t)  BY DEF TryReadValue, Seq2
<1>2. /\ Reading /\ consumer \in {"poll", "drain"}
      /\ seen' = IF cpc'[C] = "idle" THEN seen + 1 ELSE seen
      /\ values' = IF cpc'[C] = "idle" /\ seen >= WARMUP THEN values + 1 ELSE values
      /\ UNCHANGED <<setup, main, producer, consumer, queue, bench, received, lapped>>
  BY DEF TryReadValue, Reading, setup, busVars, threadVars
<1>3. IInv /\ C \in Consumers  BY FlagLoc DEF BenchInv
<1>4. InTryRead(C)  BY DEF TryReadValue, InTryRead
<1>5. /\ cpc[C] = "words"
      /\ \E same \in BOOLEAN :
            /\ cpc' = [cpc EXCEPT ![C] = IF same THEN "idle" ELSE "seq1"]
            /\ pos' = [pos EXCEPT ![C] = IF same THEN @ + 1 ELSE @]
  BY <1>1 DEF Seq2At
<1>6. /\ pos[C] \in Nat
      /\ pos'[C] = IF cpc'[C] = "idle" THEN pos[C] + 1 ELSE pos[C]
  BY <1>3, <1>5 DEF IInv, TypeOK
<1>7. queue = "ours"  BY <1>5 DEF BenchInv, Protocol
<1>8. Observed' = pos'[C] /\ Observed = pos[C]  BY <1>2, <1>7 DEF Observed
<1>9. Counted'
  <2>1. /\ seen \in Nat /\ values \in Nat /\ lapped \in Nat /\ values + lapped <= seen
        /\ CAPACITY > 1 => seen <= pos[C]
    BY <1>8 DEF BenchInv, Counted
  <2>2. CASE cpc'[C] = "idle"  BY <1>2, <1>6, <1>8, <2>1, <2>2 DEF Counted
  <2>3. CASE cpc'[C] # "idle"  BY <1>2, <1>6, <1>8, <2>1, <2>3 DEF Counted
  <2>4. QED  BY <2>2, <2>3
<1>10. consumer' \in {"poll", "drain"}  BY <1>2
<1>11. NothingUnobserved'  BY <1>10 DEF NothingUnobserved
<1>12. QED  BY <1>2, <1>4, <1>7, <1>9, <1>10, <1>11, ConsumerReads

(* Lapped: it moves on by what was skipped, which is not zero. *)
LEMMA TryReadLappedStep == ASSUME BenchConstants, BenchInv, TryReadLapped PROVE BenchInv'
<1>1. PICK t : LappedAt(C, t)  BY DEF TryReadLapped, Lapped
<1>2. /\ Reading /\ consumer \in {"poll", "drain"} /\ seen' = seen + 1
      /\ lapped' \in {lapped, lapped + 1}
      /\ UNCHANGED <<setup, main, producer, consumer, queue, bench, received, values>>
  BY DEF TryReadLapped, Reading, setup, busVars, threadVars
<1>3. IInv /\ C \in Consumers  BY FlagLoc DEF BenchInv
<1>4. InTryRead(C)  BY DEF TryReadLapped, InTryRead
<1>5. IInv'  BY <1>3, <1>4, NextIInv DEF Next
<1>6. cpc[C] = "lapped"  BY <1>1 DEF LappedAt
<1>7. PICK skipped \in Int :
         /\ skipped \in 0 .. WORD - 1
         /\ pos' = [pos EXCEPT ![C] = @ + skipped]
         /\ res' = [res EXCEPT ![C] = Result("Lapped", Blank, pos[C], skipped, begun - pos[C])]
  <2> DEFINE z == Wrap(LapTarget(C, mem[CURSOR][t].val) - read_cursor[C])
  <2>1. /\ pos' = [pos EXCEPT ![C] = @ + z]
        /\ res' = [res EXCEPT ![C] = Result("Lapped", Blank, pos[C], z, begun - pos[C])]
    BY <1>1 DEF LappedAt
  <2>2. res'[C] = Result("Lapped", Blank, pos[C], z, begun - pos[C])
    BY <1>3, <2>1 DEF IInv, TypeOK
  <2>3. res'[C].skipped \in 0 .. WORD - 1  BY <1>3, <1>5 DEF IInv, TypeOK
  <2>4. z \in 0 .. WORD - 1  BY <2>2, <2>3 DEF Result
  <2> HIDE DEF z
  <2>5. z \in Int  BY <2>4, Constants
  <2>6. QED  BY <2>1, <2>4, <2>5, Zenon
<1>8. /\ pos[C] \in Nat /\ pos'[C] = pos[C] + skipped
      /\ res'[C].kind = "Lapped" /\ res'[C].skipped = skipped
  BY <1>3, <1>7 DEF IInv, TypeOK, Result
<1>9. CAPACITY > 1 => skipped > 0
  <2>1. Returned(C)' /\ res'[C].lag \in Nat
    BY <1>3, <1>5 DEF IInv, Readers, TypeOK
  <2>2. res'[C].lag <= WORD
    <3>1. res'[C].lag <= MAX_PUBLISH  BY <2>1 DEF Returned
    <3>2. MAX_PUBLISH < WORD /\ MAX_PUBLISH \in Nat  BY DEF BenchConstants
    <3>3. QED  BY <2>1, <3>1, <3>2, Constants
  <2>3. QED  BY <1>8, <2>1, <2>2 DEF Returned
<1>10. queue = "ours"  BY <1>6 DEF BenchInv, Protocol
<1>11. Observed' = pos'[C] /\ Observed = pos[C]  BY <1>2, <1>10 DEF Observed
<1>12. Counted'
  <2>1. /\ seen \in Nat /\ values \in Nat /\ lapped \in Nat /\ values + lapped <= seen
        /\ CAPACITY > 1 => seen <= pos[C]
    BY <1>11 DEF BenchInv, Counted
  <2>2. CAPACITY > 1 => seen' <= Observed'  BY <1>2, <1>8, <1>9, <1>11, <2>1, Constants
  <2>3. /\ seen \in Nat /\ values \in Nat /\ lapped \in Nat /\ values + lapped <= seen
        /\ seen' = seen + 1 /\ values' = values /\ (lapped' = lapped \/ lapped' = lapped + 1)
    BY <1>2, <2>1
  <2>4. /\ seen' \in Nat /\ values' \in Nat /\ lapped' \in Nat
        /\ values' + lapped' <= seen'
    BY <2>3
  <2>5. QED  BY <2>2, <2>4 DEF Counted
<1>13. consumer' \in {"poll", "drain"}  BY <1>2
<1>14. NothingUnobserved'  BY <1>13 DEF NothingUnobserved
<1>15. QED  BY <1>2, <1>4, <1>10, <1>12, <1>13, <1>14, ConsumerReads

(* The load of the flag. *)
LEMMA CheckDoneStep == ASSUME BenchConstants, BenchInv, CheckDone PROVE BenchInv'
<1>1. PICK t : CheckDoneAt(t)  BY DEF CheckDone
<1>2. /\ consumer = "check"
      /\ consumer' = IF mem[DONE][t].val = 1 THEN WhenDone ELSE "poll"
      /\ UNCHANGED <<bench, queue, i, sent, received, main, producer, seen, values, lapped>>
      /\ ppc' = ppc /\ begun' = begun /\ cpc' = cpc /\ pos' = pos
  BY <1>1 DEF CheckDoneAt, setup, busVars, counters, producerVars, consumerVars
<1>3. IInv  BY DEF BenchInv
<1>4. /\ IInv' /\ mem' = mem /\ t \in 1 .. Newest(DONE)
      /\ cur'[C][CURSOR] >= mem[DONE][t].view[CURSOR]
  BY <1>1, <1>3, LoadFlag
<1>5. \A l : Newest(l)' = Newest(l)  BY <1>4 DEF Newest
<1>6. consumer' # "poll" => /\ t = 2 /\ producer = "returned" /\ Newest(DONE) = 2
  BY <1>2, <1>4 DEF BenchInv, Flag
<1>7. consumer' \in {"poll", "drain", "returned"}
      /\ (consumer' = "drain" => bench = "handoff")
      /\ (bench = "handoff" => consumer' # "returned")
  BY <1>2 DEF WhenDone
<1>8. Observed' = Observed /\ published' = published  BY <1>2 DEF Observed, published
<1>9. cpc[C] \in {"idle", "off"}  BY <1>2 DEF BenchInv, Protocol
<1>10. Protocol'  BY <1>2, <1>6, <1>7, <1>8, <1>9 DEF BenchInv, Protocol
<1>11. Accepted' /\ Counted'  BY <1>2, <1>8 DEF BenchInv, Accepted, Counted
<1>12. Flag'
  <2>1. ASSUME consumer' # "poll" PROVE cur'[C][CURSOR] >= Newest(CURSOR)
    <3>1. cur' \in [Thread -> [Loc -> Nat \ {0}]]  BY <1>4 DEF IInv, TypeOK, MemoryOK, Views
    <3>2. C \in Consumers /\ C \in Thread /\ CURSOR \in Loc /\ DONE \in Loc
      BY FlagLoc, LocFacts
    <3>3. mem[DONE][t].view \in Views(Loc)  BY <1>3, <1>4, <3>2, Basics, MessageFacts
    <3>4. cur'[C][CURSOR] \in Nat /\ mem[DONE][t].view[CURSOR] \in Nat /\ Newest(CURSOR) \in Nat
      BY <1>3, <3>1, <3>2, <3>3, Basics DEF Views
    <3>5. mem[DONE][t].view[CURSOR] >= Newest(CURSOR)
      BY <1>6, <2>1 DEF BenchInv, Flag
    <3>6. QED  BY <1>4, <3>4, <3>5
  <2>2. QED  BY <1>2, <1>4, <1>5, <2>1 DEF BenchInv, Flag
<1>13. NothingUnobserved'  BY <1>2, <1>7 DEF NothingUnobserved
<1>14. QED  BY <1>4, <1>10, <1>11, <1>12, <1>13 DEF BenchInv

-----------------------------------------------------------------------------
(* The invariant holds at the start ... *)
LEMMA InitBenchInv == ASSUME BenchConstants, BenchInit PROVE BenchInv
<1>1. Init /\ IInv  BY InitIInv DEF BenchInit
<1>2. DONE \in Loc /\ C \in Consumers  BY FlagLoc
<1>3. ppc = "idle" /\ cpc[C] = "idle" /\ pos[C] = 0
  BY <1>1, <1>2 DEF Init, C
<1>4. mem[DONE] = <<[val |-> 0, view |-> FirstView(Loc)]>>
  BY <1>1, <1>2 DEF Init, InitMemory
<1>5. Newest(DONE) = 1 /\ mem[DONE][1].val = 0  BY <1>4 DEF Newest
<1> USE DEF BenchInit
<1>6. Protocol /\ Accepted  BY <1>3 DEF Protocol, Accepted
<1>7. Flag  BY <1>5 DEF Flag
<1>8. Counted  BY <1>3 DEF Counted, Observed
<1>9. NothingUnobserved  BY DEF NothingUnobserved
<1>10. QED  BY <1>1, <1>6, <1>7, <1>8, <1>9 DEF BenchInv

(* ... and is kept by every step. *)
LEMMA NextBenchInv == ASSUME BenchConstants, BenchInv, [BenchNext]_allVars PROVE BenchInv'
<1>1. CASE ProducerThread
  BY <1>1, ThreadStep, TryPublishStep, BusTryPublishStep, StoreDoneStep DEF ProducerThread
<1>2. CASE ConsumerThread
  BY <1>2, ThreadStep, CallTryReadStep, TryReadEmptyStep, TryReadValueStep, TryReadLappedStep,
     BusTryReadStep, CheckDoneStep DEF ConsumerThread
<1>3. CASE MainThread \/ PinFails  BY <1>3, ThreadStep DEF MainThread
<1>4. CASE UNCHANGED allVars
  <2>1. UNCHANGED vars /\ UNCHANGED <<bench, queue, i, sent, received, main, producer, consumer>>
        /\ UNCHANGED <<seen, values, lapped>>
    BY <1>4 DEF allVars, benchVars, setup, busVars, threadVars, counters
  <2>2. /\ IInv' /\ mem' = mem /\ cur' = cur /\ (\A l : Newest(l)' = Newest(l))
        /\ ppc' = ppc /\ begun' = begun /\ cpc' = cpc /\ pos' = pos
    BY <2>1, QueueStill DEF BenchInv
  <2>3. Protocol' /\ Accepted'
    BY <2>1, <2>2 DEF BenchInv, Protocol, Accepted, published
  <2>4. Flag'  BY <2>1, <2>2 DEF BenchInv, Flag
  <2>5. Counted' /\ NothingUnobserved'
    BY <2>1, <2>2 DEF BenchInv, Counted, NothingUnobserved, Observed
  <2>6. QED  BY <2>2, <2>3, <2>4, <2>5 DEF BenchInv
<1>5. QED  BY <1>1, <1>2, <1>3, <1>4 DEF BenchNext

(* So it holds in every reachable state. *)
THEOREM BenchInvariance == ASSUME BenchConstants PROVE BenchSpec => []BenchInv
<1>1. BenchInit => BenchInv  BY InitBenchInv
<1>2. BenchInv /\ [BenchNext]_allVars => BenchInv'  BY NextBenchInv
<1>3. QED  BY <1>1, <1>2, PTL DEF BenchSpec

(* The handoff's consumer returns only when it has accounted for all the   *)
(* values, read or skipped, for every capacity, number of values and words *)
(* of T, and with either queue.                                            *)
THEOREM SpmcNothingUnobserved ==
    ASSUME BenchConstants PROVE BenchSpec => []NothingUnobserved
<1>1. BenchInv => NothingUnobserved  BY DEF BenchInv
<1>2. QED  BY <1>1, BenchInvariance, PTL

(* In a queue of more than one slot, the reads a benchmark reports never   *)
(* exceed the publishes; the report of the lapped share adds up.  (With    *)
(* one slot they may: Lapped may then skip nothing.)                       *)
THEOREM SpmcReportAddsUp ==
    ASSUME BenchConstants, CAPACITY > 1 PROVE BenchSpec => []ReportAddsUp
<1>1. BenchInv => ReportAddsUp
  <2> SUFFICES ASSUME BenchInv PROVE ReportAddsUp  OBVIOUS
  <2>1. values + lapped <= seen /\ seen <= Observed  BY DEF BenchInv, Counted
  <2>2. CASE queue = "bus"
    BY <2>1, <2>2 DEF BenchInv, Accepted, ReportAddsUp, Observed, published
  <2>3. CASE queue = "ours"
    <3>1. C \in Consumers /\ IInv  BY FlagLoc DEF BenchInv
    <3>2. PICK cw \in Nat : Knows(C, cw)  BY <3>1 DEF IInv, Readers, Reader
    <3>3. pos[C] <= begun  BY <3>1, <3>2, Basics DEF Knows
    <3>4. QED  BY <2>1, <2>3, <3>3 DEF ReportAddsUp, Observed, published
  <2>4. QED  BY <2>2, <2>3 DEF BenchInv, Protocol
<1>2. QED  BY <1>1, BenchInvariance, PTL
=============================================================================

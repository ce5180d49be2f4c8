--------------------------- MODULE SeqLockProofs ---------------------------
(***************************************************************************)
(* The seqlock never returns a torn value, for any number of readers, any  *)
(* size of T, any number of writes and any even modulus of seq.            *)
(*                                                                         *)
(* The argument.  The k-th message of seq holds k - 1 (modulo SEQ_MOD) and *)
(* the k-th message of each word holds k - 1, the number of the write it   *)
(* belongs to (Shape, Progress).  The release fence puts the odd seq of    *)
(* write n in the view of each word of write n, and the Release store puts *)
(* all words of write n in the view of its even seq (Views).  A reader     *)
(* that loads an even seq with Acquire therefore reads words that are not  *)
(* older, and a word that is newer drags the newer odd seq into the view   *)
(* its acquire fence installs (Reading): the second load cannot return the *)
(* same number unless no word was newer, short of a full turn of seq.      *)
(*                                                                         *)
(* The benchmark around the lock keeps this invariant: its flag is one     *)
(* more location.  Its reader's calls return the writes in order           *)
(* (InOrder), so a time stamp that differs from the last one is later and  *)
(* the count of samples never overtakes it (Sampled).                      *)
(***************************************************************************)
EXTENDS SeqLockBench, WeakMemoryProofs, ModLemmas

(* What the messages of each location are. *)
Shape ==
    /\ \A l \in Loc : Newest(l) >= 1
    /\ \A k \in 1 .. Newest(SEQ) : mem[SEQ][k].val = (k - 1) % SEQ_MOD
    /\ \A w \in Words : \A k \in 1 .. Newest(Data(w)) : mem[Data(w)][k].val = k - 1

(* How far the writer is. *)
Progress ==
    /\ \A l \in Loc : cur["W"][l] = Newest(l)
    /\ wpc = "idle" => /\ Newest(SEQ) = 2 * wcount + 1
                       /\ \A w \in Words : Newest(Data(w)) = wcount + 1
    /\ wpc = "odd" => /\ wcount >= 1 /\ Newest(SEQ) = 2 * wcount - 1
                      /\ s = (2 * wcount - 2) % SEQ_MOD
                      /\ \A w \in Words : Newest(Data(w)) = wcount
    /\ wpc = "words" => /\ wcount >= 1 /\ Newest(SEQ) = 2 * wcount
                        /\ s = (2 * wcount - 2) % SEQ_MOD
                        /\ rel["W"][SEQ] = 2 * wcount
                        /\ \A w \in Words :
                              Newest(Data(w)) = IF w \in wtodo THEN wcount ELSE wcount + 1

(* What a reader acquires with each message. *)
Carried ==
    /\ \A k \in 1 .. Newest(SEQ) :
          k % 2 = 1 => \A w \in Words : 2 * mem[SEQ][k].view[Data(w)] >= k + 1
    /\ \A w \in Words : \A k \in 1 .. Newest(Data(w)) :
          mem[Data(w)][k].view[SEQ] >= 2 * (k - 1)

(* What a reader between its two loads of seq has observed. *)
ReadingBy(r) ==
    /\ t1[r] % 2 = 1 /\ s1[r] = (t1[r] - 1) % SEQ_MOD
    /\ cur[r][SEQ] >= t1[r]
    /\ \A w \in Words : 2 * cur[r][Data(w)] >= t1[r] + 1
    /\ \A w \in Words \ rtodo[r] : /\ 2 * got[r][w] >= t1[r] - 1
                                   /\ acq[r][SEQ] >= 2 * got[r][w]
Reading == \A r \in Readers : rpc[r] = "words" => ReadingBy(r)

Fenced == \A th \in Thread : \A l \in Loc : acq[th][l] >= cur[th][l]

IInv == TypeOK /\ Shape /\ Progress /\ Carried /\ Fenced /\ Reading /\ NoTornRead

-----------------------------------------------------------------------------
(* Locations are distinct, and the writer is not a reader. *)
LEMMA LocFacts ==
    /\ SEQ \in Loc /\ \A w \in Words : Data(w) \in Loc /\ Data(w) # SEQ
    /\ \A v, w \in Words : Data(v) = Data(w) => v = w
    /\ "W" \in Thread /\ Readers \subseteq Thread /\ "W" \notin Readers
BY SeqLockAssumption DEF Loc, SEQ, Data, Client, Words, Thread

LEMMA InitIInv == Init => IInv
<1> SUFFICES ASSUME Init PROVE IInv  OBVIOUS
<1> USE DEF Init
<1>1. /\ mem = [l \in Loc |-> <<[val |-> 0, view |-> FirstView(Loc)]>>]
      /\ cur = [th \in Thread |-> FirstView(Loc)]
      /\ acq = [th \in Thread |-> FirstView(Loc)]
      /\ rel = [th \in Thread |-> FirstView(Loc)]
  BY DEF InitMemory
<1>2. FirstView(Loc) \in Views(Loc) /\ \A l \in Loc : FirstView(Loc)[l] = 1
  BY DEF FirstView, Views
<1>3. [val |-> 0, view |-> FirstView(Loc)] \in Messages(Loc)  BY <1>2 DEF Messages
<1>4. MemoryOK(Loc, Thread)  BY <1>1, <1>2, <1>3 DEF MemoryOK
<1>5. \A l \in Loc : /\ Newest(l) = 1 /\ mem[l][1].val = 0
                     /\ \A k \in Loc : mem[l][1].view[k] = 1
  BY <1>1, <1>2 DEF Newest
<1>6. TypeOK
  <2>1. SEQ_MOD - 1 \in Nat /\ 0 \in 0 .. SEQ_MOD - 1  BY SeqLockAssumption
  <2>2. Blank \in [Words -> Nat]  BY DEF Blank
  <2>3. ret \in [Readers -> Snapshot]  BY <2>2 DEF Snapshot
  <2>4. QED  BY <1>4, <2>1, <2>2, <2>3 DEF TypeOK
<1>7. Shape
  <2>1. 0 % SEQ_MOD = 0  BY SeqLockAssumption
  <2>2. QED  BY <1>5, <2>1, LocFacts DEF Shape
<1>8. Progress  BY <1>1, <1>2, <1>5, LocFacts DEF Progress
<1>9. Carried  BY <1>5, LocFacts DEF Carried
<1>10. Fenced  BY <1>1, <1>2 DEF Fenced
<1>11. Reading  BY DEF Reading
<1>12. NoTornRead  BY DEF NoTornRead, Blank
<1>13. QED  BY <1>6, <1>7, <1>8, <1>9, <1>10, <1>11, <1>12 DEF IInv

-----------------------------------------------------------------------------
(* A step of the writer leaves every reader where it is. *)
WriterFrame ==
    /\ UNCHANGED readerVars
    /\ \A r \in Readers : cur'[r] = cur[r] /\ acq'[r] = acq[r]

LEMMA ReadersUndisturbed == IInv /\ WriterFrame => Reading' /\ NoTornRead'
<1> SUFFICES ASSUME IInv, WriterFrame PROVE Reading' /\ NoTornRead'  OBVIOUS
<1>1. NoTornRead'  BY DEF IInv, NoTornRead, WriterFrame, readerVars
<1>2. Reading'
  <2> SUFFICES ASSUME NEW r \in Readers, rpc'[r] = "words" PROVE ReadingBy(r)'
    BY DEF Reading
  <2>1. ReadingBy(r)  BY DEF IInv, Reading, WriterFrame, readerVars
  <2>2. QED  BY <2>1 DEF ReadingBy, WriterFrame, readerVars
<1>3. QED  BY <1>1, <1>2

(* The values that write() stores in seq, without the wrap-around of s. *)
LEMMA SeqStores ==
    ASSUME wcount \in Nat, s = (2 * wcount - 2) % SEQ_MOD
    PROVE  /\ OddSeq = (2 * wcount - 1) % SEQ_MOD /\ OddSeq \in Nat
           /\ EvenSeq = (2 * wcount) % SEQ_MOD /\ EvenSeq \in Nat
<1> DEFINE n == 2 * wcount - 2
<1>1. n \in Int /\ 1 \in Int /\ 2 \in Int /\ SEQ_MOD \in Nat \ {0}
  BY SeqLockAssumption
<1>2. n + 1 = 2 * wcount - 1 /\ n + 2 = 2 * wcount  OBVIOUS
<1>3. s = n % SEQ_MOD  OBVIOUS
<1> HIDE DEF n
<1>4. ((n % SEQ_MOD) + 1) % SEQ_MOD = (n + 1) % SEQ_MOD  BY <1>1, ModAdd, Zenon
<1>5. ((n % SEQ_MOD) + 2) % SEQ_MOD = (n + 2) % SEQ_MOD  BY <1>1, ModAdd, Zenon
<1>6. (n + 1) % SEQ_MOD \in Nat /\ (n + 2) % SEQ_MOD \in Nat  BY <1>1, DivMod
<1>7. OddSeq = (n + 1) % SEQ_MOD  BY <1>3, <1>4 DEF OddSeq, WrappingAdd
<1>8. EvenSeq = (n + 2) % SEQ_MOD  BY <1>3, <1>5 DEF EvenSeq, WrappingAdd
<1>9. QED  BY <1>2, <1>6, <1>7, <1>8

LEMMA WriteLoadStep == IInv /\ WriteLoad => IInv'
<1> SUFFICES ASSUME IInv, WriteLoad PROVE IInv'  OBVIOUS
<1>0. TypeOK /\ MemoryOK(Loc, Thread) /\ Fenced /\ Shape /\ Progress /\ Carried
  BY DEF IInv, TypeOK
<1>1. PICK t \in Readable("W", SEQ) :
         Load("W", SEQ, t, "Relaxed", "None") /\ s' = mem[SEQ][t].val
  BY DEF WriteLoad
<1>2. /\ MemoryOK(Loc, Thread)' /\ mem' = mem /\ rel' = rel
      /\ t \in 1 .. Newest(SEQ) /\ t >= cur["W"][SEQ]
      /\ \A u \in Thread : u # "W" => cur'[u] = cur[u] /\ acq'[u] = acq[u]
      /\ \A k \in Loc : k # SEQ => cur'["W"][k] = cur["W"][k]
      /\ cur'["W"][SEQ] = t
      /\ \A k \in Loc : acq'["W"][k] >= cur'["W"][k]
  BY <1>0, <1>1, LoadFacts, LocFacts DEF Fenced
<1>3. t = Newest(SEQ)  BY <1>0, <1>2, LocFacts, MessageFacts DEF Progress
<1>4. \A l \in Loc : Newest(l)' = Newest(l)  BY <1>2 DEF Newest
<1>5. WriterFrame  BY <1>2, LocFacts DEF WriterFrame, WriteLoad
<1>6. /\ wpc = "idle" /\ wpc' = "odd" /\ wcount' = wcount + 1 /\ wtodo' = wtodo
      /\ UNCHANGED readerVars /\ wcount \in Nat
  BY <1>0 DEF WriteLoad, TypeOK
<1>7. s' = (2 * wcount' - 2) % SEQ_MOD
  <2>1. s' = (Newest(SEQ) - 1) % SEQ_MOD  BY <1>0, <1>1, <1>2, <1>3 DEF Shape
  <2>2. Newest(SEQ) - 1 = 2 * wcount' - 2  BY <1>0, <1>6 DEF Progress
  <2>3. QED  BY <2>1, <2>2
<1>8. s' \in 0 .. SEQ_MOD - 1
  <2>1. 2 * wcount' - 2 \in Int  BY <1>6
  <2>2. QED  BY <2>1, <1>7, DivMod, SeqLockAssumption
<1>9. TypeOK'
  BY <1>0, <1>2, <1>6, <1>8 DEF TypeOK, readerVars
<1>10. Shape' /\ Carried'  BY <1>0, <1>2, <1>4, LocFacts DEF Shape, Carried
<1>11. Progress'
  <2>1. \A l \in Loc : cur'["W"][l] = Newest(l)'
    BY <1>0, <1>2, <1>3, <1>4 DEF Progress
  <2>2. wcount' >= 1 /\ Newest(SEQ)' = 2 * wcount' - 1
    BY <1>0, <1>4, <1>6, LocFacts DEF Progress
  <2>3. \A w \in Words : Newest(Data(w))' = wcount'
    BY <1>0, <1>4, <1>6, LocFacts DEF Progress
  <2>4. QED  BY <2>1, <2>2, <2>3, <1>6, <1>7 DEF Progress
<1>12. Fenced'  BY <1>0, <1>2, LocFacts DEF Fenced
<1>13. QED
  BY <1>5, <1>9, <1>10, <1>11, <1>12, ReadersUndisturbed DEF IInv

LEMMA WriteOddStep == IInv /\ WriteOdd => IInv'
<1> SUFFICES ASSUME IInv, WriteOdd PROVE IInv'  OBVIOUS
<1>0. TypeOK /\ MemoryOK(Loc, Thread) /\ Fenced /\ Shape /\ Progress /\ Carried
  BY DEF IInv, TypeOK
<1>1. /\ wpc = "odd" /\ wpc' = "words" /\ wtodo' = Words /\ s' = s /\ wcount' = wcount
      /\ UNCHANGED readerVars /\ wcount \in Nat /\ s \in Int
      /\ Store("W", SEQ, OddSeq, "Relaxed", "Release")
  BY <1>0 DEF WriteOdd, TypeOK, OddStoreFence
<1>2. OddSeq = (2 * wcount - 1) % SEQ_MOD /\ OddSeq \in Nat
  BY <1>0, <1>1, SeqStores DEF Progress
<1>3. /\ MemoryOK(Loc, Thread)'
      /\ \A k \in Loc : k # SEQ => mem'[k] = mem[k]
      /\ Newest(SEQ)' = Newest(SEQ) + 1
      /\ \A u \in 1 .. Newest(SEQ) : mem'[SEQ][u] = mem[SEQ][u]
      /\ mem'[SEQ][Newest(SEQ) + 1].val = OddSeq
      /\ \A u \in Thread : u # "W" =>
            cur'[u] = cur[u] /\ acq'[u] = acq[u] /\ rel'[u] = rel[u]
      /\ \A k \in Loc : k # SEQ => cur'["W"][k] = cur["W"][k]
      /\ cur["W"][SEQ] <= Newest(SEQ) + 1 => cur'["W"][SEQ] = Newest(SEQ) + 1
      /\ \A k \in Loc : acq'["W"][k] >= cur'["W"][k]
      /\ rel'["W"] = cur'["W"]
  BY <1>0, <1>1, <1>2, StoreFacts, LocFacts DEF Fenced
<1>4. Newest(SEQ) = 2 * wcount - 1 /\ wcount >= 1  BY <1>0, <1>1 DEF Progress
<1>5. cur'["W"][SEQ] = Newest(SEQ) + 1  BY <1>0, <1>1, <1>3, <1>4, LocFacts DEF Progress
<1>6. /\ \A l \in Loc : l # SEQ => Newest(l)' = Newest(l)
      /\ \A w \in Words : Newest(Data(w))' = Newest(Data(w)) /\ mem'[Data(w)] = mem[Data(w)]
  BY <1>3, LocFacts DEF Newest
<1>7. TypeOK'
  BY <1>0, <1>1, <1>3 DEF TypeOK, readerVars
<1>8. Shape'
  <2>1. \A k \in 1 .. Newest(SEQ)' : mem'[SEQ][k].val = (k - 1) % SEQ_MOD
    <3> SUFFICES ASSUME NEW k \in 1 .. Newest(SEQ)' PROVE mem'[SEQ][k].val = (k - 1) % SEQ_MOD
      OBVIOUS
    <3>1. CASE k = Newest(SEQ) + 1
      <4>1. k - 1 = 2 * wcount - 1  BY <3>1, <1>1, <1>4
      <4>2. QED  BY <3>1, <4>1, <1>2, <1>3
    <3>2. CASE k # Newest(SEQ) + 1
      <4>1. k \in 1 .. Newest(SEQ)  BY <3>2, <1>1, <1>3, <1>4
      <4>2. QED  BY <4>1, <1>0, <1>3 DEF Shape
    <3>3. QED  BY <3>1, <3>2
  <2>2. \A w \in Words : \A k \in 1 .. Newest(Data(w))' : mem'[Data(w)][k].val = k - 1
    BY <1>0, <1>6 DEF Shape
  <2>3. \A l \in Loc : Newest(l)' >= 1
    BY <1>0, <1>1, <1>3, <1>4, <1>6, LocFacts DEF Shape
  <2>4. QED  BY <2>1, <2>2, <2>3 DEF Shape
<1>9. Progress'
  <2>1. \A l \in Loc : cur'["W"][l] = Newest(l)'
    BY <1>0, <1>3, <1>5, <1>6, LocFacts DEF Progress
  <2>2. Newest(SEQ)' = 2 * wcount' /\ wcount' >= 1  BY <1>1, <1>3, <1>4
  <2>3. rel'["W"][SEQ] = 2 * wcount'  BY <1>1, <1>3, <1>4, <1>5
  <2>4. \A w \in Words : Newest(Data(w))' = wcount' /\ w \in wtodo'
    BY <1>0, <1>1, <1>6 DEF Progress
  <2>5. s' = (2 * wcount' - 2) % SEQ_MOD  BY <1>0, <1>1 DEF Progress
  <2>6. QED  BY <2>1, <2>2, <2>3, <2>4, <2>5, <1>1 DEF Progress
<1>10. Carried'
  <2>1. \A k \in 1 .. Newest(SEQ)' :
           k % 2 = 1 => \A w \in Words : 2 * mem'[SEQ][k].view[Data(w)] >= k + 1
    <3> SUFFICES ASSUME NEW k \in 1 .. Newest(SEQ)', k % 2 = 1, NEW w \in Words
                 PROVE  2 * mem'[SEQ][k].view[Data(w)] >= k + 1
      OBVIOUS
    <3>1. k # Newest(SEQ) + 1  BY <1>1, <1>4
    <3>2. k \in 1 .. Newest(SEQ)  BY <3>1, <1>1, <1>3, <1>4
    <3>3. QED  BY <3>2, <1>0, <1>3 DEF Carried
  <2>2. \A w \in Words : \A k \in 1 .. Newest(Data(w))' :
           mem'[Data(w)][k].view[SEQ] >= 2 * (k - 1)
    BY <1>0, <1>6 DEF Carried
  <2>3. QED  BY <2>1, <2>2 DEF Carried
<1>11. Fenced'  BY <1>0, <1>3, LocFacts DEF Fenced
<1>12. WriterFrame  BY <1>1, <1>3, LocFacts DEF WriterFrame
<1>13. QED
  BY <1>7, <1>8, <1>9, <1>10, <1>11, <1>12, ReadersUndisturbed DEF IInv

LEMMA WriteWordStep == ASSUME NEW w \in Words PROVE IInv /\ WriteWord(w) => IInv'
<1> SUFFICES ASSUME IInv, WriteWord(w) PROVE IInv'  OBVIOUS
<1> DEFINE l == Data(w)
<1>0. TypeOK /\ MemoryOK(Loc, Thread) /\ Fenced /\ Shape /\ Progress /\ Carried
  BY DEF IInv, TypeOK
<1>1. /\ wpc = "words" /\ w \in wtodo /\ wtodo' = wtodo \ {w}
      /\ wpc' = wpc /\ s' = s /\ wcount' = wcount /\ wcount \in Nat
      /\ UNCHANGED readerVars
      /\ Store("W", l, wcount, "Relaxed", "None")
  BY <1>0 DEF WriteWord, TypeOK
<1>2. l \in Loc /\ l # SEQ /\ SEQ \in Loc  BY LocFacts
<1> HIDE DEF l
<1>3. /\ MemoryOK(Loc, Thread)'
      /\ \A k \in Loc : k # l => mem'[k] = mem[k]
      /\ Newest(l)' = Newest(l) + 1
      /\ \A u \in 1 .. Newest(l) : mem'[l][u] = mem[l][u]
      /\ mem'[l][Newest(l) + 1].val = wcount
      /\ \A k \in Loc : k # l => mem'[l][Newest(l) + 1].view[k] = rel["W"][k]
      /\ \A u \in Thread : u # "W" =>
            cur'[u] = cur[u] /\ acq'[u] = acq[u] /\ rel'[u] = rel[u]
      /\ \A k \in Loc : k # l => cur'["W"][k] = cur["W"][k]
      /\ cur["W"][l] <= Newest(l) + 1 => cur'["W"][l] = Newest(l) + 1
      /\ \A k \in Loc : acq'["W"][k] >= cur'["W"][k]
      /\ rel'["W"] = rel["W"]
  BY <1>0, <1>1, <1>2, StoreFacts, LocFacts DEF Fenced
<1>4. Newest(l) = wcount /\ wcount >= 1 /\ rel["W"][SEQ] = 2 * wcount
  BY <1>0, <1>1 DEF Progress, l
<1>5. cur'["W"][l] = Newest(l) + 1  BY <1>0, <1>1, <1>2, <1>3, <1>4 DEF Progress
<1>6. \A k \in Loc : k # l => Newest(k)' = Newest(k)  BY <1>3 DEF Newest
<1>7. \A v \in Words : v # w => Data(v) # l /\ Data(v) \in Loc  BY LocFacts DEF l
<1>8. TypeOK'  BY <1>0, <1>1, <1>3 DEF TypeOK, readerVars
<1>9. Shape' /\ Carried'
  <2>1. \A k \in Loc : Newest(k)' >= 1  BY <1>0, <1>1, <1>3, <1>4, <1>6 DEF Shape
  <2>2. mem'[SEQ] = mem[SEQ] /\ Newest(SEQ)' = Newest(SEQ)  BY <1>2, <1>3, <1>6
  <2>3. ASSUME NEW v \in Words, NEW k \in 1 .. Newest(Data(v))'
        PROVE  /\ mem'[Data(v)][k].val = k - 1
               /\ mem'[Data(v)][k].view[SEQ] >= 2 * (k - 1)
    <3>1. CASE v # w
      BY <3>1, <1>0, <1>3, <1>6, <1>7 DEF Shape, Carried
    <3>2. CASE v = w /\ k = Newest(l) + 1
      BY <3>2, <1>1, <1>2, <1>3, <1>4 DEF l
    <3>3. CASE v = w /\ k # Newest(l) + 1
      <4>1. k \in 1 .. Newest(l)  BY <3>3, <1>1, <1>3, <1>4 DEF l
      <4>2. QED  BY <3>3, <4>1, <1>0, <1>3 DEF Shape, Carried, l
    <3>4. QED  BY <3>1, <3>2, <3>3
  <2>4. QED  BY <2>1, <2>2, <2>3, <1>0 DEF Shape, Carried
<1>10. Progress'
  <2>1. \A k \in Loc : cur'["W"][k] = Newest(k)'
    BY <1>0, <1>3, <1>5, <1>6 DEF Progress
  <2>2. /\ wcount' >= 1 /\ Newest(SEQ)' = 2 * wcount'
        /\ s' = (2 * wcount' - 2) % SEQ_MOD /\ rel'["W"][SEQ] = 2 * wcount'
    BY <1>0, <1>1, <1>2, <1>3, <1>4, <1>6 DEF Progress
  <2>3. ASSUME NEW v \in Words
        PROVE  Newest(Data(v))' = IF v \in wtodo' THEN wcount' ELSE wcount' + 1
    <3>1. CASE v = w  BY <3>1, <1>1, <1>3, <1>4 DEF l
    <3>2. CASE v # w  BY <3>2, <1>0, <1>1, <1>6, <1>7 DEF Progress
    <3>3. QED  BY <3>1, <3>2
  <2>4. QED  BY <2>1, <2>2, <2>3, <1>1 DEF Progress
<1>11. Fenced'  BY <1>0, <1>3, LocFacts DEF Fenced
<1>12. WriterFrame  BY <1>1, <1>3, LocFacts DEF WriterFrame
<1>13. QED
  BY <1>8, <1>9, <1>10, <1>11, <1>12, ReadersUndisturbed DEF IInv

LEMMA WriteEvenStep == IInv /\ WriteEven => IInv'
<1> SUFFICES ASSUME IInv, WriteEven PROVE IInv'  OBVIOUS
<1>0. TypeOK /\ MemoryOK(Loc, Thread) /\ Fenced /\ Shape /\ Progress /\ Carried
  BY DEF IInv, TypeOK
<1>1. /\ wpc = "words" /\ wpc' = "idle" /\ wtodo = {} /\ wtodo' = wtodo
      /\ s' = s /\ wcount' = wcount /\ UNCHANGED readerVars /\ wcount \in Nat
      /\ Store("W", SEQ, EvenSeq, "Release", "None")
  BY <1>0 DEF WriteEven, TypeOK, EvenStoreOrdering
<1>2. EvenSeq = (2 * wcount) % SEQ_MOD /\ EvenSeq \in Nat
  BY <1>0, <1>1, SeqStores DEF Progress
<1>3. /\ MemoryOK(Loc, Thread)'
      /\ \A k \in Loc : k # SEQ => mem'[k] = mem[k]
      /\ Newest(SEQ)' = Newest(SEQ) + 1
      /\ \A u \in 1 .. Newest(SEQ) : mem'[SEQ][u] = mem[SEQ][u]
      /\ mem'[SEQ][Newest(SEQ) + 1].val = EvenSeq
      /\ \A k \in Loc : k # SEQ => mem'[SEQ][Newest(SEQ) + 1].view[k] = cur["W"][k]
      /\ \A u \in Thread : u # "W" =>
            cur'[u] = cur[u] /\ acq'[u] = acq[u] /\ rel'[u] = rel[u]
      /\ \A k \in Loc : k # SEQ => cur'["W"][k] = cur["W"][k]
      /\ cur["W"][SEQ] <= Newest(SEQ) + 1 => cur'["W"][SEQ] = Newest(SEQ) + 1
      /\ \A k \in Loc : acq'["W"][k] >= cur'["W"][k]
  BY <1>0, <1>1, <1>2, StoreFacts, LocFacts DEF Fenced
<1>4. /\ Newest(SEQ) = 2 * wcount
      /\ \A w \in Words : Newest(Data(w)) = wcount + 1
  BY <1>0, <1>1 DEF Progress
<1>5. cur'["W"][SEQ] = Newest(SEQ) + 1  BY <1>0, <1>1, <1>3, <1>4, LocFacts DEF Progress
<1>6. /\ \A l \in Loc : l # SEQ => Newest(l)' = Newest(l)
      /\ \A w \in Words : Newest(Data(w))' = Newest(Data(w)) /\ mem'[Data(w)] = mem[Data(w)]
  BY <1>3, LocFacts DEF Newest
<1>7. TypeOK'  BY <1>0, <1>1, <1>3 DEF TypeOK, readerVars
<1>8. Shape' /\ Carried'
  <2>1. ASSUME NEW k \in 1 .. Newest(SEQ)'
        PROVE  /\ mem'[SEQ][k].val = (k - 1) % SEQ_MOD
               /\ k % 2 = 1 => \A w \in Words : 2 * mem'[SEQ][k].view[Data(w)] >= k + 1
    <3>1. CASE k = Newest(SEQ) + 1
      <4>1. k - 1 = 2 * wcount  BY <3>1, <1>1, <1>4
      <4>2. mem'[SEQ][k].val = (k - 1) % SEQ_MOD  BY <3>1, <4>1, <1>2, <1>3
      <4>3. \A w \in Words : mem'[SEQ][k].view[Data(w)] = wcount + 1
        BY <3>1, <1>0, <1>3, <1>4, LocFacts DEF Progress
      <4>4. \A w \in Words : 2 * mem'[SEQ][k].view[Data(w)] >= k + 1
        BY <4>1, <4>3, <1>1
      <4>5. QED  BY <4>2, <4>4
    <3>2. CASE k # Newest(SEQ) + 1
      <4>1. k \in 1 .. Newest(SEQ)  BY <3>2, <1>1, <1>3, <1>4
      <4>2. QED  BY <4>1, <1>0, <1>3 DEF Shape, Carried
    <3>3. QED  BY <3>1, <3>2
  <2>2. \A w \in Words : \A k \in 1 .. Newest(Data(w))' :
           mem'[Data(w)][k].val = k - 1 /\ mem'[Data(w)][k].view[SEQ] >= 2 * (k - 1)
    BY <1>0, <1>6 DEF Shape, Carried
  <2>3. \A l \in Loc : Newest(l)' >= 1
    BY <1>0, <1>1, <1>3, <1>4, <1>6, LocFacts DEF Shape
  <2>4. QED  BY <2>1, <2>2, <2>3 DEF Shape, Carried
<1>9. Progress'
  <2>1. \A l \in Loc : cur'["W"][l] = Newest(l)'
    BY <1>0, <1>3, <1>5, <1>6, LocFacts DEF Progress
  <2>2. Newest(SEQ)' = 2 * wcount' + 1  BY <1>1, <1>3, <1>4
  <2>3. \A w \in Words : Newest(Data(w))' = wcount' + 1  BY <1>1, <1>4, <1>6
  <2>4. QED  BY <2>1, <2>2, <2>3, <1>1 DEF Progress
<1>10. Fenced'  BY <1>0, <1>3, LocFacts DEF Fenced
<1>11. WriterFrame  BY <1>1, <1>3, LocFacts DEF WriterFrame
<1>12. QED
  BY <1>7, <1>8, <1>9, <1>10, <1>11, ReadersUndisturbed DEF IInv

-----------------------------------------------------------------------------
(* A step of reader r leaves the memory, the writer and the other readers  *)
(* where they are.                                                         *)
ReaderFrame(r) ==
    /\ UNCHANGED writerVars /\ mem' = mem /\ rel' = rel
    /\ \A u \in Thread : u # r => cur'[u] = cur[u] /\ acq'[u] = acq[u]
    /\ \A l \in Loc : acq'[r][l] >= cur'[r][l]

LEMMA WriterUndisturbed ==
    ASSUME NEW r \in Readers, IInv, ReaderFrame(r)
    PROVE  Shape' /\ Progress' /\ Carried' /\ Fenced'
<1>1. Shape /\ Progress /\ Carried /\ Fenced  BY DEF IInv
<1>2. "W" # r /\ "W" \in Thread  BY LocFacts
<1>3. \A l \in Loc : Newest(l)' = Newest(l)  BY DEF ReaderFrame, Newest
<1>4. Shape' /\ Carried'  BY <1>1, <1>3, LocFacts DEF Shape, Carried, ReaderFrame
<1>5. Progress'  BY <1>1, <1>2, <1>3, LocFacts DEF Progress, ReaderFrame, writerVars
<1>6. Fenced'  BY <1>1, LocFacts DEF Fenced, ReaderFrame
<1>7. QED  BY <1>4, <1>5, <1>6

(* The other readers: nothing they hold changes. *)
LEMMA OtherReaders ==
    ASSUME NEW r \in Readers, IInv, ReaderFrame(r),
           \A u \in Readers : u # r =>
              /\ rpc'[u] = rpc[u] /\ s1'[u] = s1[u] /\ t1'[u] = t1[u]
              /\ rtodo'[u] = rtodo[u] /\ got'[u] = got[u] /\ ret'[u] = ret[u]
    PROVE  /\ \A u \in Readers : u # r /\ rpc'[u] = "words" => ReadingBy(u)'
           /\ \A u \in Readers : u # r /\ ret'[u].t2 - ret'[u].t1 < SEQ_MOD =>
                 \A w \in Words : 2 * ret'[u].val[w] = ret'[u].t1 - 1
<1>1. \A u \in Readers : u # r => cur'[u] = cur[u] /\ acq'[u] = acq[u]
  BY LocFacts DEF ReaderFrame
<1>2. ASSUME NEW u \in Readers, u # r, rpc'[u] = "words" PROVE ReadingBy(u)'
  <2>1. ReadingBy(u)  BY <1>2 DEF IInv, Reading
  <2>2. QED  BY <2>1, <1>1, <1>2 DEF ReadingBy
<1>3. \A u \in Readers : u # r /\ ret'[u].t2 - ret'[u].t1 < SEQ_MOD =>
         \A w \in Words : 2 * ret'[u].val[w] = ret'[u].t1 - 1
  BY DEF IInv, NoTornRead
<1>4. QED  BY <1>2, <1>3

LEMMA ReadBeginStep == ASSUME NEW r \in Readers PROVE IInv /\ ReadBegin(r) => IInv'
<1> SUFFICES ASSUME IInv, ReadBegin(r) PROVE IInv'  OBVIOUS
<1>0. TypeOK /\ Fenced  BY DEF IInv
<1>1. ReaderFrame(r)
  BY <1>0, LocFacts DEF ReadBegin, ReaderFrame, memVars, Fenced
<1>2. TypeOK'  BY <1>0 DEF ReadBegin, TypeOK, MemoryOK, memVars, writerVars
<1>3. /\ rpc'[r] = "s1" /\ ret'[r] = ret[r]
      /\ \A u \in Readers : u # r =>
            /\ rpc'[u] = rpc[u] /\ s1'[u] = s1[u] /\ t1'[u] = t1[u]
            /\ rtodo'[u] = rtodo[u] /\ got'[u] = got[u] /\ ret'[u] = ret[u]
  BY <1>0 DEF ReadBegin, TypeOK
<1>4. Reading'  BY <1>1, <1>3, OtherReaders DEF Reading
<1>5. NoTornRead'  BY DEF ReadBegin, IInv, NoTornRead
<1>6. QED  BY <1>1, <1>2, <1>4, <1>5, WriterUndisturbed DEF IInv

(* The Acquire load of an even seq makes the words of that write visible. *)
LEMMA ReadS1Step ==
    ASSUME NEW r \in Readers, NEW t PROVE IInv /\ ReadS1At(r, t) => IInv'
<1> SUFFICES ASSUME IInv, ReadS1At(r, t) PROVE IInv'  OBVIOUS
<1>0. TypeOK /\ MemoryOK(Loc, Thread) /\ Fenced /\ Shape /\ Carried
  BY DEF IInv, TypeOK
<1>1. /\ rpc[r] = "s1" /\ Load(r, SEQ, t, "Acquire", "None")
      /\ UNCHANGED <<writerVars, got, ret>>
  BY DEF ReadS1At, Seq1LoadOrdering
<1>2. /\ MemoryOK(Loc, Thread)' /\ mem' = mem /\ rel' = rel
      /\ t \in 1 .. Newest(SEQ)
      /\ \A u \in Thread : u # r => cur'[u] = cur[u] /\ acq'[u] = acq[u]
      /\ cur'[r][SEQ] >= t
      /\ \A k \in Loc : cur'[r][k] >= mem[SEQ][t].view[k]
      /\ \A k \in Loc : acq'[r][k] >= cur'[r][k]
  BY <1>0, <1>1, LoadFacts, LocFacts DEF Fenced
<1>3. ReaderFrame(r)  BY <1>1, <1>2 DEF ReaderFrame
<1>4. mem[SEQ][t].val = (t - 1) % SEQ_MOD  BY <1>0, <1>2 DEF Shape
<1>5. t \in Nat \ {0} /\ t - 1 \in Int  BY <1>2, <1>0, LocFacts, MessageFacts
<1>6. (t - 1) % SEQ_MOD \in 0 .. SEQ_MOD - 1  BY <1>5, DivMod, SeqLockAssumption
<1>7. /\ s1'[r] = (t - 1) % SEQ_MOD /\ t1'[r] = t
      /\ rpc'[r] = "words" => ((t - 1) % SEQ_MOD) % 2 # 1
      /\ rpc'[r] = "words" => rtodo'[r] = Words
      /\ s1' \in [Readers -> 0 .. SEQ_MOD - 1] /\ t1' \in [Readers -> Nat \ {0}]
      /\ rpc' \in [Readers -> {"off", "idle", "s1", "words"}]
      /\ rtodo' \in [Readers -> SUBSET Words]
      /\ \A u \in Readers : u # r =>
            /\ rpc'[u] = rpc[u] /\ s1'[u] = s1[u] /\ t1'[u] = t1[u]
            /\ rtodo'[u] = rtodo[u] /\ got'[u] = got[u] /\ ret'[u] = ret[u]
  BY <1>0, <1>4, <1>5, <1>6 DEF ReadS1At, TypeOK
<1>8. TypeOK'  BY <1>0, <1>1, <1>2, <1>7 DEF TypeOK, writerVars
<1>9. ASSUME rpc'[r] = "words" PROVE ReadingBy(r)'
  <2>1. ((t - 1) % SEQ_MOD) % 2 = (t - 1) % 2  BY <1>5, ModParity, SeqLockAssumption
  <2>2. t % 2 = 1  BY <1>5, <1>7, <1>9, <2>1
  <2>3. \A w \in Words : 2 * cur'[r][Data(w)] >= t + 1
    <3> SUFFICES ASSUME NEW w \in Words PROVE 2 * cur'[r][Data(w)] >= t + 1  OBVIOUS
    <3>1. Data(w) \in Loc /\ r \in Thread  BY LocFacts
    <3>2. cur'[r][Data(w)] \in Nat  BY <3>1, <1>2 DEF MemoryOK, Views
    <3>3. mem[SEQ][t].view[Data(w)] \in Nat
      BY <3>1, <1>0, <1>2, LocFacts, MessageFacts DEF Views
    <3>4. 2 * mem[SEQ][t].view[Data(w)] >= t + 1  BY <2>2, <1>0, <1>2 DEF Carried
    <3>5. cur'[r][Data(w)] >= mem[SEQ][t].view[Data(w)]  BY <3>1, <1>2
    <3>6. QED  BY <3>2, <3>3, <3>4, <3>5, <1>5
  <2>4. QED  BY <2>2, <2>3, <1>2, <1>7, <1>9 DEF ReadingBy
<1>10. Reading'  BY <1>3, <1>7, <1>9, OtherReaders DEF Reading
<1>11. NoTornRead'  BY <1>1 DEF IInv, NoTornRead
<1>12. QED  BY <1>3, <1>8, <1>10, <1>11, WriterUndisturbed DEF IInv

(* A word that is newer than the first seq brings the newer odd seq along. *)
LEMMA ReadWordStep ==
    ASSUME NEW r \in Readers, NEW w \in Words PROVE IInv /\ ReadWord(r, w) => IInv'
<1> SUFFICES ASSUME IInv, ReadWord(r, w) PROVE IInv'  OBVIOUS
<1> DEFINE l == Data(w)
<1>0. TypeOK /\ MemoryOK(Loc, Thread) /\ Fenced /\ Shape /\ Carried
  BY DEF IInv, TypeOK
<1>1. PICK t \in Readable(r, l) :
         /\ Load(r, l, t, "Relaxed", "None")
         /\ got' = [got EXCEPT ![r][w] = mem[l][t].val]
  BY DEF ReadWord
<1>2. l \in Loc /\ l # SEQ /\ SEQ \in Loc /\ r \in Thread  BY LocFacts
<1>3. /\ MemoryOK(Loc, Thread)' /\ mem' = mem /\ rel' = rel
      /\ t \in 1 .. Newest(l) /\ t >= cur[r][l]
      /\ \A u \in Thread : u # r => cur'[u] = cur[u] /\ acq'[u] = acq[u]
      /\ \A k \in Loc : cur'[r][k] >= cur[r][k] /\ acq'[r][k] >= acq[r][k]
      /\ \A k \in Loc : acq'[r][k] >= mem[l][t].view[k]
      /\ \A k \in Loc : acq'[r][k] >= cur'[r][k]
  BY <1>0, <1>1, <1>2, LoadFacts DEF Fenced
<1>4. /\ rpc[r] = "words" /\ w \in rtodo[r] /\ rtodo' = [rtodo EXCEPT ![r] = @ \ {w}]
      /\ UNCHANGED <<writerVars, rpc, s1, t1, ret>>
  BY DEF ReadWord
<1>5. ReaderFrame(r)  BY <1>3, <1>4 DEF ReaderFrame
<1>6. t \in Nat \ {0}  BY <1>0, <1>2, <1>3, MessageFacts
<1>7. mem[l][t].val = t - 1 /\ mem[l][t].view[SEQ] >= 2 * (t - 1)
  BY <1>0, <1>3 DEF Shape, Carried
<1>8. /\ got' \in [Readers -> [Words -> Nat]] /\ rtodo' \in [Readers -> SUBSET Words]
      /\ got'[r][w] = t - 1 /\ \A v \in Words : v # w => got'[r][v] = got[r][v]
      /\ rtodo'[r] = rtodo[r] \ {w}
      /\ \A u \in Readers : u # r =>
            /\ rpc'[u] = rpc[u] /\ s1'[u] = s1[u] /\ t1'[u] = t1[u]
            /\ rtodo'[u] = rtodo[u] /\ got'[u] = got[u] /\ ret'[u] = ret[u]
  <2>1. got \in [Readers -> [Words -> Nat]] /\ rtodo \in [Readers -> SUBSET Words]
    BY <1>0 DEF TypeOK
  <2>2. got' = [got EXCEPT ![r] = [got[r] EXCEPT ![w] = t - 1]] /\ t - 1 \in Nat
    BY <1>1, <1>6, <1>7
  <2>3. /\ got' \in [Readers -> [Words -> Nat]]
        /\ got'[r] = [got[r] EXCEPT ![w] = t - 1]
        /\ \A u \in Readers : u # r => got'[u] = got[u]
    BY <2>1, <2>2
  <2>4. got'[r][w] = t - 1 /\ \A v \in Words : v # w => got'[r][v] = got[r][v]
    BY <2>1, <2>3
  <2>5. /\ rtodo' \in [Readers -> SUBSET Words]
        /\ rtodo'[r] = rtodo[r] \ {w}
        /\ \A u \in Readers : u # r => rtodo'[u] = rtodo[u]
    BY <2>1, <1>4
  <2>6. QED  BY <2>3, <2>4, <2>5, <1>4
<1>9. TypeOK'  BY <1>0, <1>3, <1>4, <1>8 DEF TypeOK, writerVars
<1>10. ReadingBy(r)'
  <2>0. ReadingBy(r) /\ t1'[r] = t1[r] /\ s1'[r] = s1[r] /\ t1[r] \in Nat
    BY <1>0, <1>4 DEF IInv, Reading, TypeOK
  <2>1. \A k \in Loc : /\ cur[r][k] \in Nat /\ acq[r][k] \in Nat
                       /\ cur'[r][k] \in Nat /\ acq'[r][k] \in Nat
                       /\ mem[l][t].view[k] \in Nat
    <3>1. mem[l][t].view \in Views(Loc)  BY <1>0, <1>2, <1>3, MessageFacts
    <3>2. /\ cur[r] \in Views(Loc) /\ acq[r] \in Views(Loc)
          /\ cur'[r] \in Views(Loc) /\ acq'[r] \in Views(Loc)
      BY <1>0, <1>2, <1>3 DEF MemoryOK
    <3>3. QED  BY <3>1, <3>2 DEF Views
  <2>2. cur'[r][SEQ] >= t1'[r]  BY <2>0, <2>1, <1>2, <1>3 DEF ReadingBy
  <2>3. \A v \in Words : 2 * cur'[r][Data(v)] >= t1'[r] + 1
    BY <2>0, <2>1, <1>3, LocFacts DEF ReadingBy
  <2>4. 2 * got'[r][w] >= t1'[r] - 1
    BY <2>0, <2>1, <1>2, <1>3, <1>6, <1>8 DEF ReadingBy
  <2>5. acq'[r][SEQ] >= 2 * got'[r][w]
    BY <2>1, <1>2, <1>3, <1>6, <1>7, <1>8
  <2>6. ASSUME NEW v \in Words \ rtodo'[r], v # w
        PROVE  2 * got'[r][v] >= t1'[r] - 1 /\ acq'[r][SEQ] >= 2 * got'[r][v]
    <3>1. v \in Words \ rtodo[r]  BY <2>6, <1>8
    <3>2. got[r][v] \in Nat  BY <3>1, <1>0 DEF TypeOK
    <3>3. QED  BY <3>1, <3>2, <2>0, <2>1, <2>6, <1>2, <1>3, <1>8 DEF ReadingBy
  <2>7. QED  BY <2>0, <2>2, <2>3, <2>4, <2>5, <2>6 DEF ReadingBy
<1>11. Reading'  BY <1>5, <1>8, <1>10, OtherReaders DEF Reading
<1>12. NoTornRead'  BY <1>4 DEF IInv, NoTornRead
<1>13. QED  BY <1>5, <1>9, <1>11, <1>12, WriterUndisturbed DEF IInv

(* The second load, after the acquire fence: equal numbers less than a     *)
(* turn of seq apart are the same message, so no word can be newer.        *)
LEMMA ReadS2Step ==
    ASSUME NEW r \in Readers, NEW t PROVE IInv /\ ReadS2At(r, t) => IInv'
<1> SUFFICES ASSUME IInv, ReadS2At(r, t) PROVE IInv'  OBVIOUS
<1>0. TypeOK /\ MemoryOK(Loc, Thread) /\ Fenced /\ Shape
  BY DEF IInv, TypeOK
<1>1. /\ rpc[r] = "words" /\ rtodo[r] = {} /\ Load(r, SEQ, t, "Relaxed", "Acquire")
      /\ got' = [got EXCEPT ![r] = Blank] /\ UNCHANGED <<writerVars, s1, t1, rtodo>>
  BY DEF ReadS2At, Seq2LoadFence
<1>2. /\ MemoryOK(Loc, Thread)' /\ mem' = mem /\ rel' = rel
      /\ t \in 1 .. Newest(SEQ) /\ t >= cur[r][SEQ] /\ t >= acq[r][SEQ]
      /\ \A u \in Thread : u # r => cur'[u] = cur[u] /\ acq'[u] = acq[u]
      /\ \A k \in Loc : acq'[r][k] >= cur'[r][k]
  BY <1>0, <1>1, LoadFacts, LocFacts DEF Fenced
<1>3. ReaderFrame(r)  BY <1>1, <1>2 DEF ReaderFrame
<1>4. t \in Nat \ {0} /\ t1[r] \in Nat \ {0} /\ got[r] \in [Words -> Nat]
  BY <1>0, <1>2, LocFacts, MessageFacts DEF TypeOK
<1>5. Blank \in [Words -> Nat]  BY DEF Blank
<1>6. /\ rpc' \in [Readers -> {"off", "idle", "s1", "words"}]
      /\ rpc'[r] # "words"
      /\ got' \in [Readers -> [Words -> Nat]]
      /\ \A u \in Readers : u # r =>
            /\ rpc'[u] = rpc[u] /\ s1'[u] = s1[u] /\ t1'[u] = t1[u]
            /\ rtodo'[u] = rtodo[u] /\ got'[u] = got[u] /\ ret'[u] = ret[u]
  BY <1>0, <1>1, <1>5 DEF ReadS2At, TypeOK
<1>7. ret' \in [Readers -> Snapshot]
  <2>1. [val |-> got[r], t1 |-> t1[r], t2 |-> t] \in Snapshot  BY <1>4 DEF Snapshot
  <2>2. QED  BY <2>1, <1>0 DEF ReadS2At, TypeOK
<1>8. TypeOK'  BY <1>0, <1>1, <1>2, <1>6, <1>7 DEF TypeOK, writerVars
<1>9. Reading'  BY <1>3, <1>6, OtherReaders DEF Reading
<1>10. ASSUME ret'[r].t2 - ret'[r].t1 < SEQ_MOD, NEW w \in Words
       PROVE  2 * ret'[r].val[w] = ret'[r].t1 - 1
  <2>1. CASE s1[r] # mem[SEQ][t].val
    BY <2>1, <1>10 DEF ReadS2At, IInv, NoTornRead
  <2>2. CASE s1[r] = mem[SEQ][t].val
    <3>1. ret'[r] = [val |-> got[r], t1 |-> t1[r], t2 |-> t]
      BY <2>2, <1>0 DEF ReadS2At, TypeOK
    <3>2. ret'[r].val = got[r] /\ ret'[r].t1 = t1[r] /\ ret'[r].t2 = t  BY <3>1
    <3>3. ReadingBy(r)  BY <1>1 DEF IInv, Reading
    <3>4. cur[r][SEQ] \in Nat /\ acq[r][SEQ] \in Nat
      BY <1>0, LocFacts DEF MemoryOK, Views
    <3>5. t1[r] <= t  BY <3>3, <3>4, <1>2, <1>4 DEF ReadingBy
    <3>6. (t1[r] - 1) % SEQ_MOD = (t - 1) % SEQ_MOD
      BY <2>2, <3>3, <1>0, <1>2 DEF ReadingBy, Shape
    <3>7. t1[r] - 1 = t - 1
      <4> DEFINE a == t1[r] - 1
                 b == t - 1
      <4>1. /\ a \in Int /\ b \in Int /\ a <= b /\ b - a < SEQ_MOD
            /\ SEQ_MOD \in Nat \ {0} /\ a % SEQ_MOD = b % SEQ_MOD
        BY <3>2, <3>5, <3>6, <1>4, <1>10, SeqLockAssumption
      <4> HIDE DEF a, b
      <4>2. a = b  BY <4>1, ModInjective
      <4>3. QED  BY <4>2 DEF a, b
    <3>8. t = t1[r]  BY <3>7, <1>4
    <3>9. /\ got[r][w] \in Nat /\ 2 * got[r][w] >= t1[r] - 1
          /\ acq[r][SEQ] >= 2 * got[r][w] /\ t1[r] % 2 = 1
      BY <3>3, <1>1, <1>4 DEF ReadingBy
    <3>10. 2 * got[r][w] <= t1[r]  BY <3>4, <3>8, <3>9, <1>2, <1>4
    <3>11. 2 * got[r][w] = t1[r] - 1  BY <3>9, <3>10, <1>4
    <3>12. QED  BY <3>2, <3>11
  <2>3. QED  BY <2>1, <2>2
<1>11. NoTornRead'  BY <1>3, <1>6, <1>10, OtherReaders DEF NoTornRead
<1>12. QED  BY <1>3, <1>8, <1>9, <1>11, WriterUndisturbed DEF IInv

(* Clone and Notify give a reader that is not reading a larger view. *)
LEMMA HandOverStep ==
    ASSUME NEW r \in Readers, NEW th \in Thread, IInv, HandOver(th, r),
           rpc[r] # "words", rpc'[r] # "words",
           rpc' \in [Readers -> {"off", "idle", "s1", "words"}],
           \A u \in Readers : u # r => rpc'[u] = rpc[u],
           UNCHANGED <<writerVars, s1, t1, rtodo, got, ret>>
    PROVE  IInv'
<1>0. TypeOK /\ MemoryOK(Loc, Thread) /\ Fenced  BY DEF IInv, TypeOK
<1>1. /\ MemoryOK(Loc, Thread)' /\ mem' = mem /\ rel' = rel
      /\ \A u \in Thread : u # r => cur'[u] = cur[u] /\ acq'[u] = acq[u]
      /\ \A k \in Loc : acq'[r][k] >= cur'[r][k]
  BY <1>0, HandOverFacts, LocFacts DEF Fenced
<1>2. ReaderFrame(r)  BY <1>1 DEF ReaderFrame
<1>3. TypeOK'  BY <1>0, <1>1 DEF TypeOK, writerVars
<1>4. Reading'  BY <1>2, OtherReaders DEF Reading
<1>5. NoTornRead'  BY DEF IInv, NoTornRead
<1>6. QED  BY <1>2, <1>3, <1>4, <1>5, WriterUndisturbed DEF IInv

LEMMA StutterStep == IInv /\ UNCHANGED vars => IInv'
<1> SUFFICES ASSUME IInv, UNCHANGED vars PROVE IInv'  OBVIOUS
<1> USE DEF vars, memVars, writerVars, readerVars
<1>1. TypeOK'  BY DEF IInv, TypeOK, MemoryOK
<1>2. Shape' /\ Progress' /\ Carried'  BY DEF IInv, Shape, Progress, Carried, Newest
<1>3. Fenced' /\ Reading' /\ NoTornRead'
  BY DEF IInv, Fenced, Reading, ReadingBy, NoTornRead
<1>4. QED  BY <1>1, <1>2, <1>3 DEF IInv

LEMMA NextIInv == IInv /\ [Next]_vars => IInv'
<1> SUFFICES ASSUME IInv, [Next]_vars PROVE IInv'  OBVIOUS
<1>0. rpc \in [Readers -> {"off", "idle", "s1", "words"}]  BY DEF IInv, TypeOK
<1>1. CASE WriterStep
  BY <1>1, WriteLoadStep, WriteOddStep, WriteWordStep, WriteEvenStep DEF WriterStep
<1>2. ASSUME NEW r \in Readers, ReaderStep(r) PROVE IInv'
  BY <1>2, ReadBeginStep, ReadS1Step, ReadWordStep, ReadS2Step
     DEF ReaderStep, ReadS1, ReadS2
<1>3. ASSUME NEW r \in Readers, Notify(r) PROVE IInv'
  <2>1. /\ rpc[r] = "idle" /\ rpc' = rpc /\ HandOver("W", r)
        /\ UNCHANGED <<writerVars, s1, t1, rtodo, got, ret>>
    BY <1>3 DEF Notify, readerVars
  <2>2. QED  BY <2>1, <1>0, HandOverStep, LocFacts
<1>4. ASSUME NEW r \in Readers, NEW new \in Readers, Clone(r, new) PROVE IInv'
  <2>1. /\ rpc[new] = "off" /\ rpc' = [rpc EXCEPT ![new] = "idle"] /\ HandOver(r, new)
        /\ UNCHANGED <<writerVars, s1, t1, rtodo, got, ret>>
    BY <1>4 DEF Clone
  <2>2. /\ rpc'[new] = "idle" /\ \A u \in Readers : u # new => rpc'[u] = rpc[u]
        /\ rpc' \in [Readers -> {"off", "idle", "s1", "words"}]
    BY <2>1, <1>0
  <2>3. QED  BY <2>1, <2>2, HandOverStep, LocFacts
<1>5. CASE UNCHANGED vars  BY <1>5, StutterStep
<1>6. QED  BY <1>1, <1>2, <1>3, <1>4, <1>5 DEF Next

-----------------------------------------------------------------------------
(* The memory and the locals of write() and read() always have their type. *)
THEOREM TypeCorrect == Spec => []TypeOK
<1>1. IInv => TypeOK  BY DEF IInv
<1>2. QED  BY <1>1, InitIInv, NextIInv, PTL DEF Spec

(* Reader::read never returns a torn or a stale value: whatever the number *)
(* of readers, of words and of writes, each value returned is the one that *)
(* the write with the sequence number loaded first has stored.             *)
THEOREM ReadsAreConsistent == Spec => []NoTornRead
<1>1. IInv => NoTornRead  BY DEF IInv
<1>2. QED  BY <1>1, InitIInv, NextIInv, PTL DEF Spec

-----------------------------------------------------------------------------
(* The lock implements the cell of SnapshotCell.                           *)

(* Nobody has observed a message of seq that is not there. *)
Coherent ==
    /\ wcount <= MAX_WRITES /\ rel["W"][SEQ] <= Newest(SEQ)
    /\ \A r \in Readers : cur[r][SEQ] <= Newest(SEQ)
    /\ \A k \in 1 .. Newest(SEQ) : mem[SEQ][k].view[SEQ] <= Newest(SEQ)

(* A step of reader r, seen from the cell: r observes seq up to here. *)
Observes(r) ==
    /\ mem' = mem /\ rel' = rel /\ wcount' = wcount
    /\ \A u \in Readers : u # r => cur'[u] = cur[u]
    /\ cur'[r][SEQ] >= cur[r][SEQ] /\ cur'[r][SEQ] <= Newest(SEQ)

(* Types, in the form the steps need. *)
LEMMA CellBasics ==
    ASSUME IInv
    PROVE  /\ MemoryOK(Loc, Thread) /\ Newest(SEQ) \in Nat \ {0} /\ wcount \in Nat
           /\ cur["W"][SEQ] = Newest(SEQ) /\ Newest(SEQ) <= 2 * wcount + 1
           /\ rel["W"][SEQ] \in Nat /\ \A r \in Readers : cur[r][SEQ] \in Nat \ {0}
           /\ \A th \in Thread, l \in Loc : acq[th][l] >= cur[th][l]
<1>1. MemoryOK(Loc, Thread) /\ wcount \in Nat  BY DEF IInv, TypeOK
<1>2. Newest(SEQ) \in Nat \ {0}  BY <1>1, LocFacts, MessageFacts DEF IInv, Shape
<1>3. /\ rel["W"][SEQ] \in Nat /\ \A r \in Readers : cur[r][SEQ] \in Nat \ {0}
  BY <1>1, LocFacts DEF MemoryOK, Views
<1>4. cur["W"][SEQ] = Newest(SEQ)  BY LocFacts DEF IInv, Progress
<1>5. wpc \in {"idle", "odd", "words"}  BY DEF IInv, TypeOK
<1>6. Newest(SEQ) <= 2 * wcount + 1  BY <1>1, <1>5 DEF IInv, Progress
<1>7. QED  BY <1>1, <1>2, <1>3, <1>4, <1>6 DEF IInv, Fenced

(* What the steps of a reader observe. *)
LEMMA ObservesStep ==
    ASSUME IInv, Coherent, NEW r \in Readers,
           \/ ReaderStep(r) \/ Notify(r) \/ \E old \in Readers : Clone(old, r)
    PROVE  Observes(r)
<1>1. /\ MemoryOK(Loc, Thread) /\ Newest(SEQ) \in Nat \ {0}
      /\ \A u \in Readers : cur[u][SEQ] \in Nat \ {0}
      /\ \A l \in Loc : acq[r][l] >= cur[r][l]
  BY CellBasics, LocFacts
<1>2. r \in Thread /\ Readers \subseteq Thread /\ SEQ \in Loc  BY LocFacts
<1>3. cur[r][SEQ] <= Newest(SEQ)  BY DEF Coherent
<1>4. ASSUME NEW l \in Loc, NEW t, NEW ordering, NEW fence, Load(r, l, t, ordering, fence)
      PROVE  /\ mem' = mem /\ rel' = rel /\ t \in 1 .. Newest(l)
             /\ \A u \in Readers : u # r => cur'[u] = cur[u]
             /\ cur'[r][SEQ] >= cur[r][SEQ]
             /\ fence = "Acquire" => t >= acq[r][l]
  BY <1>1, <1>2, <1>4, LoadFacts
<1>5. CASE ReadBegin(r)
  BY <1>1, <1>3, <1>5 DEF ReadBegin, memVars, writerVars, Observes
<1>6. ASSUME NEW t, ReadS1At(r, t) PROVE Observes(r)
  <2>1. Load(r, SEQ, t, "Acquire", "None") /\ wcount' = wcount
    BY <1>6 DEF ReadS1At, Seq1LoadOrdering, writerVars
  <2>2. t \in 1 .. Newest(SEQ)  BY <1>2, <1>4, <2>1
  <2>3. mem[SEQ][t].view[SEQ] <= Newest(SEQ) /\ t <= Newest(SEQ)
    BY <1>1, <2>2 DEF Coherent
  <2>4. cur'[r][SEQ] <= Newest(SEQ)  BY <1>1, <1>2, <1>3, <2>1, <2>2, <2>3, LoadBound
  <2>5. QED  BY <1>2, <1>4, <2>1, <2>4 DEF Observes
<1>7. ASSUME NEW w \in Words, ReadWord(r, w) PROVE Observes(r)
  <2>1. PICK t : Load(r, Data(w), t, "Relaxed", "None")  BY <1>7 DEF ReadWord
  <2>2. Data(w) \in Loc /\ Data(w) # SEQ /\ wcount' = wcount
    BY <1>7, LocFacts DEF ReadWord, writerVars
  <2>3. t \in 1 .. Newest(Data(w))  BY <1>4, <2>1, <2>2
  <2>4. cur'[r][SEQ] <= Newest(SEQ)  BY <1>1, <1>2, <1>3, <2>1, <2>2, <2>3, LoadBound
  <2>5. QED  BY <1>4, <2>1, <2>2, <2>4 DEF Observes
<1>8. ASSUME NEW t, ReadS2At(r, t) PROVE Observes(r)
  <2>1. Load(r, SEQ, t, "Relaxed", "Acquire") /\ wcount' = wcount
    BY <1>8 DEF ReadS2At, Seq2LoadFence, writerVars
  <2>2. t \in 1 .. Newest(SEQ) /\ t >= acq[r][SEQ]  BY <1>2, <1>4, <2>1
  <2>3. acq[r][SEQ] \in Nat  BY <1>1, <1>2 DEF MemoryOK, Views
  <2>4. acq[r][SEQ] <= Newest(SEQ) /\ t <= Newest(SEQ)  BY <1>1, <2>2, <2>3
  <2>5. cur'[r][SEQ] <= Newest(SEQ)  BY <1>1, <1>2, <2>1, <2>2, <2>4, LoadBound
  <2>6. QED  BY <1>2, <1>4, <2>1, <2>5 DEF Observes
<1>9. ASSUME NEW th \in Thread, HandOver(th, r), wcount' = wcount, cur[th][SEQ] <= Newest(SEQ)
      PROVE  Observes(r)
  <2>1. /\ mem' = mem /\ rel' = rel /\ cur'[r][SEQ] >= cur[r][SEQ]
        /\ \A u \in Readers : u # r => cur'[u] = cur[u]
    BY <1>1, <1>2, <1>9, HandOverFacts
  <2>2. cur'[r][SEQ] <= Newest(SEQ)  BY <1>1, <1>2, <1>3, <1>9, HandOverBound
  <2>3. QED  BY <1>9, <2>1, <2>2 DEF Observes
<1>10. CASE Notify(r)
  <2>1. "W" \in Thread /\ cur["W"][SEQ] <= Newest(SEQ)  BY <1>1, CellBasics, LocFacts
  <2>2. QED  BY <1>9, <1>10, <2>1 DEF Notify, writerVars
<1>11. ASSUME NEW old \in Readers, Clone(old, r) PROVE Observes(r)
  <2>1. old \in Thread /\ cur[old][SEQ] <= Newest(SEQ)  BY <1>2 DEF Coherent
  <2>2. QED  BY <1>9, <1>11, <2>1 DEF Clone, writerVars
<1>12. QED
  BY <1>5, <1>6, <1>7, <1>8, <1>10, <1>11 DEF ReaderStep, ReadS1, ReadS2

(* What the steps of the writer do to seq. *)
StoresSeq ==
    /\ Newest(SEQ)' = Newest(SEQ) + 1
    /\ \A k \in 1 .. Newest(SEQ) : mem'[SEQ][k] = mem[SEQ][k]
    /\ mem'[SEQ][Newest(SEQ) + 1].view[SEQ] = Newest(SEQ) + 1
LEMMA WriterStepSeq ==
    ASSUME IInv, Coherent, WriterStep
    PROVE  /\ UNCHANGED readerVars /\ \A r \in Readers : cur'[r] = cur[r]
           /\ rel'["W"] = rel["W"] \/ rel'["W"][SEQ] = Newest(SEQ)'
           /\ wcount' <= MAX_WRITES
           /\ \/ WriteOdd /\ StoresSeq
              \/ WriteEven /\ StoresSeq
              \/ mem'[SEQ] = mem[SEQ]
<1>1. /\ MemoryOK(Loc, Thread) /\ Newest(SEQ) \in Nat \ {0} /\ wcount \in Nat
      /\ cur["W"][SEQ] = Newest(SEQ) /\ \A l \in Loc : acq["W"][l] >= cur["W"][l]
      /\ MAX_WRITES \in Nat
  BY CellBasics, LocFacts, SeqLockAssumption
<1>2. SEQ \in Loc /\ "W" \in Thread /\ Readers \subseteq Thread /\ "W" \notin Readers
  BY LocFacts
<1>3. wcount <= MAX_WRITES /\ rel["W"][SEQ] <= Newest(SEQ)  BY DEF Coherent
<1>4. ASSUME NEW val \in Nat, NEW ordering, NEW fence, Store("W", SEQ, val, ordering, fence)
      PROVE  /\ StoresSeq /\ \A r \in Readers : cur'[r] = cur[r]
             /\ rel'["W"] = rel["W"] \/ rel'["W"][SEQ] = Newest(SEQ)'
  <2>1. /\ Newest(SEQ)' = Newest(SEQ) + 1
        /\ \A k \in 1 .. Newest(SEQ) : mem'[SEQ][k] = mem[SEQ][k]
        /\ \A u \in Thread : u # "W" => cur'[u] = cur[u]
        /\ cur["W"][SEQ] <= Newest(SEQ) + 1 => cur'["W"][SEQ] = Newest(SEQ) + 1
        /\ rel'["W"] = IF fence = "Release" THEN cur'["W"] ELSE rel["W"]
    BY <1>1, <1>2, <1>4, StoreFacts
  <2>2. mem'[SEQ][Newest(SEQ) + 1].view[SEQ] = Newest(SEQ) + 1
    <3>1. cur["W"][SEQ] <= Newest(SEQ)  BY <1>1
    <3>2. QED  BY <1>1, <1>2, <1>3, <1>4, <3>1, StoreBound
  <2>3. cur'["W"][SEQ] = Newest(SEQ)'  BY <1>1, <2>1
  <2>4. QED  BY <1>2, <2>1, <2>2, <2>3 DEF StoresSeq
<1>5. CASE WriteLoad
  <2>1. PICK t : Load("W", SEQ, t, "Relaxed", "None")  BY <1>5 DEF WriteLoad
  <2>2. mem' = mem /\ rel' = rel /\ \A u \in Thread : u # "W" => cur'[u] = cur[u]
    BY <1>1, <1>2, <2>1, LoadFacts
  <2>3. wcount' <= MAX_WRITES /\ UNCHANGED readerVars  BY <1>1, <1>5 DEF WriteLoad
  <2>4. QED  BY <1>2, <2>2, <2>3
<1>6. wpc # "idle" => OddSeq \in Nat /\ EvenSeq \in Nat
  <2>1. wpc \in {"idle", "odd", "words"}  BY DEF IInv, TypeOK
  <2>2. QED  BY <1>1, <2>1, SeqStores DEF IInv, Progress
<1>7. CASE WriteOdd
  <2>1. Store("W", SEQ, OddSeq, "Relaxed", "Release") /\ OddSeq \in Nat
        /\ wcount' = wcount /\ UNCHANGED readerVars
    BY <1>6, <1>7 DEF WriteOdd, OddStoreFence
  <2>2. QED  BY <1>3, <1>4, <1>7, <2>1
<1>8. CASE WriteEven
  <2>1. Store("W", SEQ, EvenSeq, "Release", "None") /\ EvenSeq \in Nat
        /\ wcount' = wcount /\ UNCHANGED readerVars
    BY <1>6, <1>8 DEF WriteEven, EvenStoreOrdering
  <2>2. QED  BY <1>3, <1>4, <1>8, <2>1
<1>9. ASSUME NEW w \in Words, WriteWord(w)
      PROVE  /\ UNCHANGED readerVars /\ \A r \in Readers : cur'[r] = cur[r]
             /\ rel'["W"] = rel["W"] /\ wcount' <= MAX_WRITES /\ mem'[SEQ] = mem[SEQ]
  <2>1. /\ Store("W", Data(w), wcount, "Relaxed", "None") /\ wcount' = wcount
        /\ UNCHANGED readerVars /\ Data(w) \in Loc /\ Data(w) # SEQ
    BY <1>9, LocFacts DEF WriteWord
  <2>2. /\ \A k \in Loc : k # Data(w) => mem'[k] = mem[k]
        /\ \A u \in Thread : u # "W" => cur'[u] = cur[u]
        /\ rel'["W"] = rel["W"]
    BY <1>1, <1>2, <2>1, StoreFacts
  <2>3. QED  BY <1>2, <1>3, <2>1, <2>2
<1>10. QED  BY <1>5, <1>7, <1>8, <1>9 DEF WriterStep

(* A step of the lock is one of the writer's, of one reader's, or none. *)
LEMMA StepKinds ==
    ASSUME IInv, Coherent, [Next]_vars
    PROVE  WriterStep \/ (\E r \in Readers : Observes(r)) \/ UNCHANGED vars
BY ObservesStep DEF Next

(* Coherence is kept. *)
LEMMA CoherentStep == ASSUME IInv, Coherent, [Next]_vars PROVE Coherent'
<1>1. /\ Newest(SEQ) \in Nat \ {0} /\ rel["W"][SEQ] \in Nat
      /\ MemoryOK(Loc, Thread) /\ \A r \in Readers : cur[r][SEQ] \in Nat \ {0}
  BY CellBasics
<1>2. CASE WriterStep
  <2>1. /\ \A r \in Readers : cur'[r] = cur[r]
        /\ rel'["W"] = rel["W"] \/ rel'["W"][SEQ] = Newest(SEQ)'
        /\ wcount' <= MAX_WRITES
        /\ StoresSeq \/ mem'[SEQ] = mem[SEQ]
    BY <1>2, WriterStepSeq
  <2>2. Newest(SEQ)' = Newest(SEQ) \/ Newest(SEQ)' = Newest(SEQ) + 1
    BY <2>1 DEF StoresSeq, Newest
  <2>3. rel'["W"][SEQ] <= Newest(SEQ)'  BY <1>1, <2>1, <2>2 DEF Coherent
  <2>4. \A r \in Readers : cur'[r][SEQ] <= Newest(SEQ)'  BY <1>1, <2>1, <2>2 DEF Coherent
  <2>5. CASE mem'[SEQ] = mem[SEQ]
    <3>1. Newest(SEQ)' = Newest(SEQ)  BY <2>5 DEF Newest
    <3>2. QED  BY <2>1, <2>3, <2>4, <2>5, <3>1 DEF Coherent
  <2>6. CASE StoresSeq
    <3>1. ASSUME NEW k \in 1 .. Newest(SEQ)' PROVE mem'[SEQ][k].view[SEQ] <= Newest(SEQ)'
      <4>1. CASE k = Newest(SEQ) + 1  BY <1>1, <2>6, <4>1 DEF StoresSeq
      <4>2. CASE k # Newest(SEQ) + 1
        <5>1. k \in 1 .. Newest(SEQ)  BY <1>1, <2>6, <4>2 DEF StoresSeq
        <5>2. mem[SEQ][k].view[SEQ] \in Nat  BY <1>1, <5>1, LocFacts, MessageFacts DEF Views
        <5>3. mem[SEQ][k].view[SEQ] <= Newest(SEQ)  BY <5>1 DEF Coherent
        <5>4. QED  BY <1>1, <2>6, <5>1, <5>2, <5>3 DEF StoresSeq
      <4>3. QED  BY <4>1, <4>2
    <3>2. QED  BY <2>1, <2>3, <2>4, <3>1 DEF Coherent
  <2>7. QED  BY <2>1, <2>5, <2>6
<1>3. ASSUME NEW r \in Readers, Observes(r) PROVE Coherent'
  <2>1. Newest(SEQ)' = Newest(SEQ)  BY <1>3 DEF Observes, Newest
  <2>2. QED  BY <1>3, <2>1 DEF Observes, Coherent
<1>4. CASE UNCHANGED vars
  BY <1>4 DEF vars, memVars, writerVars, Coherent, Newest
<1>5. QED  BY <1>2, <1>3, <1>4, StepKinds

(* The variables of the cell. *)
Version == (Newest(SEQ) - 1) \div 2
Floor == [r \in Readers |-> (cur[r][SEQ] - 1) \div 2]
LastOf(r) == IF \A w \in Words : ret[r].val[w] = ret[r].val[1] THEN ret[r].val[1] ELSE -1
Last == [r \in Readers |-> LastOf(r)]

(* Halves are in the order of the wholes. *)
LEMMA HalfOrder ==
    ASSUME NEW a \in Nat, NEW b \in Nat, a <= b
    PROVE  a \div 2 \in Nat /\ b \div 2 \in Nat /\ a \div 2 <= b \div 2
OBVIOUS

(* A step of reader r moves its floor, forward and not past the version. *)
LEMMA FloorStep ==
    ASSUME IInv, Coherent, NEW r \in Readers, Observes(r), cur'[r][SEQ] \in Nat \ {0}
    PROVE  /\ Version' = Version /\ Floor'[r] = (cur'[r][SEQ] - 1) \div 2
           /\ \E v \in Floor[r] .. Version : Floor' = [Floor EXCEPT ![r] = v]
<1>1. Newest(SEQ) \in Nat \ {0} /\ cur[r][SEQ] \in Nat \ {0}  BY CellBasics
<1>2. /\ Newest(SEQ)' = Newest(SEQ) /\ \A u \in Readers : u # r => cur'[u] = cur[u]
      /\ cur'[r][SEQ] >= cur[r][SEQ] /\ cur'[r][SEQ] <= Newest(SEQ)
  BY DEF Observes, Newest
<1>3. PICK v : v = (cur'[r][SEQ] - 1) \div 2  OBVIOUS
<1>4. v \in Floor[r] .. Version
  <2>1. /\ cur[r][SEQ] - 1 \in Nat /\ cur'[r][SEQ] - 1 \in Nat /\ Newest(SEQ) - 1 \in Nat
        /\ cur[r][SEQ] - 1 <= cur'[r][SEQ] - 1 /\ cur'[r][SEQ] - 1 <= Newest(SEQ) - 1
    BY <1>1, <1>2
  <2>2. /\ (cur[r][SEQ] - 1) \div 2 \in Nat /\ v \in Nat /\ (Newest(SEQ) - 1) \div 2 \in Nat
        /\ (cur[r][SEQ] - 1) \div 2 <= v /\ v <= (Newest(SEQ) - 1) \div 2
    BY <1>3, <2>1, HalfOrder
  <2>3. QED  BY <2>2 DEF Floor, Version
<1>5. Floor' = [Floor EXCEPT ![r] = v]
  <2>1. Floor' = [u \in Readers |-> IF u = r THEN v ELSE (cur[u][SEQ] - 1) \div 2]
    BY <1>2, <1>3 DEF Floor
  <2>2. QED  BY <2>1 DEF Floor
<1>6. Version' = Version  BY <1>2 DEF Version
<1>7. QED  BY <1>3, <1>4, <1>5, <1>6 DEF Floor

(* A read returns the newest write that the reader has observed: the       *)
(* second load of seq is of the message of the first.                      *)
LEMMA ReturnsFloor ==
    ASSUME IInv, IInv', Coherent, 2 * MAX_WRITES < SEQ_MOD,
           NEW r \in Readers, NEW t, ReadS2At(r, t), s1[r] = mem[SEQ][t].val
    PROVE  LastOf(r)' = (cur'[r][SEQ] - 1) \div 2
<1>1. /\ MemoryOK(Loc, Thread) /\ Newest(SEQ) \in Nat \ {0} /\ wcount \in Nat
      /\ Newest(SEQ) <= 2 * wcount + 1 /\ \A l \in Loc : acq[r][l] >= cur[r][l]
      /\ cur[r][SEQ] \in Nat /\ r \in Thread /\ SEQ \in Loc
  BY CellBasics, LocFacts
<1>2. /\ rpc[r] = "words" /\ rtodo[r] = {} /\ Load(r, SEQ, t, "Relaxed", "Acquire")
      /\ ret' = [ret EXCEPT ![r] = [val |-> got[r], t1 |-> t1[r], t2 |-> t]]
  BY DEF ReadS2At, Seq2LoadFence
<1>3. /\ t \in 1 .. Newest(SEQ) /\ t >= cur[r][SEQ] /\ t >= acq[r][SEQ]
      /\ cur'[r][SEQ] >= t /\ MemoryOK(Loc, Thread)'
  BY <1>1, <1>2, LoadFacts
<1>4. acq[r][SEQ] \in Nat /\ cur'[r][SEQ] \in Nat /\ t \in Nat \ {0}
  BY <1>1, <1>3 DEF MemoryOK, Views
<1>5. cur'[r][SEQ] = t
  <2>1. acq[r][SEQ] <= t /\ t <= t  BY <1>3, <1>4
  <2>2. cur'[r][SEQ] <= t  BY <1>1, <1>2, <1>3, <1>4, <2>1, LoadBound
  <2>3. QED  BY <1>3, <1>4, <2>2
<1>6. ReadingBy(r) /\ t1[r] \in Nat \ {0}  BY <1>2 DEF IInv, Reading, TypeOK
<1>7. t1[r] <= t  BY <1>1, <1>3, <1>4, <1>6 DEF ReadingBy
<1>8. t - t1[r] < SEQ_MOD
  BY <1>1, <1>3, <1>4, <1>6, SeqLockAssumption DEF Coherent
<1>9. t = t1[r]
  <2> DEFINE a == t1[r] - 1
             b == t - 1
  <2>1. a % SEQ_MOD = b % SEQ_MOD  BY <1>3, <1>6 DEF ReadingBy, IInv, Shape
  <2>2. a \in Int /\ b \in Int /\ a <= b /\ b - a < SEQ_MOD  BY <1>4, <1>6, <1>7, <1>8
  <2> HIDE DEF a, b
  <2>3. a = b  BY <2>1, <2>2, SeqLockAssumption, ModInjective
  <2>4. QED  BY <1>4, <1>6, <2>3 DEF a, b
<1>10. ret'[r].val = got[r] /\ ret'[r].t1 = t1[r] /\ ret'[r].t2 = t
  BY <1>2 DEF IInv, TypeOK
<1>11. \A w \in Words : 2 * ret'[r].val[w] = t - 1
  BY <1>8, <1>9, <1>10 DEF IInv, NoTornRead
<1>12. \A w \in Words : ret'[r].val[w] = (t - 1) \div 2
  <2>1. \A w \in Words : ret'[r].val[w] \in Nat  BY <1>10 DEF IInv, TypeOK
  <2>2. QED  BY <1>4, <1>11, <2>1
<1>13. 1 \in Words  BY SeqLockAssumption DEF Words
<1>14. QED  BY <1>5, <1>12, <1>13 DEF LastOf

(* Every step is a step of the cell or is invisible to it. *)
LEMMA CellNext ==
    ASSUME IInv, Coherent, 2 * MAX_WRITES < SEQ_MOD, [Next]_vars
    PROVE  [Cell!Next]_(Cell!cellVars)
<1>1. IInv'  BY NextIInv
<1>2. Newest(SEQ) \in Nat \ {0} /\ wcount \in Nat  BY CellBasics
<1>3. ASSUME ret' = ret PROVE Last' = Last  BY <1>3 DEF Last, LastOf
<1>4. ASSUME Version' = Version, Floor' = Floor, Last' = Last PROVE UNCHANGED Cell!cellVars
  BY <1>4 DEF Cell!cellVars, Version, Floor, Last, LastOf
<1>5. CASE WriterStep
  <2>1. /\ UNCHANGED readerVars /\ \A r \in Readers : cur'[r] = cur[r]
        /\ \/ WriteOdd /\ StoresSeq
           \/ WriteEven /\ StoresSeq
           \/ mem'[SEQ] = mem[SEQ]
    BY <1>5, WriterStepSeq
  <2>2. Floor' = Floor /\ Last' = Last  BY <1>3, <2>1 DEF Floor, readerVars
  <2>3. CASE mem'[SEQ] = mem[SEQ]
    <3>1. Version' = Version  BY <2>3 DEF Version, Newest
    <3>2. QED  BY <1>4, <2>2, <3>1
  <2>4. CASE WriteOdd /\ StoresSeq
    <3>1. Newest(SEQ) = 2 * wcount - 1 /\ Newest(SEQ)' = 2 * wcount
      BY <1>2, <2>4 DEF WriteOdd, StoresSeq, IInv, Progress
    <3>2. (2 * wcount - 1 - 1) \div 2 = (2 * wcount - 1) \div 2  BY <1>2
    <3>3. Version' = Version  BY <3>1, <3>2 DEF Version
    <3>4. QED  BY <1>4, <2>2, <3>3
  <2>5. CASE WriteEven /\ StoresSeq
    <3>1. Newest(SEQ) = 2 * wcount /\ Newest(SEQ)' = 2 * wcount + 1
      BY <1>2, <2>5 DEF WriteEven, StoresSeq, IInv, Progress
    <3>2. (2 * wcount - 1) \div 2 = wcount - 1 /\ (2 * wcount) \div 2 = wcount  BY <1>2
    <3>3. Version' = Version + 1
      <4>1. Version = wcount - 1  BY <3>1, <3>2 DEF Version
      <4>2. Newest(SEQ)' - 1 = 2 * wcount  BY <1>2, <3>1
      <4>3. Version' = wcount  BY <3>2, <4>2 DEF Version
      <4>4. QED  BY <1>2, <4>1, <4>3
    <3>4. Cell!Write  BY <2>2, <3>3 DEF Cell!Write, Version, Floor, Last, LastOf
    <3>5. QED  BY <3>4 DEF Cell!Next
  <2>6. QED  BY <2>1, <2>3, <2>4, <2>5
<1>6. ASSUME NEW r \in Readers, Observes(r)
      PROVE  /\ Version' = Version /\ Floor'[r] = (cur'[r][SEQ] - 1) \div 2
             /\ \E v \in Floor[r] .. Version : Floor' = [Floor EXCEPT ![r] = v]
  <2>1. MemoryOK(Loc, Thread)'  BY <1>1 DEF IInv, TypeOK
  <2>2. cur'[r][SEQ] \in Nat \ {0}  BY <2>1, LocFacts DEF MemoryOK, Views
  <2>3. QED  BY <1>6, <2>2, FloorStep
<1>7. ASSUME NEW r \in Readers, Observes(r), ret' = ret PROVE Cell!Next
  <2>1. Last' = Last  BY <1>3, <1>7
  <2>2. Cell!Observe(r)  BY <1>6, <1>7, <2>1 DEF Cell!Observe, Version, Floor, Last, LastOf
  <2>3. QED  BY <2>2 DEF Cell!Next
<1>8. ASSUME NEW r \in Readers, NEW t, ReadS2At(r, t), s1[r] = mem[SEQ][t].val, Observes(r)
      PROVE  Cell!Next
  <2>1. ret' = [ret EXCEPT ![r] = [val |-> got[r], t1 |-> t1[r], t2 |-> t]]
    BY <1>8 DEF ReadS2At
  <2>2. \A u \in Readers : u # r => ret'[u] = ret[u]  BY <2>1 DEF IInv, TypeOK
  <2>3. LastOf(r)' = Floor'[r]  BY <1>1, <1>6, <1>8, ReturnsFloor
  <2>4. \A u \in Readers : u # r => LastOf(u)' = LastOf(u)  BY <2>2 DEF LastOf
  <2>5. Last' = [u \in Readers |-> IF u = r THEN Floor'[r] ELSE LastOf(u)]
    BY <2>3, <2>4 DEF Last
  <2>6. Last' = [Last EXCEPT ![r] = Floor'[r]]  BY <2>5 DEF Last
  <2>7. Cell!Return(r)  BY <1>6, <1>8, <2>6 DEF Cell!Return, Version, Floor, Last, LastOf
  <2>8. QED  BY <2>7 DEF Cell!Next
<1>9. ASSUME NEW r \in Readers, ReaderStep(r) \/ Notify(r) PROVE Cell!Next
  <2>1. Observes(r)  BY <1>9, ObservesStep
  <2>2. CASE ret' = ret  BY <1>7, <2>1, <2>2
  <2>3. CASE ret' # ret
    <3>1. PICK t : ReadS2At(r, t) /\ s1[r] = mem[SEQ][t].val
      BY <1>9, <2>3 DEF ReaderStep, ReadBegin, ReadS1, ReadS1At, ReadWord, ReadS2, ReadS2At,
                        Notify, readerVars
    <3>2. QED  BY <1>8, <2>1, <3>1
  <2>4. QED  BY <2>2, <2>3
<1>10. ASSUME NEW r \in Readers, NEW new \in Readers, Clone(r, new) PROVE Cell!Next
  <2>1. Observes(new)  BY <1>10, ObservesStep
  <2>2. ret' = ret  BY <1>10 DEF Clone
  <2>3. QED  BY <1>7, <2>1, <2>2
<1>11. CASE UNCHANGED vars
  <2>1. Version' = Version /\ Floor' = Floor /\ ret' = ret
    BY <1>11 DEF vars, memVars, readerVars, Version, Floor, Newest
  <2>2. QED  BY <1>3, <1>4, <2>1
<1>12. QED  BY <1>5, <1>9, <1>10, <1>11 DEF Next

(* The new lock is a cell that has not been written. *)
LEMMA CellInit == ASSUME Init PROVE Cell!Init /\ Coherent
<1>1. IInv  BY InitIInv
<1>2. wpc = "idle" /\ wcount = 0  BY DEF Init
<1>3. Newest(SEQ) = 1  BY <1>1, <1>2 DEF IInv, Progress
<1>4. /\ \A th \in Thread : cur[th][SEQ] = 1 /\ rel[th][SEQ] = 1
      /\ mem[SEQ][1].view[SEQ] = 1
  BY LocFacts DEF Init, InitMemory, FirstView
<1>5. \A r \in Readers : \A w \in Words : ret[r].val[w] = 0  BY DEF Init, Blank
<1>6. 1 \in Words  BY SeqLockAssumption DEF Words
<1>7. Last = [r \in Readers |-> 0]  BY <1>5, <1>6 DEF Last, LastOf
<1>8. Floor = [r \in Readers |-> 0]  BY <1>4, LocFacts DEF Floor
<1>9. Version = 0  BY <1>3 DEF Version
<1>10. Cell!Init  BY <1>7, <1>8, <1>9 DEF Cell!Init, Version, Floor, Last, LastOf
<1>11. Coherent  BY <1>2, <1>3, <1>4, LocFacts, SeqLockAssumption DEF Coherent
<1>12. QED  BY <1>10, <1>11

(* write(), read() and Clone implement an atomic cell: a read returns the  *)
(* value of one completed write, the newest that its reader has observed,  *)
(* as long as seq does not go round.                                       *)
THEOREM SeqLockImplementsCell ==
    ASSUME 2 * MAX_WRITES < SEQ_MOD
    PROVE  Spec => ImplementsCell
<1>1. Init => IInv /\ Coherent /\ Cell!Init  BY InitIInv, CellInit
<1>2. IInv /\ Coherent /\ [Next]_vars => IInv' /\ Coherent'  BY NextIInv, CoherentStep
<1>3. IInv /\ Coherent /\ [Next]_vars => [Cell!Next]_(Cell!cellVars)  BY CellNext
<1>4. QED  BY <1>1, <1>2, <1>3, PTL DEF Spec, ImplementsCell, Cell!Spec
-----------------------------------------------------------------------------
(* The lock inside the benchmark.                                          *)

(* The reader's calls come in the order of the writes: a call starts from  *)
(* what the reader has observed, which is no older than what it returned.  *)
InOrder ==
    /\ cur[R][SEQ] >= ret[R].t1 /\ Newest(SEQ) >= ret[R].t1
    /\ rpc[R] = "words" => t1[R] >= ret[R].t1 /\ Newest(SEQ) >= t1[R]

(* The sampled time stamps, unless a read saw a whole cycle of seq: one    *)
(* write's, no newer than the last value read and no fewer than counted.   *)
Sampled ==
    /\ last_ts \in [Words -> Nat] /\ seen \in Nat
    /\ offered = IF seen > WARMUP THEN seen - WARMUP ELSE 0
    /\ ~lapped =>
          /\ ret[R].t2 - ret[R].t1 < SEQ_MOD
          /\ \A v, w \in Words : last_ts[v] = last_ts[w]
          /\ \A w \in Words : seen <= last_ts[w] /\ 2 * last_ts[w] + 1 <= ret[R].t1

BenchInv == IInv /\ InOrder /\ Sampled

(* The flag is a location of its own. *)
LEMMA FlagLoc ==
    ASSUME BenchConstants
    PROVE  /\ R \in Readers /\ R \in Thread /\ R # "W"
           /\ DONE \in Loc /\ DONE # SEQ /\ \A w \in Words : DONE # Data(w)
BY SeqLockAssumption DEF BenchConstants, R, DONE, Client, Loc, SEQ, Data, Words, Thread

(* Storing the flag keeps the lock's invariant. *)
LEMMA StoreFlag ==
    ASSUME BenchConstants, IInv, StoreDone
    PROVE  /\ IInv' /\ mem'[SEQ] = mem[SEQ] /\ cur'[R] = cur[R]
           /\ UNCHANGED readerVars /\ wcount' = wcount
<1>0. TypeOK /\ MemoryOK(Loc, Thread) /\ Fenced /\ Shape /\ Progress /\ Carried
  BY DEF IInv, TypeOK
<1>1. /\ wpc = "idle" /\ Store("W", DONE, 1, "Release", "None")
      /\ UNCHANGED <<wpc, s, wtodo, wcount>> /\ UNCHANGED readerVars
  BY DEF StoreDone, writerVars
<1>2. DONE \in Loc /\ DONE # SEQ /\ SEQ \in Loc /\ "W" \in Thread /\ 1 \in Nat
  BY FlagLoc, LocFacts
<1>3. /\ MemoryOK(Loc, Thread)'
      /\ \A k \in Loc : k # DONE => mem'[k] = mem[k]
      /\ Newest(DONE)' = Newest(DONE) + 1
      /\ \A u \in Thread : u # "W" =>
            cur'[u] = cur[u] /\ acq'[u] = acq[u] /\ rel'[u] = rel[u]
      /\ \A k \in Loc : k # DONE => cur'["W"][k] = cur["W"][k]
      /\ cur["W"][DONE] <= Newest(DONE) + 1 => cur'["W"][DONE] = Newest(DONE) + 1
      /\ \A k \in Loc : acq'["W"][k] >= cur'["W"][k]
  BY <1>0, <1>1, <1>2, StoreFacts DEF Fenced
<1>4. Newest(DONE) \in Nat /\ cur["W"][DONE] = Newest(DONE)
  BY <1>0, <1>2, MessageFacts DEF Progress
<1>5. /\ cur'["W"][DONE] = Newest(DONE)'
      /\ \A k \in Loc : k # DONE => Newest(k)' = Newest(k)
  BY <1>3, <1>4 DEF Newest
<1>6. TypeOK'  BY <1>0, <1>1, <1>3 DEF TypeOK, readerVars
<1>7. /\ mem'[SEQ] = mem[SEQ] /\ Newest(SEQ)' = Newest(SEQ)
      /\ \A w \in Words : mem'[Data(w)] = mem[Data(w)] /\ Newest(Data(w))' = Newest(Data(w))
  BY <1>2, <1>3, <1>5, FlagLoc, LocFacts
<1>8. Shape' /\ Carried'
  <2>1. \A l \in Loc : Newest(l)' >= 1  BY <1>0, <1>3, <1>4, <1>5 DEF Shape
  <2>2. QED  BY <1>0, <1>7, <2>1 DEF Shape, Carried
<1>9. Progress'
  <2>1. \A l \in Loc : cur'["W"][l] = Newest(l)'  BY <1>0, <1>3, <1>5 DEF Progress
  <2>2. QED  BY <1>0, <1>1, <1>7, <2>1 DEF Progress
<1>10. Fenced'  BY <1>0, <1>3, LocFacts DEF Fenced
<1>11. WriterFrame  BY <1>1, <1>3, LocFacts DEF WriterFrame
<1>12. IInv'  BY <1>6, <1>8, <1>9, <1>10, <1>11, ReadersUndisturbed DEF IInv
<1>13. QED  BY <1>1, <1>3, <1>7, <1>12, FlagLoc

(* Loading it keeps it too: a reader between its two loads of seq may know *)
(* more than it has to.                                                    *)
LEMMA LoadFlag ==
    ASSUME BenchConstants, IInv, NEW t, CheckDoneAt(t)
    PROVE  /\ IInv' /\ mem' = mem /\ cur'[R][SEQ] >= cur[R][SEQ]
           /\ UNCHANGED readerVars /\ wcount' = wcount
<1>0. TypeOK /\ MemoryOK(Loc, Thread) /\ Fenced  BY DEF IInv, TypeOK
<1>1. /\ Load(R, DONE, t, "Acquire", "None") /\ UNCHANGED writerVars
      /\ UNCHANGED <<rpc, s1, t1, rtodo, got, ret>>
  BY DEF CheckDoneAt, readerVars
<1>2. /\ MemoryOK(Loc, Thread)' /\ mem' = mem /\ rel' = rel
      /\ \A u \in Thread : u # R => cur'[u] = cur[u] /\ acq'[u] = acq[u]
      /\ \A k \in Loc : cur'[R][k] >= cur[R][k] /\ acq'[R][k] >= acq[R][k]
      /\ \A k \in Loc : acq'[R][k] >= cur'[R][k]
  BY <1>0, <1>1, LoadFacts, FlagLoc DEF Fenced
<1>3. ReaderFrame(R)  BY <1>1, <1>2 DEF ReaderFrame
<1>4. TypeOK'  BY <1>0, <1>1, <1>2 DEF TypeOK, writerVars
<1>5. \A k \in Loc : /\ cur[R][k] \in Nat /\ cur'[R][k] \in Nat
                     /\ acq[R][k] \in Nat /\ acq'[R][k] \in Nat
  BY <1>0, <1>2, FlagLoc DEF MemoryOK, Views
<1>6. ASSUME rpc'[R] = "words" PROVE ReadingBy(R)'
  <2>1. ReadingBy(R)  BY <1>1, <1>6, FlagLoc DEF IInv, Reading
  <2>2. t1[R] \in Nat /\ got[R] \in [Words -> Nat]  BY <1>0, FlagLoc DEF TypeOK
  <2>3. cur'[R][SEQ] >= t1[R]  BY <1>2, <1>5, <2>1, <2>2, LocFacts DEF ReadingBy
  <2>4. ASSUME NEW w \in Words PROVE 2 * cur'[R][Data(w)] >= t1[R] + 1
    <3>1. PICK l \in Loc : l = Data(w)  BY LocFacts
    <3>2. 2 * cur[R][l] >= t1[R] + 1  BY <2>1, <3>1 DEF ReadingBy
    <3>3. QED  BY <1>2, <1>5, <2>2, <3>1, <3>2
  <2>5. ASSUME NEW w \in Words \ rtodo[R]
        PROVE  2 * got[R][w] >= t1[R] - 1 /\ acq'[R][SEQ] >= 2 * got[R][w]
    <3>1. 2 * got[R][w] >= t1[R] - 1 /\ acq[R][SEQ] >= 2 * got[R][w] /\ got[R][w] \in Nat
      BY <2>1, <2>2 DEF ReadingBy
    <3>2. QED  BY <1>2, <1>5, <3>1, LocFacts
  <2>6. QED  BY <1>1, <2>1, <2>3, <2>4, <2>5 DEF ReadingBy
<1>7. Reading'  BY <1>1, <1>3, <1>6, OtherReaders, FlagLoc DEF Reading
<1>8. NoTornRead'  BY <1>1 DEF IInv, NoTornRead
<1>9. IInv'  BY <1>3, <1>4, <1>7, <1>8, WriterUndisturbed, FlagLoc DEF IInv
<1>10. QED  BY <1>1, <1>2, <1>9, LocFacts DEF writerVars, readerVars

(* A write takes nothing from the reader. *)
LEMMA WriteKeeps ==
    ASSUME BenchConstants, IInv, WriterStep
    PROVE  cur'[R] = cur[R] /\ UNCHANGED readerVars /\ Newest(SEQ)' >= Newest(SEQ)
<1>1. IInv'  BY NextIInv DEF Next
<1>2. R # "W" /\ R \in Thread /\ cur \in [Thread -> Views(Loc)] /\ wcount \in Nat
  BY FlagLoc DEF IInv, TypeOK, MemoryOK
<1>3. CASE WriteLoad
  <2>1. Newest(SEQ)' = Newest(SEQ)  BY <1>3 DEF WriteLoad, Load, Newest
  <2>2. Newest(SEQ) \in Nat  BY CellBasics
  <2>3. QED  BY <1>2, <1>3, <2>1, <2>2 DEF WriteLoad, Load
<1>4. CASE WriteOdd
  <2>1. Newest(SEQ) = 2 * wcount - 1 /\ Newest(SEQ)' = 2 * wcount
    BY <1>1, <1>4 DEF WriteOdd, IInv, Progress
  <2>2. QED  BY <1>2, <1>4, <2>1 DEF WriteOdd, Store
<1>5. ASSUME NEW w \in Words, WriteWord(w)
      PROVE  cur'[R] = cur[R] /\ UNCHANGED readerVars /\ Newest(SEQ)' >= Newest(SEQ)
  <2>1. Newest(SEQ) = 2 * wcount /\ Newest(SEQ)' = 2 * wcount
    BY <1>1, <1>5 DEF WriteWord, IInv, Progress
  <2>2. QED  BY <1>2, <1>5, <2>1 DEF WriteWord, Store
<1>6. CASE WriteEven
  <2>1. Newest(SEQ) = 2 * wcount /\ Newest(SEQ)' = 2 * wcount + 1
    BY <1>1, <1>6 DEF WriteEven, IInv, Progress
  <2>2. QED  BY <1>2, <1>6, <2>1 DEF WriteEven, Store
<1>7. QED  BY <1>3, <1>4, <1>5, <1>6 DEF WriterStep

(* The type of what the reader has observed, after a step. *)
LEMMA ObservedTypes ==
    ASSUME BenchConstants, IInv'
    PROVE  /\ cur'[R][SEQ] \in Nat /\ Newest(SEQ)' \in Nat
           /\ t1'[R] \in Nat /\ ret'[R] \in Snapshot
<1>1. R \in Readers /\ R \in Thread /\ SEQ \in Loc  BY FlagLoc, LocFacts
<1>2. MemoryOK(Loc, Thread)' /\ t1' \in [Readers -> Nat \ {0}] /\ ret' \in [Readers -> Snapshot]
  BY DEF IInv, TypeOK, Snapshot
<1>3. cur'[R][SEQ] \in Nat  BY <1>1, <1>2 DEF MemoryOK, Views
<1>4. mem'[SEQ] \in Seq(Messages(Loc))  BY <1>1, <1>2 DEF MemoryOK
<1>5. Newest(SEQ)' \in Nat  BY <1>4 DEF Newest
<1>6. QED  BY <1>1, <1>2, <1>3, <1>5

(* The order is kept when the reader only learns of more messages. *)
LEMMA InOrderKept ==
    ASSUME BenchConstants, IInv, IInv', InOrder, UNCHANGED <<rpc, t1, ret>>,
           cur'[R][SEQ] >= cur[R][SEQ], Newest(SEQ)' >= Newest(SEQ)
    PROVE  InOrder'
<1>1. /\ cur[R][SEQ] \in Nat /\ cur'[R][SEQ] \in Nat
      /\ Newest(SEQ) \in Nat /\ Newest(SEQ)' \in Nat
  BY CellBasics, ObservedTypes, FlagLoc
<1>2. t1[R] \in Nat /\ ret[R].t1 \in Nat
  BY FlagLoc DEF IInv, TypeOK, Snapshot
<1>3. QED  BY <1>1, <1>2 DEF InOrder

(* A read returns a value no older than the one before. *)
LEMMA ReadInOrder ==
    ASSUME BenchConstants, IInv, InOrder, ReaderStep(R)
    PROVE  InOrder' /\ ret'[R].t1 >= ret[R].t1
<1>1. IInv'  BY FlagLoc, NextIInv DEF Next
<1>2. /\ R \in Readers /\ R \in Thread /\ SEQ \in Loc /\ MemoryOK(Loc, Thread)
      /\ \A l \in Loc : acq[R][l] >= cur[R][l]
  BY FlagLoc, LocFacts, CellBasics
<1>3. /\ cur[R][SEQ] \in Nat /\ cur'[R][SEQ] \in Nat
      /\ Newest(SEQ) \in Nat /\ t1[R] \in Nat
      /\ rpc \in [Readers -> {"off", "idle", "s1", "words"}]
      /\ t1 \in [Readers -> Nat \ {0}] /\ ret \in [Readers -> Snapshot]
  <2>1. cur[R][SEQ] \in Nat /\ cur'[R][SEQ] \in Nat /\ Newest(SEQ) \in Nat
    BY <1>1, <1>2, CellBasics, ObservedTypes
  <2>2. /\ rpc \in [Readers -> {"off", "idle", "s1", "words"}]
        /\ t1 \in [Readers -> Nat \ {0}] /\ ret \in [Readers -> Snapshot]
    BY DEF IInv, TypeOK
  <2>3. QED  BY <1>2, <2>1, <2>2
<1>3a. ret[R].t1 \in Nat  BY <1>2, <1>3 DEF Snapshot
<1>4. ASSUME NEW l \in Loc, NEW t, NEW ordering, NEW fence, Load(R, l, t, ordering, fence)
      PROVE  /\ Newest(SEQ)' = Newest(SEQ) /\ t \in 1 .. Newest(l) /\ t >= cur[R][l]
             /\ cur'[R][SEQ] >= cur[R][SEQ]
  BY <1>2, <1>4, LoadFacts DEF Newest
<1>5. CASE ReadBegin(R)
  <2>1. rpc'[R] = "s1" /\ ret' = ret /\ cur' = cur /\ mem' = mem
    BY <1>2, <1>3, <1>5 DEF ReadBegin, memVars
  <2>2. QED  BY <1>3, <1>3a, <2>1 DEF InOrder, Newest
<1>6. ASSUME NEW t, ReadS1At(R, t) PROVE InOrder' /\ ret'[R].t1 >= ret[R].t1
  <2>1. Load(R, SEQ, t, "Acquire", "None") /\ ret' = ret /\ t1' = [t1 EXCEPT ![R] = t]
    BY <1>6 DEF ReadS1At, Seq1LoadOrdering
  <2>2. /\ Newest(SEQ)' = Newest(SEQ) /\ t \in 1 .. Newest(SEQ) /\ t >= cur[R][SEQ]
        /\ cur'[R][SEQ] >= cur[R][SEQ]
    BY <1>2, <1>4, <2>1
  <2>3. t1'[R] = t  BY <1>2, <1>3, <1>3a, <2>1
  <2>4. QED  BY <1>3, <1>3a, <2>1, <2>2, <2>3 DEF InOrder
<1>7. ASSUME NEW w \in Words, ReadWord(R, w) PROVE InOrder' /\ ret'[R].t1 >= ret[R].t1
  <2>1. PICK t : Load(R, Data(w), t, "Relaxed", "None")  BY <1>7 DEF ReadWord
  <2>2. Data(w) \in Loc /\ UNCHANGED <<rpc, t1, ret>>  BY <1>7, LocFacts DEF ReadWord
  <2>3. Newest(SEQ)' = Newest(SEQ) /\ cur'[R][SEQ] >= cur[R][SEQ]  BY <1>4, <2>1, <2>2
  <2>4. InOrder'  BY <1>1, <1>3, <2>2, <2>3, InOrderKept
  <2>5. QED  BY <1>3, <1>3a, <2>2, <2>4
<1>8. ASSUME NEW t, ReadS2At(R, t) PROVE InOrder' /\ ret'[R].t1 >= ret[R].t1
  <2>1. /\ rpc[R] = "words" /\ Load(R, SEQ, t, "Relaxed", "Acquire") /\ t1' = t1
        /\ \/ ret' = [ret EXCEPT ![R] = [val |-> got[R], t1 |-> t1[R], t2 |-> t]]
           \/ ret' = ret
        /\ rpc' = [rpc EXCEPT ![R] = "idle"] \/ rpc' = [rpc EXCEPT ![R] = "s1"]
    BY <1>8 DEF ReadS2At, Seq2LoadFence
  <2>2. Newest(SEQ)' = Newest(SEQ) /\ cur'[R][SEQ] >= cur[R][SEQ]  BY <1>2, <1>4, <2>1
  <2>3. rpc'[R] # "words"  BY <1>2, <1>3, <1>3a, <2>1
  <2>4. cur[R][SEQ] >= t1[R]  BY <1>2, <2>1 DEF IInv, Reading, ReadingBy
  <2>5. ret'[R].t1 = t1[R] \/ ret'[R].t1 = ret[R].t1  BY <1>2, <1>3, <1>3a, <2>1
  <2>6. t1[R] >= ret[R].t1 /\ Newest(SEQ) >= t1[R] /\ Newest(SEQ) >= ret[R].t1
        /\ cur[R][SEQ] >= ret[R].t1
    BY <2>1 DEF InOrder
  <2>7. QED  BY <1>3, <1>3a, <2>2, <2>3, <2>4, <2>5, <2>6 DEF InOrder
<1>9. QED  BY <1>5, <1>6, <1>7, <1>8 DEF ReaderStep, ReadS1, ReadS2

(* Steps that neither read nor sample. *)
LEMMA SampledKept ==
    ASSUME Sampled, UNCHANGED <<samples, ret>>
    PROVE  Sampled'
BY DEF Sampled, samples

(* Steps of a thread outside the lock. *)
LEMMA OutsideStep ==
    ASSUME BenchInv, UNCHANGED <<vars, samples>>
    PROVE  BenchInv'
<1>1. IInv'  BY StutterStep DEF BenchInv
<1>2. UNCHANGED <<mem, cur, rpc, t1, ret>>  BY DEF vars, memVars, readerVars
<1>3. InOrder'  BY <1>2 DEF BenchInv, InOrder, Newest
<1>4. Sampled'  BY <1>2, SampledKept DEF BenchInv
<1>5. QED  BY <1>1, <1>3, <1>4 DEF BenchInv

LEMMA WriterStepInv ==
    ASSUME BenchConstants, BenchInv, WriteTs \/ StoreDone
    PROVE  BenchInv'
<1>0. IInv /\ InOrder /\ Sampled  BY DEF BenchInv
<1>1. cur[R][SEQ] \in Nat /\ Newest(SEQ) \in Nat  BY <1>0, CellBasics, FlagLoc
<1>2. CASE WriteTs
  <2>1. WriterStep /\ UNCHANGED samples  BY <1>2 DEF WriteTs, benchVars
  <2>2. IInv'  BY <1>0, <2>1, NextIInv DEF Next
  <2>3. cur'[R] = cur[R] /\ UNCHANGED <<rpc, t1, ret>> /\ Newest(SEQ)' >= Newest(SEQ)
    BY <1>0, <2>1, WriteKeeps DEF readerVars
  <2>4. cur'[R][SEQ] >= cur[R][SEQ]  BY <1>1, <2>3
  <2>5. InOrder'  BY <1>0, <2>2, <2>3, <2>4, InOrderKept
  <2>6. Sampled'  BY <1>0, <2>1, <2>3, SampledKept
  <2>7. QED  BY <2>2, <2>5, <2>6 DEF BenchInv
<1>3. CASE StoreDone
  <2>1. IInv' /\ mem'[SEQ] = mem[SEQ] /\ cur'[R] = cur[R] /\ UNCHANGED <<rpc, t1, ret>>
    BY <1>0, <1>3, StoreFlag DEF readerVars
  <2>2. Newest(SEQ)' = Newest(SEQ)  BY <2>1 DEF Newest
  <2>3. InOrder'  BY <1>0, <1>1, <2>1, <2>2, InOrderKept
  <2>4. UNCHANGED samples  BY <1>3 DEF StoreDone
  <2>5. QED  BY <1>0, <2>1, <2>3, <2>4, SampledKept DEF BenchInv
<1>4. QED  BY <1>2, <1>3

LEMMA CheckDoneStep ==
    ASSUME BenchConstants, BenchInv, NEW t, CheckDoneAt(t)
    PROVE  BenchInv'
<1>0. IInv /\ InOrder /\ Sampled  BY DEF BenchInv
<1>1. Newest(SEQ) \in Nat  BY <1>0, CellBasics
<1>2. IInv' /\ mem' = mem /\ cur'[R][SEQ] >= cur[R][SEQ] /\ UNCHANGED <<rpc, t1, ret>>
  BY <1>0, LoadFlag DEF readerVars
<1>3. Newest(SEQ)' = Newest(SEQ)  BY <1>2 DEF Newest
<1>4. InOrder'  BY <1>0, <1>1, <1>2, <1>3, InOrderKept
<1>5. UNCHANGED samples  BY DEF CheckDoneAt
<1>6. QED  BY <1>0, <1>2, <1>4, <1>5, SampledKept DEF BenchInv

LEMMA CallReadStep ==
    ASSUME BenchConstants, BenchInv, CallRead
    PROVE  BenchInv'
<1>0. IInv /\ InOrder /\ Sampled  BY DEF BenchInv
<1>1. ReaderStep(R) /\ UNCHANGED <<last_ts, seen, offered>>
      /\ lapped' = (lapped \/ ret'[R].t2 - ret'[R].t1 >= SEQ_MOD)
  BY DEF CallRead
<1>2. IInv'  BY <1>0, <1>1, NextIInv, FlagLoc DEF Next
<1>3. InOrder' /\ ret'[R].t1 >= ret[R].t1  BY <1>0, <1>1, ReadInOrder
<1>4. ret'[R] \in Snapshot /\ ret[R] \in Snapshot /\ SEQ_MOD \in Nat
  BY <1>0, <1>2, ObservedTypes, FlagLoc, SeqLockAssumption DEF IInv, TypeOK
<1>5. ret'[R].t1 \in Nat /\ ret'[R].t2 \in Nat /\ ret[R].t1 \in Nat  BY <1>4 DEF Snapshot
<1>6. last_ts \in [Words -> Nat]  BY <1>0 DEF Sampled
<1>7. ~lapped' => ~lapped /\ ret'[R].t2 - ret'[R].t1 < SEQ_MOD
  <2>1. ~lapped' => ~lapped /\ ~(ret'[R].t2 - ret'[R].t1 >= SEQ_MOD)  BY <1>1, Zenon
  <2>2. ~(ret'[R].t2 - ret'[R].t1 >= SEQ_MOD) => ret'[R].t2 - ret'[R].t1 < SEQ_MOD
    BY <1>4, <1>5
  <2>3. QED  BY <2>1, <2>2, Zenon
<1>8. ASSUME ~lapped', NEW w \in Words PROVE 2 * last_ts[w] + 1 <= ret'[R].t1
  <2>1. 2 * last_ts[w] + 1 <= ret[R].t1 /\ last_ts[w] \in Nat
    BY <1>0, <1>6, <1>7, <1>8 DEF Sampled
  <2>2. QED  BY <1>3, <1>5, <2>1
<1>9. Sampled'  BY <1>0, <1>1, <1>7, <1>8 DEF Sampled
<1>10. QED  BY <1>2, <1>3, <1>9 DEF BenchInv

(* A value that is new is a later write's, so it makes up for the count. *)
LEMMA SampleStep ==
    ASSUME BenchConstants, BenchInv, Sample
    PROVE  BenchInv'
<1>0. IInv /\ InOrder /\ Sampled  BY DEF BenchInv
<1>1. /\ last_ts' = ret[R].val
      /\ seen' = IF IsNew(ret[R].val) THEN seen + 1 ELSE seen
      /\ offered' = IF IsNew(ret[R].val) /\ seen >= WARMUP THEN offered + 1 ELSE offered
      /\ UNCHANGED <<vars, lapped>>
  BY DEF Sample
<1>2. UNCHANGED <<mem, cur, rpc, t1, ret>>  BY <1>1 DEF vars, memVars, readerVars
<1>3. IInv' /\ InOrder'
  BY <1>0, <1>1, <1>2, StutterStep DEF InOrder, Newest
<1>4. ret[R] \in Snapshot /\ R \in Readers  BY <1>0, FlagLoc DEF IInv, TypeOK
<1>5. ret[R].val \in [Words -> Nat] /\ ret[R].t1 \in Nat  BY <1>4 DEF Snapshot
<1>6. last_ts \in [Words -> Nat] /\ seen \in Nat /\ WARMUP \in Nat
  BY <1>0 DEF Sampled, BenchConstants
<1>7. offered' = IF seen' > WARMUP THEN seen' - WARMUP ELSE 0
  <2>1. offered = IF seen > WARMUP THEN seen - WARMUP ELSE 0  BY <1>0 DEF Sampled
  <2>2. CASE IsNew(ret[R].val)  BY <1>1, <1>6, <2>1, <2>2
  <2>3. CASE ~IsNew(ret[R].val)  BY <1>1, <1>6, <2>1, <2>3
  <2>4. QED  BY <2>2, <2>3
<1>8. ASSUME ~lapped'
      PROVE  /\ \A v, w \in Words : last_ts'[v] = last_ts'[w]
             /\ \A w \in Words : seen' <= last_ts'[w] /\ 2 * last_ts'[w] + 1 <= ret[R].t1
  <2>1. /\ ret[R].t2 - ret[R].t1 < SEQ_MOD
        /\ \A v, w \in Words : last_ts[v] = last_ts[w]
        /\ \A w \in Words : seen <= last_ts[w] /\ 2 * last_ts[w] + 1 <= ret[R].t1
    BY <1>0, <1>1, <1>8 DEF Sampled
  <2>2. \A w \in Words : 2 * ret[R].val[w] = ret[R].t1 - 1
    BY <1>0, <1>4, <2>1 DEF IInv, NoTornRead
  <2>3. \A v, w \in Words : ret[R].val[v] = ret[R].val[w]  BY <1>5, <2>2
  <2>4. \A w \in Words : last_ts[w] <= ret[R].val[w]  BY <1>5, <1>6, <2>1, <2>2
  <2>5. ASSUME IsNew(ret[R].val), NEW w \in Words PROVE seen + 1 <= ret[R].val[w]
    <3>1. PICK v \in Words : ret[R].val[v] # last_ts[v]
      BY <1>5, <1>6, <2>5 DEF IsNew
    <3>2. ret[R].val[w] # last_ts[w]  BY <2>1, <2>3, <3>1
    <3>3. QED  BY <1>5, <1>6, <2>1, <2>4, <3>2
  <2>6. ASSUME NEW w \in Words PROVE seen' <= ret[R].val[w]
    <3>1. CASE IsNew(ret[R].val)  BY <1>1, <2>5, <3>1
    <3>2. CASE ~IsNew(ret[R].val)  BY <1>1, <1>5, <1>6, <2>1, <2>4, <3>2
    <3>3. QED  BY <3>1, <3>2
  <2>7. \A w \in Words : 2 * ret[R].val[w] + 1 <= ret[R].t1  BY <1>5, <2>2
  <2>8. QED  BY <1>1, <2>3, <2>6, <2>7
<1>9. ~lapped' => ret[R].t2 - ret[R].t1 < SEQ_MOD  BY <1>0, <1>1 DEF Sampled
<1>10. last_ts' \in [Words -> Nat] /\ seen' \in Nat
  BY <1>1, <1>5, <1>6
<1>11. Sampled'  BY <1>2, <1>7, <1>8, <1>9, <1>10 DEF Sampled
<1>12. QED  BY <1>3, <1>11 DEF BenchInv

LEMMA InitBenchInv == ASSUME BenchConstants, BenchInit PROVE BenchInv
<1>1. IInv  BY InitIInv DEF BenchInit
<1>2. rpc[R] = "idle" /\ ret[R].t1 = 1 /\ ret[R].t2 = 1
  BY FlagLoc DEF BenchInit, Init, R
<1>3. cur[R][SEQ] \in Nat \ {0} /\ Newest(SEQ) \in Nat \ {0}  BY <1>1, CellBasics, FlagLoc
<1>4. InOrder  BY <1>2, <1>3 DEF InOrder
<1>5. last_ts = Blank /\ seen = 0 /\ offered = 0 /\ WARMUP \in Nat
  BY DEF BenchInit, BenchConstants
<1>6. Sampled  BY <1>2, <1>5, SeqLockAssumption DEF Sampled, Blank
<1>7. QED  BY <1>1, <1>4, <1>6 DEF BenchInv

LEMMA NextBenchInv == ASSUME BenchConstants, BenchInv, [BenchNext]_allVars PROVE BenchInv'
<1>1. CASE WriterThread
  <2>1. CASE WriterPin  BY <2>1, OutsideStep DEF WriterPin
  <2>2. QED  BY <1>1, <2>1, WriterStepInv DEF WriterThread
<1>2. CASE ReaderThread
  <2>1. CASE ReaderPin  BY <2>1, OutsideStep DEF ReaderPin
  <2>2. CASE CheckDone  BY <2>2, CheckDoneStep DEF CheckDone
  <2>3. QED  BY <1>2, <2>1, <2>2, CallReadStep, SampleStep DEF ReaderThread
<1>3. CASE MainThread  BY <1>3, OutsideStep DEF MainThread, JoinWriter, JoinReader
<1>4. CASE PinFails  BY <1>4, OutsideStep DEF PinFails
<1>5. CASE UNCHANGED allVars  BY <1>5, OutsideStep DEF allVars, benchVars
<1>6. QED  BY <1>1, <1>2, <1>3, <1>4, <1>5 DEF BenchNext

(* The invariant of the lock, and what its reader keeps of it, hold        *)
(* throughout the benchmark of examples/seqlock/bench_handoff.rs.          *)
THEOREM BenchInvariance == ASSUME BenchConstants PROVE BenchSpec => []BenchInv
<1>1. BenchInit => BenchInv  BY InitBenchInv
<1>2. BenchInv /\ [BenchNext]_allVars => BenchInv'  BY NextBenchInv
<1>3. QED  BY <1>1, <1>2, PTL DEF BenchSpec

(* Each sample of the benchmark is a time stamp later than all the ones    *)
(* sampled before it and none is counted twice, for any number of time     *)
(* stamps and of warm-up samples and any size of the value.                *)
THEOREM SeqLockSamplesAreFresh == ASSUME BenchConstants PROVE BenchSpec => []SamplesAreFresh
<1>1. ASSUME BenchInv, ~lapped PROVE SamplesAreFresh
  <2>0. IInv /\ InOrder /\ Sampled  BY <1>1 DEF BenchInv
  <2>1. /\ ret[R].t2 - ret[R].t1 < SEQ_MOD /\ last_ts \in [Words -> Nat]
        /\ offered = IF seen > WARMUP THEN seen - WARMUP ELSE 0
        /\ \A w \in Words : seen <= last_ts[w] /\ 2 * last_ts[w] + 1 <= ret[R].t1
    BY <1>1, <2>0 DEF Sampled
  <2>2. Newest(SEQ) >= ret[R].t1  BY <2>0 DEF InOrder
  <2>3. Newest(SEQ) \in Nat /\ wcount \in Nat /\ Newest(SEQ) <= 2 * wcount + 1
    BY <2>0, CellBasics
  <2>4. ret[R] \in Snapshot /\ R \in Readers  BY <2>0, FlagLoc DEF IInv, TypeOK
  <2>5. ret[R].val \in [Words -> Nat] /\ ret[R].t1 \in Nat  BY <2>4 DEF Snapshot
  <2>6. \A w \in Words : 2 * ret[R].val[w] = ret[R].t1 - 1
    BY <2>0, <2>1, <2>4 DEF IInv, NoTornRead
  <2>7. \A w \in Words : seen <= last_ts[w] /\ last_ts[w] <= wcount
    BY <2>1, <2>2, <2>3, <2>5
  <2>8. \A w \in Words : last_ts[w] <= ret[R].val[w]  BY <2>1, <2>5, <2>6
  <2>9. QED  BY <2>1, <2>7, <2>8 DEF SamplesAreFresh
<1>2. BenchInv => SamplesAreFresh  BY <1>1 DEF SamplesAreFresh
<1>3. QED  BY <1>2, BenchInvariance, PTL

(* The benchmark's flag and its threads leave the lock's promise alone: no *)
(* value its reader is given is torn, even if seq wraps many times in all. *)
THEOREM BenchReadsAreConsistent == ASSUME BenchConstants PROVE BenchSpec => []NoTornRead
<1>1. BenchInv => NoTornRead  BY DEF BenchInv, IInv
<1>2. QED  BY <1>1, BenchInvariance, PTL
============================================================================

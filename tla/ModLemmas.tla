----------------------------- MODULE ModLemmas -----------------------------
(***************************************************************************)
(* Arithmetic modulo the size of a machine word, as wrapping_add and       *)
(* wrapping_sub compute it: the facts the proofs need about % and \div     *)
(* with a divisor that is not a numeral.                                   *)
(***************************************************************************)
EXTENDS Integers, TLAPS

(* Division with remainder exists ... *)
LEMMA DivMod ==
    ASSUME NEW n \in Int, NEW M \in Nat \ {0}
    PROVE  /\ n \div M \in Int /\ n % M \in 0 .. M - 1
           /\ n = (n \div M) * M + (n % M)
<1>1. n \div M \in Int  OBVIOUS
<1>2. n % M \in 0 .. M - 1  OBVIOUS
<1>3. n % M = n - (n \div M) * M  OBVIOUS
<1>4. (n \div M) * M \in Int  BY <1>1
<1>5. QED  BY <1>1, <1>2, <1>3, <1>4

(* ... and is unique. *)
LEMMA ModUnique ==
    ASSUME NEW n \in Int, NEW M \in Nat \ {0},
           NEW q \in Int, NEW r \in 0 .. M - 1, n = q * M + r
    PROVE  n % M = r /\ n \div M = q
OBVIOUS

(* Multiples of M are at least M apart. *)
LEMMA MultiplesApart ==
    ASSUME NEW M \in Nat \ {0}, NEW p \in Int, NEW q \in Int, p < q
    PROVE  p * M + M <= q * M
OBVIOUS

(* Two numbers less than M apart with the same remainder are equal: a      *)
(* counter that wraps around cannot be mistaken within one turn.           *)
LEMMA ModInjective ==
    ASSUME NEW a \in Int, NEW b \in Int, NEW M \in Nat \ {0},
           a <= b, b - a < M, a % M = b % M
    PROVE  a = b
<1> DEFINE qa == a \div M
           qb == b \div M
           r == a % M
<1>1. qa \in Int /\ a = qa * M + r /\ r \in 0 .. M - 1  BY DivMod
<1>2. qb \in Int /\ b = qb * M + r  BY DivMod
<1> HIDE DEF qa, qb, r
<1>3. qa * M \in Int /\ qb * M \in Int  BY <1>1, <1>2
<1>4. ~(qa < qb)
  <2>1. qa < qb => qa * M + M <= qb * M  BY <1>1, <1>2, MultiplesApart
  <2>2. QED  BY <1>1, <1>2, <1>3, <2>1
<1>5. ~(qb < qa)
  <2>1. qb < qa => qb * M + M <= qa * M  BY <1>1, <1>2, MultiplesApart
  <2>2. QED  BY <1>1, <1>2, <1>3, <2>1
<1>6. qa = qb  BY <1>1, <1>2, <1>4, <1>5
<1>7. QED  BY <1>1, <1>2, <1>6

(* Adding to a wrapped counter and wrapping again is adding and wrapping. *)
LEMMA ModAdd ==
    ASSUME NEW n \in Int, NEW k \in Int, NEW M \in Nat \ {0}
    PROVE  ((n % M) + k) % M = (n + k) % M
<1> DEFINE q == n \div M
           x == (n % M) + k
           p == x \div M
<1>1. q \in Int /\ x \in Int /\ n + k = q * M + x  BY DivMod
<1>2. p \in Int /\ x % M \in 0 .. M - 1 /\ x = p * M + (x % M)  BY <1>1, DivMod
<1> HIDE DEF q, x, p
<1>3. q * M + p * M = (q + p) * M  BY <1>1, <1>2
<1>4. n + k = (q + p) * M + (x % M)
  <2> DEFINE a == q * M
             b == p * M
  <2>1. a \in Int /\ b \in Int /\ x % M \in Int  BY <1>1, <1>2
  <2>2. n + k = a + x /\ x = b + (x % M) /\ (q + p) * M = a + b  BY <1>1, <1>2, <1>3
  <2> HIDE DEF a, b
  <2>3. n + k = (a + b) + (x % M)  BY <2>1, <2>2
  <2>4. QED  BY <2>2, <2>3
<1>5. q + p \in Int  BY <1>1, <1>2
<1>6. (n + k) % M = x % M  BY <1>2, <1>4, <1>5, ModUnique
<1>7. QED  BY <1>6 DEF x

(* Reducing modulo a multiple of two keeps the parity. *)
LEMMA ModParity ==
    ASSUME NEW n \in Int, NEW M \in Nat \ {0}, M % 2 = 0
    PROVE  (n % M) % 2 = n % 2
<1> DEFINE h == M \div 2
           q == n \div M
           x == n % M
           y == x \div 2
<1>1. h \in Int /\ M = h * 2  BY DivMod
<1>2. q \in Int /\ x \in Int /\ n = q * M + x  BY DivMod
<1>3. y \in Int /\ x % 2 \in 0 .. 1 /\ x = y * 2 + (x % 2)  BY <1>2
<1> HIDE DEF h, q, x, y
<1>4. q * M = (q * h) * 2  BY <1>1, <1>2
<1>5. q * h \in Int  BY <1>1, <1>2
<1>6. n = (q * h + y) * 2 + (x % 2)  BY <1>2, <1>3, <1>4, <1>5
<1>7. n % 2 = x % 2  BY <1>3, <1>5, <1>6
<1>8. QED  BY <1>7 DEF x

(* What is left of a number without its remainder is a multiple of M. *)
LEMMA ModRoundDown ==
    ASSUME NEW n \in Int, NEW M \in Nat \ {0}
    PROVE  n % M \in 0 .. M - 1 /\ (n - (n % M)) % M = 0
<1>1. PICK q \in Int : n % M \in 0 .. M - 1 /\ n = q * M + (n % M)  BY DivMod
<1>2. q * M \in Int /\ n % M \in Int  BY <1>1
<1>3. n - (n % M) = q * M + 0 /\ 0 \in 0 .. M - 1  BY <1>1, <1>2
<1>4. n - (n % M) \in Int  BY <1>1, <1>2
<1>5. QED  BY <1>1, <1>3, <1>4, ModUnique

(* The quotient of a natural number is one. *)
LEMMA DivNat ==
    ASSUME NEW n \in Nat, NEW M \in Nat \ {0}
    PROVE  n \div M \in Nat
<1>1. PICK q \in Int : q = n \div M  BY DivMod
<1>2. n % M \in 0 .. M - 1 /\ n = q * M + (n % M)
  <2>1. n \in Int  OBVIOUS
  <2>2. QED  BY <1>1, <2>1, DivMod, Zenon
<1>3. q < 0 => q * M + M <= 0
  <2>1. q < 0 => q * M + M <= 0 * M  BY MultiplesApart
  <2>2. QED  BY <2>1
<1>4. q * M \in Int /\ n % M \in Int  BY <1>2
<1>5. ~(q < 0)  BY <1>2, <1>3, <1>4
<1>6. QED  BY <1>1, <1>5

(* A number below M is its own remainder. *)
LEMMA ModSmall ==
    ASSUME NEW M \in Nat \ {0}, NEW n \in 0 .. M - 1
    PROVE  n % M = n
<1>1. n = 0 * M + n /\ 0 \in Int /\ n \in Int  OBVIOUS
<1>2. QED  BY <1>1, ModUnique

(* Multiples of M do not change the remainder. *)
LEMMA ModShift ==
    ASSUME NEW n \in Int, NEW k \in Int, NEW M \in Nat \ {0}
    PROVE  (n + k * M) % M = n % M
<1>1. PICK q \in Int : n % M \in 0 .. M - 1 /\ n = q * M + (n % M)  BY DivMod
<1>2. PICK r \in 0 .. M - 1 : r = n % M  BY <1>1
<1>3. q * M + k * M = (q + k) * M /\ q + k \in Int  BY <1>1
<1>4. PICK a \in Int, b \in Int : a = q * M /\ b = k * M  BY <1>1
<1>5. n + k * M = (q + k) * M + r
  <2>1. n = a + r /\ (q + k) * M = a + b  BY <1>1, <1>2, <1>3, <1>4
  <2>2. n + b = (a + b) + r  BY <2>1, <1>2, <1>4
  <2>3. QED  BY <2>1, <2>2, <1>4
<1>6. n + k * M \in Int  BY <1>4
<1>7. QED  BY <1>2, <1>3, <1>5, <1>6, ModUnique

(* wrapping_sub of two wrapped counters is the wrapped difference. *)
LEMMA ModDifference ==
    ASSUME NEW a \in Int, NEW b \in Int, NEW M \in Nat \ {0}
    PROVE  ((a % M) - (b % M)) % M = (a - b) % M
<1>1. PICK p \in Int, x \in Int : x = a % M /\ a = p * M + x
  <2>1. a % M \in Int /\ a \div M \in Int /\ a = (a \div M) * M + (a % M)  BY DivMod
  <2>2. QED  BY <2>1, Zenon
<1>2. PICK q \in Int, y \in Int : y = b % M /\ b = q * M + y
  <2>1. b % M \in Int /\ b \div M \in Int /\ b = (b \div M) * M + (b % M)  BY DivMod
  <2>2. QED  BY <2>1, Zenon
<1>3. PICK c \in Int, d \in Int : c = p * M /\ d = q * M  BY <1>1, <1>2
<1>4. (p - q) * M = c - d  BY <1>1, <1>2, <1>3
<1>5. a - b = (x - y) + (p - q) * M  BY <1>1, <1>2, <1>3, <1>4
<1>6. x - y \in Int /\ p - q \in Int  BY <1>1, <1>2
<1>7. ((x - y) + (p - q) * M) % M = (x - y) % M  BY <1>6, ModShift, Zenon
<1>8. QED  BY <1>1, <1>2, <1>5, <1>7

(* Reducing modulo a multiple of C first does not change the remainder. *)
LEMMA ModOfMod ==
    ASSUME NEW n \in Int, NEW M \in Nat \ {0}, NEW C \in Nat \ {0}, M % C = 0
    PROVE  (n % M) % C = n % C
<1>1. PICK q \in Int, x \in Int : x = n % M /\ n = q * M + x
  <2>1. n % M \in Int /\ n \div M \in Int /\ n = (n \div M) * M + (n % M)  BY DivMod
  <2>2. QED  BY <2>1, Zenon
<1>2. PICK k \in Int : M = k * C + (M % C)
  <2>1. M \div C \in Int /\ M = (M \div C) * C + (M % C)  BY DivMod
  <2>2. QED  BY <2>1, Zenon
<1>3. k * C \in Int  BY <1>2
<1>4. M = k * C  BY <1>2, <1>3
<1>5. q * M = (q * k) * C /\ q * k \in Int  BY <1>1, <1>2, <1>4
<1>6. n = x + (q * k) * C
  <2>1. PICK y \in Int : y = q * M  BY <1>1
  <2>2. QED  BY <1>1, <1>5, <2>1
<1>7. (x + (q * k) * C) % C = x % C  BY <1>1, <1>5, ModShift, Zenon
<1>8. QED  BY <1>1, <1>6, <1>7

(* Division keeps the order. *)
LEMMA DivOrder ==
    ASSUME NEW a \in Nat, NEW b \in Nat, NEW M \in Nat \ {0}, a <= b
    PROVE  a \div M <= b \div M
<1>1. PICK p \in Int, r \in 0 .. M - 1 : p = a \div M /\ a = p * M + r
  <2>1. a \in Int  OBVIOUS
  <2>2. QED  BY <2>1, DivMod
<1>2. PICK q \in Int, t \in 0 .. M - 1 : q = b \div M /\ b = q * M + t
  <2>1. b \in Int  OBVIOUS
  <2>2. QED  BY <2>1, DivMod
<1>3. q < p => q * M + M <= p * M  BY MultiplesApart
<1>4. PICK x \in Int, y \in Int : x = p * M /\ y = q * M  OBVIOUS
<1>5. a = x + r /\ b = y + t /\ (q < p => y + M <= x)  BY <1>1, <1>2, <1>3, <1>4
<1>6. ~(q < p)  BY <1>5
<1>7. QED  BY <1>1, <1>2, <1>6

(* Multiplication keeps the order. *)
LEMMA ProductOrder ==
    ASSUME NEW a \in Nat, NEW b \in Nat, NEW m \in Nat, a <= b
    PROVE  a * m \in Nat /\ b * m \in Nat /\ a * m <= b * m
OBVIOUS
=============================================================================

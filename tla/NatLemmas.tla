----------------------------- MODULE NatLemmas ------------------------------
(***************************************************************************)
(* Facts about natural numbers.  The rings of the program rest on % : the  *)
(* slot index of libsvc/sharedmem.c, the record index of liblog and the    *)
(* packet numbers of the video stream are all counters taken modulo a ring *)
(* size.  Queues and tables are searched for a first element, and loops    *)
(* are followed by induction; a set stands for what is to be proved.       *)
(***************************************************************************)
EXTENDS Integers, TLAPS, WellFoundedInduction

Less == {ss \in Nat \X Nat : ss[1] < ss[2]}

LEMMA LessWellFounded == IsWellFoundedOn(Less, Nat)
<1>1. Less = OpToRel(<, Nat)
  BY Zenon DEF Less, OpToRel
<1> QED
  BY <1>1, NatLessThanWellFounded

(* A set of natural numbers has a least one.                               *)
LEMMA Least ==
  ASSUME NEW S \in SUBSET Nat, S # {}
  PROVE  \E n \in S : \A m \in S : n <= m
<1>1. PICK n \in S : \A m \in S : <<m, n>> \notin Less
  BY LessWellFounded, WFMin
<1>2. ASSUME NEW m \in S  PROVE n <= m
  <2>1. m \in Nat /\ n \in Nat
    OBVIOUS
  <2>2. m < n => <<m, n>> \in Less
    BY <2>1 DEF Less
  <2> QED
    BY <1>1, <2>1, <2>2
<1> QED
  BY <1>2

(* A set of numbers up to n has a greatest one.                            *)
LEMMA Greatest ==
  ASSUME NEW n \in Nat, NEW S \in SUBSET (0 .. n), S # {}
  PROVE  \E s \in S : \A t \in S : t <= s
<1> DEFINE D == {m \in Nat : n - m \in S}
<1>1. D # {}
  <2>1. PICK s \in S : TRUE
    OBVIOUS
  <2>2. n - s \in Nat /\ n - (n - s) = s
    OBVIOUS
  <2> QED
    BY <2>1, <2>2
<1>2. PICK m \in D : \A d \in D : m <= d
  BY <1>1, Least
<1>3. ASSUME NEW t \in S PROVE t <= n - m
  <2>1. n - t \in Nat /\ n - (n - t) = t
    OBVIOUS
  <2> QED
    BY <1>2, <2>1
<1> QED
  BY <1>2, <1>3

(* Induction, with the set of the numbers of which the claim holds.        *)
LEMMA SetInduction ==
  ASSUME NEW S, 0 \in S, \A n \in Nat : n \in S => n + 1 \in S
  PROVE  Nat \subseteq S
<1> SUFFICES ASSUME Nat \ S # {} PROVE FALSE
  OBVIOUS
<1>1. PICK n \in Nat \ S : \A m \in Nat \ S : n <= m
  BY Least
<1>2. n - 1 \in Nat /\ n - 1 \notin Nat \ S
  BY <1>1
<1> QED
  BY <1>1, <1>2

-----------------------------------------------------------------------------

(* Quotient and remainder of a natural number.                             *)
LEMMA DivMod ==
  ASSUME NEW c \in Nat \ {0}, NEW a \in Nat
  PROVE  a \div c \in Nat /\ a = c * (a \div c) + (a % c) /\ a % c \in 0 .. c-1
  OBVIOUS

(* Multiples of c are at least c apart.                                    *)
LEMMA MulGap ==
  ASSUME NEW c \in Nat \ {0}, NEW p \in Nat, NEW q \in Nat, p < q
  PROVE  c * q >= c * p + c
<1>1. PICK d \in Nat : q = p + 1 + d
  BY q - p - 1 \in Nat
<1>2. c * q = c * p + c + c * d
  BY <1>1
<1>3. c * d >= 0
  OBVIOUS
<1> QED
  BY <1>2, <1>3

(* A remainder is determined by any quotient that leaves it in range.      *)
LEMMA RemainderUnique ==
  ASSUME NEW c \in Nat \ {0}, NEW q \in Nat, NEW r \in 0 .. c-1
  PROVE  (c * q + r) % c = r
<1> DEFINE a == c * q + r
           p == a \div c
           s == a % c
<1>1. a \in Nat
  OBVIOUS
<1>2. p \in Nat /\ a = c * p + s /\ s \in 0 .. c-1
  BY <1>1, DivMod
<1> HIDE DEF a, p, s
<1>3. a = c * q + r
  BY DEF a
<1>4. ~(p < q)
  <2> SUFFICES ASSUME p < q PROVE FALSE
    OBVIOUS
  <2>1. c * q >= c * p + c
    BY <1>2, MulGap
  <2> QED
    BY <2>1, <1>2, <1>3
<1>5. ~(q < p)
  <2> SUFFICES ASSUME q < p PROVE FALSE
    OBVIOUS
  <2>1. c * p >= c * q + c
    BY <1>2, MulGap
  <2> QED
    BY <2>1, <1>2, <1>3
<1>6. p = q
  BY <1>2, <1>4, <1>5
<1>7. s = r
  BY <1>2, <1>3, <1>6
<1> QED
  BY <1>7 DEF s, a

LEMMA QuotientUnique ==
  ASSUME NEW c \in Nat \ {0}, NEW q \in Nat, NEW r \in 0 .. c-1
  PROVE  (c * q + r) \div c = q
<1> DEFINE a == c * q + r
           p == a \div c
<1>1. a \in Nat /\ a % c = r
  BY RemainderUnique
<1>2. p \in Nat /\ a = c * p + r
  BY <1>1, DivMod
<1> HIDE DEF p
<1>3. c * q = c * p
  BY <1>2
<1>4. ~(p < q) /\ ~(q < p)
  BY <1>2, <1>3, MulGap
<1> QED
  BY <1>2, <1>4 DEF p

(* The numbers of b blocks of c: which block, and which place in it.       *)
LEMMA BlockAndPlace ==
  ASSUME NEW c \in Nat \ {0}, NEW b \in Nat, NEW n \in 0 .. c * b - 1
  PROVE  /\ n \div c \in 0 .. b - 1 /\ n % c \in 0 .. c - 1
         /\ n = c * (n \div c) + (n % c)
<1>0. c * b \in Nat /\ n \in Nat
  OBVIOUS
<1>1. n \div c \in Nat /\ n = c * (n \div c) + (n % c) /\ n % c \in 0 .. c - 1
  BY <1>0, DivMod
<1>2. n \div c < b
  <2> DEFINE q == n \div c
  <2> SUFFICES ASSUME b <= q  PROVE FALSE
    BY <1>1
  <2>1. c * b <= c * q
    <3>1. CASE b = q
      BY <3>1, <1>0
    <3>2. CASE b < q
      <4>1. q \in Nat
        BY <1>1
      <4> HIDE DEF q
      <4>2. c * q >= c * b + c
        BY <3>2, <4>1, MulGap
      <4> QED
        BY <4>1, <4>2, <1>0
    <3> QED
      BY <3>1, <3>2, <1>1
  <2> QED
    BY <2>1, <1>0, <1>1
<1> QED
  BY <1>1, <1>2

(* ... and back: the k-th block of b lies within them.                     *)
LEMMA PlaceInBlocks ==
  ASSUME NEW c \in Nat \ {0}, NEW b \in Nat, NEW k \in 0 .. b - 1, NEW r \in 0 .. c - 1
  PROVE  c * k + r \in 0 .. c * b - 1
<1>1. c * b >= c * k + c
  BY MulGap
<1>2. c * k \in Nat /\ c * b \in Nat
  OBVIOUS
<1> QED
  BY <1>1, <1>2

(* Numbers less than c apart fall on different places of a ring of c.      *)
LEMMA ModDistinct ==
  ASSUME NEW c \in Nat \ {0}, NEW a \in Nat, NEW b \in Nat, a < b, b < a + c
  PROVE  a % c # b % c
<1> SUFFICES ASSUME a % c = b % c PROVE FALSE
  OBVIOUS
<1> DEFINE p == a \div c
           q == b \div c
           s == a % c
<1>1. p \in Nat /\ a = c * p + s /\ s \in 0 .. c-1
  BY DivMod
<1>2. q \in Nat /\ b = c * q + s
  BY DivMod
<1> HIDE DEF p, q, s
<1>3. CASE p < q
  <2>1. c * q >= c * p + c
    BY <1>1, <1>2, <1>3, MulGap
  <2> QED
    BY <2>1, <1>1, <1>2
<1>4. CASE q < p
  <2>1. c * p >= c * q + c
    BY <1>1, <1>2, <1>4, MulGap
  <2> QED
    BY <2>1, <1>1, <1>2
<1>5. CASE p = q
  BY <1>1, <1>2, <1>5
<1> QED
  BY <1>1, <1>2, <1>3, <1>4, <1>5

(* Taking the remainder by a multiple of c first changes nothing.          *)
LEMMA ModMod ==
  ASSUME NEW c \in Nat \ {0}, NEW m \in Nat \ {0}, NEW a \in Nat
  PROVE  /\ m * c \in Nat \ {0}
         /\ (a % (m * c)) % c = a % c
<1> DEFINE M == m * c
<1>1. M \in Nat \ {0}
  <2>1. PICK d \in Nat : m = 1 + d
    BY m - 1 \in Nat
  <2>2. M = c + d * c /\ d * c >= 0
    BY <2>1
  <2> QED
    BY <2>2
<1> DEFINE p == a \div M
           s == a % M
<1>2. p \in Nat /\ a = M * p + s /\ s \in 0 .. M-1
  BY <1>1, DivMod
<1>s. s \in Nat
  BY <1>2, <1>1
<1> HIDE DEF p, s
<1> DEFINE q == s \div c
           r == s % c
<1>3. q \in Nat /\ s = c * q + r /\ r \in 0 .. c-1
  BY <1>s, DivMod
<1> HIDE DEF q, r
<1>4. M * p = c * (m * p)
  BY <1>2
<1>5. m * p \in Nat
  BY <1>2
<1>6. a = c * (m * p + q) + r /\ m * p + q \in Nat
  BY <1>2, <1>3, <1>4, <1>5
<1>7. a % c = r
  BY <1>3, <1>6, RemainderUnique
<1> QED
  BY <1>1, <1>7 DEF r, s

(* Counting on from a remainder is counting on from the number itself.     *)
LEMMA ModSucc ==
  ASSUME NEW c \in Nat \ {0}, NEW a \in Nat
  PROVE  ((a % c) + 1) % c = (a + 1) % c
<1> DEFINE p == a \div c
           s == a % c
<1>1. p \in Nat /\ a = c * p + s /\ s \in 0 .. c-1
  BY DivMod
<1> HIDE DEF p, s
<1>2. CASE s + 1 < c
  <2>1. a + 1 = c * p + (s + 1) /\ s + 1 \in 0 .. c-1
    BY <1>1, <1>2
  <2>2. (a + 1) % c = s + 1
    BY <2>1, <1>1, RemainderUnique
  <2>3. s + 1 = c * 0 + (s + 1)
    BY <1>1
  <2>4. (s + 1) % c = s + 1
    BY <2>1, <2>3, RemainderUnique
  <2> QED
    BY <2>2, <2>4 DEF s
<1>3. CASE s + 1 = c
  <2>1. a + 1 = c * (p + 1) + 0 /\ p + 1 \in Nat /\ 0 \in 0 .. c-1
    BY <1>1, <1>3
  <2>r. (c * (p + 1) + 0) % c = 0
    BY <2>1, RemainderUnique
  <2>2. (a + 1) % c = 0
    BY <2>1, <2>r
  <2>3. s + 1 = c * 1 + 0
    BY <1>3
  <2>4. (s + 1) % c = 0
    BY <2>3, RemainderUnique
  <2> QED
    BY <2>2, <2>4 DEF s
<1> QED
  BY <1>1, <1>2, <1>3

(* A whole round does not change the place.                                *)
LEMMA ModRound ==
  ASSUME NEW c \in Nat \ {0}, NEW a \in Nat
  PROVE  (a + c) % c = a % c
<1> DEFINE p == a \div c
           s == a % c
<1>1. p \in Nat /\ a = c * p + s /\ s \in 0 .. c-1
  BY DivMod
<1> HIDE DEF p, s
<1>2. p + 1 \in Nat /\ a + c = c * (p + 1) + s
  BY <1>1
<1>3. (c * (p + 1) + s) % c = s
  BY <1>1, <1>2, RemainderUnique
<1> QED
  BY <1>2, <1>3 DEF s
=============================================================================

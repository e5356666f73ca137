---------------------------- MODULE NumberFacts ------------------------------
(***************************************************************************)
(* Facts about natural numbers and sets of them that the proofs about      *)
(* encodings and catalogs rest on.  Induction is stated for the set of the *)
(* numbers that have a property.                                           *)
(***************************************************************************)
EXTENDS Naturals, FiniteSetTheorems, WellFoundedInduction, TLAPS

\* The least-number principle.
LEMMA LeastNatural ==
  ASSUME NEW T \in SUBSET Nat, T # {}
  PROVE  \E m \in T : \A n \in T : m <= n
<1>1. PICK m \in T : \A n \in T : ~(<<n, m>> \in OpToRel(<, Nat))
  BY NatLessThanWellFounded, WFMin
<1>2. \A n \in T : ~(n < m)
  BY <1>1 DEF OpToRel
<1> QED
  BY <1>2

\* Induction over the natural numbers.
LEMMA SetInduction ==
  ASSUME NEW S, 0 \in S, \A n \in Nat : n \in S => n + 1 \in S
  PROVE  \A n \in Nat : n \in S
<1> SUFFICES ASSUME Nat \ S # {} PROVE FALSE
  OBVIOUS
<1>1. PICK m \in Nat \ S : \A n \in Nat \ S : m <= n
  <2> DEFINE T == Nat \ S
  <2>1. T \in SUBSET Nat /\ T # {}
    OBVIOUS
  <2> HIDE DEF T
  <2>2. \E m \in T : \A n \in T : m <= n
    BY <2>1, LeastNatural
  <2> QED
    BY <2>2 DEF T
<1>2. m # 0 /\ m - 1 \in Nat /\ (m - 1) + 1 = m
  BY <1>1
<1>3. m - 1 \in S
  BY <1>1, <1>2
<1> QED
  BY <1>1, <1>2, <1>3

-----------------------------------------------------------------------------
(***************************************************************************)
(* Powers of two.  They are known to the provers only as the number of     *)
(* subsets of a set, so that is where their arithmetic is taken from.      *)
(***************************************************************************)
LEMMA SubsetsOfInterval ==
  ASSUME NEW n \in Nat
  PROVE  IsFiniteSet(SUBSET (1..n)) /\ Cardinality(SUBSET (1..n)) = 2^n
<1>1. Cardinality(1..n) = n /\ IsFiniteSet(1..n)
  <2>1. IsFiniteSet(1..n) /\ Cardinality(1..n) = IF 1 > n THEN 0 ELSE n - 1 + 1
    BY FS_Interval
  <2> QED
    BY <2>1
<1>2. IsFiniteSet(SUBSET (1..n)) /\ Cardinality(SUBSET (1..n)) = 2^Cardinality(1..n)
  BY <1>1, FS_SUBSET
<1> QED
  BY <1>1, <1>2

\* The subsets of 1..n+1 are those of 1..n, once without n+1 and once with it.
LEMMA PowerDoubles ==
  ASSUME NEW n \in Nat
  PROVE  2^n \in Nat /\ 2^(n + 1) = 2 * 2^n
<1> DEFINE without == SUBSET (1..n)
           with    == {t \cup {n + 1} : t \in without}
           add     == [t \in without |-> t \cup {n + 1}]
<1>1. IsFiniteSet(without) /\ Cardinality(without) = 2^n
  BY SubsetsOfInterval
<1>2. Cardinality(SUBSET (1..n+1)) = 2^(n + 1)
  BY SubsetsOfInterval
<1>3. SUBSET (1..n+1) = without \cup with
  <2>1. ASSUME NEW s \in SUBSET (1..n+1), n + 1 \in s PROVE s \in with
    <3>1. s \ {n + 1} \in without /\ s = (s \ {n + 1}) \cup {n + 1}
      BY <2>1
    <3> QED
      BY <3>1
  <2>2. ASSUME NEW s \in SUBSET (1..n+1), n + 1 \notin s PROVE s \in without
    BY <2>2
  <2>3. without \subseteq SUBSET (1..n+1) /\ with \subseteq SUBSET (1..n+1)
    <3>1. 1..n \subseteq 1..n+1 /\ n + 1 \in 1..n+1
      OBVIOUS
    <3> QED
      BY <3>1
  <2> QED
    BY <2>1, <2>2, <2>3
<1>4. without \cap with = {}
  OBVIOUS
<1>5. add \in Bijection(without, with)
  <2>1. add \in [without -> with]
    OBVIOUS
  <2>2. \A a, b \in without : add[a] = add[b] => a = b
    <3> TAKE a, b \in without
    <3>1. n + 1 \notin a /\ n + 1 \notin b
      OBVIOUS
    <3>2. HAVE a \cup {n + 1} = b \cup {n + 1}
    <3> QED
      BY <3>1, <3>2
  <2>3. \A u \in with : \E t \in without : add[t] = u
    OBVIOUS
  <2> QED
    BY <2>1, <2>2, <2>3 DEF Bijection, Injection, Surjection, IsInjective
<1>6. IsFiniteSet(with) /\ Cardinality(with) = 2^n
  BY <1>1, <1>5, FS_Bijection DEF ExistsBijection
<1> HIDE DEF without, with, add
<1>7. Cardinality(without \cup with) = 2^n + 2^n - Cardinality({})
  BY <1>1, <1>4, <1>6, FS_Union
<1>8. Cardinality({}) = 0 /\ 2^n \in Nat
  BY <1>1, FS_EmptySet, FS_CardinalityType
<1>9. 2^(n + 1) = 2^n + 2^n - 0
  BY <1>2, <1>3, <1>7, <1>8
<1> QED
  BY <1>8, <1>9

LEMMA PowerOfZero == 2^0 = 1
<1>1. SUBSET (1..0) = {{}}
  OBVIOUS
<1>2. Cardinality({{}}) = 1
  BY FS_Singleton
<1> QED
  BY <1>1, <1>2, SubsetsOfInterval

LEMMA PowerPositive == \A n \in Nat : 2^n \in Nat /\ 2^n >= 1
<1> DEFINE P == {n \in Nat : 2^n >= 1}
<1>1. 0 \in P
  BY PowerOfZero
<1>2. \A n \in Nat : n \in P => n + 1 \in P
  BY PowerDoubles
<1>3. \A n \in Nat : n \in P
  <2> HIDE DEF P
  <2> QED
    BY <1>1, <1>2, SetInduction
<1> QED
  BY <1>3, PowerDoubles

LEMMA PowerOfSum == \A m, n \in Nat : 2^(m + n) = 2^m * 2^n
<1> SUFFICES ASSUME NEW m \in Nat PROVE \A n \in Nat : 2^(m + n) = 2^m * 2^n
  OBVIOUS
<1> DEFINE P == {n \in Nat : 2^(m + n) = 2^m * 2^n}
<1>1. 0 \in P
  BY PowerOfZero, PowerPositive
<1>2. \A n \in Nat : n \in P => n + 1 \in P
  <2> TAKE n \in Nat
  <2>1. HAVE 2^(m + n) = 2^m * 2^n
  <2>2. 2^(n + 1) = 2 * 2^n /\ 2^m \in Nat /\ 2^n \in Nat
    BY PowerDoubles
  <2>3. 2^(m + (n + 1)) = 2 * 2^(m + n)
    <3>1. m + n \in Nat /\ (m + n) + 1 = m + (n + 1)
      OBVIOUS
    <3> QED
      BY <3>1, PowerDoubles
  <2>4. \A a, b, c \in Nat : c = a * b => 2 * c = a * (2 * b)
    OBVIOUS
  <2> QED
    BY <2>1, <2>2, <2>3, <2>4
<1>3. \A n \in Nat : n \in P
  <2> HIDE DEF P
  <2> QED
    BY <1>1, <1>2, SetInduction
<1> QED
  BY <1>3

LEMMA PowerGrows ==
  \A m, n \in Nat : /\ m <= n => 2^m <= 2^n
                    /\ m < n => 2^m < 2^n
<1> TAKE m, n \in Nat
<1>1. ASSUME m <= n PROVE 2^m <= 2^n
  <2>1. n - m \in Nat /\ m + (n - m) = n
    BY <1>1
  <2>2. 2^n = 2^m * 2^(n - m)
    BY <2>1, PowerOfSum
  <2>3. \A a, b \in Nat : b >= 1 => a <= a * b
    OBVIOUS
  <2> QED
    BY <2>1, <2>2, <2>3, PowerPositive
<1>2. ASSUME m < n PROVE 2^m < 2^n
  <2>1. n - (m + 1) \in Nat /\ (m + 1) + (n - (m + 1)) = n /\ m + 1 \in Nat
    BY <1>2
  <2>2. 2^n = 2^(m + 1) * 2^(n - (m + 1))
    BY <2>1, PowerOfSum
  <2>3. \A a, b \in Nat : b >= 1 => a <= a * b
    OBVIOUS
  <2>4. 2^(m + 1) <= 2^n
    BY <2>1, <2>2, <2>3, PowerPositive
  <2>5. 2^(m + 1) = 2 * 2^m /\ 2^m >= 1 /\ 2^m \in Nat /\ 2^n \in Nat
    BY PowerDoubles, PowerPositive
  <2> QED
    BY <2>4, <2>5
<1> QED
  BY <1>1, <1>2

-----------------------------------------------------------------------------
(***************************************************************************)
(* Division: quotient and remainder are the only ones, and dividing by a   *)
(* product is dividing twice.                                              *)
(***************************************************************************)
LEMMA ProductInNat == \A a, b \in Nat : a * b \in Nat
OBVIOUS

LEMMA Division ==
  ASSUME NEW a \in Nat, NEW d \in Nat, d >= 1
  PROVE  /\ a \div d \in Nat /\ a % d \in 0..d-1
         /\ a = d * (a \div d) + (a % d)
OBVIOUS

LEMMA DivisionUnique ==
  ASSUME NEW a \in Nat, NEW d \in Nat, NEW q \in Nat, NEW r \in Nat,
         a = d * q + r, r < d
  PROVE  a \div d = q /\ a % d = r
<1>0. d >= 1
  OBVIOUS
<1>1. a = d * (a \div d) + (a % d) /\ a \div d \in Nat /\ a % d \in 0..d-1
  BY <1>0, Division
<1>2. \A x, y, s, t \in Nat : d * x + s = d * y + t /\ s < d /\ t < d => x <= y
  <2> TAKE x, y, s, t \in Nat
  <2> SUFFICES ASSUME d * x + s = d * y + t, s < d, t < d, x >= y + 1 PROVE FALSE
    OBVIOUS
  <2>1. d * x >= d * (y + 1)
    OBVIOUS
  <2>2. d * (y + 1) = d * y + d
    OBVIOUS
  <2> QED
    BY <2>1, <2>2
<1>3. a \div d = q
  BY <1>1, <1>2
<1> QED
  BY <1>1, <1>3

LEMMA DivisionByProduct ==
  ASSUME NEW w \in Nat, NEW b \in Nat, NEW c \in Nat, b >= 1, c >= 1
  PROVE  /\ (w \div b) \div c = w \div (b * c)
         /\ w % (b * c) = b * ((w \div b) % c) + (w % b)
<1> DEFINE q  == w \div b
           r  == w % b
           q2 == q \div c
           r2 == q % c
<1>1. q \in Nat /\ r \in 0..b-1 /\ w = b * q + r
  BY Division
<1>2. q2 \in Nat /\ r2 \in 0..c-1 /\ q = c * q2 + r2
  BY <1>1, Division
<1> HIDE DEF q, r, q2, r2
<1>3. w = (b * c) * q2 + (b * r2 + r)
  BY <1>1, <1>2
<1>4. b * r2 + r < b * c
  <2>1. b * r2 <= b * (c - 1)
    BY <1>2
  <2>2. b * (c - 1) = b * c - b
    OBVIOUS
  <2> QED
    BY <1>1, <1>2, <2>1, <2>2
<1>5. b * c \in Nat /\ b * r2 + r \in Nat
  BY <1>1, <1>2
<1>6. w \div (b * c) = q2 /\ w % (b * c) = b * r2 + r
  BY <1>2, <1>3, <1>4, <1>5, DivisionUnique
<1> QED
  BY <1>6 DEF q, r, q2, r2
=============================================================================

----------------------------- MODULE CodecProofs ----------------------------
(***************************************************************************)
(* Proofs about the wire format (moqt/draft18/varint.go and codec.go):     *)
(* what is read back, by the table and in how many bytes; what a decoder   *)
(* makes of bytes that go on; what a SETUP that decodes looks like; that   *)
(* what is encoded decodes again, up to the SETUP and the SUBSCRIBE that   *)
(* are sent, and how long these are.                                       *)
(*                                                                         *)
(* All of them hold for every ByteBits >= 2, so for the 8 of the code, and *)
(* for strings of any length.  Recursive definitions are read through a    *)
(* function that satisfies their equation and is shown to exist: prefix    *)
(* by prefix for a number and for the splitting of a namespace, by what is *)
(* left for a SETUP and for the fields of a namespace.                     *)
(***************************************************************************)
EXTENDS Messages, Requests, NumberFacts, SequenceTheorems, FiniteSetTheorems

LEMMA DividedTwice ==
  \A w, b, c \in Nat : b >= 1 /\ c >= 1 => (w \div b) \div c = w \div (b * c)
<1> TAKE w, b, c \in Nat
<1> HAVE b >= 1 /\ c >= 1
<1> QED
  BY DivisionByProduct

LEMMA BytesRegroup == \A a, b, c \in Seq(Byte) : (a \o b) \o c = a \o (b \o c)
BY ConcatAssociative

\* The same, for provers that would regroup for ever.
Regroups(a, b, c) == (a \o b) \o c = a \o (b \o c)

LEMMA AllRegroup == \A a, b, c \in Seq(Byte) : Regroups(a, b, c)
BY BytesRegroup DEF Regroups

LEMMA DigitsHavePrefixes ==
  ASSUME NEW base \in Nat, NEW s \in Seq(Nat)
  PROVE  \E u \in [0..Len(s) -> Nat] :
           /\ u[0] = 0
           /\ \A i \in 1..Len(s) : u[i] = base * u[i - 1] + s[i]
<1> DEFINE Upto(n, u) == /\ u \in [0..n -> Nat] /\ u[0] = 0
                         /\ \A i \in 1..n : u[i] = base * u[i - 1] + s[i]
           P == {n \in Nat : n <= Len(s) => \E u : Upto(n, u)}
<1>1. 0 \in P
  <2>1. Upto(0, [i \in 0..0 |-> 0])
    OBVIOUS
  <2> QED
    BY <2>1
<1>2. \A n \in Nat : n \in P => n + 1 \in P
  <2> SUFFICES ASSUME NEW n \in Nat, n \in P, n + 1 <= Len(s) PROVE \E w : Upto(n + 1, w)
    <3> HIDE DEF Upto
    <3> QED
      OBVIOUS
  <2>0. PICK u : Upto(n, u)
    <3> HIDE DEF Upto
    <3> QED
      OBVIOUS
  <2> DEFINE w == [i \in 0..n+1 |-> IF i <= n THEN u[i] ELSE base * u[n] + s[n + 1]]
  <2>1. u[n] \in Nat /\ s[n + 1] \in Nat
    BY <2>0
  <2>2. base * u[n] + s[n + 1] \in Nat
    <3> DEFINE x == base * u[n]
               y == s[n + 1]
    <3>1. x \in Nat /\ y \in Nat
      BY <2>1, ProductInNat
    <3> HIDE DEF x, y
    <3>2. x + y \in Nat
      BY <3>1
    <3> QED
      BY <3>2 DEF x, y
  <2>3. w \in [0..n+1 -> Nat] /\ w[0] = 0
    BY <2>0, <2>2
  <2>4. \A i \in 1..n+1 : w[i] = base * w[i - 1] + s[i]
    <3> TAKE i \in 1..n+1
    <3>1. CASE i <= n
      BY <2>0, <3>1
    <3>2. CASE i = n + 1
      BY <3>2
    <3> QED
      BY <3>1, <3>2
  <2> QED
    BY <2>3, <2>4
<1>3. Len(s) \in P
  <2> HIDE DEF P
  <2> QED
    BY <1>1, <1>2, SetInduction
<1> QED
  BY <1>3

\* The value of a number's first i digits, for every i.
LEMMA NumberByDigits ==
  ASSUME NEW base \in Nat, NEW s \in Seq(Nat)
  PROVE  \E u \in [0..Len(s) -> Nat] :
           /\ u[0] = 0
           /\ \A i \in 1..Len(s) : u[i] = base * u[i - 1] + s[i]
           /\ Number(base, s) = u[Len(s)]
<1> DEFINE Rec(f) == f = [i \in 0..Len(s) |-> IF i = 0 THEN 0 ELSE base * f[i - 1] + s[i]]
           g == CHOOSE f : Rec(f)
<1>1. PICK u \in [0..Len(s) -> Nat] : /\ u[0] = 0
                                      /\ \A i \in 1..Len(s) : u[i] = base * u[i - 1] + s[i]
  BY DigitsHavePrefixes
<1>2. Rec(u)
  BY <1>1
<1>3. Rec(g)
  BY <1>2
<1>4. Number(base, s) = g[Len(s)]
  BY DEF Number
<1> HIDE DEF g
<1>5. g[0] = 0 /\ \A i \in 1..Len(s) : g[i] = base * g[i - 1] + s[i]
  <2>1. g[0] = 0
    BY <1>3
  <2>2. ASSUME NEW i \in 1..Len(s) PROVE g[i] = base * g[i - 1] + s[i]
    <3>1. i \in 0..Len(s) /\ i # 0
      OBVIOUS
    <3> QED
      BY <1>3, <3>1
  <2> QED
    BY <2>1, <2>2
<1>6. \A i \in Nat : i \in {n \in Nat : n <= Len(s) => g[n] = u[n]}
  <2> DEFINE P == {n \in Nat : n <= Len(s) => g[n] = u[n]}
  <2>1. 0 \in P
    BY <1>1, <1>5
  <2>2. \A n \in Nat : n \in P => n + 1 \in P
    BY <1>1, <1>5
  <2> HIDE DEF P
  <2>3. \A n \in Nat : n \in P
    BY <2>1, <2>2, SetInduction
  <2> QED
    BY <2>3 DEF P
<1>7. g[Len(s)] = u[Len(s)]
  BY <1>6
<1> QED
  BY <1>1, <1>4, <1>7

-----------------------------------------------------------------------------
(***************************************************************************)
(* Shifts.                                                                 *)
(***************************************************************************)
LEMMA Shifts ==
  /\ ByteBits \in Nat /\ ByteBits >= 2
  /\ Shift(0) = 1
  /\ \A k \in Nat : Shift(k) \in Nat /\ Shift(k) >= 1 /\ Shift(k + 1) = Base * Shift(k)
  /\ Base = 2^ByteBits /\ Base \in Nat /\ Base >= 4
<1>1. ByteBits \in Nat /\ ByteBits >= 2
  BY VarintAssumption
<1>2. \A k \in Nat : ByteBits * k \in Nat
  BY <1>1, ProductInNat
<1>3. Shift(0) = 1
  <2>1. ByteBits * 0 = 0
    BY <1>1
  <2> QED
    BY <2>1, PowerOfZero DEF Shift
<1>4. Base = 2^ByteBits
  <2>1. ByteBits * 1 = ByteBits
    BY <1>1
  <2> QED
    BY <2>1 DEF Base, Shift
<1>5. \A k \in Nat : Shift(k) \in Nat /\ Shift(k) >= 1
  BY <1>2, PowerPositive DEF Shift
<1>6. ASSUME NEW k \in Nat PROVE Shift(k + 1) = Base * Shift(k)
  <2>1. ByteBits * (k + 1) = ByteBits + ByteBits * k
    BY <1>1
  <2>2. 2^(ByteBits + ByteBits * k) = 2^ByteBits * 2^(ByteBits * k)
    BY <1>1, <1>2, PowerOfSum
  <2> QED
    BY <1>4, <2>1, <2>2 DEF Shift
<1>7. Base >= 4
  <2>1. 2^(0 + 1) = 2 * 2^0 /\ 2^(1 + 1) = 2 * 2^1
    BY PowerDoubles
  <2>2. 2^2 = 4
    BY <2>1, PowerOfZero
  <2>3. 2^2 <= 2^ByteBits
    BY <1>1, PowerGrows
  <2> QED
    BY <1>4, <2>2, <2>3
<1>8. Base \in Nat
  BY <1>1, <1>4, PowerPositive
<1> QED
  BY <1>1, <1>3, <1>4, <1>5, <1>6, <1>7, <1>8

LEMMA ByteIsNumber == \A x : x \in Byte <=> x \in Nat /\ x < Base
<1>1. Base \in Nat /\ Base >= 4
  BY Shifts
<1> HIDE DEF Base
<1> QED
  BY <1>1 DEF Byte

LEMMA BytesAreNumbers ==
  ASSUME NEW b \in Seq(Byte)
  PROVE  b \in Seq(Nat) /\ \A i \in 1..Len(b) : b[i] \in Byte /\ b[i] \in Nat /\ b[i] < Base
<1>1. \A i \in 1..Len(b) : b[i] \in Byte
  OBVIOUS
<1>2. \A i \in 1..Len(b) : b[i] \in Nat /\ b[i] < Base
  BY <1>1, ByteIsNumber
<1>3. b \in [1..Len(b) -> Nat] /\ Len(b) \in Nat
  <2>1. b = [i \in 1..Len(b) |-> b[i]]
    OBVIOUS
  <2> QED
    BY <1>2, <2>1
<1> QED
  BY <1>1, <1>2, <1>3

\* The number made of k bytes is less than Shift(k).
LEMMA UintFits ==
  ASSUME NEW b \in Seq(Byte)
  PROVE  Uint(b) \in Nat /\ Uint(b) < Shift(Len(b))
<1>1. b \in Seq(Nat)
  BY BytesAreNumbers
<1>2. PICK u \in [0..Len(b) -> Nat] : /\ u[0] = 0
                                      /\ \A i \in 1..Len(b) : u[i] = Base * u[i - 1] + b[i]
                                      /\ Number(Base, b) = u[Len(b)]
  BY <1>1, Shifts, NumberByDigits
<1> DEFINE P == {i \in Nat : i <= Len(b) => u[i] < Shift(i)}
<1>3. 0 \in P
  BY <1>2, Shifts
<1>4. ASSUME NEW i \in Nat, i \in P PROVE i + 1 \in P
  <2> SUFFICES ASSUME i + 1 <= Len(b) PROVE u[i + 1] < Shift(i + 1)
    OBVIOUS
  <2>1. u[i] \in Nat /\ u[i] < Shift(i) /\ u[i + 1] = Base * u[i] + b[i + 1]
    BY <1>2, <1>4
  <2>3. b[i + 1] \in Nat /\ b[i + 1] < Base
    BY BytesAreNumbers
  <2>4. \A base, x, y, d \in Nat : x < y /\ d < base => base * x + d < base * y
    <3> TAKE base, x, y, d \in Nat
    <3> HAVE x < y /\ d < base
    <3>1. base * (x + 1) <= base * y
      OBVIOUS
    <3>2. base * (x + 1) = base * x + base
      OBVIOUS
    <3> QED
      BY <3>1, <3>2
  <2>5. Shift(i) \in Nat /\ Shift(i + 1) = Base * Shift(i) /\ Base \in Nat
    BY Shifts
  <2> QED
    BY <2>1, <2>3, <2>4, <2>5
<1>5. Len(b) \in P
  <2> HIDE DEF P
  <2> QED
    BY <1>3, <1>4, SetInduction
<1> QED
  BY <1>2, <1>5 DEF Uint

\* Written big-endian in k bytes, a number is read as its remainder.
LEMMA BigEndianReadBack ==
  ASSUME NEW v \in Nat, NEW k \in Nat
  PROVE  /\ BigEndian(v, k) \in Seq(Byte) /\ Len(BigEndian(v, k)) = k
         /\ Uint(BigEndian(v, k)) = v % Shift(k)
<1> DEFINE b == BigEndian(v, k)
<1>1. ASSUME NEW i \in 0..k PROVE v \div Shift(k - i) \in Nat
  <2>1. Shift(k - i) \in Nat /\ Shift(k - i) >= 1
    BY Shifts
  <2> QED
    BY <2>1, Division
<1>2. b \in Seq(Byte) /\ Len(b) = k /\ \A i \in 1..k : b[i] = (v \div Shift(k - i)) % Base
  <2>1. ASSUME NEW i \in 1..k PROVE (v \div Shift(k - i)) % Base \in Byte
    <3>1. v \div Shift(k - i) \in Nat /\ Base \in Nat /\ Base >= 1
      BY <1>1, Shifts
    <3>2. (v \div Shift(k - i)) % Base \in 0..Base-1
      BY <3>1, Division
    <3> QED
      BY <3>2 DEF Byte
  <2>2. b = [i \in 1..k |-> (v \div Shift(k - i)) % Base]
    BY DEF BigEndian
  <2> HIDE DEF b
  <2>3. b \in Seq(Byte) /\ Len(b) = k
    BY <2>1, <2>2
  <2> QED
    BY <2>2, <2>3
<1> HIDE DEF b
<1>3. b \in Seq(Nat)
  BY <1>2, BytesAreNumbers
<1>4. PICK u \in [0..Len(b) -> Nat] : /\ u[0] = 0
                                      /\ \A i \in 1..Len(b) : u[i] = Base * u[i - 1] + b[i]
                                      /\ Number(Base, b) = u[Len(b)]
  BY <1>3, Shifts, NumberByDigits
<1> DEFINE P == {i \in Nat : i <= k => u[i] = (v \div Shift(k - i)) % Shift(i)}
<1>5. 0 \in P
  <2>1. \A x \in Nat : x % 1 = 0
    OBVIOUS
  <2>2. (v \div Shift(k - 0)) % 1 = 0
    BY <1>1, <2>1
  <2> QED
    BY <1>4, <2>2, Shifts
<1>6. ASSUME NEW i \in Nat, i \in P PROVE i + 1 \in P
  <2> SUFFICES ASSUME i + 1 <= k PROVE u[i + 1] = (v \div Shift(k - (i + 1))) % Shift(i + 1)
    OBVIOUS
  <2> DEFINE w == v \div Shift(k - (i + 1))
             j == k - (i + 1)
  <2>1. u[i + 1] = Base * u[i] + b[i + 1] /\ u[i] = (v \div Shift(k - i)) % Shift(i)
    BY <1>2, <1>4, <1>6
  <2>2. b[i + 1] = w % Base
    BY <1>2
  <2>3. w \in Nat /\ j \in Nat /\ j + 1 = k - i
    BY <1>1
  <2>4. Shift(k - i) = Base * Shift(j) /\ Shift(i + 1) = Base * Shift(i)
    BY <2>3, Shifts
  <2>5. v \div Shift(k - i) = w \div Base
    <3>1. Base * Shift(j) = Shift(j) * Base
      BY <2>3, Shifts
    <3>2. (v \div Shift(j)) \div Base = v \div (Shift(j) * Base)
      <4> DEFINE x == Shift(j)
                 y == Base
      <4>1. x \in Nat /\ x >= 1 /\ y \in Nat /\ y >= 1 /\ v \in Nat
        BY <2>3, Shifts
      <4> HIDE DEF j, x, y
      <4>2. (v \div x) \div y = v \div (x * y)
        <5>1. x \in Nat /\ y \in Nat
          BY ONLY <4>1
        <5> QED
          BY ONLY <4>1, <5>1, DividedTwice
      <4> QED
        BY <4>2 DEF x, y
    <3> QED
      BY <2>4, <3>1, <3>2
  <2>6. w % (Base * Shift(i)) = Base * ((w \div Base) % Shift(i)) + (w % Base)
    <3>1. Shift(i) \in Nat /\ Shift(i) >= 1
      BY Shifts
    <3>2. Base \in Nat /\ Base >= 1
      BY Shifts
    <3> HIDE DEF w
    <3> QED
      BY <2>3, <3>1, <3>2, DivisionByProduct
  <2> QED
    BY <2>1, <2>2, <2>4, <2>5, <2>6
<1>7. k \in P
  <2> HIDE DEF P
  <2> QED
    BY <1>5, <1>6, SetInduction
<1>8. v \div Shift(k - k) = v
  BY Shifts
<1> QED
  BY <1>2, <1>4, <1>7, <1>8 DEF Uint, b

-----------------------------------------------------------------------------
(***************************************************************************)
(* The first byte: how many bytes follow is said by its leading ones, and  *)
(* by nothing else.                                                        *)
(***************************************************************************)
HasOnes(b, k) == /\ b >= Base - 2^(ByteBits - k)
                 /\ k = ByteBits \/ b < Base - 2^(ByteBits - k - 1)

LEMMA OnesExist ==
  ASSUME NEW b \in Byte
  PROVE  \E k \in 0..ByteBits : HasOnes(b, k)
<1> DEFINE T == {k \in 0..ByteBits : k = ByteBits \/ b < Base - 2^(ByteBits - k - 1)}
<1>1. ByteBits \in Nat /\ Base = 2^ByteBits /\ Base \in Nat /\ b \in Nat
  BY Shifts, ByteIsNumber
<1>2. T \in SUBSET Nat /\ T # {}
  BY <1>1
<1>3. PICK k \in T : \A n \in T : k <= n
  <2> HIDE DEF T
  <2> QED
    BY <1>2, LeastNatural
<1>4. CASE k = 0
  <2>1. ByteBits - 0 = ByteBits
    BY <1>1
  <2>2. b >= Base - 2^(ByteBits - 0)
    BY <1>1, <2>1
  <2> QED
    BY <1>1, <1>3, <1>4, <2>2 DEF HasOnes
<1>5. CASE k # 0
  <2>1. k - 1 \in 0..ByteBits /\ k - 1 \notin T
    <3>1. k \in 1..ByteBits /\ k - 1 \in Nat /\ ~(k <= k - 1)
      BY <1>1, <1>3, <1>5
    <3>2. k - 1 \notin T
      <4> HIDE DEF T
      <4> QED
        BY <1>3, <3>1
    <3> QED
      BY <1>1, <3>1, <3>2
  <2>2. ByteBits - (k - 1) - 1 = ByteBits - k /\ ByteBits - k \in Nat
    BY <1>1, <1>3
  <2>3. ~(b < Base - 2^(ByteBits - k))
    BY <2>1, <2>2
  <2>4. 2^(ByteBits - k) \in Nat
    BY <2>2, PowerPositive
  <2>5. b >= Base - 2^(ByteBits - k)
    BY <1>1, <2>3, <2>4
  <2> QED
    BY <1>3, <2>5 DEF HasOnes
<1> QED
  BY <1>4, <1>5

LEMMA OnesUnique ==
  ASSUME NEW b \in Byte, NEW j \in 0..ByteBits, NEW k \in 0..ByteBits,
         HasOnes(b, j), HasOnes(b, k)
  PROVE  j = k
<1>1. ByteBits \in Nat /\ Base \in Nat /\ b \in Nat
  BY Shifts, ByteIsNumber
<1>2. ASSUME NEW m \in 0..ByteBits, NEW n \in 0..ByteBits, HasOnes(b, m), HasOnes(b, n), m < n
      PROVE  FALSE
  <2>1. ByteBits - m - 1 \in Nat /\ ByteBits - n \in Nat /\ ByteBits - n <= ByteBits - m - 1
    BY <1>1, <1>2
  <2>2. 2^(ByteBits - n) <= 2^(ByteBits - m - 1)
    BY <2>1, PowerGrows
  <2>3. 2^(ByteBits - n) \in Nat /\ 2^(ByteBits - m - 1) \in Nat
    BY <2>1, PowerPositive
  <2>4. b < Base - 2^(ByteBits - m - 1) /\ b >= Base - 2^(ByteBits - n)
    BY <1>1, <1>2 DEF HasOnes
  <2> QED
    BY <1>1, <2>2, <2>3, <2>4
<1> QED
  BY <1>1, <1>2

LEMMA LeadingOnesOf ==
  ASSUME NEW b \in Byte
  PROVE  /\ LeadingOnes(b) \in 0..ByteBits
         /\ HasOnes(b, LeadingOnes(b))
         /\ \A k \in 0..ByteBits : HasOnes(b, k) => LeadingOnes(b) = k
<1>1. LeadingOnes(b) = CHOOSE k \in 0..ByteBits : HasOnes(b, k)
  BY DEF LeadingOnes, HasOnes
<1>2. \E k \in 0..ByteBits : HasOnes(b, k)
  BY OnesExist
<1>3. LeadingOnes(b) \in 0..ByteBits /\ HasOnes(b, LeadingOnes(b))
  BY <1>1, <1>2
<1> QED
  BY <1>3, OnesUnique

-----------------------------------------------------------------------------
(***************************************************************************)
(* The sizes of the table.                                                 *)
(***************************************************************************)
LEMMA Limits ==
  /\ \A n \in 1..ByteBits : /\ n * (ByteBits - 1) \in Nat
                            /\ MaxValue(n) = 2^(n * (ByteBits - 1)) - 1
                            /\ MaxValue(n) \in Nat
  /\ MaxValue(ByteBits + 1) = MaxUint
  /\ MaxUint = Shift(ByteBits) - 1 /\ MaxUint \in Nat
<1>1. ByteBits \in Nat /\ ByteBits >= 2
  BY Shifts
<1>2. ASSUME NEW n \in 1..ByteBits
      PROVE  n * (ByteBits - 1) \in Nat /\ MaxValue(n) = 2^(n * (ByteBits - 1)) - 1
  <2>1. n \in Nat /\ ByteBits - 1 \in Nat /\ n <= ByteBits
    BY <1>1
  <2> QED
    BY <2>1, ProductInNat DEF MaxValue
<1>3. ASSUME NEW n \in 1..ByteBits PROVE MaxValue(n) \in Nat
  <2>1. 2^(n * (ByteBits - 1)) \in Nat /\ 2^(n * (ByteBits - 1)) >= 1
    BY <1>2, PowerPositive
  <2> QED
    BY <1>2, <2>1
<1>4. MaxValue(ByteBits + 1) = MaxUint
  BY <1>1 DEF MaxValue
<1>5. MaxUint = Shift(ByteBits) - 1 /\ MaxUint \in Nat
  <2>1. Shift(ByteBits) \in Nat /\ Shift(ByteBits) >= 1
    BY Shifts
  <2> QED
    BY <2>1 DEF MaxUint
<1> QED
  BY <1>2, <1>3, <1>4, <1>5

LEMMA SizeIsLeast ==
  ASSUME NEW v \in 0..MaxUint
  PROVE  /\ varintSize(v) \in 1..ByteBits+1
         /\ v <= MaxValue(varintSize(v))
         /\ \A m \in 1..varintSize(v)-1 : v > MaxValue(m)
<1> DEFINE T == {n \in 1..ByteBits+1 : v <= MaxValue(n)}
<1>1. ByteBits \in Nat /\ v \in Nat /\ v <= MaxUint /\ MaxValue(ByteBits + 1) = MaxUint
  BY Shifts, Limits
<1>2. T \in SUBSET Nat /\ T # {}
  BY <1>1
<1>3. PICK n \in T : \A m \in T : n <= m
  <2> HIDE DEF T
  <2> QED
    BY <1>2, LeastNatural
<1>4. ASSUME NEW m \in 1..n-1 PROVE v > MaxValue(m)
  <2>1. m \in 1..ByteBits /\ ~(n <= m)
    BY <1>1, <1>3
  <2>2. m \notin T
    <3> HIDE DEF T
    <3> QED
      BY <1>3, <2>1
  <2>3. MaxValue(m) \in Nat /\ m \in 1..ByteBits+1
    BY <1>1, <2>1, Limits
  <2> QED
    BY <1>1, <2>2, <2>3
<1>5. \E k \in 1..ByteBits+1 : v <= MaxValue(k) /\ \A m \in 1..k-1 : v > MaxValue(m)
  BY <1>3, <1>4
<1> QED
  BY <1>5 DEF varintSize

\* What e bytes after the first can hold, given that the first has e leading ones.
LEMMA DecodedFits ==
  ASSUME NEW first \in Byte, NEW rest \in Seq(Byte), Len(rest) <= ByteBits
  PROVE  /\ decodeVarintBytes(first, rest) \in Nat
         /\ decodeVarintBytes(first, rest) <= MaxValue(Len(rest) + 1)
<1> DEFINE e == Len(rest)
<1>1. ByteBits \in Nat /\ ByteBits >= 2 /\ e \in Nat /\ first \in Nat /\ e <= ByteBits
  BY Shifts, ByteIsNumber
<1>2. Uint(rest) \in Nat /\ Uint(rest) < Shift(e) /\ Shift(e) \in Nat
  BY UintFits, Shifts
<1> HIDE DEF e
<1>3. CASE e = ByteBits
  <2>1. decodeVarintBytes(first, rest) = Uint(rest)
    BY <1>1, <1>3 DEF decodeVarintBytes, e
  <2> QED
    BY <1>1, <1>2, <1>3, <2>1, Limits DEF e
<1>4. CASE e = ByteBits - 1
  <2>1. decodeVarintBytes(first, rest) = Uint(rest)
    BY <1>1, <1>4 DEF decodeVarintBytes, e
  <2>2. e + 1 = ByteBits /\ ByteBits \in 1..ByteBits
    BY <1>1, <1>4
  <2>3. MaxValue(e + 1) = Shift(e) - 1
    BY <1>4, <2>2, Limits DEF Shift
  <2> QED
    BY <1>2, <2>1, <2>3 DEF e
<1>5. CASE e < ByteBits - 1
  <2> DEFINE d == first % 2^(ByteBits - 1 - e)
             p == 2^(ByteBits - 1 - e)
  <2>1. decodeVarintBytes(first, rest) = d * Shift(e) + Uint(rest)
    BY <1>1, <1>5 DEF decodeVarintBytes, e
  <2>2. ByteBits - 1 - e \in Nat /\ e + 1 \in 1..ByteBits
    BY <1>1, <1>5
  <2>3. p \in Nat /\ p >= 1
    BY <2>2, PowerPositive
  <2>4. d \in Nat /\ d < p
    <3>1. first % p \in 0..p-1
      <4> HIDE DEF p
      <4> QED
        BY <1>1, <2>3, Division
    <3> QED
      BY <2>3, <3>1
  <2>5. (e + 1) * (ByteBits - 1) = (ByteBits - 1 - e) + ByteBits * e
    BY <1>1
  <2>6. ByteBits * e \in Nat
    BY <1>1, ProductInNat
  <2>7. 2^((e + 1) * (ByteBits - 1)) = p * Shift(e)
    BY <2>2, <2>5, <2>6, PowerOfSum DEF Shift
  <2>8. MaxValue(e + 1) = p * Shift(e) - 1
    BY <2>2, <2>7, Limits
  <2> HIDE DEF d, p
  <2>9. d * Shift(e) + Uint(rest) <= p * Shift(e) - 1 /\ d * Shift(e) + Uint(rest) \in Nat
    <3>1. \A x, y, s, u \in Nat : x < y /\ u < s => x * s + u <= y * s - 1
      <4> TAKE x, y, s, u \in Nat
      <4> HAVE x < y /\ u < s
      <4>1. (x + 1) * s <= y * s /\ (x + 1) * s = x * s + s
        OBVIOUS
      <4> QED
        BY <4>1
    <3>2. d * Shift(e) \in Nat
      BY <1>2, <2>4, ProductInNat
    <3> QED
      BY <1>2, <2>3, <2>4, <3>1, <3>2
  <2> QED
    BY <2>1, <2>8, <2>9 DEF e
<1> QED
  BY <1>1, <1>3, <1>4, <1>5

-----------------------------------------------------------------------------
(***************************************************************************)
(* The three forms of an encoded integer.                                  *)
(***************************************************************************)
EncodedAs(v, first, e) ==
  /\ Integer(v) = <<first>> \o BigEndian(v, e)
  /\ first \in Byte
  /\ LeadingOnes(first) = e
  /\ decodeVarintBytes(first, BigEndian(v, e)) = v

LEMMA OneByteForm ==
  ASSUME NEW v \in 0..MaxUint, varintSize(v) = 1
  PROVE  EncodedAs(v, v, 0)
<1>1. ByteBits \in Nat /\ ByteBits >= 2 /\ Base = 2^ByteBits /\ Base \in Nat /\ v \in Nat
  BY Shifts, Limits
<1>2. ByteBits - 1 \in Nat /\ (ByteBits - 1) + 1 = ByteBits /\ 1 \in 1..ByteBits
      /\ 1 * (ByteBits - 1) = ByteBits - 1
  BY <1>1
<1>3. Base = 2 * 2^(ByteBits - 1) /\ 2^(ByteBits - 1) \in Nat
  BY <1>1, <1>2, PowerDoubles
<1>4. v < 2^(ByteBits - 1)
  <2>1. v <= MaxValue(1)
    BY SizeIsLeast
  <2>2. MaxValue(1) = 2^(ByteBits - 1) - 1
    BY <1>2, Limits
  <2> QED
    BY <1>1, <1>3, <2>1, <2>2
<1>5. v \in Byte
  BY <1>1, <1>3, <1>4, ByteIsNumber
<1>6. LeadingOnes(v) = 0
  <2>1. ByteBits - 0 = ByteBits /\ ByteBits - 0 - 1 = ByteBits - 1
    BY <1>1
  <2>2. HasOnes(v, 0)
    BY <1>1, <1>3, <1>4, <2>1 DEF HasOnes
  <2>3. 0 \in 0..ByteBits
    BY <1>1
  <2> QED
    BY <1>5, <2>2, <2>3, LeadingOnesOf
<1>7. BigEndian(v, 0) = <<>>
  BY <1>1, BigEndianReadBack
<1>8. Integer(v) = <<v>> \o BigEndian(v, 0)
  <2>1. Integer(v) = <<>> \o <<v>>
    <3>1. 1 # ByteBits + 1
      BY <1>1
    <3> QED
      BY <3>1 DEF Integer, AppendVarint
  <2>2. <<>> \o <<v>> = <<v>> /\ <<v>> \o <<>> = <<v>>
    OBVIOUS
  <2> QED
    BY <1>7, <2>1, <2>2
<1>9. decodeVarintBytes(v, BigEndian(v, 0)) = v
  <2>1. Uint(BigEndian(v, 0)) = v % Shift(0) /\ Len(BigEndian(v, 0)) = 0 /\ v % 1 = 0
    BY <1>1, BigEndianReadBack
  <2>2. ByteBits - 1 - 0 = ByteBits - 1 /\ ~(0 >= ByteBits - 1)
    BY <1>1
  <2>3. decodeVarintBytes(v, BigEndian(v, 0))
          = (v % 2^(ByteBits - 1)) * Shift(0) + Uint(BigEndian(v, 0))
    BY <2>1, <2>2 DEF decodeVarintBytes
  <2>4. v % 2^(ByteBits - 1) = v
    BY <1>1, <1>3, <1>4
  <2>5. v * 1 + 0 = v /\ Shift(0) = 1
    BY <1>1, Shifts
  <2> QED
    BY <2>1, <2>3, <2>4, <2>5
<1> QED
  BY <1>5, <1>6, <1>8, <1>9 DEF EncodedAs

LEMMA LongestForm ==
  ASSUME NEW v \in 0..MaxUint, varintSize(v) = ByteBits + 1
  PROVE  EncodedAs(v, Base - 1, ByteBits)
<1>1. ByteBits \in Nat /\ ByteBits >= 2 /\ Base \in Nat /\ Base >= 4 /\ v \in Nat
  BY Shifts, Limits
<1>2. Base - 1 \in Byte
  BY <1>1, ByteIsNumber
<1>3. LeadingOnes(Base - 1) = ByteBits
  <2>1. ByteBits - ByteBits = 0 /\ ByteBits \in 0..ByteBits
    BY <1>1
  <2>2. HasOnes(Base - 1, ByteBits)
    BY <1>1, <2>1, PowerOfZero DEF HasOnes
  <2> QED
    BY <1>2, <2>1, <2>2, LeadingOnesOf
<1>4. BigEndian(v, ByteBits) \in Seq(Byte) /\ Len(BigEndian(v, ByteBits)) = ByteBits
      /\ Uint(BigEndian(v, ByteBits)) = v % Shift(ByteBits)
  BY <1>1, BigEndianReadBack
<1>5. Integer(v) = <<Base - 1>> \o BigEndian(v, ByteBits)
  <2>1. ByteBits + 1 # 1
    BY <1>1
  <2>2. Integer(v) = <<>> \o (<<Base - 1>> \o BigEndian(v, ByteBits))
    BY <2>1 DEF Integer, AppendVarint
  <2>3. <<Base - 1>> \o BigEndian(v, ByteBits) \in Seq(Byte)
    BY <1>2, <1>4
  <2>4. \A s \in Seq(Byte) : <<>> \o s = s
    OBVIOUS
  <2> QED
    BY <2>2, <2>3, <2>4
<1>6. decodeVarintBytes(Base - 1, BigEndian(v, ByteBits)) = v
  <2>1. ByteBits >= ByteBits - 1
    BY <1>1
  <2>2. decodeVarintBytes(Base - 1, BigEndian(v, ByteBits)) = v % Shift(ByteBits)
    BY <1>4, <2>1 DEF decodeVarintBytes
  <2>3. v < Shift(ByteBits) /\ Shift(ByteBits) \in Nat
    BY <1>1, Limits, Shifts
  <2> QED
    BY <1>1, <2>2, <2>3
<1> QED
  BY <1>2, <1>3, <1>5, <1>6 DEF EncodedAs

LEMMA TaggedForm ==
  ASSUME NEW v \in 0..MaxUint, NEW e \in 1..ByteBits-1, varintSize(v) = e + 1
  PROVE  EncodedAs(v, Base - 2^(ByteBits - e) + v \div Shift(e), e)
<1> DEFINE room == 2^(ByteBits - 1 - e)
           data == v \div Shift(e)
           tag  == Base - 2^(ByteBits - e)
<1>1. ByteBits \in Nat /\ ByteBits >= 2 /\ Base \in Nat /\ Base = 2^ByteBits /\ v \in Nat
      /\ e \in Nat /\ e <= ByteBits - 1
  BY Shifts, Limits
<1>2. Shift(e) \in Nat /\ Shift(e) >= 1
  BY <1>1, Shifts
<1>3. room \in Nat /\ room >= 1 /\ 2^(ByteBits - e) = 2 * room
  <2>1. ByteBits - 1 - e \in Nat /\ (ByteBits - 1 - e) + 1 = ByteBits - e
    BY <1>1
  <2> QED
    BY <2>1, PowerPositive, PowerDoubles
<1>4. data \in Nat /\ v % Shift(e) \in Nat /\ v % Shift(e) < Shift(e)
      /\ v = Shift(e) * data + (v % Shift(e))
  <2>1. data \in Nat /\ v % Shift(e) \in 0..Shift(e)-1
        /\ v = Shift(e) * data + (v % Shift(e))
    BY <1>1, <1>2, Division
  <2> QED
    BY <1>2, <2>1
<1>5. data < room
  <2>1. v <= MaxValue(e + 1) /\ e + 1 \in 1..ByteBits
    BY <1>1, SizeIsLeast
  <2>2. (e + 1) * (ByteBits - 1) = (ByteBits - 1 - e) + ByteBits * e
    BY <1>1
  <2>3. ByteBits * e \in Nat /\ ByteBits - 1 - e \in Nat
    BY <1>1, ProductInNat
  <2>4. 2^((e + 1) * (ByteBits - 1)) = room * Shift(e)
    BY <2>2, <2>3, PowerOfSum DEF Shift
  <2>5. MaxValue(e + 1) = room * Shift(e) - 1
    BY <2>1, <2>4, Limits
  <2>6. v < room * Shift(e)
    <3>1. room * Shift(e) \in Nat
      BY <1>2, <1>3, ProductInNat
    <3> HIDE DEF room
    <3> QED
      BY <1>1, <2>1, <2>5, <3>1
  <2>7. \A r, s, d, m \in Nat : s * d + m < r * s => d < r
    <3> TAKE r, s, d, m \in Nat
    <3> SUFFICES ASSUME d >= r PROVE s * d + m >= r * s
      OBVIOUS
    <3>1. s * d >= s * r /\ s * r = r * s
      OBVIOUS
    <3> QED
      BY <3>1
  <2> HIDE DEF room, data
  <2> QED
    BY <1>2, <1>3, <1>4, <2>6, <2>7
<1>6. tag = room * (2 * 2^e - 2) /\ 2 * 2^e - 2 \in Nat /\ tag \in Nat
  <2>1. ByteBits - e \in Nat /\ e + (ByteBits - e) = ByteBits
    BY <1>1
  <2>2. Base = 2^e * 2^(ByteBits - e) /\ 2^e \in Nat /\ 2^e >= 1
    BY <1>1, <2>1, PowerOfSum, PowerPositive
  <2>3. tag = 2^e * (2 * room) - 2 * room
    BY <1>3, <2>2
  <2>4. \A x, y \in Nat : y * (2 * x) - 2 * x = x * (2 * y - 2)
    OBVIOUS
  <2>5. 2 * 2^e - 2 \in Nat
    BY <2>2
  <2> HIDE DEF tag, room
  <2>6. tag = room * (2 * 2^e - 2)
    BY <1>3, <2>2, <2>3, <2>4
  <2> QED
    BY <1>3, <2>5, <2>6, ProductInNat
<1> DEFINE first == tag + data
<1>7. first \in Nat /\ first >= Base - 2^(ByteBits - e) /\ first < Base - room
  <2>1. tag = Base - 2 * room
    BY <1>3
  <2> HIDE DEF tag, data, room
  <2>2. first \in Nat /\ first >= Base - 2 * room /\ first < Base - room
    BY <1>1, <1>3, <1>4, <1>5, <1>6, <2>1
  <2> QED
    BY <1>3, <2>2
<1>8. first \in Byte
  <2> HIDE DEF first, room
  <2> QED
    BY <1>1, <1>3, <1>7, ByteIsNumber
<1>9. LeadingOnes(first) = e
  <2>1. ByteBits - e - 1 = ByteBits - 1 - e /\ e \in 0..ByteBits
    BY <1>1
  <2>2. HasOnes(first, e)
    <3> HIDE DEF first
    <3> QED
      BY <1>7, <2>1 DEF HasOnes
  <2> QED
    BY <1>8, <2>1, <2>2, LeadingOnesOf
<1>10. BigEndian(v, e) \in Seq(Byte) /\ Len(BigEndian(v, e)) = e
       /\ Uint(BigEndian(v, e)) = v % Shift(e)
  BY <1>1, BigEndianReadBack
<1>11. Integer(v) = <<first>> \o BigEndian(v, e)
  <2>1. e + 1 # 1 /\ e + 1 # ByteBits + 1 /\ ByteBits + 1 - (e + 1) = ByteBits - e /\ e + 1 - 1 = e
    BY <1>1
  <2>2. Integer(v) = <<>> \o (<<first>> \o BigEndian(v, e))
    BY <2>1 DEF Integer, AppendVarint
  <2>3. <<first>> \o BigEndian(v, e) \in Seq(Byte)
    <3> HIDE DEF first
    <3> QED
      BY <1>8, <1>10
  <2>4. \A s \in Seq(Byte) : <<>> \o s = s
    OBVIOUS
  <2> QED
    BY <2>2, <2>3, <2>4
<1>12. decodeVarintBytes(first, BigEndian(v, e)) = v
  <2>1. CASE e = ByteBits - 1
    <3>1. decodeVarintBytes(first, BigEndian(v, e)) = v % Shift(e)
      BY <1>1, <1>10, <2>1 DEF decodeVarintBytes
    <3>2. room = 1
      BY <1>1, <2>1, PowerOfZero
    <3>3. data = 0
      BY <1>4, <1>5, <3>2
    <3>4. Shift(e) * 0 = 0
      BY <1>2
    <3> HIDE DEF data
    <3> QED
      BY <1>4, <3>1, <3>3, <3>4
  <2>2. CASE e < ByteBits - 1
    <3>1. decodeVarintBytes(first, BigEndian(v, e)) = (first % room) * Shift(e) + (v % Shift(e))
      BY <1>1, <1>10, <2>2 DEF decodeVarintBytes
    <3>2. first % room = data
      <4> DEFINE q == 2 * 2^e - 2
      <4>1. first = room * q + data /\ q \in Nat
        BY <1>6
      <4> HIDE DEF first, room, data, q
      <4> QED
        BY <1>3, <1>4, <1>5, <1>7, <4>1, DivisionUnique
    <3>3. data * Shift(e) = Shift(e) * data
      BY <1>2, <1>4
    <3> HIDE DEF data, first, room
    <3> QED
      BY <1>4, <3>1, <3>2, <3>3
  <2> QED
    BY <1>1, <2>1, <2>2
<1> QED
  BY <1>8, <1>9, <1>11, <1>12 DEF EncodedAs

LEMMA EncodedForm ==
  ASSUME NEW v \in 0..MaxUint
  PROVE  /\ varintSize(v) - 1 \in 0..ByteBits
         /\ \E first \in Byte : EncodedAs(v, first, varintSize(v) - 1)
<1>1. varintSize(v) \in 1..ByteBits+1 /\ ByteBits \in Nat /\ ByteBits >= 2
  BY SizeIsLeast, Shifts
<1>2. CASE varintSize(v) = 1
  BY <1>1, <1>2, OneByteForm DEF EncodedAs
<1>3. CASE varintSize(v) = ByteBits + 1
  <2>1. varintSize(v) - 1 = ByteBits
    BY <1>1, <1>3
  <2> QED
    BY <1>1, <1>3, <2>1, LongestForm DEF EncodedAs
<1>4. CASE varintSize(v) \in 2..ByteBits
  <2> DEFINE e == varintSize(v) - 1
  <2>1. e \in 1..ByteBits-1 /\ varintSize(v) = e + 1 /\ e \in 0..ByteBits
    BY <1>1, <1>4
  <2> HIDE DEF e
  <2>2. EncodedAs(v, Base - 2^(ByteBits - e) + v \div Shift(e), e)
    BY <2>1, TaggedForm
  <2>3. \E first \in Byte : EncodedAs(v, first, e)
    BY <2>2 DEF EncodedAs
  <2> QED
    BY <2>1, <2>3 DEF e
<1> QED
  BY <1>1, <1>2, <1>3, <1>4

-----------------------------------------------------------------------------
(***************************************************************************)
(* Reading.                                                                *)
(***************************************************************************)
LEMMA SameSequence ==
  ASSUME NEW S, NEW s \in Seq(S), NEW t \in Seq(S), Len(s) = Len(t),
         \A i \in 1..Len(s) : s[i] = t[i]
  PROVE  s = t
OBVIOUS

LEMMA PartOf ==
  ASSUME NEW S, NEW s \in Seq(S), NEW m \in Nat, NEW n \in Nat, 1 <= m, n <= Len(s), m <= n + 1
  PROVE  /\ SubSeq(s, m, n) \in Seq(S)
         /\ Len(SubSeq(s, m, n)) = n - m + 1
         /\ \A i \in 1..n-m+1 : SubSeq(s, m, n)[i] = s[m + i - 1]
OBVIOUS

LEMMA Joined ==
  ASSUME NEW S, NEW s \in Seq(S), NEW t \in Seq(S)
  PROVE  /\ s \o t \in Seq(S) /\ Len(s \o t) = Len(s) + Len(t)
         /\ \A i \in 1..Len(s) : (s \o t)[i] = s[i]
         /\ \A i \in 1..Len(t) : (s \o t)[Len(s) + i] = t[i]
OBVIOUS

LEMMA PartOfRest ==
  ASSUME NEW S, NEW s \in Seq(S), NEW k \in Nat, NEW n \in Nat, k + n <= Len(s)
  PROVE  LET rest == SubSeq(s, k + 1, Len(s))
         IN /\ SubSeq(rest, 1, n) = SubSeq(s, k + 1, k + n)
            /\ SubSeq(rest, n + 1, Len(rest)) = SubSeq(s, k + n + 1, Len(s))
<1> DEFINE rest == SubSeq(s, k + 1, Len(s))
<1>1. rest \in Seq(S) /\ Len(rest) = Len(s) - k /\ \A i \in 1..Len(s)-k : rest[i] = s[k + i]
  <2>1. Len(s) \in Nat /\ k + 1 \in Nat /\ k + 1 <= Len(s) + 1 /\ Len(s) - (k + 1) + 1 = Len(s) - k
    OBVIOUS
  <2>2. \A i \in 1..Len(s)-k : k + 1 + i - 1 = k + i
    OBVIOUS
  <2> QED
    <3> DEFINE m == k + 1
    <3>1. /\ SubSeq(s, m, Len(s)) \in Seq(S) /\ Len(SubSeq(s, m, Len(s))) = Len(s) - m + 1
          /\ \A i \in 1..Len(s)-m+1 : SubSeq(s, m, Len(s))[i] = s[m + i - 1]
      <4> HIDE DEF m
      <4> QED
        <5>1. m \in Nat /\ 1 <= m /\ Len(s) <= Len(s) /\ m <= Len(s) + 1
          BY <2>1 DEF m
        <5> QED
          BY <2>1, <5>1, PartOf
    <3> QED
      BY <2>1, <2>2, <3>1
<1> HIDE DEF rest
<1>2. SubSeq(rest, 1, n) = SubSeq(s, k + 1, k + n)
  <2>1. /\ SubSeq(rest, 1, n) \in Seq(S) /\ Len(SubSeq(rest, 1, n)) = n
        /\ \A i \in 1..n : SubSeq(rest, 1, n)[i] = rest[i]
    BY <1>1
  <2>2. /\ SubSeq(s, k + 1, k + n) \in Seq(S) /\ Len(SubSeq(s, k + 1, k + n)) = n
        /\ \A i \in 1..n : SubSeq(s, k + 1, k + n)[i] = s[k + i]
    <3> DEFINE m == k + 1
               e == k + n
    <3>1. m \in Nat /\ e \in Nat /\ 1 <= m /\ e <= Len(s) /\ m <= e + 1 /\ e - m + 1 = n
          /\ \A i \in 1..n : m + i - 1 = k + i
      OBVIOUS
    <3> HIDE DEF m, e
    <3>2. /\ SubSeq(s, m, e) \in Seq(S) /\ Len(SubSeq(s, m, e)) = n
          /\ \A i \in 1..n : SubSeq(s, m, e)[i] = s[m + i - 1]
      BY <3>1, PartOf
    <3>3. \A i \in 1..n : SubSeq(s, m, e)[i] = s[k + i]
      BY <3>1, <3>2
    <3> QED
      BY <3>2, <3>3 DEF m, e
  <2> QED
    BY <1>1, <2>1, <2>2, SameSequence
<1>3. SubSeq(rest, n + 1, Len(rest)) = SubSeq(s, k + n + 1, Len(s))
  <2> DEFINE a == SubSeq(rest, n + 1, Len(rest))
             b == SubSeq(s, k + n + 1, Len(s))
  <2>1. /\ a \in Seq(S) /\ Len(a) = Len(s) - k - n
        /\ \A i \in 1..Len(s)-k-n : a[i] = rest[n + i]
    <3> DEFINE m == n + 1
               e == Len(rest)
    <3>1. m \in Nat /\ e \in Nat /\ 1 <= m /\ e <= Len(rest) /\ m <= e + 1
          /\ e - m + 1 = Len(s) - k - n /\ \A i \in 1..Len(s)-k-n : m + i - 1 = n + i
      BY <1>1
    <3> HIDE DEF m, e
    <3>2. /\ SubSeq(rest, m, e) \in Seq(S) /\ Len(SubSeq(rest, m, e)) = Len(s) - k - n
          /\ \A i \in 1..Len(s)-k-n : SubSeq(rest, m, e)[i] = rest[m + i - 1]
      BY <1>1, <3>1, PartOf
    <3>3. \A i \in 1..Len(s)-k-n : SubSeq(rest, m, e)[i] = rest[n + i]
      BY <3>1, <3>2
    <3> QED
      BY <3>2, <3>3 DEF m, e
  <2>2. /\ b \in Seq(S) /\ Len(b) = Len(s) - k - n
        /\ \A i \in 1..Len(s)-k-n : b[i] = s[k + n + i]
    OBVIOUS
  <2> HIDE DEF a, b
  <2>3. \A i \in 1..Len(s)-k-n : n + i \in 1..Len(s)-k /\ k + (n + i) = k + n + i
    OBVIOUS
  <2>4. \A i \in 1..Len(s)-k-n : a[i] = b[i]
    BY <1>1, <2>1, <2>2, <2>3
  <2> QED
    BY <2>1, <2>2, <2>4, SameSequence DEF a, b
<1> QED
  BY <1>2, <1>3 DEF rest

\* What ReadVarint returns, without the reads it is made of.
VarintAt(r) ==
  LET e == LeadingOnes(r[1])
  IN IF r = <<>> THEN Failure("EOF")
     ELSE IF e <= Len(r) - 1
          THEN Result(decodeVarintBytes(r[1], SubSeq(r, 2, e + 1)), SubSeq(r, e + 2, Len(r)))
          ELSE Failure(IF Len(r) = 1 THEN "EOF" ELSE "unexpectedEOF")

LEMMA ReadFirst ==
  ASSUME NEW r \in Seq(Byte), r # <<>>
  PROVE  ReadFull(r, 1) = Result(<<r[1]>>, SubSeq(r, 2, Len(r)))
<1>1. 1 <= Len(r) /\ r[1] \in Byte
  OBVIOUS
<1>2. SubSeq(r, 1, 1) = <<r[1]>>
  <2> DEFINE a == SubSeq(r, 1, 1)
             b == <<r[1]>>
  <2>1. a \in Seq(Byte) /\ Len(a) = 1 /\ a[1] = r[1]
    BY <1>1
  <2>2. b \in Seq(Byte) /\ Len(b) = 1 /\ b[1] = r[1]
    BY <1>1
  <2> HIDE DEF a, b
  <2>3. \A i \in 1..Len(a) : a[i] = b[i]
    BY <2>1, <2>2
  <2>4. a = b
    BY <2>1, <2>2, <2>3, SameSequence
  <2> QED
    BY <2>4 DEF a, b
<1>3. 1 + 1 = 2
  OBVIOUS
<1> QED
  BY <1>1, <1>2, <1>3 DEF ReadFull

LEMMA ReadVarintIs ==
  ASSUME NEW r \in Seq(Byte)
  PROVE  ReadVarint(r) = VarintAt(r)
<1>1. CASE r = <<>>
  <2>1. ReadFull(r, 1) = Failure("EOF")
    BY <1>1 DEF ReadFull
  <2> QED
    BY <1>1, <2>1 DEF ReadVarint, VarintAt, Then, Failure
<1>2. CASE r # <<>>
  <2> DEFINE first == r[1]
             e     == LeadingOnes(first)
             rest  == SubSeq(r, 2, Len(r))
  <2>1. ReadFull(r, 1) = Result(<<first>>, rest)
    BY <1>2, ReadFirst
  <2>2. first \in Byte /\ <<first>>[1] = first
    BY <1>2
  <2>3. e \in Nat
    <3>1. e \in 0..ByteBits
      <4> HIDE DEF first
      <4> QED
        BY <2>2, LeadingOnesOf
    <3> HIDE DEF e
    <3> QED
      BY <3>1
  <2>4. rest \in Seq(Byte) /\ Len(rest) = Len(r) - 1 /\ (rest = <<>> <=> Len(r) = 1)
    <3>1. Len(r) \in Nat /\ Len(r) >= 1 /\ Len(r) - 2 + 1 = Len(r) - 1
      BY <1>2
    <3>2. rest \in Seq(Byte) /\ Len(rest) = Len(r) - 2 + 1
      BY <3>1, PartOf
    <3> HIDE DEF rest
    <3>3. rest \in Seq(Byte)
      BY <3>2
    <3>4. rest = <<>> <=> Len(rest) = 0
      BY ONLY <3>3
    <3> QED
      BY <3>1, <3>2, <3>4
  <2>5. ReadVarint(r) = Then(ReadFull(rest, e), LAMBDA b, r2 :
                               Result(decodeVarintBytes(first, b), r2))
    <3> HIDE DEF rest, first
    <3>1. ReadVarint(r) = Then(ReadFull(rest, LeadingOnes(<<first>>[1])), LAMBDA b, r2 :
                                 Result(decodeVarintBytes(<<first>>[1], b), r2))
      BY <2>1 DEF ReadVarint, Then, Result
    <3> QED
      BY <2>2, <3>1 DEF Then
  <2>6. CASE e <= Len(r) - 1
    <3>1. ReadFull(rest, e) = Result(SubSeq(rest, 1, e), SubSeq(rest, e + 1, Len(rest)))
      <4> HIDE DEF rest, e
      <4> QED
        BY <2>4, <2>6 DEF ReadFull
    <3>2. /\ SubSeq(rest, 1, e) = SubSeq(r, 2, e + 1)
          /\ SubSeq(rest, e + 1, Len(rest)) = SubSeq(r, e + 2, Len(r))
      <4>1. 1 + e <= Len(r) /\ 1 + 1 = 2 /\ 1 + e = e + 1 /\ 1 + e + 1 = e + 2
        BY <2>3, <2>6
      <4> HIDE DEF e
      <4> QED
        BY <2>3, <4>1, PartOfRest
    <3> HIDE DEF rest, e
    <3> DEFINE bs  == SubSeq(r, 2, e + 1)
               end == SubSeq(r, e + 2, Len(r))
    <3>3. ReadVarint(r) = Result(decodeVarintBytes(first, bs), end)
      <4>1. ReadFull(rest, e) = Result(bs, end)
        BY <3>1, <3>2
      <4> HIDE DEF bs, end, first
      <4>2. Result(bs, end).err = "nil" /\ Result(bs, end).val = bs /\ Result(bs, end).rest = end
        BY DEF Result
      <4> QED
        BY <2>5, <4>1, <4>2 DEF Then
    <3> QED
      BY <1>2, <2>6, <3>3 DEF VarintAt, e
  <2>7. CASE ~(e <= Len(r) - 1)
    <3>1. ReadFull(rest, e) = Failure(IF Len(r) = 1 THEN "EOF" ELSE "unexpectedEOF")
      <4> HIDE DEF rest, e
      <4> QED
        BY <2>4, <2>7 DEF ReadFull
    <3> HIDE DEF rest, e
    <3>2. ReadVarint(r) = Failure(IF Len(r) = 1 THEN "EOF" ELSE "unexpectedEOF")
      BY <2>5, <3>1 DEF Then, Failure
    <3> QED
      BY <1>2, <2>7, <3>2 DEF VarintAt, e
  <2> QED
    BY <2>6, <2>7
<1> QED
  BY <1>1, <1>2

\* What was read: a number that its bytes can hold, from the front of the bytes.
LEMMA WhatIsRead ==
  ASSUME NEW r \in Seq(Byte), ReadVarint(r).err = "nil"
  PROVE  LET res == ReadVarint(r)
             k   == Len(r) - Len(res.rest)
         IN /\ res = Result(res.val, res.rest)
            /\ res.rest \in Seq(Byte)
            /\ k \in 1..ByteBits+1 /\ res.rest = SubSeq(r, k + 1, Len(r))
            /\ res.val \in 0..MaxUint /\ res.val <= MaxValue(k)
<1> DEFINE res  == ReadVarint(r)
           e    == LeadingOnes(r[1])
           rest == SubSeq(r, 2, e + 1)
           end  == SubSeq(r, e + 2, Len(r))
           v    == decodeVarintBytes(r[1], rest)
<1>1. res = VarintAt(r)
  BY ReadVarintIs
<1>2. r # <<>> /\ e <= Len(r) - 1 /\ res = Result(v, end)
  <2> HIDE DEF e, rest, end, v
  <2>1. res.err = "nil"
    OBVIOUS
  <2> HIDE DEF res
  <2>2. VarintAt(r) = IF r = <<>> THEN Failure("EOF")
                      ELSE IF e <= Len(r) - 1 THEN Result(v, end)
                      ELSE Failure(IF Len(r) = 1 THEN "EOF" ELSE "unexpectedEOF")
    BY DEF VarintAt, e, rest, end, v
  <2>3. Failure("EOF").err # "nil" /\ Failure("unexpectedEOF").err # "nil"
    BY DEF Failure
  <2> QED
    BY <1>1, <2>1, <2>2, <2>3
<1>3. r[1] \in Byte
  BY <1>2
<1>4. e \in 0..ByteBits /\ ByteBits \in Nat
  <2> DEFINE first == r[1]
  <2>1. first \in Byte
    BY <1>3
  <2> HIDE DEF first
  <2>2. LeadingOnes(first) \in 0..ByteBits
    BY <2>1, LeadingOnesOf
  <2> QED
    BY <2>2, Shifts DEF first
<1> HIDE DEF e, res
<1>5. rest \in Seq(Byte) /\ Len(rest) = e
  <2>1. e + 1 \in Nat /\ e + 1 <= Len(r) /\ 2 <= (e + 1) + 1 /\ (e + 1) - 2 + 1 = e
    BY <1>2, <1>4
  <2> QED
    BY <2>1, PartOf
<1>6. end \in Seq(Byte) /\ Len(end) = Len(r) - (e + 1)
  <2> DEFINE m == e + 2
             n == Len(r)
  <2>1. m \in Nat /\ 1 <= m /\ n \in Nat /\ n <= Len(r) /\ m <= n + 1
        /\ n - m + 1 = Len(r) - (e + 1)
    BY <1>2, <1>4
  <2>2. end = SubSeq(r, m, n)
    OBVIOUS
  <2> HIDE DEF m, n, end
  <2>3. end \in Seq(Byte) /\ Len(end) = n - m + 1
    BY <2>1, <2>2, PartOf
  <2> QED
    BY <2>1, <2>3
<1> HIDE DEF rest, end
<1>7. v \in Nat /\ v <= MaxValue(e + 1)
  <2>1. Len(rest) <= ByteBits
    BY <1>4, <1>5
  <2> QED
    BY <1>3, <1>5, <2>1, DecodedFits
<1> HIDE DEF v
<1>8. res.val = v /\ res.rest = end
  BY <1>2 DEF Result
<1>9. Len(r) - Len(end) = e + 1 /\ e + 1 \in 1..ByteBits+1 /\ end = SubSeq(r, (e + 1) + 1, Len(r))
  <2>1. (e + 1) + 1 = e + 2 /\ Len(r) \in Nat /\ e + 1 \in 1..ByteBits+1
    BY <1>4
  <2>2. Len(r) - Len(end) = e + 1
    BY <1>4, <1>6, <2>1
  <2>3. end = SubSeq(r, (e + 1) + 1, Len(r))
    BY <2>1 DEF end
  <2> QED
    BY <2>1, <2>2, <2>3
<1>10. MaxValue(e + 1) <= MaxUint /\ MaxUint \in Nat /\ MaxValue(e + 1) \in Nat
  <2>1. CASE e = ByteBits
    BY <2>1, Limits
  <2>2. CASE e + 1 \in 1..ByteBits
    <3> DEFINE n == e + 1
    <3>1. n \in 1..ByteBits /\ ByteBits * ByteBits \in Nat /\ ByteBits - 1 \in Nat
      BY <1>4, <2>2, Shifts, ProductInNat
    <3> HIDE DEF n
    <3>2. n * (ByteBits - 1) <= ByteBits * ByteBits
      <4>1. \A a, b, c \in Nat : a <= b /\ c <= b => a * c <= b * b
        <5> TAKE a, b, c \in Nat
        <5> HAVE a <= b /\ c <= b
        <5>1. a * c <= b * c /\ b * c <= b * b
          OBVIOUS
        <5>2. a * c \in Nat /\ b * c \in Nat /\ b * b \in Nat
          BY ProductInNat
        <5> QED
          BY <5>1, <5>2
      <4> QED
        BY <1>4, <3>1, <4>1
    <3>3. n * (ByteBits - 1) \in Nat /\ MaxValue(n) = 2^(n * (ByteBits - 1)) - 1 /\ MaxValue(n) \in Nat
          /\ MaxUint = 2^(ByteBits * ByteBits) - 1 /\ MaxUint \in Nat
      BY <3>1, Limits DEF Shift
    <3>4. 2^(n * (ByteBits - 1)) <= 2^(ByteBits * ByteBits)
      BY <3>1, <3>2, <3>3, PowerGrows
    <3>5. 2^(n * (ByteBits - 1)) \in Nat /\ 2^(ByteBits * ByteBits) \in Nat
      BY <3>1, <3>3, PowerPositive
    <3>6. MaxValue(n) <= MaxUint
      BY <3>3, <3>4, <3>5
    <3> QED
      BY <3>3, <3>6 DEF n
  <2> QED
    BY <1>4, <2>1, <2>2
<1>11. v \in 0..MaxUint
  BY <1>7, <1>10
<1> QED
  BY <1>2, <1>6, <1>7, <1>8, <1>9, <1>11 DEF res

\* A number that was written is read back, and what follows it is left.
LEMMA ReadsBack ==
  ASSUME NEW v \in 0..MaxUint, NEW r \in Seq(Byte)
  PROVE  /\ Integer(v) \in Seq(Byte) /\ Len(Integer(v)) = varintSize(v)
         /\ ReadVarint(Integer(v) \o r) = Result(v, r)
<1> DEFINE e == varintSize(v) - 1
<1>1. e \in 0..ByteBits /\ varintSize(v) = e + 1 /\ ByteBits \in Nat /\ e \in Nat /\ v \in Nat
  <2>1. varintSize(v) - 1 \in 0..ByteBits /\ varintSize(v) \in 1..ByteBits+1
    BY EncodedForm, SizeIsLeast
  <2>2. ByteBits \in Nat /\ MaxUint \in Nat
    BY Shifts, Limits
  <2> QED
    BY <2>1, <2>2
<1>2. PICK first \in Byte : EncodedAs(v, first, e)
  BY EncodedForm
<1> HIDE DEF e
<1> DEFINE big == BigEndian(v, e)
           i   == Integer(v)
           s   == i \o r
<1>3. big \in Seq(Byte) /\ Len(big) = e
  BY <1>1, BigEndianReadBack
<1>4. i = <<first>> \o big /\ LeadingOnes(first) = e /\ decodeVarintBytes(first, big) = v
  BY <1>2 DEF EncodedAs
<1> HIDE DEF big, i
<1>5. /\ i \in Seq(Byte) /\ Len(i) = 1 + e /\ i[1] = first
      /\ \A j \in 1..e : i[1 + j] = big[j]
  <2>1. <<first>> \in Seq(Byte) /\ Len(<<first>>) = 1 /\ <<first>>[1] = first
    OBVIOUS
  <2> QED
    BY <1>1, <1>3, <1>4, <2>1, Joined
<1>6. /\ s \in Seq(Byte) /\ Len(s) = 1 + e + Len(r) /\ s[1] = first
      /\ \A j \in 1..e : s[1 + j] = big[j]
      /\ \A j \in 1..Len(r) : s[1 + e + j] = r[j]
  <2>1. /\ s \in Seq(Byte) /\ Len(s) = Len(i) + Len(r)
        /\ \A j \in 1..Len(i) : s[j] = i[j]
        /\ \A j \in 1..Len(r) : s[Len(i) + j] = r[j]
    <3>1. i \in Seq(Byte) /\ r \in Seq(Byte)
      BY <1>5
    <3> QED
      BY <3>1, Joined
  <2> HIDE DEF s
  <2>2. \A j \in 1..e : 1 + j \in 1..Len(i)
    BY <1>1, <1>5
  <2>3. 1 \in 1..Len(i) /\ Len(r) \in Nat
    BY <1>1, <1>5
  <2> QED
    BY <1>5, <2>1, <2>2, <2>3
<1> HIDE DEF s
<1>7. s # <<>> /\ e <= Len(s) - 1 /\ Len(r) \in Nat
  BY <1>1, <1>6
<1>8. SubSeq(s, 2, e + 1) = big
  <2> DEFINE a == SubSeq(s, 2, e + 1)
  <2>1. e + 1 \in Nat /\ e + 1 <= Len(s) /\ 2 <= (e + 1) + 1 /\ (e + 1) - 2 + 1 = e
    BY <1>1, <1>6, <1>7
  <2>2. a \in Seq(Byte) /\ Len(a) = e /\ \A j \in 1..e : a[j] = s[2 + j - 1]
    BY <1>6, <2>1, PartOf
  <2> HIDE DEF a
  <2>3. \A j \in 1..e : 2 + j - 1 = 1 + j
    OBVIOUS
  <2>4. \A j \in 1..Len(a) : a[j] = big[j]
    BY <1>6, <2>2, <2>3
  <2>5. a = big
    BY <1>3, <2>2, <2>4, SameSequence
  <2> QED
    BY <2>5 DEF a
<1>9. SubSeq(s, e + 2, Len(s)) = r
  <2> DEFINE a == SubSeq(s, e + 2, Len(s))
  <2>1. e + 2 \in Nat /\ 1 <= e + 2 /\ Len(s) \in Nat /\ e + 2 <= Len(s) + 1
        /\ Len(s) - (e + 2) + 1 = Len(r)
    BY <1>1, <1>6, <1>7
  <2>2. a \in Seq(Byte) /\ Len(a) = Len(r) /\ \A j \in 1..Len(r) : a[j] = s[e + 2 + j - 1]
    BY <1>6, <2>1, PartOf
  <2> HIDE DEF a
  <2>3. \A j \in 1..Len(r) : e + 2 + j - 1 = 1 + e + j
    BY <1>1
  <2>4. \A j \in 1..Len(a) : a[j] = r[j]
    BY <1>6, <2>2, <2>3
  <2>5. a = r
    BY <2>2, <2>4, SameSequence
  <2> QED
    BY <2>5 DEF a
<1>10. ReadVarint(s) = Result(v, r)
  <2>1. ReadVarint(s) = VarintAt(s)
    BY <1>6, ReadVarintIs
  <2>2. VarintAt(s) = Result(decodeVarintBytes(first, big), r)
    BY <1>4, <1>6, <1>7, <1>8, <1>9 DEF VarintAt
  <2> QED
    BY <1>4, <2>1, <2>2
<1> QED
  BY <1>1, <1>5, <1>10 DEF s, i

\* EncodesMinimally for every string of bytes.
LEMMA Minimal ==
  ASSUME bytes \in Seq(Byte)
  PROVE  EncodesMinimally
<1> SUFFICES ASSUME ReadVarint(bytes).err = "nil"
             PROVE  LET read  == ReadVarint(bytes)
                        again == Integer(read.val)
                    IN /\ ReadVarint(again) = Result(read.val, <<>>)
                       /\ Len(again) <= Len(bytes) - Len(read.rest)
  BY DEF EncodesMinimally, Integer
<1> DEFINE v == ReadVarint(bytes).val
           k == Len(bytes) - Len(ReadVarint(bytes).rest)
           n == varintSize(v)
<1>1. k \in 1..ByteBits+1 /\ v \in 0..MaxUint /\ v <= MaxValue(k)
  BY WhatIsRead
<1> HIDE DEF v, k, n
<1>2. Integer(v) \in Seq(Byte) /\ Len(Integer(v)) = n /\ ReadVarint(Integer(v)) = Result(v, <<>>)
  <2>1. /\ Integer(v) \in Seq(Byte) /\ Len(Integer(v)) = n
        /\ ReadVarint(Integer(v) \o <<>>) = Result(v, <<>>)
    <3>1. <<>> \in Seq(Byte)
      OBVIOUS
    <3> QED
      BY <1>1, <3>1, ReadsBack DEF n
  <2>2. \A s \in Seq(Byte) : s \o <<>> = s
    OBVIOUS
  <2> QED
    BY <2>1, <2>2
<1>3. n <= k
  <2>1. n \in 1..ByteBits+1 /\ \A m \in 1..n-1 : v > MaxValue(m)
    BY <1>1, SizeIsLeast DEF n
  <2>2. v \in Nat /\ ByteBits \in Nat
    BY <1>1, Shifts, Limits
  <2>3. MaxValue(k) \in Nat
    <3>1. k \in 1..ByteBits \/ k = ByteBits + 1
      BY <1>1, <2>2
    <3> QED
      BY <3>1, Limits
  <2>4. k \in Nat /\ n \in Nat
    BY <1>1, <2>1
  <2>5. ASSUME k < n PROVE FALSE
    <3>1. k \in 1..n-1
      BY <1>1, <2>1, <2>5
    <3>2. v > MaxValue(k)
      BY <2>1, <3>1
    <3> QED
      BY <1>1, <2>2, <2>3, <3>2
  <2> QED
    BY <2>4, <2>5
<1> QED
  BY <1>2, <1>3 DEF v, k

-----------------------------------------------------------------------------
(***************************************************************************)
(* Reading from more of the same bytes.                                    *)
(***************************************************************************)
LEMMA LongerEnd ==
  ASSUME NEW S, NEW p \in Seq(S), NEW q \in Seq(S), NEW m \in Nat, 1 <= m, m <= Len(p) + 1
  PROVE  SubSeq(p \o q, m, Len(p \o q)) = SubSeq(p, m, Len(p)) \o q
<1> DEFINE all == p \o q
           a   == SubSeq(all, m, Len(all))
           pe  == SubSeq(p, m, Len(p))
           b   == pe \o q
           k   == Len(p) - m + 1
<1>1. /\ all \in Seq(S) /\ Len(all) = Len(p) + Len(q)
      /\ \A i \in 1..Len(p) : all[i] = p[i]
      /\ \A i \in 1..Len(q) : all[Len(p) + i] = q[i]
  BY Joined
<1>2. k \in Nat /\ Len(p) \in Nat /\ Len(q) \in Nat
  OBVIOUS
<1>3. pe \in Seq(S) /\ Len(pe) = k /\ \A i \in 1..k : pe[i] = p[m + i - 1]
  BY <1>2, PartOf
<1> HIDE DEF all, pe
<1>4. /\ b \in Seq(S) /\ Len(b) = k + Len(q)
      /\ \A i \in 1..k : b[i] = pe[i]
      /\ \A i \in 1..Len(q) : b[k + i] = q[i]
  <2> HIDE DEF k
  <2>1. /\ b \in Seq(S) /\ Len(b) = Len(pe) + Len(q)
        /\ \A i \in 1..Len(pe) : b[i] = pe[i]
        /\ \A i \in 1..Len(q) : b[Len(pe) + i] = q[i]
    <3>1. pe \in Seq(S)
      BY <1>3
    <3> QED
      BY <3>1, Joined
  <2> QED
    BY <1>3, <2>1
<1>5. a \in Seq(S) /\ Len(a) = k + Len(q) /\ \A i \in 1..k+Len(q) : a[i] = all[m + i - 1]
  <2> DEFINE n == Len(all)
  <2>1. n \in Nat /\ n <= Len(all) /\ m <= n + 1 /\ n - m + 1 = k + Len(q)
    BY <1>1, <1>2
  <2>2. a = SubSeq(all, m, n)
    OBVIOUS
  <2> HIDE DEF n, a, k
  <2>3. /\ a \in Seq(S) /\ Len(a) = n - m + 1
        /\ \A i \in 1..n-m+1 : a[i] = all[m + i - 1]
    BY <1>1, <2>1, <2>2, PartOf
  <2> QED
    BY <2>1, <2>3
<1> HIDE DEF a, b
<1>6. ASSUME NEW i \in 1..Len(a) PROVE a[i] = b[i]
  <2>1. CASE i <= k
    <3>1. i \in 1..k /\ m + i - 1 \in 1..Len(p) /\ i \in 1..k+Len(q)
      BY <1>2, <1>5, <2>1
    <3> HIDE DEF k
    <3> QED
      BY <1>1, <1>3, <1>4, <1>5, <3>1
  <2>2. CASE i > k
    <3> DEFINE j == i - k
    <3>1. j \in 1..Len(q) /\ k + j = i /\ m + i - 1 = Len(p) + j /\ i \in 1..k+Len(q)
      BY <1>2, <1>5, <2>2
    <3> HIDE DEF k, j
    <3> QED
      BY <1>1, <1>4, <1>5, <3>1
  <2> QED
    BY <1>2, <1>5, <2>1, <2>2
<1>7. a = b
  BY <1>4, <1>5, <1>6, SameSequence
<1> QED
  BY <1>7 DEF a, b, all, pe

LEMMA LongerFront ==
  ASSUME NEW S, NEW p \in Seq(S), NEW q \in Seq(S), NEW m \in Nat, NEW n \in Nat,
         1 <= m, n <= Len(p), m <= n + 1
  PROVE  SubSeq(p \o q, m, n) = SubSeq(p, m, n)
<1> DEFINE all == p \o q
           a   == SubSeq(all, m, n)
           b   == SubSeq(p, m, n)
<1>1. all \in Seq(S) /\ Len(all) = Len(p) + Len(q) /\ \A i \in 1..Len(p) : all[i] = p[i]
  BY Joined
<1> HIDE DEF all
<1>2. a \in Seq(S) /\ Len(a) = n - m + 1 /\ \A i \in 1..n-m+1 : a[i] = all[m + i - 1]
  <2>1. n <= Len(all) /\ all \in Seq(S) /\ m \in Nat /\ n \in Nat /\ 1 <= m /\ m <= n + 1
    BY <1>1
  <2> QED
    BY ONLY <2>1, PartOf
<1>3. b \in Seq(S) /\ Len(b) = n - m + 1 /\ \A i \in 1..n-m+1 : b[i] = p[m + i - 1]
  BY PartOf
<1> HIDE DEF a, b
<1>4. ASSUME NEW i \in 1..Len(a) PROVE a[i] = b[i]
  <2>1. i \in 1..n-m+1 /\ m + i - 1 \in 1..Len(p)
    BY <1>2
  <2> QED
    BY <1>1, <1>2, <1>3, <2>1
<1>5. a = b
  BY <1>2, <1>3, <1>4, SameSequence
<1> QED
  BY <1>5 DEF a, b, all

LEMMA VarintFromMore ==
  ASSUME NEW p \in Seq(Byte), NEW q \in Seq(Byte), ReadVarint(p).err = "nil"
  PROVE  ReadVarint(p \o q) = Result(ReadVarint(p).val, ReadVarint(p).rest \o q)
<1> DEFINE e   == LeadingOnes(p[1])
           all == p \o q
<1>1. ReadVarint(p) = VarintAt(p)
  BY ReadVarintIs
<1>2. p # <<>> /\ e <= Len(p) - 1
      /\ ReadVarint(p) = Result(decodeVarintBytes(p[1], SubSeq(p, 2, e + 1)), SubSeq(p, e + 2, Len(p)))
  <2>1. VarintAt(p).err = "nil"
    BY <1>1
  <2>2. Failure("EOF").err # "nil" /\ Failure("unexpectedEOF").err # "nil"
    BY DEF Failure
  <2> QED
    BY <1>1, <2>1, <2>2 DEF VarintAt
<1>3. e \in Nat
  <2> DEFINE first == p[1]
  <2>1. first \in Byte
    BY <1>2
  <2> HIDE DEF first
  <2>2. LeadingOnes(first) \in 0..ByteBits
    BY <2>1, LeadingOnesOf
  <2> QED
    BY <2>2 DEF first
<1>4. all \in Seq(Byte) /\ Len(all) = Len(p) + Len(q) /\ \A i \in 1..Len(p) : all[i] = p[i]
  BY Joined
<1>5. Len(p) \in Nat /\ Len(p) >= 1 /\ Len(q) \in Nat
  BY <1>2
<1>6. all # <<>> /\ all[1] = p[1] /\ e <= Len(all) - 1
  <2>1. e <= Len(all) - 1 /\ all[1] = p[1] /\ Len(all) # 0
    <3> HIDE DEF e, all
    <3> QED
      BY <1>2, <1>3, <1>4, <1>5
  <2> HIDE DEF all
  <2> QED
    BY <1>4, <2>1
<1> HIDE DEF e
<1>7. SubSeq(all, 2, e + 1) = SubSeq(p, 2, e + 1)
  <2>1. e + 1 \in Nat /\ 2 \in Nat /\ 1 <= 2 /\ e + 1 <= Len(p) /\ 2 <= (e + 1) + 1
    BY <1>2, <1>3, <1>5
  <2> QED
    BY <2>1, LongerFront
<1>8. SubSeq(all, e + 2, Len(all)) = SubSeq(p, e + 2, Len(p)) \o q
  <2>1. e + 2 \in Nat /\ 1 <= e + 2 /\ e + 2 <= Len(p) + 1
    BY <1>2, <1>3, <1>5
  <2> QED
    BY <2>1, LongerEnd
<1> HIDE DEF all
<1>9. ReadVarint(all) = VarintAt(all)
  BY <1>4, ReadVarintIs
<1>10. VarintAt(all) = Result(decodeVarintBytes(p[1], SubSeq(p, 2, e + 1)), SubSeq(p, e + 2, Len(p)) \o q)
  BY <1>6, <1>7, <1>8 DEF VarintAt, e
<1> QED
  BY <1>2, <1>9, <1>10 DEF all, Result

\* Two results agree, and the second read ends the further bytes behind the first.
Continues(part, whole, q) == whole = Result(part.val, part.rest \o q)

LEMMA SubscribeOKForm ==
  ASSUME NEW p \in Seq(Byte)
  PROVE  LET a == ReadVarint(p)
             n == ReadVarint(a.rest)
         IN DecodeSubscribeOK(p) =
              IF a.err # "nil" THEN Failure(a.err)
              ELSE IF n.err # "nil" THEN Failure(n.err)
              ELSE Result([alias |-> a.val, numParams |-> n.val, properties |-> n.rest], <<>>)
BY DEF DecodeSubscribeOK, Then

LEMMA RequestErrorForm ==
  ASSUME NEW p \in Seq(Byte)
  PROVE  LET c == ReadVarint(p)
             w == ReadVarint(c.rest)
             n == ReadVarint(w.rest)
             t == readReason(n.rest, n.val)
         IN DecodeRequestError(p) =
              IF c.err # "nil" THEN Failure(c.err)
              ELSE IF w.err # "nil" THEN Failure(w.err)
              ELSE IF n.err # "nil" THEN Failure(n.err)
              ELSE IF t.err # "nil" THEN Failure(t.err)
              ELSE Result([code |-> c.val, retry |-> w.val, reason |-> t.val, redirect |-> t.rest], <<>>)
BY DEF DecodeRequestError, Then

LEMMA ReasonFromMore ==
  ASSUME NEW p \in Seq(Byte), NEW q \in Seq(Byte), NEW n \in Nat, readReason(p, n).err = "nil"
  PROVE  Continues(readReason(p, n), readReason(p \o q, n), q)
<1>1. Failure("other").err # "nil" /\ Failure("EOF").err # "nil" /\ Failure("unexpectedEOF").err # "nil"
  BY DEF Failure
<1>2. ~(n > MaxReason)
  BY <1>1 DEF readReason
<1>3. n <= Len(p) /\ readReason(p, n) = Result(SubSeq(p, 1, n), SubSeq(p, n + 1, Len(p)))
  <2>1. readReason(p, n) = ReadFull(p, n)
    BY <1>2 DEF readReason
  <2>2. ReadFull(p, n).err = "nil"
    BY <2>1
  <2> QED
    BY <1>1, <2>1, <2>2 DEF ReadFull
<1> DEFINE all == p \o q
<1>4. n <= Len(all) /\ SubSeq(all, 1, n) = SubSeq(p, 1, n)
      /\ SubSeq(all, n + 1, Len(all)) = SubSeq(p, n + 1, Len(p)) \o q
  <2>1. Len(all) = Len(p) + Len(q) /\ Len(p) \in Nat /\ Len(q) \in Nat
    BY Joined
  <2>2. n <= Len(all)
    <3> HIDE DEF all
    <3> QED
      BY <1>3, <2>1
  <2>3. SubSeq(all, 1, n) = SubSeq(p, 1, n)
    BY <1>3, LongerFront
  <2>4. n + 1 \in Nat /\ 1 <= n + 1 /\ n + 1 <= Len(p) + 1
    BY <1>3, <2>1
  <2>5. SubSeq(all, n + 1, Len(all)) = SubSeq(p, n + 1, Len(p)) \o q
    BY <2>4, LongerEnd
  <2> QED
    BY <2>2, <2>3, <2>5
<1> HIDE DEF all
<1>5. readReason(all, n) = Result(SubSeq(p, 1, n), SubSeq(p, n + 1, Len(p)) \o q)
  BY <1>2, <1>4 DEF readReason, ReadFull
<1> QED
  BY <1>3, <1>5 DEF Continues, Result, all

LEMMA Continued ==
  ASSUME NEW p \in Seq(Byte), NEW q \in Seq(Byte), ReadVarint(p).err = "nil"
  PROVE  /\ Continues(ReadVarint(p), ReadVarint(p \o q), q)
         /\ ReadVarint(p).rest \in Seq(Byte) /\ ReadVarint(p).val \in Nat
         /\ ReadVarint(p \o q).err = "nil"
         /\ ReadVarint(p \o q).val = ReadVarint(p).val
         /\ ReadVarint(p \o q).rest = ReadVarint(p).rest \o q
<1>1. ReadVarint(p \o q) = Result(ReadVarint(p).val, ReadVarint(p).rest \o q)
  BY VarintFromMore
<1>2. ReadVarint(p).rest \in Seq(Byte) /\ ReadVarint(p).val \in 0..MaxUint
  BY WhatIsRead
<1>3. MaxUint \in Nat
  BY Limits
<1> QED
  BY <1>1, <1>2, <1>3 DEF Continues, Result

LEMMA SubscribeOKStays ==
  ASSUME NEW p \in Seq(Byte), NEW q \in Seq(Byte)
  PROVE  Extends(DecodeSubscribeOK(p), DecodeSubscribeOK(p \o q))
<1> DEFINE a == ReadVarint(p)
           n == ReadVarint(a.rest)
           all == p \o q
           aa == ReadVarint(all)
           nn == ReadVarint(aa.rest)
<1> SUFFICES ASSUME DecodeSubscribeOK(p).err = "nil"
             PROVE  /\ DecodeSubscribeOK(all).err = "nil"
                    /\ \A f \in DOMAIN DecodeSubscribeOK(p).val \ {"properties", "redirect"} :
                         DecodeSubscribeOK(all).val[f] = DecodeSubscribeOK(p).val[f]
  BY DEF Extends
<1>1. DecodeSubscribeOK(p) = IF a.err # "nil" THEN Failure(a.err)
              ELSE IF n.err # "nil" THEN Failure(n.err)
              ELSE Result([alias |-> a.val, numParams |-> n.val, properties |-> n.rest], <<>>)
  BY SubscribeOKForm
<1>2. a.err = "nil" /\ n.err = "nil"
      /\ DecodeSubscribeOK(p).val = [alias |-> a.val, numParams |-> n.val, properties |-> n.rest]
  <2> HIDE DEF a, n
  <2> QED
    BY <1>1 DEF Failure, Result
<1>3. a.rest \in Seq(Byte) /\ aa.err = "nil" /\ aa.val = a.val /\ aa.rest = a.rest \o q
  BY <1>2, Continued
<1>4. nn.err = "nil" /\ nn.val = n.val
  <2> HIDE DEF a, aa
  <2> QED
    BY <1>2, <1>3, Continued
<1>5. DecodeSubscribeOK(all) = IF aa.err # "nil" THEN Failure(aa.err)
              ELSE IF nn.err # "nil" THEN Failure(nn.err)
              ELSE Result([alias |-> aa.val, numParams |-> nn.val, properties |-> nn.rest], <<>>)
  <2>1. all \in Seq(Byte)
    BY Joined
  <2> HIDE DEF all
  <2> QED
    BY <2>1, SubscribeOKForm
<1> HIDE DEF a, n, aa, nn, all
<1> QED
  BY <1>2, <1>3, <1>4, <1>5 DEF Result

LEMMA RequestErrorStays ==
  ASSUME NEW p \in Seq(Byte), NEW q \in Seq(Byte)
  PROVE  Extends(DecodeRequestError(p), DecodeRequestError(p \o q))
<1> DEFINE c == ReadVarint(p)
           w == ReadVarint(c.rest)
           n == ReadVarint(w.rest)
           t == readReason(n.rest, n.val)
           all == p \o q
           cc == ReadVarint(all)
           ww == ReadVarint(cc.rest)
           nn == ReadVarint(ww.rest)
           tt == readReason(nn.rest, nn.val)
<1> SUFFICES ASSUME DecodeRequestError(p).err = "nil"
             PROVE  /\ DecodeRequestError(all).err = "nil"
                    /\ \A f \in DOMAIN DecodeRequestError(p).val \ {"properties", "redirect"} :
                         DecodeRequestError(all).val[f] = DecodeRequestError(p).val[f]
  BY DEF Extends
<1>1. DecodeRequestError(p) = IF c.err # "nil" THEN Failure(c.err)
              ELSE IF w.err # "nil" THEN Failure(w.err)
              ELSE IF n.err # "nil" THEN Failure(n.err)
              ELSE IF t.err # "nil" THEN Failure(t.err)
              ELSE Result([code |-> c.val, retry |-> w.val, reason |-> t.val, redirect |-> t.rest], <<>>)
  BY RequestErrorForm
<1>2. c.err = "nil" /\ w.err = "nil" /\ n.err = "nil" /\ t.err = "nil"
      /\ DecodeRequestError(p).val = [code |-> c.val, retry |-> w.val, reason |-> t.val, redirect |-> t.rest]
  <2> HIDE DEF c, w, n, t
  <2> QED
    BY <1>1 DEF Failure, Result
<1>3. c.rest \in Seq(Byte) /\ cc.err = "nil" /\ cc.val = c.val /\ cc.rest = c.rest \o q
  BY <1>2, Continued
<1>4. w.rest \in Seq(Byte) /\ ww.err = "nil" /\ ww.val = w.val /\ ww.rest = w.rest \o q
  <2> HIDE DEF c, cc, n, nn, t, tt, all
  <2>1. ReadVarint(c.rest).err = "nil"
    BY <1>2
  <2>2. /\ ReadVarint(c.rest).rest \in Seq(Byte)
        /\ ReadVarint(c.rest \o q).err = "nil"
        /\ ReadVarint(c.rest \o q).val = ReadVarint(c.rest).val
        /\ ReadVarint(c.rest \o q).rest = ReadVarint(c.rest).rest \o q
    BY <1>3, <2>1, Continued
  <2> QED
    BY <1>3, <2>2
<1>5. n.rest \in Seq(Byte) /\ n.val \in Nat /\ nn.err = "nil" /\ nn.val = n.val /\ nn.rest = n.rest \o q
  <2> HIDE DEF w, ww
  <2> QED
    BY <1>2, <1>4, Continued
<1>6. tt.err = "nil" /\ tt.val = t.val
  <2> HIDE DEF n, nn
  <2>1. Continues(t, tt, q)
    BY <1>2, <1>5, ReasonFromMore
  <2> QED
    BY <2>1 DEF Continues, Result
<1>7. DecodeRequestError(all) = IF cc.err # "nil" THEN Failure(cc.err)
              ELSE IF ww.err # "nil" THEN Failure(ww.err)
              ELSE IF nn.err # "nil" THEN Failure(nn.err)
              ELSE IF tt.err # "nil" THEN Failure(tt.err)
              ELSE Result([code |-> cc.val, retry |-> ww.val, reason |-> tt.val, redirect |-> tt.rest], <<>>)
  <2>1. all \in Seq(Byte)
    BY Joined
  <2> HIDE DEF all
  <2> QED
    BY <2>1, RequestErrorForm
<1> HIDE DEF c, w, n, t, cc, ww, nn, tt, all
<1> QED
  BY <1>2, <1>3, <1>4, <1>5, <1>6, <1>7 DEF Result

LEMMA Stays ==
  ASSUME bytes \in Seq(Byte)
  PROVE  AnswersStayPut
<1> SUFFICES ASSUME NEW l \in 0..Len(bytes)
             PROVE  LET p == SubSeq(bytes, 1, l)
                    IN /\ Extends(DecodeSubscribeOK(p), DecodeSubscribeOK(bytes))
                       /\ Extends(DecodeRequestError(p), DecodeRequestError(bytes))
  BY DEF AnswersStayPut, Prefixes
<1> DEFINE p == SubSeq(bytes, 1, l)
           q == SubSeq(bytes, l + 1, Len(bytes))
<1>1. p \in Seq(Byte) /\ Len(p) = l /\ \A i \in 1..l : p[i] = bytes[i]
  OBVIOUS
<1>2. q \in Seq(Byte) /\ Len(q) = Len(bytes) - l /\ \A i \in 1..Len(bytes)-l : q[i] = bytes[l + i]
  OBVIOUS
<1> HIDE DEF p, q
<1>3. p \o q = bytes
  <2> DEFINE all == p \o q
  <2>1. /\ all \in Seq(Byte) /\ Len(all) = Len(p) + Len(q)
        /\ \A i \in 1..Len(p) : all[i] = p[i]
        /\ \A i \in 1..Len(q) : all[Len(p) + i] = q[i]
    <3>1. p \in Seq(Byte) /\ q \in Seq(Byte)
      BY <1>1, <1>2
    <3> QED
      BY <3>1, Joined
  <2> HIDE DEF all
  <2>2. Len(all) = Len(bytes)
    BY <1>1, <1>2, <2>1
  <2>3. ASSUME NEW i \in 1..Len(all) PROVE all[i] = bytes[i]
    <3>1. CASE i <= l
      BY <1>1, <2>1, <2>2, <3>1
    <3>2. CASE i > l
      <4> DEFINE j == i - l
      <4>1. j \in 1..Len(q) /\ i = l + j /\ j \in 1..Len(bytes)-l
        BY <1>1, <1>2, <2>2, <3>2
      <4> HIDE DEF j
      <4> QED
        BY <1>1, <1>2, <2>1, <4>1
    <3> QED
      BY <2>2, <3>1, <3>2
  <2> QED
    BY <2>1, <2>2, <2>3, SameSequence DEF all
<1>4. /\ Extends(DecodeSubscribeOK(p), DecodeSubscribeOK(p \o q))
      /\ Extends(DecodeRequestError(p), DecodeRequestError(p \o q))
  BY <1>1, <1>2, SubscribeOKStays, RequestErrorStays
<1> QED
  BY <1>3, <1>4 DEF p

-----------------------------------------------------------------------------
(***************************************************************************)
(* Numbers digit by digit.  Prefixed(base, s, u) says that u[i] is the     *)
(* value of the first i digits.                                            *)
(***************************************************************************)
Prefixed(base, s, u) ==
  /\ u \in [0..Len(s) -> Nat] /\ u[0] = 0
  /\ \A i \in 1..Len(s) : u[i] = base * u[i - 1] + s[i]

Powers(base, pow) ==
  pow \in [Nat -> Nat] /\ pow[0] = 1 /\ \A n \in Nat : pow[n + 1] = base * pow[n]

LEMMA Rearranged ==
  ASSUME NEW b \in Nat, NEW x \in Nat, NEW y \in Nat, NEW z \in Nat, NEW d \in Nat
  PROVE  /\ b * (x * y + z) + d = x * (b * y) + (b * z + d)
         /\ x * 1 + 0 = x
OBVIOUS

LEMMA MovedUp ==
  ASSUME NEW p \in Nat, NEW t \in Nat, NEW d \in Nat, NEW sh \in Nat, NEW ui \in Nat
  PROVE  (p * t + d) * sh + ui = t * (sh * p) + (d * sh + ui)
OBVIOUS

\* w has the values of the first digits of a part of s.
PartPrefixed(base, s, m, n, w) ==
  /\ w \in [0..n-m -> Nat] /\ w[0] = 0
  /\ \A i \in 1..n-m : w[i] = base * w[i - 1] + s[m + i] /\ s[m + i] \in Nat
  /\ Number(base, SubSeq(s, m + 1, n)) = w[n - m]

LEMMA NumberOfPart ==
  ASSUME NEW base \in Nat, NEW s \in Seq(Nat), NEW m \in Nat, NEW n \in Nat, m <= n, n <= Len(s)
  PROVE  \E w : PartPrefixed(base, s, m, n, w)
<1> DEFINE k == m + 1
           t == SubSeq(s, k, n)
<1>1. k \in Nat /\ 1 <= k /\ k <= n + 1 /\ n - k + 1 = n - m
  OBVIOUS
<1>2. \A i \in 1..n-m : k + i - 1 = m + i
  OBVIOUS
<1> HIDE DEF k
<1>3. t \in Seq(Nat) /\ Len(t) = n - k + 1 /\ \A i \in 1..n-k+1 : t[i] = s[k + i - 1]
  <2>1. s \in Seq(Nat) /\ k \in Nat /\ n \in Nat /\ 1 <= k /\ n <= Len(s) /\ k <= n + 1
    BY <1>1
  <2> QED
    BY ONLY <2>1, PartOf
<1> HIDE DEF t
<1>4. t \in Seq(Nat) /\ Len(t) = n - m /\ \A i \in 1..n-m : t[i] = s[m + i] /\ t[i] \in Nat
  <2>1. t \in Seq(Nat) /\ Len(t) = n - m
    BY <1>1, <1>3
  <2>2. ASSUME NEW i \in 1..n-m PROVE t[i] = s[m + i] /\ t[i] \in Nat
    <3>1. i \in 1..n-k+1 /\ k + i - 1 = m + i
      BY <1>1, <1>2
    <3>2. t[i] = s[m + i]
      BY <1>3, <3>1
    <3>3. m + i \in 1..Len(s)
      OBVIOUS
    <3> QED
      BY <3>2, <3>3
  <2> QED
    BY <2>1, <2>2
<1>5. PICK w \in [0..Len(t) -> Nat] : /\ w[0] = 0
                                      /\ \A i \in 1..Len(t) : w[i] = base * w[i - 1] + t[i]
                                      /\ Number(base, t) = w[Len(t)]
  BY <1>4, NumberByDigits
<1>6. Len(t) = n - m
  BY <1>4
<1>7. /\ w \in [0..n-m -> Nat] /\ w[0] = 0
      /\ Number(base, t) = w[n - m]
  BY <1>5, <1>6
<1>8. \A i \in 1..n-m : w[i] = base * w[i - 1] + t[i]
  BY <1>5, <1>6
<1>9. \A i \in 1..n-m : w[i] = base * w[i - 1] + s[m + i] /\ s[m + i] \in Nat
  BY <1>4, <1>8, Zenon
<1> QED
  BY <1>7, <1>9 DEF PartPrefixed, t, k

\* The digits from m+1 on are worth what all are, less the first m moved up.
LEMMA DigitsFrom ==
  ASSUME NEW base \in Nat, NEW pow, Powers(base, pow),
         NEW s \in Seq(Nat), NEW u, Prefixed(base, s, u),
         NEW m \in Nat, NEW n \in Nat, m <= n, n <= Len(s)
  PROVE  u[n] = u[m] * pow[n - m] + Number(base, SubSeq(s, m + 1, n))
<1>0. /\ pow \in [Nat -> Nat] /\ pow[0] = 1
      /\ \A k \in Nat : pow[k + 1] = base * pow[k]
  BY DEF Powers
<1>1. PICK w \in [0..n-m -> Nat] :
        /\ w[0] = 0
        /\ \A i \in 1..n-m : w[i] = base * w[i - 1] + s[m + i] /\ s[m + i] \in Nat
        /\ Number(base, SubSeq(s, m + 1, n)) = w[n - m]
  <2>1. \E w : PartPrefixed(base, s, m, n, w)
    BY NumberOfPart, Zenon
  <2> QED
    BY <2>1, Zenon DEF PartPrefixed
<1> DEFINE x == u[m]
           P == {j \in Nat : j <= n - m => u[m + j] = x * pow[j] + w[j]}
<1>2. x \in Nat
  <2>1. m \in 0..Len(s)
    OBVIOUS
  <2> QED
    BY <2>1 DEF Prefixed
<1>3. u[m + 0] = x
  OBVIOUS
<1> HIDE DEF x
<1>4. 0 \in P
  <2>1. x * 1 + 0 = x
    BY <1>2, Rearranged
  <2> QED
    BY <1>0, <1>1, <1>3, <2>1
<1>5. ASSUME NEW j \in Nat, j \in P PROVE j + 1 \in P
  <2> SUFFICES ASSUME j + 1 <= n - m PROVE u[m + (j + 1)] = x * pow[j + 1] + w[j + 1]
    OBVIOUS
  <2> DEFINE y == pow[j]
             z == w[j]
             d == s[m + (j + 1)]
  <2>1. u[m + j] = x * y + z
    BY <1>5
  <2>2. u[m + (j + 1)] = base * u[m + j] + d
    <3>1. m + (j + 1) \in 1..Len(s) /\ m + (j + 1) - 1 = m + j
      OBVIOUS
    <3> QED
      BY <3>1 DEF Prefixed
  <2>3. w[j + 1] = base * z + d /\ z \in Nat /\ d \in Nat
    <3>1. j + 1 \in 1..n-m /\ j + 1 - 1 = j /\ j \in 0..n-m
      OBVIOUS
    <3>2. w[j] \in Nat
      BY <1>1, <3>1
    <3> DEFINE i == j + 1
    <3>3. i \in 1..n-m /\ i - 1 = j /\ d = s[m + i]
      BY <3>1
    <3> HIDE DEF i, d, z
    <3>4. w[i] = base * w[i - 1] + s[m + i] /\ s[m + i] \in Nat
      BY <1>1, <3>3
    <3> QED
      BY <3>2, <3>3, <3>4 DEF i, z
  <2>4. pow[j + 1] = base * y /\ y \in Nat
    BY <1>0
  <2> HIDE DEF y, z, d
  <2>5. base * (x * y + z) + d = x * (base * y) + (base * z + d)
    BY <1>2, <2>3, <2>4, Rearranged
  <2> QED
    BY <2>1, <2>2, <2>3, <2>4, <2>5
<1>6. n - m \in P
  <2>1. n - m \in Nat
    OBVIOUS
  <2> HIDE DEF P
  <2> QED
    BY <1>4, <1>5, <2>1, SetInduction
<1>7. m + (n - m) = n /\ n - m <= n - m
  OBVIOUS
<1> QED
  BY <1>1, <1>6, <1>7 DEF x

-----------------------------------------------------------------------------
(***************************************************************************)
(* The bits of a byte.                                                     *)
(***************************************************************************)
\* The number of the first i bits of b.
TopBits(b, i) == b \div 2^(ByteBits - i)

LEMMA TopBitsGrow ==
  ASSUME NEW b \in Byte
  PROVE  /\ \A i \in 0..ByteBits : TopBits(b, i) \in Nat
         /\ TopBits(b, 0) = 0 /\ TopBits(b, ByteBits) = b
         /\ \A i \in 0..ByteBits-1 : TopBits(b, i + 1) = 2 * TopBits(b, i) + Bit(b, i + 1)
         /\ \A i \in 1..ByteBits : Bit(b, i) \in {0, 1}
<1>1. b \in Nat /\ b < Base /\ Base = 2^ByteBits /\ Base \in Nat /\ ByteBits \in Nat
  BY Shifts, ByteIsNumber
<1>2. ASSUME NEW i \in 0..ByteBits PROVE TopBits(b, i) \in Nat
  <2>1. 2^(ByteBits - i) \in Nat /\ 2^(ByteBits - i) >= 1
    BY <1>1, PowerPositive
  <2> QED
    BY <1>1, <2>1, Division DEF TopBits
<1>3. TopBits(b, 0) = 0
  <2>1. ByteBits - 0 = ByteBits /\ Base * 0 + b = b
    BY <1>1
  <2>2. b \div Base = 0
    BY <1>1, <2>1, DivisionUnique
  <2> QED
    BY <1>1, <2>1, <2>2 DEF TopBits
<1>4. TopBits(b, ByteBits) = b
  <2>1. ByteBits - ByteBits = 0 /\ b \div 1 = b
    BY <1>1
  <2> QED
    BY <2>1, PowerOfZero DEF TopBits
<1>5. ASSUME NEW i \in 0..ByteBits-1
      PROVE  TopBits(b, i + 1) = 2 * TopBits(b, i) + Bit(b, i + 1)
  <2> DEFINE j == ByteBits - (i + 1)
             p == 2^j
  <2>1. j \in Nat /\ j + 1 = ByteBits - i
    BY <1>1
  <2>2. p \in Nat /\ p >= 1 /\ 2^(ByteBits - i) = p * 2
    <3>1. 2^(j + 1) = 2 * 2^j /\ 2^j \in Nat /\ 2^j >= 1
      BY <2>1, PowerDoubles, PowerPositive
    <3>2. \A x \in Nat : 2 * x = x * 2
      OBVIOUS
    <3> HIDE DEF j
    <3> QED
      BY <2>1, <3>1, <3>2
  <2>3. TopBits(b, i + 1) = b \div p /\ Bit(b, i + 1) = (b \div p) % 2
    BY DEF TopBits, Bit
  <2>4. TopBits(b, i) = (b \div p) \div 2
    <3>1. TopBits(b, i) = b \div (p * 2)
      BY <2>2 DEF TopBits
    <3> HIDE DEF p
    <3>2. (b \div p) \div 2 = b \div (p * 2)
      <4> DEFINE two == 2
      <4>1. two \in Nat /\ two >= 1 /\ p \in Nat /\ p >= 1 /\ b \in Nat
        BY <1>1, <2>2
      <4> HIDE DEF two
      <4>2. (b \div p) \div two = b \div (p * two)
        BY <4>1, DivisionByProduct
      <4> QED
        BY <4>2 DEF two
    <3> QED
      BY <3>1, <3>2
  <2>5. b \div p \in Nat
    <3> HIDE DEF p
    <3> QED
      BY <1>1, <2>2, Division
  <2> HIDE DEF p
  <2> QED
    BY <2>3, <2>4, <2>5
<1>6. ASSUME NEW i \in 1..ByteBits PROVE Bit(b, i) \in {0, 1}
  <2>1. TopBits(b, i) \in Nat
    BY <1>1, <1>2
  <2>2. Bit(b, i) = TopBits(b, i) % 2
    BY DEF Bit, TopBits
  <2> QED
    BY <2>1, <2>2
<1> QED
  BY <1>2, <1>3, <1>4, <1>5, <1>6

\* The first i bits are ones exactly if the byte is at least 1..10..0 with i ones.
LEMMA OnesOnTop ==
  ASSUME NEW b \in Byte
  PROVE  \A i \in 0..ByteBits :
           /\ (\A j \in 1..i : Bit(b, j) = 1) <=> b >= Base - 2^(ByteBits - i)
           /\ TopBits(b, i) < 2^i
           /\ (\A j \in 1..i : Bit(b, j) = 1) <=> TopBits(b, i) = 2^i - 1
<1>1. b \in Nat /\ Base \in Nat /\ ByteBits \in Nat /\ Base = 2^ByteBits
  BY Shifts, ByteIsNumber
<1> DEFINE AllOnes(i) == \A j \in 1..i : Bit(b, j) = 1
           P == {i \in Nat : i <= ByteBits =>
                   TopBits(b, i) < 2^i /\ (AllOnes(i) <=> TopBits(b, i) = 2^i - 1)}
<1>2. 0 \in P
  BY PowerOfZero, TopBitsGrow
<1>3. ASSUME NEW i \in Nat, i \in P PROVE i + 1 \in P
  <2> SUFFICES ASSUME i + 1 <= ByteBits
               PROVE  /\ TopBits(b, i + 1) < 2^(i + 1)
                      /\ AllOnes(i + 1) <=> TopBits(b, i + 1) = 2^(i + 1) - 1
    OBVIOUS
  <2>1. i \in 0..ByteBits-1 /\ i \in 0..ByteBits /\ i + 1 \in 1..ByteBits
    BY <1>1
  <2>2. TopBits(b, i + 1) = 2 * TopBits(b, i) + Bit(b, i + 1) /\ TopBits(b, i) \in Nat
        /\ Bit(b, i + 1) \in {0, 1}
    BY <2>1, TopBitsGrow
  <2>3. 2^(i + 1) = 2 * 2^i /\ 2^i \in Nat
    BY PowerDoubles
  <2>4. AllOnes(i + 1) <=> AllOnes(i) /\ Bit(b, i + 1) = 1
    OBVIOUS
  <2>5. TopBits(b, i) < 2^i /\ (AllOnes(i) <=> TopBits(b, i) = 2^i - 1)
    BY <1>3, <2>1
  <2> HIDE DEF AllOnes
  <2> QED
    BY <2>2, <2>3, <2>4, <2>5
<1>4. \A i \in Nat : i \in P
  <2> HIDE DEF P
  <2> QED
    BY <1>2, <1>3, SetInduction
<1>5. ASSUME NEW i \in 0..ByteBits
      PROVE  TopBits(b, i) = 2^i - 1 <=> b >= Base - 2^(ByteBits - i)
  <2> DEFINE p == 2^(ByteBits - i)
             t == TopBits(b, i)
  <2>1. p \in Nat /\ p >= 1 /\ 2^i \in Nat /\ Base = 2^i * p
    <3>1. ByteBits - i \in Nat /\ i + (ByteBits - i) = ByteBits /\ i \in Nat
      BY <1>1
    <3> QED
      BY <1>1, <3>1, PowerPositive, PowerOfSum
  <2>2. t \in Nat /\ b % p \in 0..p-1 /\ b = p * t + (b % p)
    <3>1. t = b \div p
      BY DEF TopBits
    <3> HIDE DEF p, t
    <3> QED
      BY <1>1, <2>1, <3>1, Division
  <2>3. t < 2^i
    BY <1>1, <1>4
  <2>4. \A pp, tt, r, x \in Nat :
          r < pp /\ tt < x => (tt = x - 1 <=> pp * tt + r >= x * pp - pp)
    <3> TAKE pp, tt, r, x \in Nat
    <3> HAVE r < pp /\ tt < x
    <3>1. CASE tt = x - 1
      <4>1. pp * (x - 1) = x * pp - pp
        BY <3>1
      <4> QED
        BY <3>1, <4>1
    <3>2. CASE tt <= x - 2
      <4>1. pp * tt <= pp * (x - 2)
        BY <3>2
      <4>2. pp * (x - 2) = x * pp - 2 * pp
        BY <3>2
      <4> QED
        BY <3>2, <4>1, <4>2
    <3> QED
      BY <3>1, <3>2
  <2> HIDE DEF p, t
  <2>5. b % p \in Nat /\ b % p < p
    BY <2>1, <2>2
  <2>6. t = 2^i - 1 <=> b >= 2^i * p - p
    <3> DEFINE x == 2^i
               d == b % p
    <3>1. x \in Nat /\ d \in Nat /\ d < p /\ t < x /\ b = p * t + d
      BY <2>1, <2>2, <2>3, <2>5
    <3> HIDE DEF x, d
    <3>2. t = x - 1 <=> p * t + d >= x * p - p
      BY <2>1, <2>2, <2>4, <3>1
    <3> QED
      BY <3>1, <3>2 DEF x
  <2> QED
    BY <2>1, <2>6 DEF p, t
<1>6. \A i \in 0..ByteBits : i \in Nat /\ i <= ByteBits
  BY <1>1
<1> QED
  BY <1>4, <1>5, <1>6

-----------------------------------------------------------------------------
(***************************************************************************)
(* The bits of a string of bytes.                                          *)
(***************************************************************************)
BitsOf(b) == [i \in 1..Len(b) * ByteBits |->
                Bit(b[1 + (i - 1) \div ByteBits], 1 + ((i - 1) % ByteBits))]

LEMMA BitsAt ==
  ASSUME NEW b \in Seq(Byte)
  PROVE  /\ BitsOf(b) \in Seq(Nat) /\ Len(BitsOf(b)) = Len(b) * ByteBits
         /\ \A c \in 0..Len(b)-1 : \A i \in 1..ByteBits :
              /\ c * ByteBits + i \in 1..Len(b) * ByteBits
              /\ BitsOf(b)[c * ByteBits + i] = Bit(b[c + 1], i)
<1> DEFINE n == Len(b) * ByteBits
           bits == BitsOf(b)
<1>1. ByteBits \in Nat /\ ByteBits >= 2 /\ Len(b) \in Nat
  BY Shifts
<1>2. n \in Nat
  BY <1>1, ProductInNat
<1>3. ASSUME NEW k \in 1..n
      PROVE  /\ (k - 1) \div ByteBits \in 0..Len(b)-1 /\ (k - 1) % ByteBits \in 0..ByteBits-1
  <2> DEFINE q == (k - 1) \div ByteBits
             r == (k - 1) % ByteBits
  <2>1. k - 1 \in Nat /\ ByteBits >= 1 /\ k - 1 < n
    BY <1>1, <1>2
  <2>2. q \in Nat /\ r \in 0..ByteBits-1 /\ k - 1 = ByteBits * q + r
    <3> DEFINE a == k - 1
    <3>1. a \in Nat
      BY <2>1
    <3> HIDE DEF a
    <3>2. a \div ByteBits \in Nat /\ a % ByteBits \in 0..ByteBits-1
          /\ a = ByteBits * (a \div ByteBits) + (a % ByteBits)
      BY <1>1, <2>1, <3>1, Division
    <3> QED
      BY <3>2 DEF a
  <2> HIDE DEF q, r, n
  <2>3. \A x, y, z, d \in Nat : d * x + z < y * d => x < y
    <3> TAKE x, y, z, d \in Nat
    <3> SUFFICES ASSUME x >= y PROVE d * x + z >= y * d
      OBVIOUS
    <3>1. d * x >= d * y /\ d * y = y * d
      OBVIOUS
    <3> QED
      BY <3>1
  <2>4. ByteBits * q + r < Len(b) * ByteBits /\ r \in Nat
    BY <2>1, <2>2 DEF n
  <2>5. q < Len(b)
    BY <1>1, <2>2, <2>3, <2>4
  <2> QED
    BY <1>1, <2>2, <2>5 DEF q, r
<1>4. ASSUME NEW k \in 1..n
      PROVE  Bit(b[1 + (k - 1) \div ByteBits], 1 + ((k - 1) % ByteBits)) \in Nat
  <2> DEFINE q == (k - 1) \div ByteBits
             r == (k - 1) % ByteBits
  <2>1. q \in 0..Len(b)-1 /\ r \in 0..ByteBits-1
    BY <1>3
  <2> HIDE DEF q, r, n
  <2>2. b[1 + q] \in Byte /\ 1 + r \in 1..ByteBits
    BY <1>1, <2>1
  <2>3. Bit(b[1 + q], 1 + r) \in {0, 1}
    BY <2>2, TopBitsGrow
  <2>4. Bit(b[1 + q], 1 + r) \in Nat
    BY <2>3
  <2> QED
    BY <2>4 DEF q, r
<1>5. bits \in Seq(Nat) /\ Len(bits) = n
  <2>1. bits = [i \in 1..n |-> Bit(b[1 + (i - 1) \div ByteBits], 1 + ((i - 1) % ByteBits))]
    BY DEF BitsOf
  <2> HIDE DEF bits, n
  <2>2. bits \in [1..n -> Nat]
    BY <1>4, <2>1
  <2> QED
    BY <1>2, <2>2
<1>6. ASSUME NEW c \in 0..Len(b)-1, NEW i \in 1..ByteBits
      PROVE  c * ByteBits + i \in 1..n /\ bits[c * ByteBits + i] = Bit(b[c + 1], i)
  <2> DEFINE k == c * ByteBits + i
  <2>1. c * ByteBits \in Nat /\ c \in Nat /\ i \in Nat
    BY <1>1, ProductInNat
  <2>2. k \in 1..n
    <3>1. (c + 1) * ByteBits <= Len(b) * ByteBits
      BY <1>1
    <3>2. (c + 1) * ByteBits = c * ByteBits + ByteBits
      BY <1>1
    <3> HIDE DEF n
    <3> QED
      BY <1>1, <1>2, <2>1, <3>1, <3>2 DEF n
  <2>3. (k - 1) \div ByteBits = c /\ (k - 1) % ByteBits = i - 1
    <3> DEFINE a == k - 1
               r == i - 1
    <3>1. a \in Nat /\ r \in Nat /\ a = ByteBits * c + r /\ r < ByteBits
      BY <1>1, <2>1
    <3> HIDE DEF a, r
    <3>2. a \div ByteBits = c /\ a % ByteBits = r
      BY <1>1, <2>1, <3>1, DivisionUnique
    <3> QED
      BY <3>2 DEF a, r
  <2> HIDE DEF k, n
  <2>4. bits[k] = Bit(b[1 + (k - 1) \div ByteBits], 1 + ((k - 1) % ByteBits))
    BY <2>2 DEF BitsOf, n
  <2>5. 1 + c = c + 1 /\ 1 + (i - 1) = i
    BY <2>1
  <2>6. bits[k] = Bit(b[1 + c], 1 + (i - 1))
    <3> HIDE DEF bits
    <3> QED
      BY <2>3, <2>4
  <2> QED
    BY <2>2, <2>5, <2>6 DEF k
<1> QED
  BY <1>5, <1>6

\* The first bits of a string are worth the bytes they fill and the top of the next.
LEMMA BitsByBytes ==
  ASSUME NEW b \in Seq(Byte), NEW u, Prefixed(2, BitsOf(b), u),
         NEW w, Prefixed(Base, b, w)
  PROVE  /\ \A c \in 0..Len(b) : u[c * ByteBits] = w[c]
         /\ \A i \in 0..ByteBits : b # <<>> => u[i] = TopBits(b[1], i)
<1> DEFINE bits == BitsOf(b)
<1>1. ByteBits \in Nat /\ ByteBits >= 2 /\ Len(b) \in Nat
  BY Shifts
<1>2. bits \in Seq(Nat) /\ Len(bits) = Len(b) * ByteBits
  BY BitsAt
<1>3. \A k \in 1..Len(b) * ByteBits : u[k] = 2 * u[k - 1] + bits[k]
  BY <1>2 DEF Prefixed
<1>4. u[0] = 0 /\ w[0] = 0 /\ \A c \in 1..Len(b) : w[c] = Base * w[c - 1] + b[c]
  BY DEF Prefixed
<1> HIDE DEF bits
<1>5. ASSUME NEW c \in 0..Len(b)-1, NEW x \in Nat, u[c * ByteBits] = x
      PROVE  \A i \in 0..ByteBits : u[c * ByteBits + i] = x * 2^i + TopBits(b[c + 1], i)
  <2> DEFINE byte == b[c + 1]
             o == c * ByteBits
             P == {i \in Nat : i <= ByteBits => u[o + i] = x * 2^i + TopBits(byte, i)}
  <2>1. byte \in Byte /\ o \in Nat
    BY <1>1, ProductInNat
  <2> HIDE DEF byte, o
  <2>2. 0 \in P
    <3>1. x * 1 + 0 = x /\ o + 0 = o
      BY <2>1
    <3>2. TopBits(byte, 0) = 0
      BY <2>1, TopBitsGrow
    <3>3. u[o] = x
      BY <1>5 DEF o
    <3> QED
      BY <3>1, <3>2, <3>3, PowerOfZero
  <2>3. ASSUME NEW i \in Nat, i \in P PROVE i + 1 \in P
    <3> SUFFICES ASSUME i + 1 <= ByteBits
                 PROVE  u[o + (i + 1)] = x * 2^(i + 1) + TopBits(byte, i + 1)
      OBVIOUS
    <3> DEFINE k == o + (i + 1)
    <3>1. k - 1 = o + i /\ i + 1 \in 1..ByteBits /\ i \in 0..ByteBits-1 /\ i \in 0..ByteBits
      BY <1>1, <2>1
    <3>2. k \in 1..Len(b) * ByteBits /\ bits[k] = Bit(byte, i + 1)
      BY <3>1, BitsAt DEF o, byte, bits
    <3>3. u[k] = 2 * u[o + i] + Bit(byte, i + 1)
      <4> HIDE DEF k
      <4>1. u[k] = 2 * u[k - 1] + bits[k]
        BY <1>3, <3>2
      <4> QED
        BY <3>1, <3>2, <4>1
    <3>4. TopBits(byte, i + 1) = 2 * TopBits(byte, i) + Bit(byte, i + 1) /\ TopBits(byte, i) \in Nat
          /\ Bit(byte, i + 1) \in Nat
      <4>1. Bit(byte, i + 1) \in {0, 1}
        BY <2>1, <3>1, TopBitsGrow
      <4>2. TopBits(byte, i + 1) = 2 * TopBits(byte, i) + Bit(byte, i + 1)
        BY <2>1, <3>1, TopBitsGrow
      <4>3. TopBits(byte, i) \in Nat
        BY <2>1, <3>1, TopBitsGrow
      <4>4. Bit(byte, i + 1) \in Nat
        BY <4>1
      <4> QED
        BY <4>2, <4>3, <4>4
    <3>5. u[o + i] = x * 2^i + TopBits(byte, i)
      BY <2>3, <3>1
    <3>6. 2^(i + 1) = 2 * 2^i /\ 2^i \in Nat
      BY PowerDoubles
    <3> DEFINE y == 2^i
               t == TopBits(byte, i)
               d == Bit(byte, i + 1)
    <3> HIDE DEF y, t, d, k
    <3>7. 2 * (x * y + t) + d = x * (2 * y) + (2 * t + d)
      <4>1. y \in Nat /\ t \in Nat /\ d \in Nat /\ 2 \in Nat
        BY <3>4, <3>6 DEF y, t, d
      <4> QED
        BY <4>1, Rearranged
    <3> QED
      BY <3>3, <3>4, <3>5, <3>6, <3>7 DEF y, t, d, k
  <2>4. \A i \in Nat : i \in P
    <3> HIDE DEF P
    <3> QED
      BY <2>2, <2>3, SetInduction
  <2>5. \A i \in 0..ByteBits : i \in Nat /\ i <= ByteBits
    BY <1>1
  <2> QED
    BY <2>4, <2>5 DEF o, byte
<1>6. \A c \in 0..Len(b) : w[c] \in Nat
  BY DEF Prefixed
<1> DEFINE Q == {c \in Nat : c <= Len(b) => u[c * ByteBits] = w[c]}
<1>7. 0 \in Q
  <2>1. 0 * ByteBits = 0
    BY <1>1
  <2> QED
    BY <1>4, <2>1
<1>8. ASSUME NEW c \in Nat, c \in Q PROVE c + 1 \in Q
  <2> SUFFICES ASSUME c + 1 <= Len(b) PROVE u[(c + 1) * ByteBits] = w[c + 1]
    OBVIOUS
  <2>1. c \in 0..Len(b)-1 /\ c \in 0..Len(b) /\ c + 1 \in 1..Len(b) /\ c + 1 - 1 = c
    BY <1>1
  <2>2. u[c * ByteBits] = w[c] /\ w[c] \in Nat
    BY <1>6, <1>8, <2>1
  <2>3. ByteBits \in 0..ByteBits /\ (c + 1) * ByteBits = c * ByteBits + ByteBits
    BY <1>1
  <2>4. u[(c + 1) * ByteBits] = w[c] * 2^ByteBits + TopBits(b[c + 1], ByteBits)
    BY <1>5, <2>1, <2>2, <2>3
  <2>5. b[c + 1] \in Byte
    BY <2>1
  <2>6. TopBits(b[c + 1], ByteBits) = b[c + 1]
    BY <2>5, TopBitsGrow
  <2>7. w[c + 1] = Base * w[c] + b[c + 1]
    BY <1>4, <2>1
  <2>8. w[c] * 2^ByteBits = Base * w[c]
    <3>1. Base \in Nat /\ Base = 2^ByteBits
      BY Shifts
    <3>2. \A p, q \in Nat : p * q = q * p
      OBVIOUS
    <3> QED
      BY <2>2, <3>1, <3>2
  <2> QED
    BY <2>4, <2>6, <2>7, <2>8
<1>9. \A c \in Nat : c \in Q
  <2> HIDE DEF Q
  <2> QED
    BY <1>7, <1>8, SetInduction
<1>10. ASSUME NEW i \in 0..ByteBits, b # <<>> PROVE u[i] = TopBits(b[1], i)
  <2>1. 0 \in 0..Len(b)-1 /\ 0 * ByteBits = 0 /\ 0 + i = i /\ 0 + 1 = 1
    BY <1>1, <1>10
  <2>2. u[0 * ByteBits] = 0 /\ 0 \in Nat
    BY <1>4, <2>1
  <2>3. u[0 * ByteBits + i] = 0 * 2^i + TopBits(b[0 + 1], i)
    BY <1>5, <2>1, <2>2
  <2>4. b[1] \in Byte /\ 2^i \in Nat
    BY <1>10, PowerPositive
  <2>5. TopBits(b[1], i) \in Nat /\ 0 * 2^i = 0
    BY <2>4, TopBitsGrow
  <2> QED
    BY <2>1, <2>3, <2>5
<1>11. \A c \in 0..Len(b) : c \in Nat /\ c <= Len(b)
  BY <1>1
<1> QED
  BY <1>9, <1>10, <1>11

LEMMA HasPrefixes ==
  ASSUME NEW base \in Nat, NEW s \in Seq(Nat)
  PROVE  \E u : Prefixed(base, s, u)
BY DigitsHavePrefixes DEF Prefixed

\* A varint of e + 1 bytes is the first byte, moved up, and the number of the others.
LEMMA BytesApart ==
  ASSUME NEW b \in Seq(Byte), NEW e \in Nat, e + 1 <= Len(b), NEW w, Prefixed(Base, b, w)
  PROVE  w[e + 1] = b[1] * Shift(e) + Uint(SubSeq(b, 2, e + 1))
<1> DEFINE pow == [k \in Nat |-> Shift(k)]
<1>1. b \in Seq(Nat) /\ Base \in Nat
  BY BytesAreNumbers, Shifts
<1>2. /\ pow \in [Nat -> Nat] /\ pow[0] = 1
      /\ \A k \in Nat : pow[k + 1] = Base * pow[k]
      /\ \A k \in Nat : pow[k] = Shift(k)
  <2>1. \A k \in Nat : k + 1 \in Nat /\ pow[k] = Shift(k)
    OBVIOUS
  <2>2. pow \in [Nat -> Nat]
    BY Shifts
  <2> HIDE DEF pow
  <2> QED
    BY <2>1, <2>2, Shifts
<1>3. w[1] = b[1]
  <2>1. w[0] = 0 /\ 1 \in 1..Len(b) /\ 1 - 1 = 0
    BY DEF Prefixed
  <2>2. w[1] = Base * w[0] + b[1]
    BY <2>1 DEF Prefixed
  <2>3. Base * 0 + b[1] = b[1]
    BY <1>1, <2>1
  <2> QED
    BY <2>1, <2>2, <2>3
<1> HIDE DEF pow
<1>4. w[e + 1] = w[1] * pow[e + 1 - 1] + Number(Base, SubSeq(b, 1 + 1, e + 1))
  <2> DEFINE n == e + 1
  <2>1. n \in Nat /\ 1 \in Nat /\ 1 <= n /\ n <= Len(b)
    OBVIOUS
  <2> HIDE DEF n
  <2>2. w[n] = w[1] * pow[n - 1] + Number(Base, SubSeq(b, 1 + 1, n))
    <3>1. Powers(Base, pow)
      BY <1>2 DEF Powers
    <3> QED
      BY <1>1, <2>1, <3>1, DigitsFrom
  <2> QED
    BY <2>2 DEF n
<1>5. e + 1 - 1 = e /\ 1 + 1 = 2
  OBVIOUS
<1> QED
  BY <1>2, <1>3, <1>4, <1>5 DEF Uint

\* What the table makes of the bits after the ones and the zero.
LEMMA TableDecodes ==
  ASSUME NEW b \in Seq(Byte), NEW e \in 0..ByteBits, e + 1 <= Len(b)
  PROVE  Number(2, SubSeq(BitsOf(b), IF e = ByteBits THEN e + 1 ELSE e + 2, (1 + e) * ByteBits))
           = decodeVarintBytes(b[1], SubSeq(b, 2, e + 1))
<1> DEFINE bits  == BitsOf(b)
           first == b[1]
           rest  == SubSeq(b, 2, e + 1)
           n     == (1 + e) * ByteBits
           m     == IF e = ByteBits THEN e ELSE e + 1
           pow   == [k \in Nat |-> 2^k]
           num   == Number(2, SubSeq(bits, m + 1, n))
           sh    == Shift(e)
           ui    == Uint(rest)
<1>1. ByteBits \in Nat /\ ByteBits >= 2 /\ e \in Nat /\ Len(b) \in Nat /\ b # <<>>
  BY Shifts
<1>2. first \in Byte /\ first \in Nat
  <2>1. first \in Byte
    BY <1>1
  <2> HIDE DEF first
  <2> QED
    BY <2>1, ByteIsNumber
<1>3. bits \in Seq(Nat) /\ Len(bits) = Len(b) * ByteBits
  BY BitsAt
<1>4. b \in Seq(Nat) /\ Base \in Nat /\ 2 \in Nat
  BY BytesAreNumbers, Shifts
<1> HIDE DEF bits, first
<1>5. PICK u : Prefixed(2, bits, u)
  BY <1>3, <1>4, HasPrefixes
<1>6. PICK w : Prefixed(Base, b, w)
  BY <1>4, HasPrefixes
<1>7. u[n] = first * sh + ui
  <2>1. 1 + e \in 0..Len(b) /\ 1 + e = e + 1
    BY <1>1
  <2>2. u[(1 + e) * ByteBits] = w[1 + e]
    BY <1>5, <1>6, <2>1, BitsByBytes DEF bits
  <2>3. w[e + 1] = first * sh + ui
    BY <1>1, <1>6, BytesApart DEF first
  <2> QED
    BY <2>1, <2>2, <2>3
<1>8. rest \in Seq(Byte) /\ Len(rest) = e
  <2> DEFINE k == e + 1
  <2>1. k \in Nat /\ 2 \in Nat /\ 1 <= 2 /\ k <= Len(b) /\ 2 <= k + 1 /\ k - 2 + 1 = e
    BY <1>1
  <2> HIDE DEF k
  <2>2. SubSeq(b, 2, k) \in Seq(Byte) /\ Len(SubSeq(b, 2, k)) = k - 2 + 1
    BY <2>1, PartOf
  <2> QED
    BY <2>1, <2>2 DEF k
<1> HIDE DEF rest
<1>9. sh \in Nat /\ ui \in Nat
  BY <1>1, <1>8, Shifts, UintFits
<1>10. /\ pow \in [Nat -> Nat] /\ pow[0] = 1
       /\ \A k \in Nat : pow[k + 1] = 2 * pow[k]
       /\ \A k \in Nat : pow[k] = 2^k
  <2>1. \A k \in Nat : k + 1 \in Nat /\ pow[k] = 2^k
    OBVIOUS
  <2>2. pow \in [Nat -> Nat]
    BY PowerPositive
  <2> HIDE DEF pow
  <2> QED
    BY <2>1, <2>2, PowerOfZero, PowerDoubles
<1>11. m \in Nat /\ n \in Nat /\ m <= n /\ n <= Len(bits) /\ m \in 0..ByteBits
       /\ n = ByteBits * e + ByteBits /\ ByteBits * e \in Nat
  <2>1. n = ByteBits * e + ByteBits
    BY <1>1
  <2>2. ByteBits * e \in Nat
    BY <1>1, ProductInNat
  <2>3. (1 + e) * ByteBits <= Len(b) * ByteBits
    BY <1>1
  <2>4. m \in 0..ByteBits
    BY <1>1
  <2>5. n <= Len(bits)
    BY <1>3, <2>3
  <2> HIDE DEF n, m
  <2> DEFINE y == ByteBits * e
  <2>6. n = y + ByteBits /\ y \in Nat
    BY <2>1, <2>2
  <2> HIDE DEF y
  <2>7. n \in Nat /\ m \in Nat /\ m <= n
    BY <1>1, <2>4, <2>6
  <2> QED
    BY <2>1, <2>2, <2>4, <2>5, <2>7
<1> HIDE DEF pow
<1>12. u[n] = u[m] * pow[n - m] + num
  <2> HIDE DEF n, m
  <2>1. Powers(2, pow)
    BY <1>10 DEF Powers
  <2>3. m \in Nat /\ n \in Nat /\ m <= n /\ n <= Len(bits)
    BY <1>11
  <2>4. u[n] = u[m] * pow[n - m] + Number(2, SubSeq(bits, m + 1, n))
    BY <1>3, <1>4, <1>5, <2>1, <2>3, DigitsFrom
  <2> QED
    BY <2>4
<1>13. u[m] = TopBits(first, m)
  <2> HIDE DEF m
  <2> QED
    BY <1>1, <1>5, <1>6, <1>11, BitsByBytes DEF bits, first
<1>14. num \in Nat
  <2> HIDE DEF m, n
  <2>1. SubSeq(bits, m + 1, n) \in Seq(Nat)
    <3> DEFINE k == m + 1
    <3>1. k \in Nat /\ 1 <= k /\ k <= n + 1
      BY <1>11
    <3> HIDE DEF k
    <3>2. SubSeq(bits, k, n) \in Seq(Nat)
      BY <1>3, <1>11, <3>1, PartOf
    <3> QED
      BY <3>2 DEF k
  <2> QED
    BY <1>4, <2>1, NumberByDigits
<1> HIDE DEF sh, ui, num
<1>15. num = decodeVarintBytes(first, rest)
  <2>1. CASE e = ByteBits
    <3>1. m = ByteBits /\ n - m = ByteBits * e
      BY <1>11, <2>1
    <3>2. pow[n - m] = sh
      BY <1>10, <1>11, <3>1 DEF sh, Shift
    <3>3. TopBits(first, m) = first
      BY <1>2, <3>1, TopBitsGrow
    <3> HIDE DEF m, n
    <3>4. first * sh + ui = first * sh + num
      BY <1>7, <1>12, <1>13, <3>2, <3>3
    <3>5. first * sh \in Nat
      BY <1>2, <1>9, ProductInNat
    <3>6. num = ui
      BY <1>9, <1>14, <3>4, <3>5
    <3>7. e >= ByteBits - 1
      BY <1>1, <2>1
    <3> QED
      BY <1>8, <3>6, <3>7 DEF decodeVarintBytes, ui
  <2>2. CASE e < ByteBits
    <3> DEFINE j == ByteBits - (e + 1)
               p == 2^j
               t == first \div p
               d == first % p
    <3>1. m = e + 1 /\ j \in Nat /\ n - m = ByteBits * e + j /\ j = ByteBits - 1 - e
      BY <1>1, <1>11, <2>2
    <3>2. p \in Nat /\ p >= 1
      BY <3>1, PowerPositive
    <3>3. pow[n - m] = sh * p
      <4>1. ByteBits * e + j \in Nat
        BY <1>11, <3>1
      <4>2. 2^(ByteBits * e + j) = 2^(ByteBits * e) * 2^j
        BY <1>11, <3>1, PowerOfSum
      <4> HIDE DEF j
      <4> QED
        BY <1>10, <3>1, <4>1, <4>2 DEF sh, Shift
    <3>4. TopBits(first, m) = t
      BY <3>1 DEF TopBits
    <3>5. t \in Nat /\ d \in Nat /\ d < p /\ first = p * t + d
      <4> HIDE DEF p
      <4>1. t \in Nat /\ d \in 0..p-1 /\ first = p * t + d
        BY <1>2, <3>2, Division
      <4> QED
        BY <3>2, <4>1
    <3> HIDE DEF m, n, j, p, t, d
    <3>6. (p * t + d) * sh + ui = t * (sh * p) + num
      BY <1>7, <1>12, <1>13, <3>3, <3>4, <3>5
    <3>7. num = d * sh + ui
      <4>1. (p * t + d) * sh + ui = t * (sh * p) + (d * sh + ui)
        BY <1>9, <3>2, <3>5, MovedUp
      <4>2. t * (sh * p) \in Nat /\ d * sh + ui \in Nat
        BY <1>9, <3>2, <3>5, ProductInNat
      <4> DEFINE a == t * (sh * p)
                 c == d * sh + ui
      <4>3. a + num = a + c /\ a \in Nat /\ c \in Nat
        BY <3>6, <4>1, <4>2
      <4> HIDE DEF a, c
      <4>4. num = c
        BY <1>14, <4>3
      <4> QED
        BY <4>4 DEF c
    <3>8. CASE e < ByteBits - 1
      <4>1. ~(e >= ByteBits - 1)
        BY <1>1, <3>8
      <4> QED
        BY <1>8, <3>1, <3>7, <4>1 DEF decodeVarintBytes, sh, ui, d, p
    <3>9. CASE e = ByteBits - 1
      <4>1. p = 1
        <5>1. j = 0
          BY <1>1, <3>1, <3>9
        <5> QED
          BY <5>1, PowerOfZero DEF p
      <4>2. d = 0
        BY <3>5, <4>1
      <4>3. num = ui
        BY <1>9, <3>7, <4>2
      <4>4. e >= ByteBits - 1
        BY <1>1, <3>9
      <4> QED
        BY <1>8, <4>3, <4>4 DEF decodeVarintBytes, ui
    <3> QED
      BY <1>1, <2>2, <3>8, <3>9
  <2> QED
    BY <1>1, <2>1, <2>2
<1>16. m + 1 = IF e = ByteBits THEN e + 1 ELSE e + 2
  BY <1>1
<1> QED
  BY <1>15, <1>16 DEF num, bits, first, rest

\* The ones of the table are those that the decoders count.
OnesOf(b) == CHOOSE k \in 0..ByteBits : /\ \A i \in 1..k : BitsOf(b)[i] = 1
                                        /\ k = ByteBits \/ BitsOf(b)[k + 1] = 0

LEMMA OnesAreLeading ==
  ASSUME NEW b \in Seq(Byte), b # <<>>
  PROVE  OnesOf(b) = LeadingOnes(b[1])
<1> DEFINE first == b[1]
           bits  == BitsOf(b)
           Cond(k) == /\ \A i \in 1..k : bits[i] = 1
                      /\ k = ByteBits \/ bits[k + 1] = 0
<1>1. first \in Byte
  OBVIOUS
<1>2. ByteBits \in Nat /\ Base \in Nat /\ first \in Nat
  <2> HIDE DEF first
  <2> QED
    BY <1>1, Shifts, ByteIsNumber
<1>3. \A i \in 1..ByteBits : bits[i] = Bit(first, i)
  <2>1. 0 \in 0..Len(b)-1 /\ 0 * ByteBits = 0 /\ 0 + 1 = 1
    BY <1>2
  <2>2. \A i \in 1..ByteBits : bits[0 * ByteBits + i] = Bit(b[0 + 1], i)
    BY <2>1, BitsAt
  <2>3. \A i \in 1..ByteBits : 0 + i = i
    BY <1>2
  <2> HIDE DEF bits
  <2> QED
    BY <2>1, <2>2, <2>3
<1> HIDE DEF first, bits
<1>4. ASSUME NEW k \in 0..ByteBits PROVE Cond(k) <=> HasOnes(first, k)
  <2> DEFINE OnesFrom(i) == \A j \in 1..i : Bit(first, j) = 1
  <2>1. (\A i \in 1..k : bits[i] = 1) <=> OnesFrom(k)
    <3>1. \A i \in 1..k : i \in 1..ByteBits
      BY <1>2
    <3> QED
      BY <1>3, <3>1
  <2>2. OnesFrom(k) <=> first >= Base - 2^(ByteBits - k)
    BY <1>1, OnesOnTop
  <2>3. CASE k = ByteBits
    BY <2>1, <2>2, <2>3 DEF HasOnes
  <2>4. CASE k < ByteBits
    <3>1. k + 1 \in 0..ByteBits /\ k + 1 \in 1..ByteBits /\ ByteBits - (k + 1) = ByteBits - k - 1
          /\ ByteBits - k - 1 \in Nat
      BY <1>2, <2>4
    <3>2. OnesFrom(k + 1) <=> first >= Base - 2^(ByteBits - k - 1)
      <4> DEFINE l == k + 1
      <4>1. l \in 0..ByteBits
        BY <3>1
      <4> HIDE DEF l
      <4>2. OnesFrom(l) <=> first >= Base - 2^(ByteBits - l)
        BY <1>1, <4>1, OnesOnTop
      <4> HIDE DEF OnesFrom
      <4> QED
        BY <3>1, <4>2 DEF l
    <3>3. Bit(first, k + 1) \in {0, 1} /\ bits[k + 1] = Bit(first, k + 1)
      BY <1>1, <1>3, <3>1, TopBitsGrow
    <3>4. OnesFrom(k) => (OnesFrom(k + 1) <=> bits[k + 1] # 0)
      <4>1. OnesFrom(k) => (OnesFrom(k + 1) <=> Bit(first, k + 1) = 1)
        <5>1. 1..k+1 = (1..k) \cup {k + 1}
          BY <3>1
        <5> QED
          BY <5>1
      <4> HIDE DEF Ones
      <4> QED
        BY <3>3, <4>1
    <3>5. 2^(ByteBits - k - 1) \in Nat
      BY <3>1, PowerPositive
    <3> HIDE DEF Ones
    <3>6. first >= Base - 2^(ByteBits - k - 1) <=> ~(first < Base - 2^(ByteBits - k - 1))
      BY <1>2, <3>5
    <3> QED
      BY <2>1, <2>2, <2>4, <3>2, <3>4, <3>6 DEF HasOnes
  <2> QED
    BY <1>2, <2>3, <2>4
<1>5. LeadingOnes(first) \in 0..ByteBits /\ Cond(LeadingOnes(first))
  <2> HIDE DEF Cond
  <2> QED
    BY <1>1, <1>4, LeadingOnesOf
<1>6. \A k \in 0..ByteBits : Cond(k) => k = LeadingOnes(first)
  <2> HIDE DEF Cond
  <2> QED
    BY <1>1, <1>4, LeadingOnesOf
<1>7. OnesOf(b) = CHOOSE k \in 0..ByteBits : Cond(k)
  BY DEF OnesOf, bits
<1> HIDE DEF Cond
<1> QED
  BY <1>5, <1>6, <1>7 DEF first

\* DecodesByTheTable for every string of bytes.
LEMMA ByTheTable ==
  ASSUME bytes \in Seq(Byte)
  PROVE  DecodesByTheTable
<1> DEFINE first == bytes[1]
           e     == LeadingOnes(first)
           total == 1 + e
           rest  == SubSeq(bytes, 2, e + 1)
           v     == decodeVarintBytes(first, rest)
<1>1. Bits = BitsOf(bytes)
  BY DEF Bits, BitsOf
<1>3. CASE bytes = <<>>
  <2>1. ReadVarint(bytes) = Failure("EOF")
    BY <1>3, ReadVarintIs DEF VarintAt
  <2>2. ParseVarint(bytes).err = "unexpectedEOF"
    BY <1>3 DEF ParseVarint
  <2>3. Len(bytes) <= 1
    BY <1>3
  <2> QED
    BY <1>3, <2>1, <2>2, <2>3 DEF DecodesByTheTable
<1>4. CASE bytes # <<>>
  <2>1. first \in Byte /\ Len(bytes) \in Nat /\ Len(bytes) >= 1
    BY <1>4
  <2>2. e \in 0..ByteBits /\ ByteBits \in Nat /\ e \in Nat
    <3> HIDE DEF first
    <3>1. e \in 0..ByteBits
      BY <2>1, LeadingOnesOf
    <3> HIDE DEF e
    <3> QED
      BY <3>1, Shifts
  <2>3. Ones = e
    <3>1. Ones = OnesOf(bytes)
      BY <1>1 DEF Ones, OnesOf
    <3> QED
      BY <1>4, <3>1, OnesAreLeading
  <2>4. TableTotal = total
    BY <2>3 DEF TableTotal
  <2> HIDE DEF e
  <2>5. ReadVarint(bytes) = IF e <= Len(bytes) - 1 THEN Result(v, SubSeq(bytes, e + 2, Len(bytes)))
                            ELSE Failure(IF Len(bytes) = 1 THEN "EOF" ELSE "unexpectedEOF")
    BY <1>4, ReadVarintIs DEF VarintAt, e
  <2>6. CASE Len(bytes) >= total
    <3>1. e <= Len(bytes) - 1 /\ e + 1 <= Len(bytes) /\ e + 2 = total + 1 /\ e + 1 = total
          /\ ~(Len(bytes) < total)
      BY <2>1, <2>2, <2>6
    <3>2. TableValue = v
      <4>1. TableValue = Number(2, SubSeq(BitsOf(bytes), IF e = ByteBits THEN e + 1 ELSE e + 2,
                                          (1 + e) * ByteBits))
        BY <1>1, <2>3, <2>4 DEF TableValue
      <4>2. Number(2, SubSeq(BitsOf(bytes), IF e = ByteBits THEN e + 1 ELSE e + 2,
                             (1 + e) * ByteBits)) = v
        BY <2>2, <3>1, TableDecodes
      <4> QED
        BY <4>1, <4>2
    <3>3. ReadVarint(bytes) = Result(v, SubSeq(bytes, total + 1, Len(bytes)))
      BY <2>5, <3>1
    <3>4. ParseVarint(bytes) = [err |-> "nil", val |-> v, n |-> total]
      <4>1. ParseVarint(bytes) = [err |-> "nil", val |-> decodeVarintBytes(first, SubSeq(bytes, 2, 1 + e)),
                                  n |-> 1 + e]
        BY <1>4, <3>1 DEF ParseVarint, e
      <4>2. 1 + e = e + 1
        BY <2>2
      <4> QED
        BY <4>1, <4>2
    <3> HIDE DEF v, total
    <3> QED
      BY <1>4, <2>4, <2>6, <3>2, <3>3, <3>4 DEF DecodesByTheTable
  <2>7. CASE ~(Len(bytes) >= total)
    <3>1. ~(e <= Len(bytes) - 1) /\ Len(bytes) < 1 + e
      BY <2>1, <2>2, <2>7
    <3>2. ReadVarint(bytes) = Failure(IF Len(bytes) <= 1 THEN "EOF" ELSE "unexpectedEOF")
      <4> HIDE DEF v
      <4>1. Len(bytes) = 1 <=> Len(bytes) <= 1
        <5> HIDE DEF first
        <5>1. PICK n \in Nat : n = Len(bytes) /\ n >= 1
          BY <2>1
        <5>2. n = 1 <=> n <= 1
          BY <5>1
        <5> QED
          BY <5>1, <5>2
      <4> QED
        BY <2>5, <3>1, <4>1
    <3>3. ParseVarint(bytes).err = "unexpectedEOF"
      BY <3>1 DEF ParseVarint, e
    <3> HIDE DEF total
    <3> QED
      BY <2>4, <2>7, <3>2, <3>3 DEF DecodesByTheTable
  <2> QED
    BY <2>6, <2>7
<1> QED
  BY <1>3, <1>4

-----------------------------------------------------------------------------
(***************************************************************************)
(* One key-value pair.                                                     *)
(***************************************************************************)
Pair == [type : 0..MaxUint, raw : Seq(Byte)]

\* What decodePair returns, without the reads it is made of.
LEMMA DecodePairForm ==
  ASSUME NEW prev, NEW r
  PROVE  LET d == ReadVarint(r)
             t == (prev + d.val) % (MaxUint + 1)
             v == ReadVarint(d.rest)
             raw == readValue(v.rest, v.val)
         IN decodePair(prev, r) =
              IF d.err # "nil" THEN Failure(d.err)
              ELSE IF Overflows(d.val, prev) THEN Failure("other")
              ELSE IF v.err # "nil" THEN Failure(v.err)
              ELSE IF Odd(t) THEN IF raw.err # "nil" THEN Failure(raw.err)
                                  ELSE Result([type |-> t, raw |-> raw.val], raw.rest)
                   ELSE Result([type |-> t, raw |-> Integer(v.val)], v.rest)
BY DEF decodePair, Then

LEMMA ReadShortens ==
  ASSUME NEW r \in Seq(Byte), ReadVarint(r).err = "nil"
  PROVE  LET res == ReadVarint(r)
         IN /\ res.val \in 0..MaxUint /\ res.val \in Nat
            /\ res.rest \in Seq(Byte) /\ Len(res.rest) < Len(r)
<1> DEFINE res == ReadVarint(r)
           k   == Len(r) - Len(res.rest)
<1>1. res.val \in 0..MaxUint /\ res.rest \in Seq(Byte) /\ k \in 1..ByteBits+1
  BY WhatIsRead
<1>2. MaxUint \in Nat /\ ByteBits \in Nat
  BY Limits, Shifts
<1> HIDE DEF res
<1>3. Len(res.rest) \in Nat /\ Len(r) \in Nat /\ k >= 1
  BY <1>1, <1>2
<1>4. Len(res.rest) < Len(r)
  BY <1>3
<1> QED
  BY <1>1, <1>2, <1>4 DEF res

\* A value that was read is there in full.
LEMMA ValueRead ==
  ASSUME NEW r \in Seq(Byte), NEW l \in Nat, readValue(r, l).err = "nil"
  PROVE  /\ l <= Len(r)
         /\ readValue(r, l) = Result(SubSeq(r, 1, l), SubSeq(r, l + 1, Len(r)))
         /\ SubSeq(r, 1, l) \in Seq(Byte) /\ Len(SubSeq(r, 1, l)) = l
         /\ SubSeq(r, l + 1, Len(r)) \in Seq(Byte) /\ Len(SubSeq(r, l + 1, Len(r))) = Len(r) - l
<1>1. Failure("other").err # "nil"
  BY DEF Failure
<1>2. l <= Len(r) /\ readValue(r, l) = ReadFull(r, l)
  BY <1>1 DEF readValue
<1> QED
  BY <1>2 DEF ReadFull

LEMMA PairDecoded ==
  ASSUME NEW prev \in 0..MaxUint, NEW r \in Seq(Byte), decodePair(prev, r).err = "nil"
  PROVE  LET res == decodePair(prev, r)
             d   == ReadVarint(r)
             v   == ReadVarint(d.rest)
         IN /\ res = Result(res.val, res.rest)
            /\ res.val \in Pair /\ res.val.type >= prev
            /\ res.rest \in Seq(Byte) /\ Len(res.rest) < Len(r)
            /\ d.err = "nil" /\ v.err = "nil"
            /\ v.val \in 0..MaxUint /\ v.rest \in Seq(Byte)
            /\ res.val = [type |-> prev + d.val, raw |-> res.val.raw]
            /\ d.val \in 0..MaxUint
            /\ Odd(res.val.type) => Len(res.val.raw) = v.val
            /\ ~Odd(res.val.type) => res.val.raw = Integer(v.val)
<1> DEFINE res == decodePair(prev, r)
           d   == ReadVarint(r)
           t   == (prev + d.val) % (MaxUint + 1)
           v   == ReadVarint(d.rest)
           raw == readValue(v.rest, v.val)
<1>1. res = IF d.err # "nil" THEN Failure(d.err)
            ELSE IF Overflows(d.val, prev) THEN Failure("other")
            ELSE IF v.err # "nil" THEN Failure(v.err)
            ELSE IF Odd(t) THEN IF raw.err # "nil" THEN Failure(raw.err)
                                ELSE Result([type |-> t, raw |-> raw.val], raw.rest)
                 ELSE Result([type |-> t, raw |-> Integer(v.val)], v.rest)
  BY DecodePairForm
<1>2. res.err = "nil"
  OBVIOUS
<1>3. \A e : Failure(e).err = e
  BY DEF Failure
<1>4. d.err = "nil" /\ ~Overflows(d.val, prev) /\ v.err = "nil" /\ (Odd(t) => raw.err = "nil")
      /\ res = IF Odd(t) THEN Result([type |-> t, raw |-> raw.val], raw.rest)
               ELSE Result([type |-> t, raw |-> Integer(v.val)], v.rest)
  <2> HIDE DEF res, d, t, v, raw
  <2> QED
    BY <1>1, <1>2, <1>3
<1> HIDE DEF res
<1>5. d.val \in 0..MaxUint /\ d.val \in Nat /\ d.rest \in Seq(Byte) /\ Len(d.rest) < Len(r)
  BY <1>4, ReadShortens
<1> HIDE DEF d
<1>6. v.val \in 0..MaxUint /\ v.val \in Nat /\ v.rest \in Seq(Byte) /\ Len(v.rest) < Len(d.rest)
  BY <1>4, <1>5, ReadShortens
<1>7. t = prev + d.val /\ t \in 0..MaxUint /\ t >= prev
  <2>1. MaxUint \in Nat /\ prev \in Nat
    BY Limits
  <2>2. prev + d.val \in Nat /\ prev + d.val <= MaxUint
    <3> DEFINE x == d.val
    <3>1. ~(x > MaxUint - prev) /\ x \in Nat
      BY <1>4, <1>5 DEF Overflows
    <3> HIDE DEF x
    <3>2. prev + x \in Nat /\ prev + x <= MaxUint
      BY <2>1, <3>1
    <3> QED
      BY <3>2 DEF x
  <2>3. t = prev + d.val
    <3> DEFINE x == prev + d.val
    <3>1. x \in Nat /\ x < MaxUint + 1
      BY <2>1, <2>2
    <3> HIDE DEF x
    <3>2. x % (MaxUint + 1) = x
      BY <2>1, <3>1
    <3> QED
      BY <3>2 DEF x
  <2> HIDE DEF t
  <2> QED
    BY <1>5, <2>1, <2>2, <2>3
<1> HIDE DEF v, t
<1>8. CASE Odd(t)
  <2>1. raw = Result(SubSeq(v.rest, 1, v.val), SubSeq(v.rest, v.val + 1, Len(v.rest)))
        /\ v.val <= Len(v.rest)
        /\ SubSeq(v.rest, 1, v.val) \in Seq(Byte) /\ Len(SubSeq(v.rest, 1, v.val)) = v.val
        /\ SubSeq(v.rest, v.val + 1, Len(v.rest)) \in Seq(Byte)
        /\ Len(SubSeq(v.rest, v.val + 1, Len(v.rest))) = Len(v.rest) - v.val
    BY <1>4, <1>6, <1>8, ValueRead
  <2>2. raw.val \in Seq(Byte) /\ Len(raw.val) = v.val /\ raw.rest \in Seq(Byte)
        /\ Len(raw.rest) = Len(v.rest) - v.val
    <3> HIDE DEF raw
    <3> QED
      BY <2>1 DEF Result
  <2> HIDE DEF raw
  <2>3. res = Result([type |-> t, raw |-> raw.val], raw.rest)
    BY <1>4, <1>8
  <2>4. res.val = [type |-> t, raw |-> raw.val] /\ res.rest = raw.rest
    BY <2>3 DEF Result
  <2>5. Len(raw.rest) < Len(r)
    <3>1. Len(v.rest) \in Nat /\ Len(d.rest) \in Nat /\ Len(r) \in Nat
      BY <1>5, <1>6
    <3> QED
      BY <1>5, <1>6, <2>2, <3>1
  <2>6. res.val \in Pair /\ res.val.type = t /\ res.val.raw = raw.val
    BY <1>7, <2>2, <2>4 DEF Pair
  <2> QED
    BY <1>4, <1>5, <1>6, <1>7, <1>8, <2>2, <2>3, <2>4, <2>5, <2>6 DEF res, d, v
<1>9. CASE ~Odd(t)
  <2>1. res = Result([type |-> t, raw |-> Integer(v.val)], v.rest)
    BY <1>4, <1>9
  <2>2. res.val = [type |-> t, raw |-> Integer(v.val)] /\ res.rest = v.rest
    BY <2>1 DEF Result
  <2>3. Integer(v.val) \in Seq(Byte)
    <3>1. <<>> \in Seq(Byte)
      OBVIOUS
    <3> QED
      BY <1>6, <3>1, ReadsBack
  <2>4. Len(v.rest) < Len(r)
    <3>1. Len(v.rest) \in Nat /\ Len(d.rest) \in Nat /\ Len(r) \in Nat
      BY <1>5, <1>6
    <3> QED
      BY <1>5, <1>6, <3>1
  <2>5. res.val \in Pair /\ res.val.type = t /\ res.val.raw = Integer(v.val)
    BY <1>7, <2>2, <2>3 DEF Pair
  <2> QED
    BY <1>4, <1>5, <1>6, <1>7, <1>9, <2>1, <2>2, <2>4, <2>5 DEF res, d, v
<1> QED
  BY <1>8, <1>9

-----------------------------------------------------------------------------
(***************************************************************************)
(* The loop over the pairs.                                                *)
(***************************************************************************)
Left == Seq(Byte) \X (0..MaxUint)

PairsBody(f, s) ==
  IF s[1] = <<>> THEN Encoded(<<>>)
  ELSE Then(decodePair(s[2], s[1]), LAMBDA p, r1 :
         Then(f[<<r1, p.type>>], LAMBDA more, r2 : Encoded(<<p>> \o more)))

PairsStep(f, s) ==
  LET d == decodePair(s[2], s[1])
      g == f[<<d.rest, d.val.type>>]
  IN IF s[1] = <<>> THEN Encoded(<<>>)
     ELSE IF d.err # "nil" THEN Failure(d.err)
     ELSE IF g.err # "nil" THEN Failure(g.err)
     ELSE Encoded(<<d.val>> \o g.val)

LEMMA BodyIsStep ==
  ASSUME NEW f, NEW s
  PROVE  PairsBody(f, s) = PairsStep(f, s)
BY DEF PairsBody, PairsStep, Then

LEMMA StepGoesDown ==
  ASSUME NEW s \in Left, s[1] # <<>>, decodePair(s[2], s[1]).err = "nil"
  PROVE  LET d == decodePair(s[2], s[1])
         IN <<d.rest, d.val.type>> \in Left /\ Len(<<d.rest, d.val.type>>[1]) < Len(s[1])
<1> DEFINE d == decodePair(s[2], s[1])
<1>1. s[2] \in 0..MaxUint /\ s[1] \in Seq(Byte)
  BY DEF Left
<1>2. d.val \in Pair /\ d.rest \in Seq(Byte) /\ Len(d.rest) < Len(s[1])
  BY <1>1, PairDecoded
<1> HIDE DEF d
<1>3. d.val.type \in 0..MaxUint
  BY <1>2 DEF Pair
<1> QED
  BY <1>2, <1>3 DEF Left, d

LEMMA StepIsLocal ==
  ASSUME NEW f, NEW g, NEW s \in Left,
         \A x \in Left : Len(x[1]) < Len(s[1]) => f[x] = g[x]
  PROVE  PairsStep(f, s) = PairsStep(g, s)
<1> DEFINE d == decodePair(s[2], s[1])
           x == <<d.rest, d.val.type>>
<1>1. CASE s[1] = <<>> \/ d.err # "nil"
  BY <1>1 DEF PairsStep
<1>2. CASE s[1] # <<>> /\ d.err = "nil"
  <2>1. x \in Left /\ Len(x[1]) < Len(s[1])
    BY <1>2, StepGoesDown
  <2>2. f[x] = g[x]
    <3> HIDE DEF x
    <3> QED
      BY <2>1
  <2> QED
    BY <2>2 DEF PairsStep
<1> QED
  BY <1>1, <1>2

\* A table of the loop's results for less than n bytes.
Good(n, f) == \A s \in Left : Len(s[1]) < n => f[s] = PairsStep(f, s)

LEMMA LeftLength == \A s \in Left : s[1] \in Seq(Byte) /\ s[2] \in 0..MaxUint /\ Len(s[1]) \in Nat
BY DEF Left

LEMMA GoodExists == \A n \in Nat : \E f : Good(n, f)
<1> DEFINE P == {n \in Nat : \E f : Good(n, f)}
<1>1. 0 \in P
  BY LeftLength DEF Good
<1>2. ASSUME NEW n \in Nat, n \in P PROVE n + 1 \in P
  <2>1. PICK f : Good(n, f)
    BY <1>2
  <2> DEFINE g == [s \in Left |-> PairsStep(f, s)]
  <2>2. ASSUME NEW s \in Left, Len(s[1]) < n + 1 PROVE g[s] = PairsStep(g, s)
    <3>1. ASSUME NEW x \in Left, Len(x[1]) < Len(s[1]) PROVE f[x] = g[x]
      <4>1. Len(x[1]) < n
        BY <2>2, <3>1, LeftLength
      <4> QED
        BY <2>1, <4>1 DEF Good
    <3> HIDE DEF g
    <3>2. PairsStep(f, s) = PairsStep(g, s)
      BY <3>1, StepIsLocal
    <3> QED
      BY <3>2 DEF g
  <2> HIDE DEF g
  <2>3. Good(n + 1, g)
    BY <2>2 DEF Good
  <2> QED
    BY <2>3
<1> HIDE DEF P
<1>3. \A n \in Nat : n \in P
  BY <1>1, <1>2, SetInduction
<1> QED
  BY <1>3 DEF P

LEMMA GoodAgree ==
  ASSUME NEW m \in Nat, NEW n \in Nat, NEW f, NEW g, Good(m, f), Good(n, g)
  PROVE  \A s \in Left : Len(s[1]) < m /\ Len(s[1]) < n => f[s] = g[s]
<1> DEFINE P == {k \in Nat : \A s \in Left : Len(s[1]) < k /\ Len(s[1]) < m /\ Len(s[1]) < n => f[s] = g[s]}
<1>1. 0 \in P
  BY LeftLength
<1>2. ASSUME NEW k \in Nat, k \in P PROVE k + 1 \in P
  <2> SUFFICES ASSUME NEW s \in Left, Len(s[1]) < k + 1, Len(s[1]) < m, Len(s[1]) < n
               PROVE  f[s] = g[s]
    OBVIOUS
  <2>1. ASSUME NEW x \in Left, Len(x[1]) < Len(s[1]) PROVE f[x] = g[x]
    <3>1. Len(x[1]) < k /\ Len(x[1]) < m /\ Len(x[1]) < n
      BY <2>1, LeftLength
    <3> QED
      BY <1>2, <3>1
  <2>2. PairsStep(f, s) = PairsStep(g, s)
    BY <2>1, StepIsLocal
  <2> QED
    BY <2>2 DEF Good
<1> HIDE DEF P
<1>3. \A k \in Nat : k \in P
  BY <1>1, <1>2, SetInduction
<1> QED
  BY <1>3, LeftLength DEF P

LEMMA PairsExist == \E f : f = [s \in Left |-> PairsStep(f, s)]
<1> DEFINE Table(n) == CHOOSE f : Good(n, f)
           f == [s \in Left |-> Table(Len(s[1]) + 1)[s]]
<1>1. \A n \in Nat : Good(n, Table(n))
  BY GoodExists
<1> HIDE DEF Table
<1>2. ASSUME NEW s \in Left PROVE f[s] = PairsStep(f, s)
  <2> DEFINE n == Len(s[1]) + 1
  <2>1. n \in Nat /\ Len(s[1]) < n
    BY LeftLength
  <2>2. f[s] = Table(n)[s]
    OBVIOUS
  <2>3. Table(n)[s] = PairsStep(Table(n), s)
    <3> HIDE DEF n
    <3> QED
      BY <1>1, <2>1 DEF Good
  <2>4. ASSUME NEW x \in Left, Len(x[1]) < Len(s[1]) PROVE Table(n)[x] = f[x]
    <3> DEFINE m == Len(x[1]) + 1
    <3>1. m \in Nat /\ Len(x[1]) < m /\ Len(x[1]) < n
      BY <2>1, <2>4, LeftLength
    <3>2. f[x] = Table(m)[x]
      OBVIOUS
    <3> HIDE DEF n, m, f
    <3>3. Table(n)[x] = Table(m)[x]
      BY <1>1, <2>1, <3>1, GoodAgree
    <3> QED
      BY <3>2, <3>3
  <2> HIDE DEF n, f
  <2>5. PairsStep(Table(n), s) = PairsStep(f, s)
    BY <2>4, StepIsLocal
  <2> QED
    BY <2>2, <2>3, <2>5
<1>3. f = [s \in Left |-> f[s]]
  OBVIOUS
<1> HIDE DEF f
<1>4. f = [s \in Left |-> PairsStep(f, s)]
  BY <1>2, <1>3
<1> QED
  BY <1>4

LEMMA PairsAre ==
  \E f : /\ \A s \in Left : f[s] = PairsStep(f, s)
         /\ \A payload \in Seq(Byte) : decodeKeyValuePairs(payload) = f[<<payload, 0>>]
<1> DEFINE f == CHOOSE f : f = [s \in Left |-> PairsBody(f, s)]
<1>1. \E g : g = [s \in Left |-> PairsBody(g, s)]
  <2>1. PICK g : g = [s \in Left |-> PairsStep(g, s)]
    BY PairsExist
  <2>2. \A s \in Left : PairsBody(g, s) = PairsStep(g, s)
    BY BodyIsStep
  <2>3. [s \in Left |-> PairsBody(g, s)] = [s \in Left |-> PairsStep(g, s)]
    BY <2>2
  <2> QED
    BY <2>1, <2>3
<1>2. f = [s \in Left |-> PairsBody(f, s)]
  BY <1>1
<1>3. \A payload : decodeKeyValuePairs(payload) = f[<<payload, 0>>]
  BY DEF decodeKeyValuePairs, PairsBody, Left
<1> HIDE DEF f
<1>4. \A s \in Left : f[s] = PairsStep(f, s)
  BY <1>2, BodyIsStep
<1> QED
  BY <1>3, <1>4

\* The pairs that the loop may return.
Canonical(p) ==
  /\ p \in Pair
  /\ Odd(p.type) => Len(p.raw) \in 0..MaxUint
  /\ ~Odd(p.type) => \E v \in 0..MaxUint : p.raw = Integer(v)

OrderedFrom(prev, pairs) ==
  /\ \A i \in 1..Len(pairs) : pairs[i].type >= prev
  /\ \A i, j \in 1..Len(pairs) : i < j => pairs[i].type <= pairs[j].type

Decoded(prev, res) ==
  res.err = "nil" =>
    /\ res = Encoded(res.val)
    /\ res.val \in Seq(Pair)
    /\ \A i \in 1..Len(res.val) : Canonical(res.val[i])
    /\ OrderedFrom(prev, res.val)

\* One more pair in front.
LEMMA PairInFront ==
  ASSUME NEW p \in Pair, NEW pairs \in Seq(Pair), NEW prev \in Nat, p.type >= prev,
         OrderedFrom(p.type, pairs), Canonical(p), \A i \in 1..Len(pairs) : Canonical(pairs[i])
  PROVE  LET all == <<p>> \o pairs
         IN /\ all \in Seq(Pair) /\ OrderedFrom(prev, all)
            /\ \A i \in 1..Len(all) : Canonical(all[i])
<1> DEFINE all == <<p>> \o pairs
<1>1. /\ all \in Seq(Pair) /\ Len(all) = Len(pairs) + 1 /\ all[1] = p
      /\ \A i \in 1..Len(pairs) : all[1 + i] = pairs[i]
  <2>1. <<p>> \in Seq(Pair) /\ Len(<<p>>) = 1 /\ <<p>>[1] = p
    OBVIOUS
  <2> QED
    BY <2>1, Joined
<1>2. Len(pairs) \in Nat /\ p.type \in Nat /\ \A i \in 1..Len(pairs) : pairs[i].type \in Nat
  <2>1. \A q \in Pair : q.type \in Nat
    BY Limits DEF Pair
  <2> QED
    BY <2>1
<1> HIDE DEF all
<1>3. ASSUME NEW i \in 1..Len(all) PROVE i = 1 \/ (i - 1 \in 1..Len(pairs) /\ all[i] = pairs[i - 1])
  <2>1. CASE i # 1
    <3> DEFINE j == i - 1
    <3>1. j \in 1..Len(pairs) /\ 1 + j = i
      BY <1>1, <1>2, <2>1
    <3> HIDE DEF j
    <3>2. all[i] = pairs[j]
      BY <1>1, <3>1
    <3> QED
      BY <3>1, <3>2 DEF j
  <2> QED
    BY <2>1
<1>4. \A i \in 1..Len(all) : Canonical(all[i])
  BY <1>1, <1>3
<1>5. \A i \in 1..Len(pairs) : pairs[i].type >= p.type
  BY DEF OrderedFrom
<1>6. \A i \in 1..Len(all) : all[i].type >= p.type /\ all[i].type \in Nat
  BY <1>1, <1>2, <1>3, <1>5
<1>7. \A i \in 1..Len(all) : all[i].type >= prev
  BY <1>2, <1>6
<1>8. ASSUME NEW i \in 1..Len(all), NEW j \in 1..Len(all), i < j PROVE all[i].type <= all[j].type
  <2>1. CASE i = 1
    BY <1>1, <1>2, <1>6, <2>1
  <2>2. CASE i # 1
    <3>1. j # 1 /\ i - 1 < j - 1
      BY <1>8, <2>2
    <3>2. i - 1 \in 1..Len(pairs) /\ j - 1 \in 1..Len(pairs)
          /\ all[i] = pairs[i - 1] /\ all[j] = pairs[j - 1]
      BY <1>3, <2>2, <3>1
    <3>3. pairs[i - 1].type <= pairs[j - 1].type
      BY <3>1, <3>2 DEF OrderedFrom
    <3> QED
      BY <3>2, <3>3
  <2> QED
    BY <2>1, <2>2
<1> QED
  BY <1>1, <1>4, <1>7, <1>8 DEF OrderedFrom, all

LEMMA LoopDecodes ==
  ASSUME NEW f, \A s \in Left : f[s] = PairsStep(f, s)
  PROVE  \A s \in Left : Decoded(s[2], f[s])
<1> DEFINE P == {n \in Nat : \A s \in Left : Len(s[1]) < n => Decoded(s[2], f[s])}
<1>1. 0 \in P
  BY LeftLength
<1>2. ASSUME NEW n \in Nat, n \in P PROVE n + 1 \in P
  <2> SUFFICES ASSUME NEW s \in Left, Len(s[1]) < n + 1, f[s].err = "nil"
               PROVE  /\ f[s] = Encoded(f[s].val)
                      /\ f[s].val \in Seq(Pair)
                      /\ \A i \in 1..Len(f[s].val) : Canonical(f[s].val[i])
                      /\ OrderedFrom(s[2], f[s].val)
    BY DEF Decoded
  <2> DEFINE d == decodePair(s[2], s[1])
             x == <<d.rest, d.val.type>>
             g == f[x]
             prev == s[2]
  <2>0. s[1] \in Seq(Byte) /\ prev \in 0..MaxUint /\ prev \in Nat
    BY LeftLength, Limits
  <2>1. f[s] = IF s[1] = <<>> THEN Encoded(<<>>)
               ELSE IF d.err # "nil" THEN Failure(d.err)
               ELSE IF g.err # "nil" THEN Failure(g.err)
               ELSE Encoded(<<d.val>> \o g.val)
    BY DEF PairsStep
  <2>2. CASE s[1] = <<>>
    <3>1. f[s] = Encoded(<<>>) /\ Encoded(<<>>).val = <<>>
      BY <2>1, <2>2 DEF Encoded, Result
    <3> DEFINE none == <<>>
    <3>2. none \in Seq(Pair) /\ \A i \in 1..Len(none) : FALSE
      <4>1. Len(none) = 0 /\ none \in Seq(Pair)
        OBVIOUS
      <4> QED
        BY <4>1
    <3>3. f[s] = Encoded(none) /\ f[s].val = none
      BY <3>1
    <3> HIDE DEF none, prev
    <3>4. OrderedFrom(prev, none) /\ \A i \in 1..Len(none) : Canonical(none[i])
      BY <3>2 DEF OrderedFrom
    <3> QED
      BY <3>2, <3>3, <3>4 DEF prev
  <2>3. CASE s[1] # <<>>
    <3>1. d.err = "nil" /\ g.err = "nil" /\ f[s] = Encoded(<<d.val>> \o g.val)
      <4>1. \A e : Failure(e).err = e
        BY DEF Failure
      <4> HIDE DEF d, g
      <4> QED
        BY <2>1, <2>3, <4>1
    <3>2. x \in Left /\ Len(x[1]) < Len(s[1])
      BY <2>3, <3>1, StepGoesDown
    <3>3. /\ d.val \in Pair /\ d.val.type >= prev
          /\ Canonical(d.val)
      <4>1. LET v == ReadVarint(ReadVarint(s[1]).rest)
            IN /\ d.val \in Pair /\ d.val.type >= prev
               /\ v.val \in 0..MaxUint
               /\ Odd(d.val.type) => Len(d.val.raw) = v.val
               /\ ~Odd(d.val.type) => d.val.raw = Integer(v.val)
        BY <2>0, <3>1, PairDecoded
      <4> HIDE DEF d
      <4> QED
        BY <4>1 DEF Canonical
    <3>4. Decoded(x[2], g)
      <4> HIDE DEF x
      <4>1. Len(x[1]) < n
        BY <3>2, LeftLength
      <4> QED
        BY <1>2, <3>2, <4>1
    <3>5. x[2] = d.val.type
      OBVIOUS
    <3> HIDE DEF x, d, g
    <3>6. /\ g.val \in Seq(Pair) /\ OrderedFrom(d.val.type, g.val)
          /\ \A i \in 1..Len(g.val) : Canonical(g.val[i])
      BY <3>1, <3>4, <3>5 DEF Decoded
    <3> DEFINE all == <<d.val>> \o g.val
    <3>7. all \in Seq(Pair) /\ OrderedFrom(prev, all) /\ \A i \in 1..Len(all) : Canonical(all[i])
      BY <2>0, <3>3, <3>6, PairInFront
    <3> HIDE DEF all
    <3>8. f[s] = Encoded(all) /\ Encoded(all).val = all
      BY <3>1 DEF all, Encoded, Result
    <3> QED
      BY <3>7, <3>8
  <2> QED
    BY <2>2, <2>3
<1> HIDE DEF P
<1>3. \A n \in Nat : n \in P
  BY <1>1, <1>2, SetInduction
<1>4. \A s \in Left : Len(s[1]) + 1 \in Nat /\ Len(s[1]) < Len(s[1]) + 1
  BY LeftLength
<1> QED
  BY <1>3, <1>4 DEF P

LEMMA SetupDecodes ==
  ASSUME NEW payload \in Seq(Byte)
  PROVE  Decoded(0, DecodeSetup(payload))
<1>1. PICK f : /\ \A s \in Left : f[s] = PairsStep(f, s)
               /\ \A b \in Seq(Byte) : decodeKeyValuePairs(b) = f[<<b, 0>>]
  BY PairsAre
<1> DEFINE s == <<payload, 0>>
<1>2. s \in Left /\ s[2] = 0
  BY Limits DEF Left
<1> HIDE DEF s
<1>3. Decoded(s[2], f[s])
  BY <1>1, <1>2, LoopDecodes
<1> QED
  BY <1>1, <1>2, <1>3 DEF DecodeSetup, s

\* TypesNeverWrap for every string of bytes.
LEMMA NeverWraps ==
  ASSUME bytes \in Seq(Byte)
  PROVE  TypesNeverWrap
<1> DEFINE setup == DecodeSetup(bytes)
<1>1. Decoded(0, setup)
  BY SetupDecodes
<1> HIDE DEF setup
<1>2. ASSUME setup.err = "nil"
      PROVE  \A i, j \in DOMAIN setup.val : i < j => setup.val[i].type <= setup.val[j].type
  <2>1. setup.val \in Seq(Pair) /\ OrderedFrom(0, setup.val)
    BY <1>1, <1>2 DEF Decoded
  <2>2. DOMAIN setup.val = 1..Len(setup.val)
    BY <2>1
  <2> QED
    BY <2>1, <2>2 DEF OrderedFrom
<1> QED
  BY <1>2 DEF TypesNeverWrap, setup
-----------------------------------------------------------------------------
(***************************************************************************)
(* What is encoded decodes again.                                          *)
(***************************************************************************)

\* ParseVarint finds what ReadVarint reads, and says how long it is.
LEMMA ParseIs ==
  ASSUME NEW r \in Seq(Byte), ReadVarint(r).err = "nil"
  PROVE  ParseVarint(r) = [err |-> "nil", val |-> ReadVarint(r).val,
                           n |-> Len(r) - Len(ReadVarint(r).rest)]
<1> DEFINE e == LeadingOnes(r[1])
           v == decodeVarintBytes(r[1], SubSeq(r, 2, e + 1))
<1>1. r # <<>> /\ e <= Len(r) - 1 /\ ReadVarint(r) = Result(v, SubSeq(r, e + 2, Len(r)))
  <2>1. ReadVarint(r) = VarintAt(r)
    BY ReadVarintIs
  <2>2. Failure("EOF").err # "nil" /\ Failure("unexpectedEOF").err # "nil"
    BY DEF Failure
  <2> QED
    BY <2>1, <2>2 DEF VarintAt
<1>2. e \in Nat
  <2> DEFINE first == r[1]
  <2>1. first \in Byte
    BY <1>1
  <2> HIDE DEF first
  <2>2. LeadingOnes(first) \in 0..ByteBits
    BY <2>1, LeadingOnesOf
  <2> QED
    BY <2>2 DEF first
<1>3. Len(r) \in Nat /\ Len(r) >= 1
  BY <1>1
<1>4. ReadVarint(r).val = v /\ ReadVarint(r).rest = SubSeq(r, e + 2, Len(r))
  <2> DEFINE t == SubSeq(r, e + 2, Len(r))
  <2>1. ReadVarint(r) = Result(v, t)
    BY <1>1
  <2> HIDE DEF v, e, t
  <2>2. ReadVarint(r).val = v /\ ReadVarint(r).rest = t
    BY <2>1 DEF Result
  <2> QED
    BY <2>2 DEF t
<1>5. ParseVarint(r) = [err |-> "nil", val |-> v, n |-> 1 + e]
  <2>1. 1 + e = e + 1 /\ ~(Len(r) < 1 + e)
    <3> HIDE DEF e
    <3> QED
      BY <1>1, <1>2, <1>3
  <2>2. ParseVarint(r) = [err |-> "nil", val |-> decodeVarintBytes(r[1], SubSeq(r, 2, 1 + e)), n |-> 1 + e]
    BY <1>1, <2>1 DEF ParseVarint
  <2> HIDE DEF e
  <2> QED
    BY <2>1, <2>2
<1> HIDE DEF v, e
<1>6. Len(SubSeq(r, e + 2, Len(r))) = Len(r) - (e + 2) + 1
  <2> DEFINE m == e + 2
             n == Len(r)
  <2>1. m \in Nat /\ 1 <= m /\ n \in Nat /\ n <= Len(r) /\ m <= n + 1
    BY <1>1, <1>2, <1>3
  <2> HIDE DEF m, n
  <2>2. Len(SubSeq(r, m, n)) = n - m + 1
    BY <2>1, PartOf
  <2> QED
    BY <2>2 DEF m, n
<1>7. Len(r) - (Len(r) - (e + 2) + 1) = 1 + e
  BY <1>2, <1>3
<1> QED
  BY <1>4, <1>5, <1>6, <1>7

\* An integer that was written is a whole varint.
LEMMA IntegerParses ==
  ASSUME NEW v \in 0..MaxUint
  PROVE  /\ Integer(v) \in Seq(Byte) /\ Integer(v) # <<>>
         /\ ParseVarint(Integer(v)).val = v
         /\ WholeVarint(Integer(v))
         /\ ReadVarint(Integer(v)) = Result(v, <<>>)
<1> DEFINE i == Integer(v)
<1>1. i \in Seq(Byte) /\ Len(i) = varintSize(v) /\ ReadVarint(i \o <<>>) = Result(v, <<>>)
  <2>1. <<>> \in Seq(Byte)
    OBVIOUS
  <2> QED
    BY <2>1, ReadsBack
<1>2. varintSize(v) \in 1..ByteBits+1 /\ ByteBits \in Nat
  BY SizeIsLeast, Shifts
<1> HIDE DEF i
<1>3. i \o <<>> = i
  BY <1>1, ConcatEmptySeq
<1>4. ReadVarint(i) = Result(v, <<>>)
  BY <1>1, <1>3
<1>5. ReadVarint(i).err = "nil" /\ ReadVarint(i).val = v /\ ReadVarint(i).rest = <<>>
  BY <1>4 DEF Result
<1>6. ParseVarint(i) = [err |-> "nil", val |-> v, n |-> Len(i) - Len(<<>>)]
  BY <1>1, <1>5, ParseIs
<1>7. Len(i) - Len(<<>>) = Len(i) /\ i # <<>>
  <2>1. Len(<<>>) = 0
    BY EmptySeq
  <2> QED
    BY <1>1, <1>2, <2>1
<1> QED
  BY <1>1, <1>4, <1>6, <1>7 DEF WholeVarint, i

\* A part of the bytes is read, the rest stays.
LEMMA FrontRead ==
  ASSUME NEW b \in Seq(Byte), NEW t \in Seq(Byte)
  PROVE  /\ ReadFull(b \o t, Len(b)) = Result(b, t)
         /\ readValue(b \o t, Len(b)) = Result(b, t)
<1>1. b \o t \in Seq(Byte) /\ Len(b \o t) = Len(b) + Len(t) /\ Len(b) \in Nat /\ Len(t) \in Nat
  BY Joined
<1>2. SubSeq(b \o t, 1, Len(b)) = b
  <2>1. SubSeq(b \o t, 1, Len(b)) = SubSeq(b, 1, Len(b))
    BY <1>1, LongerFront
  <2> QED
    BY <2>1, SubSeqFull
<1>3. SubSeq(b \o t, Len(b) + 1, Len(b \o t)) = t
  <2> DEFINE m == Len(b) + 1
  <2>1. m \in Nat /\ 1 <= m /\ m <= Len(b) + 1 /\ m \in Int /\ Len(b) \in Int /\ Len(b) < m
    BY <1>1
  <2> HIDE DEF m
  <2>2. SubSeq(b \o t, m, Len(b \o t)) = SubSeq(b, m, Len(b)) \o t
    BY <2>1, LongerEnd
  <2>3. SubSeq(b, m, Len(b)) = <<>>
    BY <2>1, SubSeqEmpty
  <2>4. <<>> \o t = t
    BY ConcatEmptySeq
  <2> QED
    BY <2>2, <2>3, <2>4 DEF m
<1>4. Len(b) <= Len(b \o t) /\ ~(Len(b) > Len(b \o t))
  BY <1>1
<1> QED
  BY <1>2, <1>3, <1>4 DEF ReadFull, readValue

\* A pair that was written after one of type prev is read back.
LEMMA PairReadsBack ==
  ASSUME NEW prev \in 0..MaxUint, NEW p \in Pair, p.type >= prev, Canonical(p), NEW t \in Seq(Byte)
  PROVE  /\ encodePair(prev, p) \in Seq(Byte) /\ encodePair(prev, p) \o t # <<>>
         /\ decodePair(prev, encodePair(prev, p) \o t) = Result(p, t)
<1> DEFINE delta == p.type - prev
           id    == Integer(delta)
           i0    == IF p.raw = <<>> THEN 0 ELSE ParseVarint(p.raw).val
           val   == IF Odd(p.type) THEN Sized(p.raw) ELSE Integer(i0)
           enc   == encodePair(prev, p)
           n     == IF Odd(p.type) THEN Len(p.raw) ELSE i0
           tail  == IF Odd(p.type) THEN p.raw \o t ELSE t
<1>0. p.type \in 0..MaxUint /\ p.raw \in Seq(Byte) /\ p = [type |-> p.type, raw |-> p.raw]
      /\ MaxUint \in Nat
  BY Limits DEF Pair
<1>1. delta \in 0..MaxUint /\ prev + delta = p.type
      /\ (prev + delta) % (MaxUint + 1) = p.type /\ ~Overflows(delta, prev)
  <2> DEFINE x == p.type
  <2>1. x \in 0..MaxUint /\ x >= prev /\ MaxUint \in Nat
    BY <1>0
  <2> HIDE DEF x
  <2>2. x - prev \in 0..MaxUint /\ prev + (x - prev) = x /\ x % (MaxUint + 1) = x
        /\ ~(x - prev > MaxUint - prev)
    BY <2>1
  <2> QED
    BY <2>2 DEF x, Overflows
<1>2. enc = id \o val
  BY DEF encodePair
<1>3. id \in Seq(Byte) /\ id # <<>> /\ \A r \in Seq(Byte) : ReadVarint(id \o r) = Result(delta, r)
  <2> HIDE DEF delta
  <2> QED
    BY <1>1, ReadsBack, IntegerParses
<1> HIDE DEF id, enc
<1>4. /\ val \in Seq(Byte) /\ tail \in Seq(Byte)
      /\ ReadVarint(val \o t) = Result(n, tail)
      /\ Odd(p.type) => readValue(tail, n) = Result(p.raw, t)
      /\ ~Odd(p.type) => p.raw = Integer(n) /\ tail = t
  <2>1. CASE Odd(p.type)
    <3> DEFINE raw == p.raw
               l   == Integer(Len(raw))
    <3>1. raw \in Seq(Byte) /\ Len(raw) \in 0..MaxUint
      BY <1>0, <2>1 DEF Canonical
    <3> HIDE DEF raw
    <3>2. raw \o t \in Seq(Byte)
      BY <3>1, Joined
    <3>3. l \in Seq(Byte) /\ ReadVarint(l \o (raw \o t)) = Result(Len(raw), raw \o t)
      BY <3>1, <3>2, ReadsBack
    <3> HIDE DEF l
    <3>4. l \o raw \in Seq(Byte) /\ (l \o raw) \o t = l \o (raw \o t)
      BY <3>1, <3>3, Joined, BytesRegroup
    <3>5. readValue(raw \o t, Len(raw)) = Result(raw, t)
      BY <3>1, FrontRead
    <3>6. val = l \o raw /\ tail = raw \o t /\ n = Len(raw)
      BY <2>1 DEF Sized, l, raw
    <3> HIDE DEF val, tail, n
    <3> QED
      BY <2>1, <3>2, <3>3, <3>4, <3>5, <3>6 DEF raw
  <2>2. CASE ~Odd(p.type)
    <3>1. PICK v \in 0..MaxUint : p.raw = Integer(v)
      BY <2>2 DEF Canonical
    <3>2. p.raw # <<>> /\ ParseVarint(p.raw).val = v
      BY <3>1, IntegerParses
    <3>3. i0 = v
      BY <3>2
    <3>4. val = Integer(v) /\ tail = t /\ n = v
      BY <2>2, <3>3
    <3> HIDE DEF val, tail, n, i0
    <3>5. Integer(v) \in Seq(Byte) /\ ReadVarint(Integer(v) \o t) = Result(v, t)
      BY ReadsBack
    <3> QED
      BY <2>2, <3>1, <3>4, <3>5
  <2> QED
    BY <2>1, <2>2
<1> HIDE DEF val, tail, n
<1>5. enc \in Seq(Byte) /\ enc \o t = id \o (val \o t) /\ val \o t \in Seq(Byte)
  <2>1. id \in Seq(Byte) /\ val \in Seq(Byte) /\ t \in Seq(Byte) /\ enc = id \o val
    BY <1>2, <1>3, <1>4
  <2> HIDE DEF Byte, id, enc
  <2>2. id \o val \in Seq(Byte) /\ val \o t \in Seq(Byte)
    BY ONLY <2>1, Joined
  <2>3. (id \o val) \o t = id \o (val \o t)
    BY ONLY <2>1, BytesRegroup
  <2> QED
    BY ONLY <2>1, <2>2, <2>3
<1>6. enc \o t # <<>>
  <2>1. enc # <<>>
    BY <1>2, <1>3, <1>4, ConcatEqualIffEmpty
  <2> QED
    BY <1>5, <2>1, ConcatEqualIffEmpty
<1>7. ReadVarint(enc \o t) = Result(delta, val \o t)
  BY <1>3, <1>5
<1> DEFINE b == enc \o t
           d == ReadVarint(b)
           v == ReadVarint(d.rest)
           raw == readValue(v.rest, v.val)
           ty == (prev + d.val) % (MaxUint + 1)
<1>8. decodePair(prev, b) =
        IF d.err # "nil" THEN Failure(d.err)
        ELSE IF Overflows(d.val, prev) THEN Failure("other")
        ELSE IF v.err # "nil" THEN Failure(v.err)
        ELSE IF Odd(ty) THEN IF raw.err # "nil" THEN Failure(raw.err)
                            ELSE Result([type |-> ty, raw |-> raw.val], raw.rest)
             ELSE Result([type |-> ty, raw |-> Integer(v.val)], v.rest)
  BY DecodePairForm
<1>9. d.err = "nil" /\ d.val = delta /\ d.rest = val \o t
  <2> HIDE DEF delta
  <2> QED
    BY <1>7 DEF Result
<1> HIDE DEF b, d
<1>10. v.err = "nil" /\ v.val = n /\ v.rest = tail
  BY <1>4, <1>9 DEF Result
<1>11. ty = p.type /\ ~Overflows(d.val, prev)
  <2> HIDE DEF delta
  <2> QED
    BY <1>1, <1>9
<1> HIDE DEF v, ty
<1>12. decodePair(prev, b) = Result(p, t)
  <2>1. CASE Odd(p.type)
    <3>1. raw = Result(p.raw, t)
      BY <1>4, <1>10, <2>1
    <3> HIDE DEF raw
    <3>2. raw.err = "nil" /\ raw.val = p.raw /\ raw.rest = t
      BY <3>1 DEF Result
    <3> QED
      BY <1>0, <1>8, <1>9, <1>10, <1>11, <2>1, <3>2
  <2>2. CASE ~Odd(p.type)
    <3> HIDE DEF raw
    <3>1. Integer(v.val) = p.raw
      BY <1>4, <1>10, <2>2
    <3>2. decodePair(prev, b) = Result([type |-> ty, raw |-> Integer(v.val)], v.rest)
      BY <1>8, <1>9, <1>10, <1>11, <2>2
    <3>3. [type |-> ty, raw |-> Integer(v.val)] = p
      BY <1>0, <1>11, <3>1
    <3> QED
      BY <1>4, <1>10, <2>2, <3>2, <3>3
  <2> QED
    BY <2>1, <2>2
<1> QED
  BY <1>5, <1>6, <1>12 DEF b, enc

\* FlattenSeq joins its sequences one after the other: F has what is joined so far.
JoinedUpTo(S, seqs, n, F) ==
  /\ F \in [0..n -> Seq(S)] /\ F[0] = <<>>
  /\ \A i \in 1..n : F[i] = F[i - 1] \o seqs[i]

LEMMA JoinsExist ==
  ASSUME NEW S, NEW seqs \in Seq(Seq(S))
  PROVE  \E F : JoinedUpTo(S, seqs, Len(seqs), F)
<1> DEFINE P == {n \in Nat : n <= Len(seqs) => \E F : JoinedUpTo(S, seqs, n, F)}
<1>1. 0 \in P
  <2> DEFINE F == [i \in 0..0 |-> <<>>]
  <2>1. F \in [0..0 -> Seq(S)] /\ F[0] = <<>>
    BY EmptySeq
  <2> HIDE DEF F
  <2>2. JoinedUpTo(S, seqs, 0, F)
    BY <2>1 DEF JoinedUpTo
  <2> QED
    BY <2>2
<1>2. ASSUME NEW n \in Nat, n \in P PROVE n + 1 \in P
  <2> SUFFICES ASSUME n + 1 <= Len(seqs) PROVE \E G : JoinedUpTo(S, seqs, n + 1, G)
    OBVIOUS
  <2>1. PICK F : JoinedUpTo(S, seqs, n, F)
    BY <1>2
  <2> DEFINE next == F[n] \o seqs[n + 1]
             G == [i \in 0..n+1 |-> IF i <= n THEN F[i] ELSE next]
  <2>2. next \in Seq(S)
    <3>1. F[n] \in Seq(S) /\ seqs[n + 1] \in Seq(S)
      BY <2>1 DEF JoinedUpTo
    <3> QED
      BY <3>1, ConcatProperties
  <2> HIDE DEF next
  <2>3. G \in [0..n+1 -> Seq(S)] /\ G[0] = <<>> /\ G[n + 1] = next /\ \A i \in 0..n : G[i] = F[i]
    <3>1. F \in [0..n -> Seq(S)] /\ F[0] = <<>>
      BY <2>1 DEF JoinedUpTo
    <3>2. \A i \in 0..n+1 : IF i <= n THEN i \in 0..n ELSE i = n + 1
      OBVIOUS
    <3>3. \A i \in 0..n : i \in 0..n+1 /\ i <= n
      OBVIOUS
    <3>4. 0 \in 0..n /\ n + 1 \in 0..n+1 /\ ~(n + 1 <= n)
      OBVIOUS
    <3> QED
      BY <2>2, <3>1, <3>2, <3>3, <3>4
  <2> HIDE DEF G
  <2>4. ASSUME NEW i \in 1..n+1 PROVE G[i] = G[i - 1] \o seqs[i]
    <3>1. CASE i = n + 1
      <4>1. i - 1 = n /\ n \in 0..n
        BY <3>1
      <4> QED
        BY <2>3, <3>1, <4>1 DEF next
    <3>2. CASE i \in 1..n
      <4>1. i - 1 \in 0..n /\ i \in 0..n
        BY <3>2
      <4>2. F[i] = F[i - 1] \o seqs[i]
        BY <2>1, <3>2 DEF JoinedUpTo
      <4> QED
        BY <2>3, <4>1, <4>2
    <3>3. i = n + 1 \/ i \in 1..n
      BY ONLY n \in Nat, i \in 1..n+1
    <3> QED
      BY ONLY <3>1, <3>2, <3>3
  <2> QED
    BY <2>3, <2>4 DEF JoinedUpTo
<1> HIDE DEF P
<1>3. \A n \in Nat : n \in P
  BY <1>1, <1>2, SetInduction
<1> QED
  BY <1>3 DEF P

LEMMA Flattened ==
  ASSUME NEW S, NEW seqs \in Seq(Seq(S))
  PROVE  \E F : /\ JoinedUpTo(S, seqs, Len(seqs), F)
                /\ FlattenSeq(seqs) = F[Len(seqs)]
<1> DEFINE n == Len(seqs)
           Rec(f) == f = [i \in 1..n |-> IF i = 1 THEN seqs[i] ELSE f[i - 1] \o seqs[i]]
           g == CHOOSE f : Rec(f)
<1>1. PICK F : JoinedUpTo(S, seqs, n, F)
  BY JoinsExist
<1>2. n \in Nat /\ \A i \in 1..n : seqs[i] \in Seq(S)
  OBVIOUS
<1>3. CASE n = 0
  <2>1. seqs = <<>> /\ FlattenSeq(seqs) = seqs
    BY <1>3 DEF FlattenSeq
  <2> QED
    BY <1>1, <1>3, <2>1 DEF JoinedUpTo
<1>4. CASE n # 0
  <2> DEFINE w == [i \in 1..n |-> F[i]]
  <2>1. Rec(w)
    <3>1. ASSUME NEW i \in 1..n PROVE F[i] = IF i = 1 THEN seqs[i] ELSE w[i - 1] \o seqs[i]
      <4>1. F[i] = F[i - 1] \o seqs[i]
        BY <1>1 DEF JoinedUpTo
      <4>2. CASE i = 1
        <5>1. F[i - 1] = <<>>
          BY <1>1, <4>2 DEF JoinedUpTo
        <5>2. seqs[i] \in Seq(S)
          BY <1>2
        <5> QED
          BY <4>1, <4>2, <5>1, <5>2, ConcatEmptySeq
      <4>3. CASE i # 1
        <5>1. i - 1 \in 1..n
          BY <1>2, <4>3
        <5> QED
          BY <4>1, <4>3, <5>1
      <4> QED
        BY <4>2, <4>3
    <3> HIDE DEF n
    <3> QED
      BY <3>1
  <2> HIDE DEF w
  <2>2. Rec(g)
    BY <2>1
  <2>3. FlattenSeq(seqs) = g[n]
    BY <1>4 DEF FlattenSeq
  <2> HIDE DEF g, n
  <2>4. \A i \in 1..n : g[i] = IF i = 1 THEN seqs[i] ELSE g[i - 1] \o seqs[i]
    BY <2>2
  <2> DEFINE P == {i \in Nat : i \in 1..n => g[i] = F[i]}
  <2>5. 0 \in P
    BY <1>2
  <2>6. ASSUME NEW i \in Nat, i \in P PROVE i + 1 \in P
    <3> DEFINE k == i + 1
    <3> SUFFICES ASSUME k \in 1..n PROVE g[k] = F[k]
      OBVIOUS
    <3>1. k - 1 = i /\ i \in Nat
      OBVIOUS
    <3>2. F[k] = F[i] \o seqs[k]
      BY <1>1, <3>1 DEF JoinedUpTo
    <3>3. g[k] = IF k = 1 THEN seqs[k] ELSE g[i] \o seqs[k]
      BY <2>4, <3>1
    <3>4. CASE k = 1
      <4>1. F[i] = <<>> /\ seqs[k] \in Seq(S)
        BY <1>1, <1>2, <3>1, <3>4 DEF JoinedUpTo
      <4> HIDE DEF k
      <4> QED
        BY <3>2, <3>3, <3>4, <4>1, ConcatEmptySeq
    <3>5. CASE k # 1
      <4>1. i \in 1..n
        BY <1>2, <3>1, <3>5
      <4>2. g[i] = F[i]
        BY <2>6, <4>1
      <4> HIDE DEF k
      <4> QED
        BY <3>2, <3>3, <3>5, <4>2
    <3> QED
      BY <3>4, <3>5
  <2> HIDE DEF P
  <2>7. \A i \in Nat : i \in P
    BY <2>5, <2>6, SetInduction
  <2>8. n \in P /\ n \in 1..n
    BY <1>2, <1>4, <2>7
  <2>9. g[n] = F[n]
    BY <2>8 DEF P
  <2> QED
    BY <1>1, <2>3, <2>9 DEF n
<1> QED
  BY <1>3, <1>4

\* The loop takes a pair that was written off the front of the bytes that are left.
Loops(f) == \A s \in Left : f[s] = PairsStep(f, s)

InFront(f, prev, p, t, more) ==
  /\ Loops(f)
  /\ prev \in 0..MaxUint /\ p \in Pair /\ p.type >= prev /\ Canonical(p)
  /\ t \in Seq(Byte) /\ f[<<t, p.type>>] = Encoded(more)

Taken(f, prev, p, t, more) == f[<<encodePair(prev, p) \o t, prev>>] = Encoded(<<p>> \o more)

LEMMA LoopTakes ==
  ASSUME NEW f, NEW prev, NEW p, NEW t, NEW more, InFront(f, prev, p, t, more)
  PROVE  Taken(f, prev, p, t, more)
<1> USE DEF InFront
<1> DEFINE all == encodePair(prev, p) \o t
           s   == <<all, prev>>
<1>1. all \in Seq(Byte) /\ all # <<>> /\ decodePair(prev, all) = Result(p, t)
  BY PairReadsBack, Joined
<1> HIDE DEF all
<1>2. s \in Left /\ s[1] = all /\ s[2] = prev
  BY <1>1 DEF Left
<1> HIDE DEF s
<1>3. f[s] = PairsStep(f, s)
  BY <1>2 DEF Loops
<1> DEFINE d == decodePair(s[2], s[1])
           g == f[<<d.rest, d.val.type>>]
<1>4. PairsStep(f, s) = IF s[1] = <<>> THEN Encoded(<<>>)
                        ELSE IF d.err # "nil" THEN Failure(d.err)
                        ELSE IF g.err # "nil" THEN Failure(g.err)
                        ELSE Encoded(<<d.val>> \o g.val)
  BY DEF PairsStep
<1>5. d.err = "nil" /\ d.val = p /\ d.rest = t
  <2>1. d = Result(p, t)
    BY <1>1, <1>2
  <2> HIDE DEF d
  <2> QED
    BY <2>1 DEF Result
<1> HIDE DEF d
<1>6. g.err = "nil" /\ g.val = more
  <2>1. g = Encoded(more)
    BY <1>5
  <2> HIDE DEF g
  <2> QED
    BY <2>1 DEF Encoded, Result
<1> HIDE DEF g
<1>7. f[s] = Encoded(<<p>> \o more)
  BY <1>1, <1>2, <1>3, <1>4, <1>5, <1>6
<1> QED
  BY <1>7 DEF Taken, s, all

\* The type that the type of the i-th pair is written as a difference to.
TypeBefore(pairs, i) == IF i = 1 THEN 0 ELSE pairs[i - 1].type

\* Pairs of the kind a SETUP decodes to are encoded if their types grow, and are read back.
LEMMA OptionsReadBack ==
  ASSUME NEW pairs \in Seq(Pair), TypesGrow(pairs), \A i \in 1..Len(pairs) : Canonical(pairs[i])
  PROVE  \E b \in Seq(Byte) : EncodeSetup(pairs) = Encoded(b) /\ DecodeSetup(b) = Encoded(pairs)
<1> DEFINE n == Len(pairs)
           Prev(i) == TypeBefore(pairs, i)
           seqs == [i \in DOMAIN pairs |-> encodePair(IF i = 1 THEN 0 ELSE pairs[i - 1].type, pairs[i])]
<1>1. n \in Nat /\ DOMAIN pairs = 1..n /\ \A i \in 1..n : pairs[i] \in Pair /\ pairs[i].type \in 0..MaxUint
  <2>1. \A p \in Pair : p.type \in 0..MaxUint
    BY DEF Pair
  <2> QED
    BY <2>1
<1>2. 0 \in 0..MaxUint /\ MaxUint \in Nat
  BY Limits
<1>3. ASSUME NEW i \in 1..n PROVE Prev(i) \in 0..MaxUint /\ pairs[i].type >= Prev(i)
  <2>1. CASE i = 1
    BY <1>1, <1>2, <2>1 DEF TypeBefore
  <2>2. CASE i # 1
    <3>1. i - 1 \in 1..n /\ i > 1 /\ i \in DOMAIN pairs
      BY <1>1, <2>2
    <3>2. pairs[i].type > pairs[i - 1].type /\ pairs[i].type \in 0..MaxUint /\ pairs[i - 1].type \in 0..MaxUint
      BY <1>1, <3>1 DEF TypesGrow
    <3> QED
      BY <1>2, <2>2, <3>2 DEF TypeBefore
  <2> QED
    BY <2>1, <2>2
<1>4. \A i \in 1..n : seqs[i] = encodePair(Prev(i), pairs[i])
  BY <1>1 DEF TypeBefore
<1>5. seqs \in Seq(Seq(Byte)) /\ Len(seqs) = n
  <2>1. ASSUME NEW i \in 1..n PROVE seqs[i] \in Seq(Byte)
    <3> HIDE DEF Prev, seqs
    <3>1. <<>> \in Seq(Byte)
      BY EmptySeq
    <3>2. encodePair(Prev(i), pairs[i]) \in Seq(Byte)
      <4>1. Prev(i) \in 0..MaxUint /\ pairs[i].type >= Prev(i) /\ pairs[i] \in Pair /\ Canonical(pairs[i])
        BY <1>1, <1>3
      <4> QED
        BY <3>1, <4>1, PairReadsBack
    <3> QED
      BY <1>4, <3>2
  <2>2. seqs = [i \in 1..n |-> seqs[i]]
    BY <1>1
  <2> HIDE DEF seqs
  <2> QED
    BY <1>1, <2>1, <2>2
<1>6. EncodeSetup(pairs) = Encoded(FlattenSeq(seqs))
  <2>1. ASSUME NEW i \in DOMAIN pairs PROVE Odd(pairs[i].type) \/ WholeVarint(pairs[i].raw)
    <3>1. Canonical(pairs[i])
      BY <1>1
    <3>2. CASE ~Odd(pairs[i].type)
      <4>1. PICK v \in 0..MaxUint : pairs[i].raw = Integer(v)
        BY <3>1, <3>2 DEF Canonical
      <4> QED
        BY <4>1, IntegerParses
    <3> QED
      BY <3>2
  <2> QED
    BY <2>1 DEF EncodeSetup, encodeKeyValuePairs
<1>7. PICK F : JoinedUpTo(Byte, seqs, n, F) /\ FlattenSeq(seqs) = F[n]
  <2> HIDE DEF seqs
  <2> QED
    BY <1>5, Flattened
<1>8. F[0] = <<>> /\ (\A i \in 0..n : F[i] \in Seq(Byte)) /\ \A i \in 1..n : F[i] = F[i - 1] \o seqs[i]
  BY <1>7 DEF JoinedUpTo
<1> DEFINE flat == F[n]
<1>9. PICK f : /\ \A s \in Left : f[s] = PairsStep(f, s)
               /\ \A b \in Seq(Byte) : decodeKeyValuePairs(b) = f[<<b, 0>>]
  BY PairsAre
<1> DEFINE Decodes2(k, t) == /\ t \in Seq(Byte) /\ flat = F[n - k] \o t
                             /\ f[<<t, Prev(n - k + 1)>>] = Encoded(SubSeq(pairs, n - k + 1, n))
           P == {k \in Nat : k <= n => \E t : Decodes2(k, t)}
<1>10. 0 \in P
  <2> DEFINE none == <<>>
             s == <<none, Prev(n + 1)>>
  <2>1. none \in Seq(Byte) /\ F[n] \o none = F[n]
    BY <1>1, <1>8, ConcatEmptySeq, EmptySeq
  <2>2. Prev(n + 1) \in 0..MaxUint
    <3>1. CASE n = 0
      BY <1>2, <3>1 DEF TypeBefore
    <3>2. CASE n # 0
      <4>1. n \in 1..n /\ (n + 1) - 1 = n /\ n + 1 # 1
        BY <1>1, <3>2
      <4> QED
        BY <1>1, <4>1 DEF TypeBefore
    <3> QED
      BY <3>1, <3>2
  <2>3. SubSeq(pairs, n + 1, n) = <<>>
    <3>1. n + 1 \in Int /\ n \in Int /\ n < n + 1
      BY <1>1
    <3> QED
      BY <3>1, SubSeqEmpty
  <2> HIDE DEF Prev
  <2>4. s \in Left /\ s[1] = <<>>
    BY <2>1, <2>2 DEF Left
  <2>5. f[s] = Encoded(<<>>)
    <3> HIDE DEF s, none
    <3> QED
      BY <1>9, <2>4 DEF PairsStep
  <2>6. n - 0 = n /\ n - 0 + 1 = n + 1
    BY <1>1
  <2> HIDE DEF n, flat
  <2>7. Decodes2(0, none)
    BY <2>1, <2>3, <2>5, <2>6 DEF flat
  <2> HIDE DEF Decodes2
  <2> QED
    BY <2>7
<1>11. ASSUME NEW k \in Nat, k \in P PROVE k + 1 \in P
  <2> SUFFICES ASSUME k + 1 <= n PROVE \E t : Decodes2(k + 1, t)
    <3> HIDE DEF Decodes2, n
    <3> QED
      OBVIOUS
  <2> DEFINE m == n - k
  <2>1. m \in 1..n /\ m - 1 = n - (k + 1) /\ m = n - (k + 1) + 1 /\ m - 1 \in 0..n /\ m + 1 # 1
        /\ m + 1 = n - k + 1 /\ (m + 1) - 1 = m /\ n \in m..n /\ k <= n
    BY <1>1
  <2>2. PICK t : Decodes2(k, t)
    <3> HIDE DEF Decodes2, n
    <3> QED
      BY <1>11, <2>1
  <2>3. t \in Seq(Byte) /\ flat = F[m] \o t
        /\ f[<<t, Prev(m + 1)>>] = Encoded(SubSeq(pairs, m + 1, n))
    <3> HIDE DEF n, flat, Prev
    <3> QED
      BY <2>1, <2>2
  <2> HIDE DEF m, flat, Decodes2
  <2> DEFINE p == pairs[m]
             c == encodePair(Prev(m), p)
             t2 == c \o t
  <2>4. p \in Pair /\ Canonical(p) /\ Prev(m) \in 0..MaxUint /\ p.type >= Prev(m)
    BY <1>1, <1>3, <2>1
  <2>5. Prev(m + 1) = p.type
    BY <2>1 DEF TypeBefore
  <2>6. seqs[m] = c
    BY <1>4, <2>1
  <2> HIDE DEF Prev, p, seqs
  <2>7. f[<<t2, Prev(m)>>] = Encoded(<<p>> \o SubSeq(pairs, m + 1, n))
    <3> DEFINE more == SubSeq(pairs, m + 1, n)
               q == Prev(m)
    <3>1. InFront(f, q, p, t, more)
      BY <1>9, <2>3, <2>4, <2>5 DEF Loops, InFront
    <3> HIDE DEF more, q
    <3>2. Taken(f, q, p, t, more)
      BY ONLY <3>1, LoopTakes
    <3> QED
      BY <3>2 DEF Taken, more, q
  <2>8. <<p>> \o SubSeq(pairs, m + 1, n) = SubSeq(pairs, m, n)
    <3>1. m \in 1..Len(pairs) /\ n \in m..Len(pairs)
      BY <2>1
    <3> HIDE DEF n
    <3> QED
      BY <3>1, SubSeqRecursiveFirst DEF p
  <2>9. c \in Seq(Byte)
    BY <2>3, <2>4, PairReadsBack
  <2> HIDE DEF c
  <2>10. t2 \in Seq(Byte) /\ F[m - 1] \in Seq(Byte) /\ F[m] = F[m - 1] \o c
    BY <1>8, <2>1, <2>3, <2>6, <2>9, Joined
  <2>11. flat = F[m - 1] \o t2
    <3> DEFINE a == F[m - 1]
    <3>1. a \in Seq(Byte) /\ c \in Seq(Byte) /\ t \in Seq(Byte) /\ flat = (a \o c) \o t
      BY <2>3, <2>9, <2>10
    <3> HIDE DEF a
    <3>2. flat = a \o (c \o t)
      <4>1. a \in Seq(Byte) /\ c \in Seq(Byte) /\ t \in Seq(Byte)
        BY ONLY <3>1
      <4>2. (a \o c) \o t = a \o (c \o t)
        BY ONLY <4>1, BytesRegroup
      <4> QED
        BY ONLY <3>1, <4>2
    <3> QED
      BY <3>2 DEF a, t2
  <2> HIDE DEF t2
  <2>12. Decodes2(k + 1, t2)
    <3> HIDE DEF n
    <3> QED
      BY <2>1, <2>7, <2>8, <2>10, <2>11 DEF Decodes2
  <2> QED
    BY <2>12
<1> HIDE DEF P
<1>12. n \in P
  BY <1>1, <1>10, <1>11, SetInduction
<1>13. PICK t : Decodes2(n, t)
  <2>1. n <= n
    BY <1>1
  <2> HIDE DEF Decodes2
  <2> QED
    BY <1>12, <2>1 DEF P
<1>14. t = flat /\ flat \in Seq(Byte) /\ f[<<flat, 0>>] = Encoded(pairs)
  <2>1. n - n = 0 /\ n - n + 1 = 1
    BY <1>1
  <2>2. t \in Seq(Byte) /\ flat = F[0] \o t /\ f[<<t, Prev(1)>>] = Encoded(SubSeq(pairs, 1, n))
    <3> HIDE DEF n, flat, Prev
    <3> QED
      BY <1>13, <2>1
  <2>3. Prev(1) = 0
    BY DEF TypeBefore
  <2>4. SubSeq(pairs, 1, n) = pairs
    BY SubSeqFull
  <2> HIDE DEF n, flat, Prev
  <2>5. flat = t
    BY <1>8, <2>2, ConcatEmptySeq
  <2> QED
    BY <2>2, <2>3, <2>4, <2>5
<1> HIDE DEF n, flat
<1>15. EncodeSetup(pairs) = Encoded(flat)
  BY <1>6, <1>7 DEF flat
<1>16. DecodeSetup(flat) = Encoded(pairs)
  BY <1>9, <1>14 DEF DecodeSetup
<1> QED
  BY <1>14, <1>15, <1>16

\* SetupReadsBack for every string of bytes.
LEMMA EncodedAgain ==
  ASSUME bytes \in Seq(Byte)
  PROVE  SetupReadsBack
<1> DEFINE setup == DecodeSetup(bytes)
           pairs == setup.val
           again == EncodeSetup(pairs)
           repeated == \E i, j \in DOMAIN pairs : i # j /\ pairs[i].type = pairs[j].type
<1>1. Decoded(0, setup)
  BY SetupDecodes
<1> HIDE DEF setup
<1> SUFFICES ASSUME setup.err = "nil"
             PROVE  IF repeated THEN again.err # "nil" ELSE DecodeSetup(again.val) = setup
  BY DEF SetupReadsBack, setup
<1>2. /\ setup = Encoded(pairs) /\ pairs \in Seq(Pair)
      /\ \A i \in 1..Len(pairs) : Canonical(pairs[i])
      /\ \A i, j \in 1..Len(pairs) : i < j => pairs[i].type <= pairs[j].type
  BY <1>1 DEF Decoded, OrderedFrom
<1> HIDE DEF pairs
<1>3. DOMAIN pairs = 1..Len(pairs) /\ Len(pairs) \in Nat
  BY <1>2
<1>4. \A i \in 1..Len(pairs) : pairs[i].type \in Nat
  <2>1. \A p \in Pair : p.type \in Nat
    BY Limits DEF Pair
  <2>2. \A i \in 1..Len(pairs) : pairs[i] \in Pair
    BY <1>2
  <2> QED
    BY <2>1, <2>2
<1>5. CASE repeated
  <2>1. PICK i \in 1..Len(pairs), j \in 1..Len(pairs) : i < j /\ pairs[i].type = pairs[j].type
    <3>1. PICK i \in 1..Len(pairs), j \in 1..Len(pairs) : i # j /\ pairs[i].type = pairs[j].type
      BY <1>3, <1>5
    <3>2. i < j \/ j < i
      BY <3>1
    <3> QED
      BY <3>1, <3>2
  <2>2. ~TypesGrow(pairs)
    <3> SUFFICES ASSUME TypesGrow(pairs) PROVE FALSE
      OBVIOUS
    <3> DEFINE k == j - 1
    <3>1. k \in 1..Len(pairs) /\ (i = k \/ i < k) /\ j > 1
      BY <2>1
    <3>2. pairs[j].type > pairs[k].type
      BY <1>3, <3>1 DEF TypesGrow
    <3> HIDE DEF k
    <3>3. pairs[i].type <= pairs[k].type
      BY <1>2, <1>4, <3>1
    <3>4. /\ pairs[i].type \in Nat /\ pairs[j].type \in Nat /\ pairs[k].type \in Nat
          /\ pairs[i].type = pairs[j].type
      BY <1>4, <2>1, <3>1
    <3> QED
      BY <3>2, <3>3, <3>4
  <2>3. again = Failure("other")
    BY <2>2 DEF EncodeSetup, encodeKeyValuePairs
  <2>4. again.err # "nil"
    <3> HIDE DEF again
    <3> QED
      BY <2>3 DEF Failure
  <2> QED
    BY <1>5, <2>4
<1>6. CASE ~repeated
  <2>1. TypesGrow(pairs)
    <3> SUFFICES ASSUME NEW i \in DOMAIN pairs, i > 1 PROVE pairs[i].type > pairs[i - 1].type
      BY DEF TypesGrow
    <3> DEFINE k == i - 1
    <3>1. k \in 1..Len(pairs) /\ i \in 1..Len(pairs) /\ k < i
      BY <1>3
    <3> HIDE DEF k
    <3>2. pairs[k].type <= pairs[i].type /\ pairs[k].type # pairs[i].type
      BY <1>2, <1>3, <1>6, <3>1
    <3>3. pairs[k].type \in Nat /\ pairs[i].type \in Nat
      BY <1>4, <3>1
    <3>4. pairs[i].type > pairs[k].type
      BY <3>2, <3>3
    <3> QED
      BY <3>4 DEF k
  <2>2. PICK b \in Seq(Byte) : again = Encoded(b) /\ DecodeSetup(b) = Encoded(pairs)
    BY <1>2, <2>1, OptionsReadBack
  <2>3. again.val = b
    <3> HIDE DEF again
    <3> QED
      BY <2>2 DEF Encoded, Result
  <2> HIDE DEF again
  <2>4. DecodeSetup(again.val) = setup
    BY <1>2, <2>2, <2>3
  <2> QED
    BY <1>6, <2>4
<1> QED
  BY <1>5, <1>6

-----------------------------------------------------------------------------
(***************************************************************************)
(* Frames, and the SETUP that is sent.                                     *)
(***************************************************************************)
LEMMA ReadFrameForm ==
  ASSUME NEW r
  PROVE  LET t == ReadVarint(r)
             l == ReadFull(t.rest, 2)
             p == ReadFull(l.rest, Uint(l.val))
         IN t.err = "nil" /\ l.err = "nil" /\ p.err = "nil" =>
              ReadFrame(r) = Result([type |-> t.val, payload |-> p.val], p.rest)
BY DEF ReadFrame, ReadFrameBody, Then

\* A frame that was written is read back, and nothing is left.
LEMMA FrameReadsBack ==
  ASSUME NEW type \in 0..MaxUint, NEW payload \in Seq(Byte), WriteFrame(type, payload).err = "nil"
  PROVE  ReadFrame(WriteFrame(type, payload).val)
           = Result([type |-> type, payload |-> payload], <<>>)
<1> DEFINE len   == BigEndian(Len(payload), 2)
           id    == Integer(type)
           rest  == len \o payload
           frame == WriteFrame(type, payload)
<1>1. frame = Encoded(id \o len \o payload) /\ ~FrameTooLong(payload)
  <2>1. Failure("other").err # "nil"
    BY DEF Failure
  <2> QED
    BY <2>1 DEF WriteFrame
<1>2. frame.val = id \o len \o payload
  <2> HIDE DEF frame, id, len
  <2> QED
    BY <1>1 DEF Encoded, Result
<1>3. len \in Seq(Byte) /\ Len(len) = 2 /\ Uint(len) = Len(payload)
  <2> DEFINE n == Len(payload)
  <2>1. n \in Nat /\ Shift(2) \in Nat
    BY Shifts
  <2>2. n < Shift(2)
    <3> HIDE DEF n
    <3>1. ~(n > Shift(2) - 1)
      BY <1>1 DEF FrameTooLong, maxFrameLen, n
    <3> QED
      BY <2>1, <3>1
  <2> HIDE DEF n
  <2>3. n % Shift(2) = n
    BY <2>1, <2>2
  <2>4. BigEndian(n, 2) \in Seq(Byte) /\ Len(BigEndian(n, 2)) = 2 /\ Uint(BigEndian(n, 2)) = n % Shift(2)
    BY <2>1, BigEndianReadBack
  <2> QED
    BY <2>3, <2>4 DEF n
<1> HIDE DEF len
<1>4. rest \in Seq(Byte) /\ id \in Seq(Byte) /\ ReadVarint(id \o rest) = Result(type, rest)
  <2>1. rest \in Seq(Byte)
    BY <1>3, Joined
  <2> HIDE DEF rest
  <2> QED
    BY <2>1, ReadsBack
<1> HIDE DEF id
<1>5. frame.val = id \o rest
  BY <1>2, <1>3, <1>4, BytesRegroup
<1> HIDE DEF frame
<1>6. ReadFull(rest, 2) = Result(len, payload)
  BY <1>3, FrontRead
<1>7. ReadFull(payload, Uint(len)) = Result(payload, <<>>)
  <2>1. <<>> \in Seq(Byte) /\ payload \o <<>> = payload
    BY ConcatEmptySeq, EmptySeq
  <2>2. ReadFull(payload \o <<>>, Len(payload)) = Result(payload, <<>>)
    BY <2>1, FrontRead
  <2> QED
    BY <1>3, <2>1, <2>2
<1> HIDE DEF rest
<1> DEFINE t == ReadVarint(id \o rest)
           l == ReadFull(t.rest, 2)
           p == ReadFull(l.rest, Uint(l.val))
<1>8. t.err = "nil" /\ t.val = type /\ t.rest = rest
  BY <1>4 DEF Result
<1> HIDE DEF t
<1>9. l.err = "nil" /\ l.val = len /\ l.rest = payload
  BY <1>6, <1>8 DEF Result
<1> HIDE DEF l
<1>10. p.err = "nil" /\ p.val = payload /\ p.rest = <<>>
  BY <1>7, <1>9 DEF Result
<1> HIDE DEF p
<1>11. ReadFrame(id \o rest) = Result([type |-> t.val, payload |-> p.val], p.rest)
  BY <1>8, <1>9, <1>10, ReadFrameForm DEF t, l, p
<1> QED
  BY <1>5, <1>8, <1>10, <1>11 DEF frame

\* What the user and the publisher write are strings of bytes.
TextsTypeOK ==
  /\ namespace \in Seq(Byte) /\ Len(namespace) <= MaxText
  /\ trackName \in Seq(Byte) /\ Len(trackName) <= MaxName
  /\ path \in Seq(Byte) /\ Len(path) <= MaxName /\ (path # <<>> => path[1] = Slash)

LEMMA MaxUintIsLarge == MaxUint \in Nat /\ MaxUint >= 15
<1>0. ByteBits \in Nat /\ ByteBits >= 2 /\ MaxUint \in Nat
  BY Shifts, Limits
<1> DEFINE b == ByteBits * ByteBits
<1>1. b \in Nat /\ b >= 4
  <2>1. \A x \in Nat : x >= 2 => x * x >= 2 * x
    OBVIOUS
  <2>2. ByteBits * ByteBits >= 2 * ByteBits
    BY <1>0, <2>1
  <2>3. b \in Nat
    BY <1>0, ProductInNat
  <2> QED
    BY <1>0, <2>2, <2>3
<1>2. Shift(ByteBits) = 2^b /\ MaxUint = Shift(ByteBits) - 1
  BY Limits DEF Shift
<1> HIDE DEF b
<1>3. 2^b >= 2^4
  BY <1>1, PowerGrows
<1>4. 2^4 = 16
  <2>1. 2^1 = 2 * 2^0 /\ 2^2 = 2 * 2^1 /\ 2^3 = 2 * 2^2 /\ 2^4 = 2 * 2^3 /\ 2^0 = 1
    BY PowerDoubles, PowerOfZero
  <2> QED
    BY <2>1
<1>5. 2^b \in Nat
  BY <1>1, PowerPositive
<1> QED
  BY <1>0, <1>2, <1>3, <1>4, <1>5

\* The two kinds of SETUP are lists of pairs that can be encoded.
LEMMA SmallTypes == {1, 5, 7} \subseteq 0..MaxUint /\ \A t \in {1, 5, 7} : Odd(t)
BY MaxUintIsLarge DEF Odd

LEMMA OptionsAreCanonical ==
  ASSUME TextsTypeOK
  PROVE  /\ \A p \in {Authority, Implementation, PathOption} :
              p \in Pair /\ Canonical(p)
         /\ Authority.type = 5 /\ Implementation.type = 7 /\ PathOption.type = 1
         /\ PathOption.raw = path
<1>1. Slash \in Byte /\ Letter \in Byte /\ MaxName \in 0..MaxUint
  BY RequestsAssumption
<1>2. MaxUint \in Nat
  BY Limits
<1>3. path \in Seq(Byte) /\ Len(path) \in 0..MaxUint
  BY <1>1, <1>2 DEF TextsTypeOK
<1>4. ASSUME NEW c \in Byte PROVE <<c>> \in Seq(Byte) /\ Len(<<c>>) \in 0..MaxUint
  <2>1. <<c>> \in Seq(Byte) /\ Len(<<c>>) = 1
    OBVIOUS
  <2>2. 1 \in 0..MaxUint
    BY SmallTypes
  <2> QED
    BY <2>1, <2>2
<1>5. ASSUME NEW t \in {1, 5, 7}, NEW raw \in Seq(Byte), Len(raw) \in 0..MaxUint
      PROVE  [type |-> t, raw |-> raw] \in Pair /\ Canonical([type |-> t, raw |-> raw])
  <2>1. t \in 0..MaxUint /\ Odd(t)
    BY SmallTypes
  <2>2. [type |-> t, raw |-> raw] \in Pair
    BY <2>1 DEF Pair
  <2> QED
    BY <1>5, <2>1, <2>2 DEF Canonical
<1>6. /\ [type |-> 5, raw |-> <<Letter>>] \in Pair /\ Canonical([type |-> 5, raw |-> <<Letter>>])
      /\ [type |-> 7, raw |-> <<Slash>>] \in Pair /\ Canonical([type |-> 7, raw |-> <<Slash>>])
      /\ [type |-> 1, raw |-> path] \in Pair /\ Canonical([type |-> 1, raw |-> path])
  BY <1>1, <1>3, <1>4, <1>5
<1> QED
  BY <1>6 DEF Authority, Implementation, PathOption

LEMMA SetupForms ==
  LET short == <<Authority, Implementation>>
      long  == <<PathOption, Authority, Implementation>>
  IN SetupOptions = IF path \in {<<>>, <<Slash>>} THEN short ELSE long
<1>1. <<>> \o <<Authority, Implementation>> = <<Authority, Implementation>>
  <2> DEFINE S == {Authority, Implementation}
  <2>1. <<Authority, Implementation>> \in Seq(S)
    OBVIOUS
  <2> QED
    BY <2>1, ConcatEmptySeq
<1>2. <<PathOption>> \o <<Authority, Implementation>> = <<PathOption, Authority, Implementation>>
  <2> DEFINE S == {Authority, Implementation, PathOption}
             a == <<PathOption>>
             b == <<Authority, Implementation>>
             c == <<PathOption, Authority, Implementation>>
  <2>1. /\ a \in Seq(S) /\ Len(a) = 1 /\ a[1] = PathOption
        /\ b \in Seq(S) /\ Len(b) = 2 /\ b[1] = Authority /\ b[2] = Implementation
        /\ c \in Seq(S) /\ Len(c) = 3 /\ c[1] = PathOption /\ c[2] = Authority /\ c[3] = Implementation
    OBVIOUS
  <2> HIDE DEF a, b, c, S
  <2>2. /\ a \o b \in Seq(S) /\ Len(a \o b) = 3
        /\ (a \o b)[1] = a[1] /\ (a \o b)[1 + 1] = b[1] /\ (a \o b)[1 + 2] = b[2]
    <3>1. /\ a \o b \in Seq(S) /\ Len(a \o b) = Len(a) + Len(b)
          /\ \A i \in 1..Len(a) : (a \o b)[i] = a[i]
          /\ \A i \in 1..Len(b) : (a \o b)[Len(a) + i] = b[i]
      <4>1. a \in Seq(S) /\ b \in Seq(S)
        BY <2>1
      <4> QED
        BY ONLY <4>1, Joined
    <3>2. 1 \in 1..Len(a) /\ 1 \in 1..Len(b) /\ 2 \in 1..Len(b) /\ Len(a) = 1 /\ Len(b) = 2
      BY <2>1
    <3>3. (a \o b)[Len(a) + 1] = b[1] /\ (a \o b)[Len(a) + 2] = b[2] /\ (a \o b)[1] = a[1]
      BY ONLY <3>1, <3>2
    <3> QED
      BY <3>1, <3>2, <3>3
  <2>3. \A i \in 1..3 : (a \o b)[i] = c[i]
    <3>1. \A i \in 1..3 : i = 1 \/ i = 2 \/ i = 3
      OBVIOUS
    <3> QED
      BY <2>1, <2>2, <3>1
  <2>4. a \o b = c
    BY <2>1, <2>2, <2>3, SeqEqual
  <2> QED
    BY <2>4 DEF a, b, c
<1> QED
  BY <1>1, <1>2 DEF SetupOptions

\* The values of the options of one type.
RawsOf(pairs, t) == {pairs[i].raw : i \in {j \in DOMAIN pairs : pairs[j].type = t}}

LEMMA SetupIsWellFormed ==
  ASSUME TextsTypeOK
  PROVE  /\ SetupOptions \in Seq(Pair) /\ TypesGrow(SetupOptions)
         /\ \A i \in 1..Len(SetupOptions) : Canonical(SetupOptions[i])
         /\ RawsOf(SetupOptions, 5) = {Authority.raw}
         /\ RawsOf(SetupOptions, 7) = {Implementation.raw}
         /\ RawsOf(SetupOptions, 1) = {path} \ {<<>>, <<Slash>>}
<1> DEFINE A == Authority
           I == Implementation
           O == PathOption
           short == <<A, I>>
           long  == <<O, A, I>>
<1>1. /\ A \in Pair /\ Canonical(A) /\ A.type = 5
      /\ I \in Pair /\ Canonical(I) /\ I.type = 7
      /\ O \in Pair /\ Canonical(O) /\ O.type = 1 /\ O.raw = path
  BY OptionsAreCanonical
<1> HIDE DEF A, I, O
<1>2. CASE path \in {<<>>, <<Slash>>}
  <2>1. SetupOptions = short
    BY <1>2, SetupForms DEF A, I
  <2>2. short \in Seq(Pair) /\ Len(short) = 2 /\ DOMAIN short = 1..2 /\ short[1] = A /\ short[2] = I
    BY <1>1
  <2> HIDE DEF short
  <2>3. \A i \in 1..2 : i = 1 \/ i = 2
    OBVIOUS
  <2>4. TypesGrow(short)
    <3> SUFFICES ASSUME NEW i \in DOMAIN short, i > 1 PROVE short[i].type > short[i - 1].type
      BY DEF TypesGrow
    <3>1. i = 2 /\ i - 1 = 1
      BY <2>2, <2>3
    <3>2. short[i] = I /\ short[i - 1] = A
      BY <2>2, <3>1
    <3> QED
      BY <1>1, <3>2
  <2>5. \A i \in 1..Len(short) : Canonical(short[i])
    BY <1>1, <2>2, <2>3
  <2>6. RawsOf(short, 5) = {A.raw} /\ RawsOf(short, 7) = {I.raw} /\ RawsOf(short, 1) = {}
    BY <1>1, <2>2, <2>3 DEF RawsOf
  <2>7. {path} \ {<<>>, <<Slash>>} = {}
    BY <1>2
  <2> QED
    BY <2>1, <2>2, <2>4, <2>5, <2>6, <2>7 DEF A, I
<1>3. CASE path \notin {<<>>, <<Slash>>}
  <2>1. SetupOptions = long
    BY <1>3, SetupForms DEF A, I, O
  <2>2. long \in Seq(Pair) /\ Len(long) = 3 /\ DOMAIN long = 1..3
        /\ long[1] = O /\ long[2] = A /\ long[3] = I
    BY <1>1
  <2> HIDE DEF long
  <2>3. \A i \in 1..3 : i = 1 \/ i = 2 \/ i = 3
    OBVIOUS
  <2>4. TypesGrow(long)
    <3> SUFFICES ASSUME NEW i \in DOMAIN long, i > 1 PROVE long[i].type > long[i - 1].type
      BY DEF TypesGrow
    <3>1. (i = 2 /\ i - 1 = 1) \/ (i = 3 /\ i - 1 = 2)
      BY <2>2, <2>3
    <3>2. (long[i] = A /\ long[i - 1] = O) \/ (long[i] = I /\ long[i - 1] = A)
      BY <2>2, <3>1
    <3> QED
      BY <1>1, <3>2
  <2>5. \A i \in 1..Len(long) : Canonical(long[i])
    BY <1>1, <2>2, <2>3
  <2>6. RawsOf(long, 5) = {A.raw} /\ RawsOf(long, 7) = {I.raw} /\ RawsOf(long, 1) = {O.raw}
    BY <1>1, <2>2, <2>3 DEF RawsOf
  <2>7. {path} \ {<<>>, <<Slash>>} = {path}
    BY <1>3
  <2> QED
    BY <1>1, <2>1, <2>2, <2>4, <2>5, <2>6, <2>7 DEF A, I
<1> QED
  BY <1>2, <1>3

\* SetupArrives for every path.
LEMMA SetupIsRead ==
  ASSUME TextsTypeOK
  PROVE  SetupArrives
<1> DEFINE sent  == sendClientSetup
           frame == ReadFrame(sent.val)
           setup == DecodeSetup(frame.val.payload)
<1>1. PICK b \in Seq(Byte) : EncodeSetup(SetupOptions) = Encoded(b)
                             /\ DecodeSetup(b) = Encoded(SetupOptions)
  BY SetupIsWellFormed, OptionsReadBack
<1>2. sent = WriteFrame(MsgSetup, b)
  <2> DEFINE e == EncodeSetup(SetupOptions)
  <2>1. e.err = "nil" /\ e.val = b
    <3> HIDE DEF e
    <3> QED
      BY <1>1 DEF e, Encoded, Result
  <2>2. sent = IF e.err = "nil" THEN WriteFrame(MsgSetup, e.val) ELSE Failure(e.err)
    BY DEF sendClientSetup, Then
  <2> HIDE DEF e, sent
  <2> QED
    BY <2>1, <2>2
<1> SUFFICES ASSUME sent.err = "nil"
             PROVE  /\ frame.err = "nil" /\ frame.rest = <<>> /\ frame.val.type = MsgSetup
                    /\ setup.err = "nil"
                    /\ RawsOf(setup.val, 5) = {Authority.raw}
                    /\ RawsOf(setup.val, 7) = {Implementation.raw}
                    /\ RawsOf(setup.val, 1) = {path} \ {<<>>, <<Slash>>}
  BY DEF SetupArrives, RawsOf
<1>3. MsgSetup \in 0..MaxUint
  BY RequestsAssumption
<1> HIDE DEF sent
<1>4. frame = Result([type |-> MsgSetup, payload |-> b], <<>>)
  BY <1>2, <1>3, FrameReadsBack
<1> HIDE DEF frame
<1>5. frame.err = "nil" /\ frame.rest = <<>> /\ frame.val.type = MsgSetup /\ frame.val.payload = b
  BY <1>4 DEF Result
<1>6. setup = Encoded(SetupOptions)
  BY <1>1, <1>5
<1> HIDE DEF setup
<1>7. setup.err = "nil" /\ setup.val = SetupOptions
  BY <1>6 DEF Encoded, Result
<1> QED
  BY <1>5, <1>7, SetupIsWellFormed

-----------------------------------------------------------------------------
(***************************************************************************)
(* Where a SETUP breaks off.                                               *)
(***************************************************************************)

\* An integer v, a pair p at the front of whatever follows.
IntegerFront(c, v) ==
  c \in Seq(Byte) /\ c # <<>> /\ \A y \in Seq(Byte) : ReadVarint(c \o y) = Result(v, y)

PairFront(prev, c, p) ==
  c \in Seq(Byte) /\ c # <<>> /\ \A y \in Seq(Byte) : decodePair(prev, c \o y) = Result(p, y)

\* What is cut in two is joined again.
LEMMA CutAndJoined ==
  ASSUME NEW S, NEW r \in Seq(S), NEW k \in Nat, k <= Len(r)
  PROVE  /\ SubSeq(r, 1, k) \in Seq(S) /\ Len(SubSeq(r, 1, k)) = k
         /\ SubSeq(r, k + 1, Len(r)) \in Seq(S) /\ Len(SubSeq(r, k + 1, Len(r))) = Len(r) - k
         /\ r = SubSeq(r, 1, k) \o SubSeq(r, k + 1, Len(r))
<1> DEFINE a == SubSeq(r, 1, k)
           b == SubSeq(r, k + 1, Len(r))
           n == Len(r)
           both == a \o b
<1>1. /\ a \in Seq(S) /\ Len(a) = k
      /\ \A i \in 1..k : a[i] = r[i]
  OBVIOUS
<1>2. b \in Seq(S) /\ Len(b) = n - k /\ \A i \in 1..n-k : b[i] = r[k + i]
  <2> DEFINE m == k + 1
  <2>1. m \in Nat /\ 1 <= m /\ m <= Len(r) + 1 /\ Len(r) - m + 1 = n - k
        /\ \A i \in 1..n-k : m + i - 1 = k + i
    OBVIOUS
  <2> HIDE DEF m
  <2>2. /\ SubSeq(r, m, Len(r)) \in Seq(S) /\ Len(SubSeq(r, m, Len(r))) = Len(r) - m + 1
        /\ \A i \in 1..Len(r)-m+1 : SubSeq(r, m, Len(r))[i] = r[m + i - 1]
    <3>1. Len(r) \in Nat /\ Len(r) <= Len(r)
      OBVIOUS
    <3> QED
      BY <2>1, <3>1, PartOf
  <2> QED
    BY <2>1, <2>2 DEF m
<1> HIDE DEF a, b
<1>3. /\ both \in Seq(S) /\ Len(both) = Len(a) + Len(b)
      /\ \A i \in 1..Len(a) : both[i] = a[i]
      /\ \A i \in 1..Len(b) : both[Len(a) + i] = b[i]
  <2>1. a \in Seq(S) /\ b \in Seq(S)
    BY <1>1, <1>2
  <2> QED
    BY ONLY <2>1, Joined
<1> HIDE DEF both
<1>4. n \in Nat /\ Len(both) = n
  BY <1>1, <1>2, <1>3
<1>5. ASSUME NEW i \in 1..n PROVE r[i] = both[i]
  <2>1. CASE i <= k
    <3>1. i \in 1..k
      BY <1>4, <2>1
    <3> QED
      BY <1>1, <1>3, <3>1
  <2>2. CASE i > k
    <3> DEFINE j == i - k
    <3>1. j \in 1..n-k /\ k + j = i
      BY <1>4, <2>2
    <3> HIDE DEF j, n
    <3> QED
      BY <1>1, <1>2, <1>3, <3>1
  <2> QED
    BY <1>4, <2>1, <2>2
<1>6. r = both
  BY <1>3, <1>4, <1>5, SameSequence
<1> QED
  BY <1>1, <1>2, <1>6 DEF a, b, both

LEMMA VarintConsumes ==
  ASSUME NEW r \in Seq(Byte), ReadVarint(r).err = "nil"
  PROVE  \E c : IntegerFront(c, ReadVarint(r).val) /\ r = c \o ReadVarint(r).rest
<1> DEFINE e == LeadingOnes(r[1])
           k == e + 1
           c == SubSeq(r, 1, k)
           bs == SubSeq(r, 2, e + 1)
           v == decodeVarintBytes(r[1], bs)
           end == SubSeq(r, e + 2, Len(r))
<1>1. r # <<>> /\ e <= Len(r) - 1 /\ ReadVarint(r) = Result(v, end)
  <2>1. ReadVarint(r) = VarintAt(r)
    BY ReadVarintIs
  <2>2. Failure("EOF").err # "nil" /\ Failure("unexpectedEOF").err # "nil"
    BY DEF Failure
  <2> QED
    BY <2>1, <2>2 DEF VarintAt
<1>2. e \in Nat
  <2> DEFINE first == r[1]
  <2>1. first \in Byte
    BY <1>1
  <2> HIDE DEF first
  <2>2. LeadingOnes(first) \in 0..ByteBits
    BY <2>1, LeadingOnesOf
  <2> QED
    BY <2>2 DEF first
<1> HIDE DEF e
<1>3. k \in Nat /\ k >= 1 /\ k <= Len(r) /\ k + 1 = e + 2 /\ Len(r) \in Nat
  BY <1>1, <1>2
<1>4. /\ c \in Seq(Byte) /\ Len(c) = k
      /\ r = c \o end
  <2> HIDE DEF k
  <2>1. r = SubSeq(r, 1, k) \o SubSeq(r, k + 1, Len(r))
        /\ SubSeq(r, 1, k) \in Seq(Byte) /\ Len(SubSeq(r, 1, k)) = k
    BY <1>3, CutAndJoined
  <2> QED
    BY <1>3, <2>1
<1>5. c[1] = r[1] /\ c # <<>> /\ SubSeq(c, 2, e + 1) = bs
  <2> HIDE DEF k
  <2>1. \A i \in 1..k : c[i] = r[i]
    BY <1>3
  <2>2. 1 \in 1..k /\ c # <<>>
    <3>1. c \in Seq(Byte) /\ Len(c) >= 1
      BY <1>3, <1>4
    <3> HIDE DEF c
    <3> QED
      BY <1>3, <3>1
  <2> HIDE DEF c
  <2>3. 2 \in Nat /\ k \in Nat /\ 1 <= 2 /\ k <= Len(c) /\ k <= Len(r) /\ 2 <= k + 1
        /\ \A i \in 1..k-2+1 : 2 + i - 1 \in 1..k
    BY <1>3, <1>4
  <2>4. /\ SubSeq(c, 2, k) \in Seq(Byte) /\ Len(SubSeq(c, 2, k)) = k - 2 + 1
        /\ \A i \in 1..k-2+1 : SubSeq(c, 2, k)[i] = c[2 + i - 1]
    BY <1>4, <2>3, PartOf
  <2>5. /\ SubSeq(r, 2, k) \in Seq(Byte) /\ Len(SubSeq(r, 2, k)) = k - 2 + 1
        /\ \A i \in 1..k-2+1 : SubSeq(r, 2, k)[i] = r[2 + i - 1]
    BY <2>3, PartOf
  <2>6. \A i \in 1..Len(SubSeq(c, 2, k)) : SubSeq(c, 2, k)[i] = SubSeq(r, 2, k)[i]
    BY <2>1, <2>3, <2>4, <2>5
  <2>7. SubSeq(c, 2, k) = SubSeq(r, 2, k)
    BY <2>4, <2>5, <2>6, SameSequence
  <2> QED
    BY <2>1, <2>2, <2>7 DEF k
<1>6. ReadVarint(c) = Result(v, <<>>)
  <2>1. ReadVarint(c) = VarintAt(c)
    BY <1>4, ReadVarintIs
  <2>2. e <= Len(c) - 1 /\ e + 2 > Len(c) /\ e + 2 \in Int /\ Len(c) \in Int
    BY <1>2, <1>4
  <2> HIDE DEF c, v, bs, k
  <2>3. SubSeq(c, e + 2, Len(c)) = <<>>
    <3> DEFINE m == e + 2
    <3>1. m \in Int /\ Len(c) \in Int /\ Len(c) < m
      BY <2>2
    <3> HIDE DEF m
    <3> QED
      BY <1>4, <3>1, SubSeqEmpty DEF m
  <2>4. VarintAt(c) = Result(decodeVarintBytes(c[1], SubSeq(c, 2, e + 1)), SubSeq(c, e + 2, Len(c)))
    BY <1>5, <2>2 DEF VarintAt, e
  <2> QED
    BY <1>5, <2>1, <2>3, <2>4 DEF v
<1> HIDE DEF c, v, end
<1>7. ASSUME NEW y \in Seq(Byte) PROVE ReadVarint(c \o y) = Result(v, y)
  <2>1. ReadVarint(c).err = "nil" /\ ReadVarint(c).val = v /\ ReadVarint(c).rest = <<>>
    BY <1>6 DEF Result
  <2>2. ReadVarint(c \o y) = Result(ReadVarint(c).val, ReadVarint(c).rest \o y)
    BY <1>4, <2>1, VarintFromMore
  <2>3. <<>> \o y = y
    BY ConcatEmptySeq
  <2> QED
    BY <2>1, <2>2, <2>3
<1>8. ReadVarint(r).val = v /\ ReadVarint(r).rest = end
  BY <1>1 DEF Result
<1> QED
  BY <1>4, <1>5, <1>7, <1>8 DEF IntegerFront

\* A zero that follows is an integer.
LEMMA ZeroFront == <<0>> \in Seq(Byte) /\ IntegerFront(<<0>>, 0) /\ Integer(0) = <<0>>
<1>1. 0 \in 0..MaxUint /\ MaxUint \in Nat
  BY Limits
<1>2. varintSize(0) = 1
  <2> DEFINE n == varintSize(0)
  <2>1. n \in 1..ByteBits+1 /\ (\A m \in 1..n-1 : 0 > MaxValue(m)) /\ ByteBits \in Nat
    BY <1>1, SizeIsLeast, Shifts
  <2> HIDE DEF n
  <2>2. n # 1 => 1 \in 1..n-1 /\ 1 \in 1..ByteBits
    BY <2>1
  <2>3. \A m \in 1..ByteBits : ~(0 > MaxValue(m))
    <3>1. \A m \in 1..ByteBits : MaxValue(m) \in Nat
      BY Limits
    <3> QED
      BY <3>1
  <2>4. n = 1
    BY <2>1, <2>2, <2>3
  <2> QED
    BY <2>4 DEF n
<1>3. Integer(0) = <<0>>
  <2>1. Integer(0) = <<0>> \o BigEndian(0, 0)
    BY <1>1, <1>2, OneByteForm DEF EncodedAs
  <2>2. BigEndian(0, 0) = <<>>
    BY Shifts, BigEndianReadBack
  <2>3. <<0>> \o <<>> = <<0>>
    OBVIOUS
  <2> QED
    BY <2>1, <2>2, <2>3
<1>4. Integer(0) \in Seq(Byte) /\ \A y \in Seq(Byte) : ReadVarint(Integer(0) \o y) = Result(0, y)
  <2> DEFINE zero == 0
  <2>1. zero \in 0..MaxUint /\ <<>> \in Seq(Byte)
    BY <1>1
  <2> HIDE DEF zero
  <2>2. Integer(zero) \in Seq(Byte)
    BY <2>1, ReadsBack
  <2>3. ASSUME NEW y \in Seq(Byte) PROVE ReadVarint(Integer(zero) \o y) = Result(zero, y)
    BY <2>1, ReadsBack
  <2> QED
    BY <2>2, <2>3 DEF zero
<1>5. <<0>> # <<>>
  OBVIOUS
<1> QED
  BY <1>3, <1>4, <1>5 DEF IntegerFront

\* What decodePair makes of two integers and what follows them.
PairAt(prev, delta, l, z) ==
  LET t == (prev + delta) % (MaxUint + 1)
      raw == readValue(z, l)
  IN IF Overflows(delta, prev) THEN Failure("other")
     ELSE IF Odd(t) THEN IF raw.err # "nil" THEN Failure(raw.err)
                         ELSE Result([type |-> t, raw |-> raw.val], raw.rest)
          ELSE Result([type |-> t, raw |-> Integer(l)], z)

LEMMA PairOfFronts ==
  ASSUME NEW prev, NEW delta, NEW l, NEW a, NEW b, IntegerFront(a, delta), IntegerFront(b, l),
         NEW z \in Seq(Byte)
  PROVE  decodePair(prev, a \o (b \o z)) = PairAt(prev, delta, l, z)
<1> DEFINE bz == b \o z
           r == a \o bz
           d == ReadVarint(r)
           v == ReadVarint(d.rest)
<1>1. bz \in Seq(Byte)
  BY Joined DEF IntegerFront
<1>2. ReadVarint(bz) = Result(l, z)
  BY DEF IntegerFront
<1> HIDE DEF bz
<1>3. d = Result(delta, bz)
  BY <1>1 DEF IntegerFront
<1> HIDE DEF r
<1>4. d.err = "nil" /\ d.val = delta /\ d.rest = bz
  <2> HIDE DEF d
  <2> QED
    BY <1>3 DEF Result
<1> HIDE DEF d
<1>5. v.err = "nil" /\ v.val = l /\ v.rest = z
  <2>1. v = Result(l, z)
    BY <1>2, <1>4
  <2> HIDE DEF v
  <2> QED
    BY <2>1 DEF Result
<1> HIDE DEF v
<1>6. LET t == (prev + d.val) % (MaxUint + 1)
          raw == readValue(v.rest, v.val)
      IN decodePair(prev, r) =
           IF d.err # "nil" THEN Failure(d.err)
           ELSE IF Overflows(d.val, prev) THEN Failure("other")
           ELSE IF v.err # "nil" THEN Failure(v.err)
           ELSE IF Odd(t) THEN IF raw.err # "nil" THEN Failure(raw.err)
                               ELSE Result([type |-> t, raw |-> raw.val], raw.rest)
                ELSE Result([type |-> t, raw |-> Integer(v.val)], v.rest)
  BY DecodePairForm DEF d, v
<1>7. decodePair(prev, r) = PairAt(prev, delta, l, z)
  BY <1>4, <1>5, <1>6 DEF PairAt
<1> QED
  BY <1>7 DEF r, bz

FourRegroup(a, b, x, y) == (a \o (b \o x)) \o y = a \o (b \o (x \o y)) /\ x \o y \in Seq(Byte)

LEMMA FourJoined ==
  \A a, b, x, y \in Seq(Byte) : FourRegroup(a, b, x, y)
<1> TAKE a, b, x, y \in Seq(Byte)
<1>1. b \o x \in Seq(Byte) /\ x \o y \in Seq(Byte)
  BY Joined
<1>2. Regroups(b, x, y) /\ Regroups(a, b \o x, y)
  BY <1>1, AllRegroup
<1> QED
  BY ONLY <1>1, <1>2 DEF Regroups, FourRegroup

LEMMA PairConsumes ==
  ASSUME NEW prev \in 0..MaxUint, NEW r \in Seq(Byte), decodePair(prev, r).err = "nil"
  PROVE  \E c : PairFront(prev, c, decodePair(prev, r).val) /\ r = c \o decodePair(prev, r).rest
<1> DEFINE res == decodePair(prev, r)
           d == ReadVarint(r)
           v == ReadVarint(d.rest)
           delta == d.val
           l == v.val
           z == v.rest
           t == (prev + delta) % (MaxUint + 1)
<1>1. d.err = "nil" /\ v.err = "nil" /\ l \in 0..MaxUint /\ z \in Seq(Byte)
  BY PairDecoded
<1>2. d.rest \in Seq(Byte)
  BY <1>1, ReadShortens
<1>3. PICK a : IntegerFront(a, delta) /\ r = a \o d.rest
  BY <1>1, VarintConsumes
<1>4. PICK b : IntegerFront(b, l) /\ d.rest = b \o z
  <2> DEFINE s == d.rest
  <2>1. s \in Seq(Byte) /\ ReadVarint(s).err = "nil"
    BY <1>1, <1>2
  <2> HIDE DEF s
  <2>2. \E b : IntegerFront(b, ReadVarint(s).val) /\ s = b \o ReadVarint(s).rest
    BY <2>1, VarintConsumes
  <2> QED
    BY <2>2 DEF s
<1>5. res.err = "nil"
  OBVIOUS
<1> HIDE DEF delta, l, z, d, v
<1>6. r = a \o (b \o z)
  BY <1>3, <1>4
<1>7. res = PairAt(prev, delta, l, z)
  BY <1>1, <1>3, <1>4, <1>6, PairOfFronts
<1>8. a \in Seq(Byte) /\ a # <<>> /\ b \in Seq(Byte) /\ l \in Nat
  BY <1>1, <1>3, <1>4, Limits DEF IntegerFront
<1> HIDE DEF res, t
<1>9. \A e : Failure(e).err = e
  BY DEF Failure
<1>10. CASE Odd(t)
  <2> DEFINE raw == readValue(z, l)
             x == SubSeq(z, 1, l)
             y1 == SubSeq(z, l + 1, Len(z))
  <2>1. ~Overflows(delta, prev) /\ raw.err = "nil"
        /\ res = Result([type |-> t, raw |-> raw.val], raw.rest)
    <3> HIDE DEF raw
    <3>1. res = IF Overflows(delta, prev) THEN Failure("other")
                ELSE IF raw.err # "nil" THEN Failure(raw.err)
                ELSE Result([type |-> t, raw |-> raw.val], raw.rest)
      BY <1>7, <1>10 DEF PairAt, t, raw
    <3> QED
      BY <1>5, <1>9, <3>1
  <2>2. l <= Len(z) /\ raw = Result(x, y1) /\ x \in Seq(Byte) /\ Len(x) = l /\ y1 \in Seq(Byte)
    BY <1>1, <1>8, <2>1, ValueRead
  <2>3. z = x \o y1
    BY <1>1, <1>8, <2>2, CutAndJoined
  <2> HIDE DEF x, y1
  <2>4. raw.val = x /\ raw.rest = y1
    <3> HIDE DEF raw
    <3> QED
      BY <2>2 DEF Result
  <2> HIDE DEF raw
  <2>5. res = Result([type |-> t, raw |-> x], y1)
    BY <2>1, <2>4
  <2>6. res.val = [type |-> t, raw |-> x] /\ res.rest = y1
    BY <2>5 DEF Result
  <2> DEFINE p == [type |-> t, raw |-> x]
             bx == b \o x
             c == a \o bx
  <2>7. bx \in Seq(Byte) /\ c \in Seq(Byte) /\ c # <<>>
    <3>1. bx \in Seq(Byte) /\ Len(bx) \in Nat /\ Len(a) \in Nat /\ Len(a) > 0
      BY <1>8, <2>2, Joined
    <3> HIDE DEF bx
    <3>2. c \in Seq(Byte) /\ Len(c) = Len(a) + Len(bx)
      BY <1>8, <3>1, Joined
    <3> HIDE DEF c
    <3>3. Len(c) > 0
      BY <3>1, <3>2
    <3> QED
      BY <3>1, <3>2, <3>3
  <2>8. ASSUME NEW y \in Seq(Byte)
        PROVE  c \o y = a \o (b \o (x \o y)) /\ x \o y \in Seq(Byte)
    <3>1. a \in Seq(Byte) /\ b \in Seq(Byte) /\ x \in Seq(Byte)
      BY <1>8, <2>2
    <3> HIDE DEF x
    <3>2. FourRegroup(a, b, x, y)
      BY ONLY <3>1, y \in Seq(Byte), FourJoined
    <3> QED
      BY ONLY <3>2 DEF FourRegroup
  <2>9. r = c \o y1
    BY <1>6, <2>2, <2>3, <2>8
  <2> HIDE DEF c, p
  <2>10. ASSUME NEW y \in Seq(Byte) PROVE decodePair(prev, c \o y) = Result(p, y)
    <3> DEFINE xy == x \o y
    <3>1. xy \in Seq(Byte) /\ c \o y = a \o (b \o xy)
      BY <2>8
    <3>2. readValue(xy, l) = Result(x, y)
      BY <2>2, FrontRead
    <3> HIDE DEF xy
    <3>3. decodePair(prev, c \o y) = PairAt(prev, delta, l, xy)
      BY <1>3, <1>4, <3>1, PairOfFronts
    <3>4. PairAt(prev, delta, l, xy) = Result([type |-> t, raw |-> x], y)
      <4> DEFINE w == readValue(xy, l)
      <4>1. w.err = "nil" /\ w.val = x /\ w.rest = y
        BY <3>2 DEF Result
      <4> HIDE DEF w
      <4> QED
        BY <1>10, <2>1, <4>1 DEF PairAt, t, w
    <3> QED
      BY <3>3, <3>4 DEF p
  <2> QED
    BY <2>6, <2>7, <2>9, <2>10 DEF PairFront, p, res
<1>11. CASE ~Odd(t)
  <2> DEFINE p == [type |-> t, raw |-> Integer(l)]
             c == a \o b
  <2>1. ~Overflows(delta, prev) /\ res = Result(p, z)
    <3>1. res = IF Overflows(delta, prev) THEN Failure("other") ELSE Result(p, z)
      BY <1>7, <1>11 DEF PairAt, t
    <3> HIDE DEF p
    <3> QED
      BY <1>5, <1>9, <3>1
  <2>2. res.val = p /\ res.rest = z
    <3> HIDE DEF p
    <3> QED
      BY <2>1 DEF Result
  <2>3. c \in Seq(Byte) /\ c # <<>>
    <3>1. c \in Seq(Byte) /\ Len(c) = Len(a) + Len(b) /\ Len(a) > 0 /\ Len(b) \in Nat
      BY <1>8, Joined
    <3> HIDE DEF c
    <3>2. Len(c) > 0
      BY <1>8, <3>1
    <3> QED
      BY <3>1, <3>2
  <2>4. \A y \in Seq(Byte) : c \o y = a \o (b \o y)
    BY <1>8, BytesRegroup
  <2>5. r = c \o z
    BY <1>1, <1>6, <2>4
  <2> HIDE DEF c, p
  <2>6. ASSUME NEW y \in Seq(Byte) PROVE decodePair(prev, c \o y) = Result(p, y)
    <3>1. decodePair(prev, c \o y) = PairAt(prev, delta, l, y)
      <4>1. c \o y = a \o (b \o y)
        BY <2>4
      <4>2. IntegerFront(a, delta) /\ IntegerFront(b, l)
        BY <1>3, <1>4
      <4>3. decodePair(prev, a \o (b \o y)) = PairAt(prev, delta, l, y)
        BY <4>2, PairOfFronts
      <4> QED
        BY <4>1, <4>3
    <3>2. PairAt(prev, delta, l, y) = Result(p, y)
      BY <1>11, <2>1 DEF PairAt, t, p
    <3> QED
      BY <3>1, <3>2
  <2> QED
    BY <2>2, <2>3, <2>5, <2>6 DEF PairFront, res
<1> QED
  BY <1>10, <1>11

LEMMA EndOfJoined ==
  ASSUME NEW S, NEW c \in Seq(S), NEW r \in Seq(S), r # <<>>
  PROVE  /\ Front(r) \in Seq(S) /\ Last(c \o r) = Last(r) /\ Front(c \o r) = c \o Front(r)
<1> DEFINE n == Len(r)
           m == Len(c)
           all == c \o r
           k == n - 1
           fr == SubSeq(r, 1, k)
           fall == SubSeq(all, 1, m + k)
           cf == c \o fr
<1>1. n \in Nat /\ n >= 1 /\ m \in Nat /\ k \in Nat /\ k < n /\ m + n - 1 = m + k
  OBVIOUS
<1>2. /\ all \in Seq(S) /\ Len(all) = m + n
      /\ \A i \in 1..m : all[i] = c[i]
      /\ \A i \in 1..n : all[m + i] = r[i]
  BY Joined
<1> HIDE DEF all
<1>3. fr \in Seq(S) /\ Len(fr) = k /\ \A i \in 1..k : fr[i] = r[i]
  <2> HIDE DEF k
  <2> QED
    BY <1>1
<1> HIDE DEF fr
<1>4. /\ cf \in Seq(S) /\ Len(cf) = m + k
      /\ \A i \in 1..m : cf[i] = c[i]
      /\ \A i \in 1..k : cf[m + i] = fr[i]
  <2>1. /\ cf \in Seq(S) /\ Len(cf) = m + Len(fr)
        /\ \A i \in 1..m : cf[i] = c[i]
        /\ \A i \in 1..Len(fr) : cf[m + i] = fr[i]
    <3>1. fr \in Seq(S)
      BY <1>3
    <3> QED
      BY <3>1, Joined
  <2> HIDE DEF cf, k
  <2> QED
    BY <1>3, <2>1
<1> HIDE DEF cf
<1>5. fall \in Seq(S) /\ Len(fall) = m + k /\ \A i \in 1..m+k : fall[i] = all[i]
  <2> DEFINE j == m + k
  <2>1. j \in Nat /\ j <= Len(all)
    BY <1>1, <1>2
  <2> HIDE DEF j
  <2>2. /\ SubSeq(all, 1, j) \in Seq(S) /\ Len(SubSeq(all, 1, j)) = j
        /\ \A i \in 1..j : SubSeq(all, 1, j)[i] = all[i]
    BY <1>2, <2>1
  <2> QED
    BY <2>2 DEF j
<1> HIDE DEF fall
<1>6. ASSUME NEW i \in 1..m+k PROVE fall[i] = cf[i]
  <2>1. CASE i <= m
    <3>1. i \in 1..m
      BY <1>1, <2>1
    <3> QED
      BY <1>2, <1>4, <1>5, <3>1
  <2>2. CASE i > m
    <3> DEFINE j == i - m
    <3>1. j \in 1..k /\ j \in 1..n /\ m + j = i
      BY <1>1, <2>2
    <3> HIDE DEF j, k, n, m
    <3> QED
      BY <1>2, <1>3, <1>4, <1>5, <3>1
  <2> QED
    BY <1>1, <2>1, <2>2
<1>7. fall = cf
  BY <1>4, <1>5, <1>6, SameSequence
<1>8. Len(all) - 1 = m + k /\ all[Len(all)] = r[n]
  <2>1. n \in 1..n /\ Len(all) = m + n
    BY <1>1, <1>2
  <2> QED
    BY <1>1, <1>2, <2>1
<1>9. Front(all) = fall /\ Front(r) = fr /\ Last(all) = r[n] /\ Last(r) = r[n]
  <2>1. Front(all) = SubSeq(all, 1, Len(all) - 1)
    BY DEF Front
  <2>2. Front(r) = SubSeq(r, 1, k)
    BY DEF Front
  <2> QED
    BY <1>8, <2>1, <2>2 DEF Last, fall, fr
<1> QED
  BY <1>3, <1>7, <1>9 DEF all, cf

\* An integer breaks off only where it begins or after its first byte.
LEMMA IntegerCutOff ==
  ASSUME NEW r \in Seq(Byte), ReadVarint(r).err = "EOF"
  PROVE  r = <<>> \/ (Len(r) = 1 /\ Last(r) = r[1] /\ Front(r) = <<>> /\ LeadingOnes(Last(r)) > 0)
<1> DEFINE e == LeadingOnes(r[1])
<1> SUFFICES ASSUME r # <<>> PROVE Len(r) = 1 /\ e > 0
  <2>1. Len(r) = 1 => Len(r) - 1 = 0 /\ r[Len(r)] = r[1]
    OBVIOUS
  <2>2. SubSeq(r, 1, 0) = <<>>
    BY SubSeqEmpty
  <2> QED
    BY <2>1, <2>2 DEF Front, Last
<1>1. ReadVarint(r) = VarintAt(r)
  BY ReadVarintIs
<1>2. r[1] \in Byte /\ Len(r) \in Nat /\ Len(r) >= 1
  OBVIOUS
<1>3. e \in Nat
  <2> DEFINE first == r[1]
  <2>1. first \in Byte
    BY <1>2
  <2> HIDE DEF first
  <2>2. LeadingOnes(first) \in 0..ByteBits
    BY <2>1, LeadingOnesOf
  <2> QED
    BY <2>2 DEF first
<1> HIDE DEF e
<1>4. ~(e <= Len(r) - 1) /\ Len(r) = 1
  <2>1. \A x, y : Result(x, y).err # "EOF"
    BY DEF Result
  <2>2. \A x : Failure(x).err = x
    BY DEF Failure
  <2>3. VarintAt(r) = IF e <= Len(r) - 1
                      THEN Result(decodeVarintBytes(r[1], SubSeq(r, 2, e + 1)), SubSeq(r, e + 2, Len(r)))
                      ELSE Failure(IF Len(r) = 1 THEN "EOF" ELSE "unexpectedEOF")
    BY DEF VarintAt, e
  <2> QED
    BY <1>1, <2>1, <2>2, <2>3
<1> QED
  BY <1>2, <1>3, <1>4

\* The loop comes to the end of b after a pair of type prev; b breaks off in an integer.
Ends(f, b, prev) == f[<<b, prev>>].err = "nil"

CutOff(f, b, prev) ==
  \/ Ends(f, b \o <<0>>, prev)
  \/ LeadingOnes(Last(b)) > 0 /\ (Ends(f, Front(b), prev) \/ Ends(f, Front(b) \o <<0>>, prev))

\* The loop goes on behind a pair with the error that it ends with there.
LEMMA LoopError ==
  ASSUME NEW f, Loops(f), NEW prev \in 0..MaxUint, NEW r \in Seq(Byte), r # <<>>,
         NEW p, NEW y, decodePair(prev, r) = Result(p, y)
  PROVE  f[<<r, prev>>].err = f[<<y, p.type>>].err
<1> DEFINE s == <<r, prev>>
           d == decodePair(s[2], s[1])
           g == f[<<d.rest, d.val.type>>]
<1>1. s \in Left /\ s[1] = r /\ s[2] = prev
  BY DEF Left
<1>2. d.err = "nil" /\ d.val = p /\ d.rest = y
  <2>1. d = Result(p, y)
    BY <1>1
  <2> HIDE DEF d
  <2> QED
    BY <2>1 DEF Result
<1> HIDE DEF s
<1>3. f[s] = IF g.err # "nil" THEN Failure(g.err) ELSE Encoded(<<d.val>> \o g.val)
  BY <1>1, <1>2 DEF Loops, PairsStep
<1>4. f[s].err = g.err
  <2> HIDE DEF g
  <2>1. Failure(g.err).err = g.err
    BY DEF Failure
  <2>2. Encoded(<<d.val>> \o g.val).err = "nil"
    BY DEF Encoded, Result
  <2> QED
    BY <1>3, <2>1, <2>2
<1>5. g = f[<<y, p.type>>]
  BY <1>2
<1> QED
  BY <1>4, <1>5 DEF s

LEMMA NothingLeft ==
  ASSUME NEW f, Loops(f), NEW prev \in 0..MaxUint
  PROVE  Ends(f, <<>>, prev)
<1> DEFINE s == <<<<>>, prev>>
<1>1. s \in Left /\ s[1] = <<>>
  <2>1. <<>> \in Seq(Byte)
    BY EmptySeq
  <2> QED
    BY <2>1 DEF Left
<1> HIDE DEF s
<1>2. f[s] = Encoded(<<>>)
  BY <1>1 DEF Loops, PairsStep
<1>3. f[s].err = "nil"
  BY <1>2 DEF Encoded, Result
<1> QED
  BY <1>3 DEF Ends, s

\* A type without its value is complete when a zero follows.
LEMMA ValueMissing ==
  ASSUME NEW f, Loops(f), NEW prev \in 0..MaxUint, NEW delta \in 0..MaxUint,
         NEW a, IntegerFront(a, delta), ~Overflows(delta, prev)
  PROVE  Ends(f, a \o <<0>>, prev)
<1> DEFINE t == (prev + delta) % (MaxUint + 1)
           r == a \o <<0>>
           none == <<>>
           raw == readValue(none, 0)
<1>1. none \in Seq(Byte) /\ Len(none) = 0 /\ none \o none = none /\ <<0>> \o none = <<0>>
  OBVIOUS
<1>2. t \in 0..MaxUint
  BY Limits
<1>3. raw = Result(none, none)
  BY <1>1, FrontRead
<1>4. decodePair(prev, a \o (<<0>> \o none)) = PairAt(prev, delta, 0, none)
  <2>1. none \in Seq(Byte) /\ IntegerFront(<<0>>, 0)
    BY <1>1, ZeroFront
  <2> DEFINE zero == <<0>>
             l == 0
  <2> HIDE DEF none, zero, l
  <2>2. IntegerFront(zero, l)
    BY <2>1 DEF zero, l
  <2>3. decodePair(prev, a \o (zero \o none)) = PairAt(prev, delta, l, none)
    BY <2>1, <2>2, PairOfFronts
  <2> QED
    BY <2>3 DEF zero, l
<1>5. PICK x : PairAt(prev, delta, 0, none) = Result([type |-> t, raw |-> x], none)
  <2>1. raw.err = "nil" /\ raw.val = none /\ raw.rest = none
    <3> HIDE DEF raw
    <3> QED
      BY <1>3 DEF Result
  <2> HIDE DEF raw, none
  <2>2. PairAt(prev, delta, 0, none) =
          IF Odd(t) THEN Result([type |-> t, raw |-> none], none)
          ELSE Result([type |-> t, raw |-> Integer(0)], none)
    BY <2>1 DEF PairAt, t, raw
  <2> HIDE DEF t
  <2>3. CASE Odd(t)
    BY <2>2, <2>3
  <2>4. CASE ~Odd(t)
    BY <2>2, <2>4
  <2> QED
    BY <2>3, <2>4
<1> DEFINE p == [type |-> t, raw |-> x]
<1>6. r \in Seq(Byte) /\ r # <<>>
  <2>1. a \in Seq(Byte) /\ <<0>> \in Seq(Byte) /\ Len(<<0>>) = 1
    BY ZeroFront DEF IntegerFront
  <2>2. r \in Seq(Byte) /\ Len(r) = Len(a) + Len(<<0>>)
    BY <2>1, Joined
  <2> HIDE DEF r
  <2>3. Len(r) > 0
    BY <2>1, <2>2
  <2> QED
    BY <2>2, <2>3
<1>7. decodePair(prev, r) = Result(p, none)
  BY <1>1, <1>4, <1>5
<1>8. p.type = t
  OBVIOUS
<1> HIDE DEF p, r, none, t
<1>9. f[<<r, prev>>].err = f[<<none, p.type>>].err
  BY <1>6, <1>7, LoopError
<1>10. Ends(f, <<>>, t)
  BY <1>2, NothingLeft
<1> QED
  BY <1>8, <1>9, <1>10 DEF Ends, none, r

LEMMA PairCutOff ==
  ASSUME NEW f, Loops(f), NEW prev \in 0..MaxUint, NEW r \in Seq(Byte), r # <<>>,
         decodePair(prev, r).err = "EOF"
  PROVE  CutOff(f, r, prev)
<1> DEFINE d == ReadVarint(r)
           v == ReadVarint(d.rest)
           t == (prev + d.val) % (MaxUint + 1)
           raw == readValue(v.rest, v.val)
<1>1. decodePair(prev, r) =
        IF d.err # "nil" THEN Failure(d.err)
        ELSE IF Overflows(d.val, prev) THEN Failure("other")
        ELSE IF v.err # "nil" THEN Failure(v.err)
        ELSE IF Odd(t) THEN IF raw.err # "nil" THEN Failure(raw.err)
                            ELSE Result([type |-> t, raw |-> raw.val], raw.rest)
             ELSE Result([type |-> t, raw |-> Integer(v.val)], v.rest)
  BY DecodePairForm
<1>2. \A e : Failure(e).err = e
  BY DEF Failure
<1>3. \A x, y : Result(x, y).err = "nil"
  BY DEF Result
<1>4. ASSUME d.err = "nil", v.err = "nil" PROVE raw.err # "EOF"
  <2>0. d.rest \in Seq(Byte)
    BY <1>4, ReadShortens
  <2>1. v.rest \in Seq(Byte) /\ v.val \in Nat
    <3> DEFINE z == d.rest
    <3> HIDE DEF z
    <3>1. z \in Seq(Byte) /\ ReadVarint(z).err = "nil"
      BY <1>4, <2>0 DEF z
    <3>2. ReadVarint(z).rest \in Seq(Byte) /\ ReadVarint(z).val \in Nat
      BY <3>1, ReadShortens
    <3> QED
      BY <3>2 DEF z
  <2> DEFINE x == v.rest
             l == v.val
  <2>2. x \in Seq(Byte) /\ l \in Nat
    BY <2>1
  <2> HIDE DEF x, l
  <2>3. readValue(x, l).err # "EOF"
    <3>1. CASE l > Len(x)
      BY <1>2, <3>1 DEF readValue
    <3>2. CASE ~(l > Len(x))
      <4>1. readValue(x, l) = ReadFull(x, l)
        BY <3>2 DEF readValue
      <4>2. l <= Len(x)
        BY <2>2, <3>2
      <4> QED
        BY <1>3, <4>1, <4>2 DEF ReadFull
    <3> QED
      BY <3>1, <3>2
  <2> QED
    BY <2>3 DEF x, l
<1>5. d.err = "EOF" \/ (d.err = "nil" /\ ~Overflows(d.val, prev) /\ v.err = "EOF")
  <2>0. decodePair(prev, r).err = "EOF"
    OBVIOUS
  <2> HIDE DEF d, v, t, raw
  <2> QED
    BY <1>1, <1>2, <1>3, <1>4, <2>0
<1>6. CASE d.err = "EOF"
  <2>1. Front(r) = <<>> /\ LeadingOnes(Last(r)) > 0
    BY <1>6, IntegerCutOff
  <2>2. Ends(f, <<>>, prev)
    BY NothingLeft
  <2> QED
    BY <2>1, <2>2 DEF CutOff
<1>7. CASE d.err = "nil" /\ ~Overflows(d.val, prev) /\ v.err = "EOF"
  <2> DEFINE delta == d.val
             z == d.rest
  <2>1. PICK a : IntegerFront(a, delta) /\ r = a \o z
    BY <1>7, VarintConsumes
  <2>2. delta \in 0..MaxUint /\ z \in Seq(Byte)
    BY <1>7, ReadShortens
  <2>3. ~Overflows(delta, prev) /\ ReadVarint(z).err = "EOF"
    BY <1>7
  <2> HIDE DEF delta, z, d, v
  <2>4. Ends(f, a \o <<0>>, prev)
    BY <2>1, <2>2, <2>3, ValueMissing
  <2>5. a \in Seq(Byte) /\ a \o <<>> = a
    <3>1. a \in Seq(Byte)
      BY <2>1 DEF IntegerFront
    <3> QED
      BY <3>1, ConcatEmptySeq
  <2>6. CASE z = <<>>
    BY <2>1, <2>4, <2>5, <2>6 DEF CutOff
  <2>7. CASE z # <<>>
    <3>1. Front(z) = <<>> /\ LeadingOnes(Last(z)) > 0
      BY <2>2, <2>3, <2>7, IntegerCutOff
    <3>2. Last(r) = Last(z) /\ Front(r) = a \o Front(z)
      BY <2>1, <2>2, <2>5, <2>7, EndOfJoined
    <3>3. Front(r) = a /\ LeadingOnes(Last(r)) > 0
      BY <2>5, <3>1, <3>2
    <3> QED
      BY <2>4, <3>3 DEF CutOff
  <2> QED
    BY <2>6, <2>7
<1> QED
  BY <1>5, <1>6, <1>7

LEMMA LoopCutOff ==
  ASSUME NEW f, Loops(f)
  PROVE  \A s \in Left : f[s].err = "EOF" => s[1] # <<>> /\ CutOff(f, s[1], s[2])
<1> DEFINE Claim(s) == f[s].err = "EOF" => s[1] # <<>> /\ CutOff(f, s[1], s[2])
           P == {n \in Nat : \A s \in Left : Len(s[1]) < n => Claim(s)}
<1>1. 0 \in P
  BY LeftLength
<1>2. ASSUME NEW n \in Nat, n \in P PROVE n + 1 \in P
  <2> SUFFICES ASSUME NEW s \in Left, Len(s[1]) < n + 1, f[s].err = "EOF"
               PROVE  s[1] # <<>> /\ CutOff(f, s[1], s[2])
    OBVIOUS
  <2> DEFINE r == s[1]
             prev == s[2]
             d == decodePair(prev, r)
             p == d.val
             z == d.rest
  <2>1. r \in Seq(Byte) /\ prev \in 0..MaxUint /\ s = <<r, prev>>
    BY DEF Left
  <2>2. r # <<>>
    <3>1. CASE r = <<>>
      <4>1. Ends(f, <<>>, prev)
        BY <2>1, NothingLeft
      <4> QED
        BY <2>1, <3>1, <4>1 DEF Ends
    <3> QED
      BY <3>1
  <2>3. CASE d.err = "EOF"
    BY <2>1, <2>2, <2>3, PairCutOff
  <2>4. CASE d.err = "nil"
    <3>1. /\ d = Result(p, z) /\ p \in Pair /\ z \in Seq(Byte) /\ Len(z) < Len(r)
      BY <2>1, <2>4, PairDecoded
    <3>2. PICK c : PairFront(prev, c, p) /\ r = c \o z
      BY <2>1, <2>4, PairConsumes
    <3> DEFINE type == p.type
               x == <<z, type>>
    <3>3. type \in 0..MaxUint
      BY <3>1 DEF Pair
    <3> HIDE DEF type, p, z, d, r, prev
    <3>4. x \in Left /\ x[1] = z /\ x[2] = type
      BY <3>1, <3>3 DEF Left
    <3>5. ASSUME NEW y \in Seq(Byte)
          PROVE  f[<<c \o y, prev>>].err = f[<<y, type>>].err
      <4> DEFINE cy == c \o y
      <4>1. cy \in Seq(Byte) /\ cy # <<>> /\ decodePair(prev, cy) = Result(p, y)
        <5>1. c \in Seq(Byte) /\ c # <<>> /\ decodePair(prev, cy) = Result(p, y)
          BY <3>2 DEF PairFront
        <5>2. cy \in Seq(Byte) /\ Len(cy) = Len(c) + Len(y) /\ Len(c) > 0 /\ Len(y) \in Nat
          BY <5>1, Joined
        <5> HIDE DEF cy
        <5>3. Len(cy) > 0
          BY <5>1, <5>2
        <5> QED
          BY <5>1, <5>2, <5>3
      <4> HIDE DEF cy
      <4>2. f[<<cy, prev>>].err = f[<<y, p.type>>].err
        BY <2>1, <4>1, LoopError
      <4> QED
        BY <4>2 DEF cy, type
    <3>6. f[x].err = "EOF"
      BY <2>1, <3>1, <3>2, <3>5
    <3>7. z # <<>> /\ CutOff(f, z, type)
      <4>1. Len(x[1]) < n
        <5>1. Len(z) \in Nat /\ Len(r) \in Nat /\ Len(r) < n + 1
          BY <2>1, <3>1 DEF r
        <5> QED
          BY <3>1, <3>4, <5>1
      <4> HIDE DEF x
      <4>2. Claim(x)
        BY <1>2, <3>4, <4>1
      <4> QED
        BY <3>4, <3>6, <4>2
    <3>8. c \in Seq(Byte) /\ <<0>> \in Seq(Byte)
      BY <3>2, ZeroFront DEF PairFront
    <3>9. Last(r) = Last(z) /\ Front(r) = c \o Front(z) /\ Front(z) \in Seq(Byte)
      BY <3>1, <3>2, <3>7, <3>8, EndOfJoined
    <3>10. ASSUME NEW y \in Seq(Byte), Ends(f, y, type) PROVE Ends(f, c \o y, prev)
      BY <3>5, <3>10 DEF Ends
    <3>11. CutOff(f, r, prev)
      <4>1. CASE Ends(f, z \o <<0>>, type)
        <5>1. z \o <<0>> \in Seq(Byte) /\ r \o <<0>> = c \o (z \o <<0>>)
          BY <3>1, <3>2, <3>8, Joined, BytesRegroup
        <5>2. Ends(f, r \o <<0>>, prev)
          BY <3>10, <4>1, <5>1
        <5> QED
          BY <5>2 DEF CutOff
      <4>2. CASE LeadingOnes(Last(z)) > 0 /\ Ends(f, Front(z), type)
        <5>1. Ends(f, Front(r), prev)
          BY <3>9, <3>10, <4>2
        <5> QED
          BY <3>9, <4>2, <5>1 DEF CutOff
      <4>3. CASE LeadingOnes(Last(z)) > 0 /\ Ends(f, Front(z) \o <<0>>, type)
        <5> DEFINE w == Front(z)
        <5>1. w \in Seq(Byte)
          BY <3>9
        <5>2. w \o <<0>> \in Seq(Byte) /\ (c \o w) \o <<0>> = c \o (w \o <<0>>)
          BY <3>8, <5>1, Joined, BytesRegroup
        <5>3. Ends(f, Front(r) \o <<0>>, prev)
          BY <3>9, <3>10, <4>3, <5>2
        <5> QED
          BY <3>9, <4>3, <5>3 DEF CutOff
      <4> QED
        BY <3>7, <4>1, <4>2, <4>3 DEF CutOff
    <3> QED
      BY <2>2, <3>11 DEF r, prev
  <2>5. d.err = "EOF" \/ d.err = "nil"
    <3>1. f[s] = PairsStep(f, s)
      BY DEF Loops
    <3>2. \A e : Failure(e).err = e
      BY DEF Failure
    <3>3. d.err # "nil" => PairsStep(f, s) = Failure(d.err)
      BY <2>2 DEF PairsStep
    <3> HIDE DEF d
    <3> QED
      BY <3>1, <3>2, <3>3
  <2> QED
    BY <2>3, <2>4, <2>5
<1> HIDE DEF P
<1>3. \A n \in Nat : n \in P
  BY <1>1, <1>2, SetInduction
<1> QED
  <2> SUFFICES ASSUME NEW s \in Left PROVE Claim(s)
    OBVIOUS
  <2>1. Len(s[1]) + 1 \in Nat /\ Len(s[1]) < Len(s[1]) + 1
    BY LeftLength
  <2> HIDE DEF Claim
  <2> QED
    BY <1>3, <2>1 DEF P

\* EOFMeansCutOff for every string of bytes.
LEMMA CutOffAtEOF ==
  ASSUME bytes \in Seq(Byte)
  PROVE  EOFMeansCutOff
<1>1. PICK f : /\ \A s \in Left : f[s] = PairsStep(f, s)
               /\ \A b \in Seq(Byte) : decodeKeyValuePairs(b) = f[<<b, 0>>]
  BY PairsAre
<1>2. \A b \in Seq(Byte) : Decodes(b) <=> Ends(f, b, 0)
  BY <1>1 DEF Decodes, DecodeSetup, Ends
<1> SUFFICES ASSUME DecodeSetup(bytes).err = "EOF" PROVE BreaksOffInInteger
  BY DEF EOFMeansCutOff
<1> DEFINE s == <<bytes, 0>>
<1>3. s \in Left /\ s[1] = bytes /\ s[2] = 0 /\ f[s].err = "EOF"
  BY <1>1, Limits DEF Left, DecodeSetup
<1> HIDE DEF s
<1>4. bytes # <<>> /\ CutOff(f, bytes, 0)
  <2>1. Loops(f)
    BY <1>1 DEF Loops
  <2>2. s[1] # <<>> /\ CutOff(f, s[1], s[2])
    BY <1>3, <2>1, LoopCutOff
  <2> QED
    BY <1>3, <2>2
<1>5. <<0>> \in Seq(Byte) /\ Front(bytes) \in Seq(Byte)
  <2>1. <<0>> \in Seq(Byte)
    BY ZeroFront
  <2> QED
    BY <1>4, <2>1, EndOfJoined
<1>6. bytes \o <<0>> \in Seq(Byte) /\ Front(bytes) \o <<0>> \in Seq(Byte)
  <2> DEFINE w == Front(bytes)
             zero == <<0>>
  <2>1. w \in Seq(Byte) /\ zero \in Seq(Byte)
    BY <1>5
  <2> HIDE DEF w, zero
  <2>2. bytes \o zero \in Seq(Byte) /\ w \o zero \in Seq(Byte)
    BY <2>1, Joined
  <2> QED
    BY <2>2 DEF w, zero
<1> QED
  BY <1>2, <1>4, <1>5, <1>6 DEF CutOff, BreaksOffInInteger

-----------------------------------------------------------------------------
(***************************************************************************)
(* Splitting a namespace: the two loops of splitNamespace, step by step.   *)
(***************************************************************************)
\* A loop over a sequence: u has what is there after each element.
Looped(st, base, s, n, u) ==
  u[0] = base /\ \A i \in 1..n : u[i] = st[<<u[i - 1], s[i]>>]

LoopedTo(V, st, base, s, r) ==
  \E u \in [0..Len(s) -> V] : Looped(st, base, s, Len(s), u) /\ r = u[Len(s)]

LEMMA LoopExists ==
  ASSUME NEW V, NEW E, NEW base \in V, NEW st \in [V \X E -> V], NEW s \in Seq(E)
  PROVE  \E u \in [0..Len(s) -> V] : Looped(st, base, s, Len(s), u)
<1> DEFINE Upto(n, u) == u \in [0..n -> V] /\ Looped(st, base, s, n, u)
           P == {n \in Nat : n <= Len(s) => \E u : Upto(n, u)}
<1>1. 0 \in P
  <2> DEFINE u == [i \in 0..0 |-> base]
  <2>1. Upto(0, u)
    BY DEF Looped
  <2> HIDE DEF Upto
  <2> QED
    BY <2>1
<1>2. ASSUME NEW n \in Nat, n \in P PROVE n + 1 \in P
  <2> SUFFICES ASSUME n + 1 <= Len(s) PROVE \E w : Upto(n + 1, w)
    <3> HIDE DEF Upto
    <3> QED
      OBVIOUS
  <2>1. PICK u : Upto(n, u)
    <3> HIDE DEF Upto
    <3> QED
      BY <1>2
  <2> DEFINE next == st[<<u[n], s[n + 1]>>]
             w == [i \in 0..n+1 |-> IF i <= n THEN u[i] ELSE next]
  <2>2. next \in V
    <3>1. u[n] \in V /\ s[n + 1] \in E
      BY <2>1
    <3> QED
      BY <3>1
  <2> HIDE DEF next
  <2>3. w \in [0..n+1 -> V] /\ w[n + 1] = next /\ \A i \in 0..n : w[i] = u[i]
    <3>1. u \in [0..n -> V]
      BY <2>1
    <3>2. \A i \in 0..n+1 : IF i <= n THEN i \in 0..n ELSE i = n + 1
      OBVIOUS
    <3>3. (\A i \in 0..n : i \in 0..n+1 /\ i <= n) /\ n + 1 \in 0..n+1 /\ ~(n + 1 <= n)
      OBVIOUS
    <3> QED
      BY <2>2, <3>1, <3>2, <3>3
  <2> HIDE DEF w
  <2>4. w[0] = base
    BY <2>1, <2>3 DEF Looped
  <2>5. ASSUME NEW i \in 1..n+1 PROVE w[i] = st[<<w[i - 1], s[i]>>]
    <3>1. CASE i = n + 1
      <4>1. i - 1 = n /\ n \in 0..n
        BY <3>1
      <4> QED
        BY <2>3, <3>1, <4>1 DEF next
    <3>2. CASE i \in 1..n
      <4>1. i - 1 \in 0..n /\ i \in 0..n
        BY <3>2
      <4>2. u[i] = st[<<u[i - 1], s[i]>>]
        BY <2>1, <3>2 DEF Looped
      <4> QED
        BY <2>3, <4>1, <4>2
    <3> QED
      BY <3>1, <3>2
  <2> QED
    BY <2>3, <2>4, <2>5 DEF Looped
<1> HIDE DEF P
<1>3. \A n \in Nat : n \in P
  BY <1>1, <1>2, SetInduction
<1> QED
  BY <1>3 DEF P

\* Loops over the same elements agree.
LEMMA LoopsAgree ==
  ASSUME NEW st, NEW base, NEW s, NEW t, NEW n \in Nat, NEW m \in Nat, n <= m, NEW u, NEW w,
         Looped(st, base, s, n, u), Looped(st, base, t, m, w), \A i \in 1..n : s[i] = t[i]
  PROVE  u[n] = w[n]
<1> DEFINE P == {i \in Nat : i <= n => u[i] = w[i]}
<1>1. 0 \in P
  BY DEF Looped
<1>2. ASSUME NEW i \in Nat, i \in P PROVE i + 1 \in P
  <2> DEFINE k == i + 1
  <2> SUFFICES ASSUME k <= n PROVE u[k] = w[k]
    OBVIOUS
  <2>1. k \in 1..n /\ k \in 1..m /\ k - 1 = i /\ i <= n
    OBVIOUS
  <2>2. u[i] = w[i]
    BY <1>2, <2>1
  <2> HIDE DEF k, P
  <2>3. u[k] = st[<<u[k - 1], s[k]>>] /\ w[k] = st[<<w[k - 1], t[k]>>] /\ s[k] = t[k]
    BY <2>1 DEF Looped
  <2> QED
    BY <2>1, <2>2, <2>3
<1> HIDE DEF P
<1>3. \A i \in Nat : i \in P
  BY <1>1, <1>2, SetInduction
<1> QED
  BY <1>3 DEF P

LEMMA LoopStarts ==
  ASSUME NEW V, NEW st, NEW base, NEW r, LoopedTo(V, st, base, <<>>, r)
  PROVE  r = base
BY EmptySeq DEF LoopedTo, Looped

LEMMA LoopAppends ==
  ASSUME NEW V, NEW E, NEW st, NEW base, NEW s \in Seq(E), NEW x \in E, NEW r, NEW q,
         LoopedTo(V, st, base, s, r), LoopedTo(V, st, base, Append(s, x), q)
  PROVE  q = st[<<r, x>>]
<1> DEFINE t == Append(s, x)
           n == Len(s)
           m == n + 1
<1>1. PICK u : Looped(st, base, s, n, u) /\ r = u[n]
  BY DEF LoopedTo
<1>2. Len(t) = m /\ t[m] = x /\ \A i \in 1..n : s[i] = t[i]
  OBVIOUS
<1>3. PICK w : Looped(st, base, t, Len(t), w) /\ q = w[Len(t)]
  BY DEF LoopedTo
<1> HIDE DEF t
<1>4. n \in Nat /\ m \in Nat /\ n <= m /\ m \in 1..m /\ m - 1 = n
  OBVIOUS
<1> HIDE DEF m, n
<1>5. u[n] = w[n]
  BY <1>1, <1>2, <1>3, <1>4, LoopsAgree
<1>6. w[m] = st[<<w[m - 1], t[m]>>]
  BY <1>2, <1>3, <1>4 DEF Looped
<1> QED
  BY <1>1, <1>2, <1>3, <1>4, <1>5, <1>6

\* All but the last element, and the last.
LEMMA TakenApart ==
  ASSUME NEW S, NEW t \in Seq(S), t # <<>>
  PROVE  /\ Front(t) \in Seq(S) /\ Len(Front(t)) = Len(t) - 1 /\ Last(t) \in S
         /\ t = Append(Front(t), Last(t))
<1> DEFINE n == Len(t)
<1>1. n \in Nat /\ n >= 1 /\ n \in 1..n /\ n - 1 \in Nat /\ n - 1 <= n /\ \A i \in 1..n : t[i] \in S
  BY EmptySeq
<1>2. Front(t) \in Seq(S) /\ Len(Front(t)) = n - 1 /\ \A i \in 1..n-1 : Front(t)[i] = t[i]
  <2>1. Front(t) = SubSeq(t, 1, n - 1)
    BY DEF Front
  <2>2. SubSeq(t, 1, n - 1) \in Seq(S) /\ Len(SubSeq(t, 1, n - 1)) = n - 1
        /\ \A i \in 1..n-1 : SubSeq(t, 1, n - 1)[i] = t[i]
    <3> DEFINE k == n - 1
    <3>1. k \in Nat /\ 1 \in Nat /\ 1 <= 1 /\ k <= Len(t) /\ 1 <= k + 1 /\ k - 1 + 1 = k
          /\ \A i \in 1..k : 1 + i - 1 = i
      BY <1>1
    <3> HIDE DEF k
    <3>2. SubSeq(t, 1, k) \in Seq(S) /\ Len(SubSeq(t, 1, k)) = k - 1 + 1
          /\ \A i \in 1..k-1+1 : SubSeq(t, 1, k)[i] = t[1 + i - 1]
      BY <3>1, PartOf
    <3>3. SubSeq(t, 1, k) \in Seq(S) /\ Len(SubSeq(t, 1, k)) = k
          /\ \A i \in 1..k : SubSeq(t, 1, k)[i] = t[i]
      BY <3>1, <3>2
    <3> QED
      BY <3>3 DEF k
  <2> QED
    BY <2>1, <2>2
<1>3. Last(t) = t[n] /\ Last(t) \in S
  BY <1>1 DEF Last
<1>4. Append(Front(t), Last(t)) \in Seq(S) /\ Len(Append(Front(t), Last(t))) = n
  BY <1>1, <1>2, <1>3
<1>5. \A i \in 1..n : Append(Front(t), Last(t))[i] = t[i]
  BY <1>1, <1>2, <1>3
<1>6. t = Append(Front(t), Last(t))
  BY <1>1, <1>4, <1>5, SeqEqual
<1> QED
  BY <1>1, <1>2, <1>3, <1>6

LEMMA PutTogether ==
  ASSUME NEW S, NEW s \in Seq(S), NEW x \in S
  PROVE  /\ Append(s, x) \in Seq(S) /\ Append(s, x) # <<>>
         /\ Front(Append(s, x)) = s /\ Last(Append(s, x)) = x
BY DEF Front, Last

\* strings.Split and the loop over its parts, one character or part at a time.
Cut(parts, c) ==
  IF c = Slash THEN Append(parts, <<>>) ELSE Append(Front(parts), Append(Last(parts), c))

Keep(parts, part) == IF part = <<>> THEN parts ELSE Append(parts, part)

Parts  == Seq(Seq(Byte)) \ {<<>>}
Cutter == [x \in Parts \X Byte |-> Cut(x[1], x[2])]

Kept   == Seq(Seq(Byte) \ {<<>>})
Keeper == [x \in Kept \X Seq(Byte) |-> Keep(x[1], x[2])]

LEMMA CutterWorks == Cutter \in [Parts \X Byte -> Parts] /\ <<<<>>>> \in Parts
<1>1. ASSUME NEW x \in Parts \X Byte PROVE Cut(x[1], x[2]) \in Parts
  <2>1. x[1] \in Seq(Seq(Byte)) /\ x[1] # <<>> /\ x[2] \in Byte
    BY DEF Parts
  <2>2. <<>> \in Seq(Byte)
    BY EmptySeq
  <2>3. Front(x[1]) \in Seq(Seq(Byte)) /\ Last(x[1]) \in Seq(Byte)
    BY <2>1, TakenApart
  <2>4. Append(Last(x[1]), x[2]) \in Seq(Byte)
    BY <2>1, <2>3
  <2>5. Append(x[1], <<>>) \in Seq(Seq(Byte)) /\ Append(x[1], <<>>) # <<>>
    BY <2>1, <2>2, PutTogether
  <2>6. Append(Front(x[1]), Append(Last(x[1]), x[2])) \in Seq(Seq(Byte))
        /\ Append(Front(x[1]), Append(Last(x[1]), x[2])) # <<>>
    <3> DEFINE q == Front(x[1])
               y == Append(Last(x[1]), x[2])
    <3>1. q \in Seq(Seq(Byte)) /\ y \in Seq(Byte)
      BY <2>3, <2>4
    <3> HIDE DEF q, y
    <3>2. Append(q, y) \in Seq(Seq(Byte)) /\ Append(q, y) # <<>>
      BY ONLY <3>1, PutTogether
    <3> QED
      BY <3>2 DEF q, y
  <2> QED
    BY <2>5, <2>6 DEF Cut, Parts
<1>2. <<<<>>>> \in Parts
  <2>1. <<>> \in Seq(Byte)
    BY EmptySeq
  <2>2. <<<<>>>> \in Seq(Seq(Byte)) /\ Len(<<<<>>>>) = 1
    BY <2>1
  <2> QED
    BY <2>2, EmptySeq DEF Parts
<1> QED
  BY <1>1, <1>2 DEF Cutter

LEMMA KeeperWorks == Keeper \in [Kept \X Seq(Byte) -> Kept] /\ <<>> \in Kept
<1>1. ASSUME NEW x \in Kept \X Seq(Byte) PROVE Keep(x[1], x[2]) \in Kept
  <2>1. x[1] \in Seq(Seq(Byte) \ {<<>>}) /\ x[2] \in Seq(Byte)
    BY DEF Kept
  <2>2. x[2] # <<>> => Append(x[1], x[2]) \in Seq(Seq(Byte) \ {<<>>})
    BY <2>1, PutTogether
  <2> QED
    BY <2>1, <2>2 DEF Keep, Kept
<1>2. <<>> \in Kept
  BY EmptySeq DEF Kept
<1> QED
  BY <1>1, <1>2 DEF Keeper

LEMMA SplitLoops ==
  ASSUME NEW text \in Seq(Byte)
  PROVE  LoopedTo(Parts, Cutter, <<<<>>>>, text, Split(text))
<1> DEFINE n == Len(text)
           Rec(f) == f = [i \in 0..n |->
                            IF i = 0 THEN <<<<>>>>
                            ELSE IF text[i] = Slash THEN Append(f[i - 1], <<>>)
                            ELSE Append(Front(f[i - 1]), Append(Last(f[i - 1]), text[i]))]
           g == CHOOSE f : Rec(f)
<1>1. PICK u \in [0..n -> Parts] : Looped(Cutter, <<<<>>>>, text, n, u)
  BY LoopExists, CutterWorks
<1>2. n \in Nat /\ \A i \in 1..n : i \in 0..n /\ i # 0 /\ i - 1 \in 0..n /\ text[i] \in Byte
  OBVIOUS
<1>3. ASSUME NEW i \in 1..n PROVE u[i] = Cut(u[i - 1], text[i])
  <2>1. u[i] = Cutter[<<u[i - 1], text[i]>>]
    BY <1>1 DEF Looped
  <2>2. <<u[i - 1], text[i]>> \in Parts \X Byte
    BY <1>1, <1>2
  <2> QED
    BY <2>1, <2>2 DEF Cutter
<1>4. Rec(u)
  <2>1. u[0] = <<<<>>>> /\ \A i \in 0..n : i = 0 \/ i \in 1..n
    BY <1>1, <1>2 DEF Looped
  <2> HIDE DEF n
  <2> QED
    BY <1>1, <1>3, <2>1 DEF Cut
<1>5. Rec(g)
  BY <1>4
<1>6. Split(text) = g[n]
  BY DEF Split
<1> HIDE DEF g
<1>7. g[0] = <<<<>>>> /\ \A i \in 1..n : g[i] = Cut(g[i - 1], text[i])
  <2> HIDE DEF n
  <2>1. 0 \in 0..n
    BY <1>2
  <2> QED
    BY <1>2, <1>5, <2>1 DEF Cut
<1> HIDE DEF n
<1> DEFINE P == {i \in Nat : i <= n => g[i] = u[i]}
<1>8. 0 \in P
  BY <1>1, <1>7 DEF Looped
<1>9. ASSUME NEW i \in Nat, i \in P PROVE i + 1 \in P
  <2> DEFINE k == i + 1
  <2> SUFFICES ASSUME k <= n PROVE g[k] = u[k]
    OBVIOUS
  <2>1. k \in 1..n /\ k - 1 = i /\ i <= n
    BY <1>2
  <2>2. g[i] = u[i]
    BY <1>9, <2>1
  <2> HIDE DEF k, P
  <2> QED
    BY <1>3, <1>7, <2>1, <2>2
<1> HIDE DEF P
<1>10. \A i \in Nat : i \in P
  BY <1>8, <1>9, SetInduction
<1>11. g[n] = u[n]
  BY <1>2, <1>10 DEF P
<1> QED
  BY <1>1, <1>6, <1>11 DEF LoopedTo, n

LEMMA NotEmptyLoops ==
  ASSUME NEW parts \in Seq(Seq(Byte))
  PROVE  LoopedTo(Kept, Keeper, <<>>, parts, NotEmpty(parts))
<1> DEFINE n == Len(parts)
           Rec(f) == f = [i \in 0..n |->
                            IF i = 0 THEN <<>>
                            ELSE IF parts[i] = <<>> THEN f[i - 1] ELSE Append(f[i - 1], parts[i])]
           g == CHOOSE f : Rec(f)
<1>1. PICK u \in [0..n -> Kept] : Looped(Keeper, <<>>, parts, n, u)
  BY LoopExists, KeeperWorks
<1>2. n \in Nat /\ \A i \in 1..n : i \in 0..n /\ i # 0 /\ i - 1 \in 0..n /\ parts[i] \in Seq(Byte)
  OBVIOUS
<1>3. ASSUME NEW i \in 1..n PROVE u[i] = Keep(u[i - 1], parts[i])
  <2>1. u[i] = Keeper[<<u[i - 1], parts[i]>>]
    BY <1>1 DEF Looped
  <2>2. <<u[i - 1], parts[i]>> \in Kept \X Seq(Byte)
    BY <1>1, <1>2
  <2> QED
    BY <2>1, <2>2 DEF Keeper
<1>4. Rec(u)
  <2>1. u[0] = <<>> /\ \A i \in 0..n : i = 0 \/ i \in 1..n
    BY <1>1, <1>2 DEF Looped
  <2> HIDE DEF n
  <2> QED
    BY <1>1, <1>3, <2>1 DEF Keep
<1>5. Rec(g)
  BY <1>4
<1>6. NotEmpty(parts) = g[n]
  BY DEF NotEmpty
<1> HIDE DEF g
<1>7. g[0] = <<>> /\ \A i \in 1..n : g[i] = Keep(g[i - 1], parts[i])
  <2> HIDE DEF n
  <2>1. 0 \in 0..n
    BY <1>2
  <2> QED
    BY <1>2, <1>5, <2>1 DEF Keep
<1> HIDE DEF n
<1> DEFINE P == {i \in Nat : i <= n => g[i] = u[i]}
<1>8. 0 \in P
  BY <1>1, <1>7 DEF Looped
<1>9. ASSUME NEW i \in Nat, i \in P PROVE i + 1 \in P
  <2> DEFINE k == i + 1
  <2> SUFFICES ASSUME k <= n PROVE g[k] = u[k]
    OBVIOUS
  <2>1. k \in 1..n /\ k - 1 = i /\ i <= n
    BY <1>2
  <2>2. g[i] = u[i]
    BY <1>9, <2>1
  <2> HIDE DEF k, P
  <2> QED
    BY <1>3, <1>7, <2>1, <2>2
<1> HIDE DEF P
<1>10. \A i \in Nat : i \in P
  BY <1>8, <1>9, SetInduction
<1>11. g[n] = u[n]
  BY <1>2, <1>10 DEF P
<1> QED
  BY <1>1, <1>6, <1>11 DEF LoopedTo, n

LEMMA SplitsOn ==
  /\ Split(<<>>) = <<<<>>>>
  /\ \A t \in Seq(Byte) : Split(t) \in Parts
  /\ \A t \in Seq(Byte), c \in Byte : Split(Append(t, c)) = Cut(Split(t), c)
<1>1. \A t \in Seq(Byte) : LoopedTo(Parts, Cutter, <<<<>>>>, t, Split(t))
  BY SplitLoops
<1>2. Split(<<>>) = <<<<>>>>
  <2>1. <<>> \in Seq(Byte)
    BY EmptySeq
  <2> QED
    BY <1>1, <2>1, LoopStarts
<1>3. ASSUME NEW t \in Seq(Byte) PROVE Split(t) \in Parts
  <2>1. Len(t) \in 0..Len(t)
    OBVIOUS
  <2> QED
    BY <1>1, <2>1 DEF LoopedTo
<1>4. ASSUME NEW t \in Seq(Byte), NEW c \in Byte PROVE Split(Append(t, c)) = Cut(Split(t), c)
  <2>1. Append(t, c) \in Seq(Byte)
    OBVIOUS
  <2>2. Split(Append(t, c)) = Cutter[<<Split(t), c>>]
    <3>1. LoopedTo(Parts, Cutter, <<<<>>>>, t, Split(t))
          /\ LoopedTo(Parts, Cutter, <<<<>>>>, Append(t, c), Split(Append(t, c)))
      BY <1>1, <2>1
    <3> QED
      BY ONLY t \in Seq(Byte), c \in Byte, <3>1, LoopAppends
  <2>3. <<Split(t), c>> \in Parts \X Byte
    BY <1>3
  <2> QED
    BY <2>2, <2>3 DEF Cutter
<1> QED
  BY <1>2, <1>3, <1>4

LEMMA KeepsOn ==
  /\ NotEmpty(<<>>) = <<>>
  /\ \A ps \in Seq(Seq(Byte)) : NotEmpty(ps) \in Kept
  /\ \A ps \in Seq(Seq(Byte)), p \in Seq(Byte) : NotEmpty(Append(ps, p)) = Keep(NotEmpty(ps), p)
<1>1. \A ps \in Seq(Seq(Byte)) : LoopedTo(Kept, Keeper, <<>>, ps, NotEmpty(ps))
  BY NotEmptyLoops
<1>2. NotEmpty(<<>>) = <<>>
  <2>1. <<>> \in Seq(Seq(Byte))
    BY EmptySeq
  <2> QED
    BY <1>1, <2>1, LoopStarts
<1>3. ASSUME NEW ps \in Seq(Seq(Byte)) PROVE NotEmpty(ps) \in Kept
  <2>1. Len(ps) \in 0..Len(ps)
    OBVIOUS
  <2> QED
    BY <1>1, <2>1 DEF LoopedTo
<1>4. ASSUME NEW ps \in Seq(Seq(Byte)), NEW p \in Seq(Byte)
      PROVE  NotEmpty(Append(ps, p)) = Keep(NotEmpty(ps), p)
  <2>1. Append(ps, p) \in Seq(Seq(Byte))
    OBVIOUS
  <2>2. NotEmpty(Append(ps, p)) = Keeper[<<NotEmpty(ps), p>>]
    <3>1. LoopedTo(Kept, Keeper, <<>>, ps, NotEmpty(ps))
          /\ LoopedTo(Kept, Keeper, <<>>, Append(ps, p), NotEmpty(Append(ps, p)))
      BY <1>1, <2>1
    <3> QED
      BY ONLY ps \in Seq(Seq(Byte)), p \in Seq(Byte), <3>1, LoopAppends
  <2>3. <<NotEmpty(ps), p>> \in Kept \X Seq(Byte)
    BY <1>3
  <2> QED
    BY <2>2, <2>3 DEF Keeper
<1> QED
  BY <1>2, <1>3, <1>4

-----------------------------------------------------------------------------
(***************************************************************************)
(* The fields of a text that goes on: a slash leaves them alone, a letter  *)
(* starts a field or extends the last.                                     *)
(***************************************************************************)
\* t goes on with c as T.
GoesOn(t, c, T) ==
  /\ t \in Seq(Byte) /\ c \in Byte /\ T = Append(t, c)
  /\ T \in Seq(Byte) /\ Len(t) \in Nat /\ Len(T) = Len(t) + 1
  /\ T[Len(t) + 1] = c /\ \A i \in 1..Len(t) : T[i] = t[i]

LEMMA ItGoesOn ==
  ASSUME NEW t \in Seq(Byte), NEW c \in Byte
  PROVE  GoesOn(t, c, Append(t, c))
BY DEF GoesOn

\* Every number has a run of characters.
RunsThere(text) == \A k \in 1..Cardinality(Starts(text)) : Run(text, k) # {}

LEMMA StartsAreFew ==
  ASSUME NEW t \in Seq(Byte)
  PROVE  /\ Starts(t) \subseteq 1..Len(t) /\ IsFiniteSet(Starts(t))
         /\ Cardinality(Starts(t)) \in Nat /\ Cardinality(Starts(t)) <= Len(t)
         /\ \A i \in 1..Len(t) : Place(t, i) \in Nat /\ Place(t, i) <= Cardinality(Starts(t))
         /\ Len(t) >= 1 => Place(t, Len(t)) = Cardinality(Starts(t))
<1> DEFINE n == Len(t)
<1>1. n \in Nat /\ Starts(t) \subseteq 1..n
  BY DEF Starts
<1>2. IsFiniteSet(1..n) /\ Cardinality(1..n) = n
  <2>1. n \in Int /\ 1 \in Int /\ (1 > n => n = 0) /\ n - 1 + 1 = n
    BY <1>1
  <2> HIDE DEF n
  <2>2. IsFiniteSet(1..n) /\ Cardinality(1..n) = IF 1 > n THEN 0 ELSE n - 1 + 1
    BY <2>1, FS_Interval
  <2> QED
    BY <2>1, <2>2
<1>3. IsFiniteSet(Starts(t)) /\ Cardinality(Starts(t)) <= n
  BY <1>1, <1>2, FS_Subset
<1>4. Cardinality(Starts(t)) \in Nat
  BY <1>3, FS_CardinalityType
<1>5. ASSUME NEW i \in 1..n PROVE Place(t, i) \in Nat /\ Place(t, i) <= Cardinality(Starts(t))
  <2> DEFINE S == {s \in Starts(t) : s <= i}
  <2>1. IsFiniteSet(S) /\ Cardinality(S) <= Cardinality(Starts(t))
    BY <1>3, FS_Subset
  <2>2. Cardinality(S) \in Nat
    BY <2>1, FS_CardinalityType
  <2> QED
    BY <2>1, <2>2 DEF Place
<1>6. Place(t, n) = Cardinality(Starts(t))
  <2>1. {s \in Starts(t) : s <= n} = Starts(t)
    BY <1>1
  <2> QED
    BY <2>1 DEF Place
<1> QED
  BY <1>1, <1>3, <1>4, <1>5, <1>6

LEMMA StartsGoOn ==
  ASSUME NEW t, NEW c, NEW T, GoesOn(t, c, T)
  PROVE  /\ Starts(T) = IF c # Slash /\ (t = <<>> \/ t[Len(t)] = Slash)
                        THEN Starts(t) \cup {Len(t) + 1} ELSE Starts(t)
         /\ \A i \in 1..Len(t) : Place(T, i) = Place(t, i)
<1> DEFINE n == Len(t)
           m == n + 1
<1>1. /\ t \in Seq(Byte) /\ T \in Seq(Byte) /\ n \in Nat /\ Len(T) = m /\ T[m] = c
      /\ \A i \in 1..n : T[i] = t[i]
  BY DEF GoesOn
<1>2. DOMAIN t = 1..n /\ DOMAIN T = 1..m /\ (t = <<>> <=> n = 0)
  BY <1>1, EmptySeq
<1>3. \A i \in 1..m : i \in 1..n \/ i = m
  BY <1>1
<1>4. m \in 1..m /\ m \notin 1..n /\ m - 1 = n /\ (m = 1 <=> n = 0) /\ \A i \in 1..n : i \in 1..m /\ i <= n
  BY <1>1
<1>5. \A i \in 1..n : i # 1 => i - 1 \in 1..n
  BY <1>1
<1>6. n # 0 => n \in 1..n
  BY <1>1
<1> HIDE DEF n, m
<1>7. \A i \in 1..n : i \in Starts(T) <=> i \in Starts(t)
  BY <1>1, <1>2, <1>4, <1>5 DEF Starts
<1>8. m \in Starts(T) <=> c # Slash /\ (t = <<>> \/ t[n] = Slash)
  BY <1>1, <1>2, <1>4, <1>6 DEF Starts
<1>9. Starts(T) \subseteq 1..m /\ Starts(t) \subseteq 1..n
  BY <1>2 DEF Starts
<1>10. Starts(T) = IF m \in Starts(T) THEN Starts(t) \cup {m} ELSE Starts(t)
  BY <1>3, <1>4, <1>7, <1>9
<1>11. ASSUME NEW i \in 1..n PROVE Place(T, i) = Place(t, i)
  <2>1. ~(m <= i)
    BY <1>1 DEF m
  <2>2. {s \in Starts(T) : s <= i} = {s \in Starts(t) : s <= i}
    BY <1>10, <2>1
  <2> QED
    BY <2>2 DEF Place
<1> QED
  BY <1>8, <1>10, <1>11 DEF n, m

LEMMA RunsGoOn ==
  ASSUME NEW t, NEW c, NEW T, GoesOn(t, c, T), NEW k
  PROVE  Run(T, k) = IF c # Slash /\ Cardinality(Starts(T)) = k
                     THEN Run(t, k) \cup {Len(t) + 1} ELSE Run(t, k)
<1> DEFINE n == Len(t)
           m == n + 1
<1>1. /\ t \in Seq(Byte) /\ T \in Seq(Byte) /\ n \in Nat /\ Len(T) = m /\ T[m] = c
      /\ \A i \in 1..n : T[i] = t[i]
  BY DEF GoesOn
<1>2. DOMAIN t = 1..n /\ DOMAIN T = 1..m
  BY <1>1
<1>3. (\A i \in 1..m : i \in 1..n \/ i = m) /\ m \in 1..m /\ m \notin 1..n /\ m >= 1
      /\ \A i \in 1..n : i \in 1..m
  BY <1>1
<1>4. Place(T, m) = Cardinality(Starts(T))
  BY <1>1, <1>3, StartsAreFew
<1>5. \A i \in 1..n : Place(T, i) = Place(t, i)
  BY StartsGoOn
<1> HIDE DEF n, m
<1>6. \A i \in 1..n : i \in Run(T, k) <=> i \in Run(t, k)
  BY <1>1, <1>2, <1>3, <1>5 DEF Run
<1>7. m \in Run(T, k) <=> c # Slash /\ Cardinality(Starts(T)) = k
  BY <1>1, <1>2, <1>3, <1>4 DEF Run
<1>8. Run(T, k) \subseteq 1..m /\ Run(t, k) \subseteq 1..n
  BY <1>2 DEF Run
<1>9. Run(T, k) = IF m \in Run(T, k) THEN Run(t, k) \cup {m} ELSE Run(t, k)
  BY <1>3, <1>6, <1>8
<1> QED
  BY <1>7, <1>9 DEF n, m

\* The least and the greatest of a nonempty set of places.
LEMMA LeastAndGreatest ==
  ASSUME NEW n \in Nat, NEW R \in SUBSET (1..n), R # {}
  PROVE  /\ Min(R) \in R /\ Max(R) \in R
         /\ \A x \in R : Min(R) <= x /\ x <= Max(R)
<1>1. R \subseteq Nat
  OBVIOUS
<1>2. PICK a \in R : \A y \in R : a <= y
  BY <1>1, LeastNatural
<1>3. Min(R) \in R /\ \A y \in R : Min(R) <= y
  BY <1>2 DEF Min
<1> DEFINE Q == {j \in Nat : \E x \in R : x + j = n}
<1>4. Q \subseteq Nat /\ Q # {}
  <2>1. PICK x \in R : TRUE
    OBVIOUS
  <2>2. n - x \in Nat /\ x + (n - x) = n
    BY <1>1
  <2> QED
    BY <2>2
<1>5. PICK j \in Q : \A y \in Q : j <= y
  <2> HIDE DEF Q
  <2> QED
    BY <1>4, LeastNatural
<1>6. PICK b \in R : b + j = n
  BY <1>5
<1>7. ASSUME NEW y \in R PROVE b >= y
  <2>1. n - y \in Q
    <3>1. y \in 1..n /\ n - y \in Nat /\ y + (n - y) = n
      OBVIOUS
    <3> QED
      BY <3>1
  <2>2. j <= n - y /\ j \in Nat /\ y \in Nat /\ b \in Nat
    BY <1>1, <1>5, <2>1
  <2> HIDE DEF Q
  <2> QED
    BY <1>6, <2>2
<1>8. Max(R) \in R /\ \A y \in R : Max(R) >= y
  BY <1>7 DEF Max
<1>9. \A x \in R : x <= Max(R)
  <2>1. Max(R) \in Nat /\ \A x \in R : x \in Nat
    BY <1>1, <1>8
  <2> QED
    BY <1>8, <2>1
<1> QED
  BY <1>3, <1>8, <1>9

LEMMA RunEnds ==
  ASSUME NEW t \in Seq(Byte), NEW k, Run(t, k) # {}
  PROVE  /\ Min(Run(t, k)) \in 1..Len(t) /\ Max(Run(t, k)) \in 1..Len(t)
         /\ Min(Run(t, k)) \in Run(t, k) /\ Max(Run(t, k)) \in Run(t, k)
         /\ \A x \in Run(t, k) : Min(Run(t, k)) <= x /\ x <= Max(Run(t, k))
<1>1. Len(t) \in Nat /\ Run(t, k) \in SUBSET (1..Len(t))
  BY DEF Run
<1> QED
  BY <1>1, LeastAndGreatest

LEMMA PartGoesOn ==
  ASSUME NEW t, NEW c, NEW T, GoesOn(t, c, T), NEW a \in 1..Len(t), NEW b \in 1..Len(t), a <= b
  PROVE  SubSeq(T, a, b) = SubSeq(t, a, b)
<1> DEFINE n == Len(t)
           d == b - a + 1
<1>1. /\ t \in Seq(Byte) /\ T \in Seq(Byte) /\ n \in Nat /\ Len(T) = n + 1
      /\ \A i \in 1..n : T[i] = t[i]
  BY DEF GoesOn
<1>2. /\ a \in Nat /\ b \in Nat /\ 1 <= a /\ b <= n /\ b <= Len(T) /\ a <= b + 1
      /\ d \in Nat /\ \A i \in 1..d : a + i - 1 \in 1..n
  BY <1>1
<1>3. /\ SubSeq(t, a, b) \in Seq(Byte) /\ Len(SubSeq(t, a, b)) = d
      /\ \A i \in 1..d : SubSeq(t, a, b)[i] = t[a + i - 1]
  BY <1>1, <1>2, PartOf
<1>4. /\ SubSeq(T, a, b) \in Seq(Byte) /\ Len(SubSeq(T, a, b)) = d
      /\ \A i \in 1..d : SubSeq(T, a, b)[i] = T[a + i - 1]
  BY <1>1, <1>2, PartOf
<1> HIDE DEF n, d
<1> QED
  BY <1>1, <1>2, <1>3, <1>4, SameSequence

\* Longer by the character it goes on with.
LEMMA PartGrows ==
  ASSUME NEW t, NEW c, NEW T, GoesOn(t, c, T), NEW a \in 1..Len(t)
  PROVE  SubSeq(T, a, Len(t) + 1) = Append(SubSeq(t, a, Len(t)), c)
<1> DEFINE n == Len(t)
           m == n + 1
           d == n - a + 1
           e == d + 1
<1>1. /\ t \in Seq(Byte) /\ T \in Seq(Byte) /\ n \in Nat /\ Len(T) = m /\ T[m] = c /\ c \in Byte
      /\ \A i \in 1..n : T[i] = t[i]
  BY DEF GoesOn
<1>2. /\ a \in Nat /\ 1 <= a /\ n <= n /\ m <= m /\ a <= n + 1 /\ a <= m + 1 /\ m \in Nat
      /\ d \in Nat /\ e = m - a + 1 /\ e = d + 1 /\ a + e - 1 = m
  BY <1>1
<1>3. \A i \in 1..d : a + i - 1 \in 1..n
  BY <1>1
<1>4. /\ SubSeq(t, a, n) \in Seq(Byte) /\ Len(SubSeq(t, a, n)) = d
      /\ \A i \in 1..d : SubSeq(t, a, n)[i] = t[a + i - 1]
  BY <1>1, <1>2, PartOf
<1>5. /\ SubSeq(T, a, m) \in Seq(Byte) /\ Len(SubSeq(T, a, m)) = e
      /\ \A i \in 1..e : SubSeq(T, a, m)[i] = T[a + i - 1]
  <2> HIDE DEF n, m, d, e
  <2>1. /\ SubSeq(T, a, m) \in Seq(Byte) /\ Len(SubSeq(T, a, m)) = m - a + 1
        /\ \A i \in 1..m-a+1 : SubSeq(T, a, m)[i] = T[a + i - 1]
    <3>1. T \in Seq(Byte) /\ a \in Nat /\ m \in Nat /\ 1 <= a /\ m <= Len(T) /\ a <= m + 1
      BY <1>1, <1>2
    <3> QED
      BY ONLY <3>1, PartOf
  <2> QED
    BY <1>2, <2>1
<1> DEFINE A == Append(SubSeq(t, a, n), c)
<1> HIDE DEF n, m, d, e
<1>6. /\ A \in Seq(Byte) /\ Len(A) = e /\ A[e] = c
      /\ \A i \in 1..d : A[i] = SubSeq(t, a, n)[i]
  BY <1>1, <1>2, <1>4
<1>7. \A i \in 1..e : i = e \/ i \in 1..d
  BY <1>2
<1> HIDE DEF A
<1>8. ASSUME NEW i \in 1..e PROVE SubSeq(T, a, m)[i] = A[i]
  <2>1. CASE i = e
    BY <1>1, <1>2, <1>5, <1>6, <2>1
  <2>2. CASE i \in 1..d
    BY <1>1, <1>3, <1>4, <1>5, <1>6, <2>2
  <2> QED
    BY <1>7, <2>1, <2>2
<1>9. SubSeq(T, a, m) = A
  BY <1>5, <1>6, <1>8, SameSequence
<1> QED
  BY <1>9 DEF A, m, n

LEMMA SlashGoesOn ==
  ASSUME NEW t, NEW T, GoesOn(t, Slash, T), RunsThere(t)
  PROVE  FieldsOf(T) = FieldsOf(t) /\ RunsThere(T)
<1>1. t \in Seq(Byte) /\ Starts(T) = Starts(t) /\ \A k : Run(T, k) = Run(t, k)
  <2>1. t \in Seq(Byte)
    BY DEF GoesOn
  <2>2. Starts(T) = Starts(t)
    BY StartsGoOn
  <2>3. \A k : Run(T, k) = Run(t, k)
    BY RunsGoOn
  <2> QED
    BY <2>1, <2>2, <2>3
<1> DEFINE K == Cardinality(Starts(t))
<1>2. ASSUME NEW k \in 1..K
      PROVE  SubSeq(T, Min(Run(t, k)), Max(Run(t, k))) = SubSeq(t, Min(Run(t, k)), Max(Run(t, k)))
  <2>1. Run(t, k) # {}
    BY DEF RunsThere
  <2>2. /\ Min(Run(t, k)) \in 1..Len(t) /\ Max(Run(t, k)) \in 1..Len(t)
        /\ Min(Run(t, k)) <= Max(Run(t, k))
    BY <1>1, <2>1, RunEnds
  <2> QED
    BY <2>2, PartGoesOn
<1> HIDE DEF K
<1>3. FieldsOf(T) = [k \in 1..K |-> SubSeq(T, Min(Run(t, k)), Max(Run(t, k)))]
  BY <1>1 DEF FieldsOf, K
<1>4. FieldsOf(t) = [k \in 1..K |-> SubSeq(t, Min(Run(t, k)), Max(Run(t, k)))]
  BY DEF FieldsOf, K
<1>5. FieldsOf(T) = FieldsOf(t)
  BY <1>2, <1>3, <1>4
<1> QED
  BY <1>1, <1>5 DEF RunsThere

LEMMA FieldStarts ==
  ASSUME NEW t, NEW c, NEW T, GoesOn(t, c, T), RunsThere(t),
         c # Slash, t = <<>> \/ t[Len(t)] = Slash
  PROVE  /\ RunsThere(T) /\ Cardinality(Starts(T)) = Cardinality(Starts(t)) + 1
         /\ FieldsOf(T) = [k \in 1..Cardinality(Starts(t)) + 1 |->
                             IF k <= Cardinality(Starts(t)) THEN FieldsOf(t)[k] ELSE <<c>>]
<1> DEFINE n == Len(t)
           m == n + 1
           K == Cardinality(Starts(t))
           L == K + 1
<1>1. /\ t \in Seq(Byte) /\ T \in Seq(Byte) /\ n \in Nat /\ Len(T) = m /\ T[m] = c /\ c \in Byte
      /\ m \in 1..m /\ m \notin 1..n
  BY DEF GoesOn
<1>2. /\ Starts(t) \subseteq 1..n /\ IsFiniteSet(Starts(t)) /\ K \in Nat
      /\ \A i \in 1..n : Place(t, i) \in Nat /\ Place(t, i) <= K
  BY <1>1, StartsAreFew
<1>3. Starts(T) = Starts(t) \cup {m} /\ m \notin Starts(t)
  BY <1>1, <1>2, StartsGoOn
<1>4. Cardinality(Starts(T)) = L
  BY <1>2, <1>3, FS_AddElement
<1>5. \A k : Run(T, k) = IF L = k THEN Run(t, k) \cup {m} ELSE Run(t, k)
  BY <1>4, RunsGoOn
<1>6. Run(t, L) = {}
  <2>1. \A i \in 1..n : Place(t, i) # L
    BY <1>2
  <2> QED
    BY <1>1, <2>1 DEF Run
<1>7. Run(T, L) = {m} /\ \A k \in 1..K : Run(T, k) = Run(t, k)
  <2>1. \A k \in 1..K : L # k
    BY <1>2
  <2> HIDE DEF K, L, n, m
  <2> QED
    BY <1>5, <1>6, <2>1
<1>8. ASSUME NEW k \in 1..K
      PROVE  /\ Run(t, k) # {} /\ k <= K
             /\ SubSeq(T, Min(Run(T, k)), Max(Run(T, k))) = FieldsOf(t)[k]
  <2>1. Run(t, k) # {}
    BY DEF RunsThere
  <2>2. /\ Min(Run(t, k)) \in 1..Len(t) /\ Max(Run(t, k)) \in 1..Len(t)
        /\ Min(Run(t, k)) <= Max(Run(t, k))
    BY <1>1, <2>1, RunEnds
  <2>3. SubSeq(T, Min(Run(t, k)), Max(Run(t, k))) = SubSeq(t, Min(Run(t, k)), Max(Run(t, k)))
    BY <2>2, PartGoesOn
  <2>4. FieldsOf(t)[k] = SubSeq(t, Min(Run(t, k)), Max(Run(t, k)))
    BY DEF FieldsOf
  <2>5. k <= K
    BY <1>2
  <2> HIDE DEF K
  <2> QED
    BY <1>7, <2>1, <2>3, <2>4, <2>5
<1>9. SubSeq(T, Min(Run(T, L)), Max(Run(T, L))) = <<c>>
  <2>0. m \in Nat
    BY <1>1
  <2>1. Run(T, L) # {} /\ m \in Nat
    <3> HIDE DEF L, m
    <3> QED
      BY <1>7, <2>0
  <2>2. Min(Run(T, L)) = m /\ Max(Run(T, L)) = m
    <3>1. Min(Run(T, L)) \in Run(T, L) /\ Max(Run(T, L)) \in Run(T, L)
      BY <1>1, <2>1, RunEnds
    <3> HIDE DEF L, m
    <3> QED
      BY <1>7, <3>1
  <2>3. SubSeq(T, m, m) = <<c>>
    <3> HIDE DEF m
    <3>1. /\ m \in Nat /\ 1 <= m /\ m <= Len(T) /\ m <= m + 1 /\ m - m + 1 = 1 /\ m + 1 - 1 = m
      BY <1>1, <2>1
    <3>2. /\ SubSeq(T, m, m) \in Seq(Byte) /\ Len(SubSeq(T, m, m)) = m - m + 1
          /\ \A i \in 1..m-m+1 : SubSeq(T, m, m)[i] = T[m + i - 1]
      BY <1>1, <3>1, PartOf
    <3>3. Len(SubSeq(T, m, m)) = 1 /\ SubSeq(T, m, m)[1] = c
      BY <1>1, <3>1, <3>2
    <3>4. <<c>> \in Seq(Byte) /\ Len(<<c>>) = 1 /\ <<c>>[1] = c
      BY <1>1
    <3>5. /\ Len(SubSeq(T, m, m)) = Len(<<c>>)
          /\ \A i \in 1..Len(SubSeq(T, m, m)) : SubSeq(T, m, m)[i] = <<c>>[i]
      <4>1. \A i \in 1..1 : i = 1
        OBVIOUS
      <4> QED
        BY <3>3, <3>4, <4>1
    <3> QED
      BY <3>2, <3>4, <3>5, SameSequence
  <2> QED
    BY <2>2, <2>3
<1>10. /\ K \in Nat /\ L \in 1..L /\ ~(L <= K) /\ \A k \in 1..L : k = L \/ k \in 1..K
  BY <1>2
<1> HIDE DEF n, m, K
<1>11. RunsThere(T)
  BY <1>4, <1>7, <1>8, <1>10 DEF RunsThere
<1>12. FieldsOf(T) = [k \in 1..L |-> SubSeq(T, Min(Run(T, k)), Max(Run(T, k)))]
  BY <1>4 DEF FieldsOf
<1>13. ASSUME NEW k \in 1..L
       PROVE  SubSeq(T, Min(Run(T, k)), Max(Run(T, k))) = IF k <= K THEN FieldsOf(t)[k] ELSE <<c>>
  <2> HIDE DEF L
  <2>1. CASE k = L
    BY <1>9, <1>10, <2>1
  <2>2. CASE k \in 1..K
    BY <1>8, <2>2
  <2> QED
    BY <1>10, <2>1, <2>2
<1>14. FieldsOf(T) = [k \in 1..L |-> IF k <= K THEN FieldsOf(t)[k] ELSE <<c>>]
  <2> HIDE DEF L
  <2> QED
    BY <1>12, <1>13
<1> QED
  BY <1>4, <1>11, <1>14 DEF K

LEMMA FieldGoesOn ==
  ASSUME NEW t, NEW c, NEW T, GoesOn(t, c, T), RunsThere(t),
         c # Slash, t # <<>>, t[Len(t)] # Slash, Cardinality(Starts(t)) >= 1
  PROVE  /\ RunsThere(T) /\ Cardinality(Starts(T)) = Cardinality(Starts(t))
         /\ FieldsOf(T) = [k \in 1..Cardinality(Starts(t)) |->
                             IF k < Cardinality(Starts(t)) THEN FieldsOf(t)[k]
                             ELSE Append(FieldsOf(t)[k], c)]
<1> DEFINE n == Len(t)
           m == n + 1
           K == Cardinality(Starts(t))
<1>1. /\ t \in Seq(Byte) /\ T \in Seq(Byte) /\ n \in Nat /\ Len(T) = m /\ T[m] = c /\ c \in Byte
      /\ m \in 1..m /\ n \in 1..n /\ n >= 1 /\ DOMAIN t = 1..n
  BY EmptySeq DEF GoesOn
<1>2. /\ K \in Nat /\ Place(t, n) = K
  BY <1>1, StartsAreFew
<1>3. Starts(T) = Starts(t)
  BY StartsGoOn
<1>4. \A k : Run(T, k) = IF K = k THEN Run(t, k) \cup {m} ELSE Run(t, k)
  BY <1>3, RunsGoOn
<1>5. n \in Run(t, K)
  BY <1>1, <1>2 DEF Run
<1>6. ASSUME NEW k \in 1..K
      PROVE  /\ Run(t, k) # {} /\ FieldsOf(t)[k] = SubSeq(t, Min(Run(t, k)), Max(Run(t, k)))
             /\ Min(Run(t, k)) \in 1..n /\ Max(Run(t, k)) \in 1..n
             /\ Min(Run(t, k)) \in Run(t, k)
             /\ \A x \in Run(t, k) : Min(Run(t, k)) <= x /\ x <= Max(Run(t, k))
             /\ Min(Run(t, k)) <= Max(Run(t, k))
  <2>1. Run(t, k) # {}
    BY DEF RunsThere
  <2>2. FieldsOf(t)[k] = SubSeq(t, Min(Run(t, k)), Max(Run(t, k)))
    BY DEF FieldsOf
  <2> QED
    BY <1>1, <2>1, <2>2, RunEnds
<1>7. K \in 1..K /\ K >= 1
  BY <1>2
<1> DEFINE a == Min(Run(t, K))
<1>8. a \in 1..n /\ Max(Run(t, K)) = n /\ FieldsOf(t)[K] = SubSeq(t, a, n)
  <2>1. n <= Max(Run(t, K)) /\ Max(Run(t, K)) \in 1..n
    BY <1>5, <1>6, <1>7
  <2>2. Max(Run(t, K)) = n
    <3> HIDE DEF K
    <3> QED
      BY <1>1, <2>1
  <2> QED
    BY <1>6, <1>7, <2>2
<1>9. Min(Run(T, K)) = a /\ Max(Run(T, K)) = m
  <2>1. Run(T, K) = Run(t, K) \cup {m}
    BY <1>4
  <2>2. Run(T, K) # {}
    BY <1>5, <2>1
  <2>3. /\ Min(Run(T, K)) \in 1..m /\ Max(Run(T, K)) \in 1..m
        /\ Min(Run(T, K)) \in Run(T, K)
        /\ \A x \in Run(T, K) : Min(Run(T, K)) <= x /\ x <= Max(Run(T, K))
    BY <1>1, <2>2, RunEnds
  <2>4. m <= Max(Run(T, K)) /\ Min(Run(T, K)) <= a
    BY <1>6, <1>7, <2>1, <2>3
  <2>5. a <= Min(Run(T, K))
    <3>1. \A x \in Run(T, K) : a <= x
      <4>1. a <= m
        BY <1>1, <1>8
      <4> HIDE DEF m
      <4> QED
        BY <1>6, <1>7, <2>1, <4>1
    <3> QED
      BY <2>3, <3>1
  <2> DEFINE lo == Min(Run(T, K))
             hi == Max(Run(T, K))
  <2> HIDE DEF lo, hi, a, K
  <2>6. lo \in 1..m /\ hi \in 1..m /\ m <= hi /\ lo <= a /\ a <= lo /\ a \in 1..n
    BY <1>8, <2>3, <2>4, <2>5 DEF lo, hi
  <2>7. lo = a /\ hi = m
    BY <1>1, <2>6
  <2> QED
    BY <2>7 DEF lo, hi
<1>10. SubSeq(T, Min(Run(T, K)), Max(Run(T, K))) = Append(FieldsOf(t)[K], c)
  BY <1>8, <1>9, PartGrows
<1>11. ASSUME NEW k \in 1..K, k # K
       PROVE  SubSeq(T, Min(Run(T, k)), Max(Run(T, k))) = FieldsOf(t)[k] /\ k < K
  <2>1. Run(T, k) = Run(t, k)
    BY <1>4, <1>11
  <2>2. SubSeq(T, Min(Run(t, k)), Max(Run(t, k))) = SubSeq(t, Min(Run(t, k)), Max(Run(t, k)))
    BY <1>6, PartGoesOn
  <2>3. k < K
    BY <1>2, <1>11
  <2> HIDE DEF K
  <2> QED
    BY <1>6, <2>1, <2>2, <2>3
<1>12. ~(K < K)
  BY <1>2
<1> HIDE DEF n, m, a, K
<1>13. RunsThere(T)
  BY <1>3, <1>4, <1>6 DEF RunsThere, K
<1>14. FieldsOf(T) = [k \in 1..K |-> SubSeq(T, Min(Run(T, k)), Max(Run(T, k)))]
  BY <1>3 DEF FieldsOf, K
<1>15. \A k \in 1..K : SubSeq(T, Min(Run(T, k)), Max(Run(T, k)))
                         = IF k < K THEN FieldsOf(t)[k] ELSE Append(FieldsOf(t)[k], c)
  BY <1>10, <1>11, <1>12
<1> QED
  BY <1>3, <1>13, <1>14, <1>15 DEF K

\* The text so far: its parts, the last of them p, and its fields.
SplitInto(t, ps, p) ==
  /\ ps \in Seq(Seq(Byte)) /\ p \in Seq(Byte)
  /\ Split(t) = Append(ps, p)
  /\ p = <<>> <=> (t = <<>> \/ t[Len(t)] = Slash)
  /\ FieldsOf(t) = NotEmpty(Append(ps, p))
  /\ RunsThere(t)

LEMMA NothingSplits == SplitInto(<<>>, <<>>, <<>>)
<1>1. <<>> \in Seq(Seq(Byte)) /\ <<>> \in Seq(Byte)
  BY EmptySeq
<1>2. Split(<<>>) = Append(<<>>, <<>>)
  BY SplitsOn
<1>3. Starts(<<>>) = {} /\ Cardinality(Starts(<<>>)) = 0
  BY FS_EmptySet DEF Starts
<1>4. FieldsOf(<<>>) = <<>>
  BY <1>3 DEF FieldsOf
<1>5. RunsThere(<<>>)
  BY <1>3 DEF RunsThere
<1>6. NotEmpty(Append(<<>>, <<>>)) = <<>>
  <2>1. NotEmpty(Append(<<>>, <<>>)) = Keep(NotEmpty(<<>>), <<>>)
    BY <1>1, KeepsOn
  <2>2. NotEmpty(<<>>) = <<>>
    BY KeepsOn
  <2> QED
    BY <2>1, <2>2 DEF Keep
<1> QED
  BY <1>1, <1>2, <1>4, <1>5, <1>6 DEF SplitInto

LEMMA SplitGoesOn ==
  ASSUME NEW t, NEW c, NEW T, GoesOn(t, c, T), NEW ps, NEW p, SplitInto(t, ps, p)
  PROVE  \E qs, q : SplitInto(T, qs, q)
<1> DEFINE n == Len(t)
           m == n + 1
<1>1. /\ t \in Seq(Byte) /\ T \in Seq(Byte) /\ c \in Byte /\ T = Append(t, c)
      /\ n \in Nat /\ Len(T) = m /\ T[m] = c
  BY DEF GoesOn
<1>2. /\ ps \in Seq(Seq(Byte)) /\ p \in Seq(Byte) /\ Split(t) = Append(ps, p)
      /\ p = <<>> <=> (t = <<>> \/ t[Len(t)] = Slash)
      /\ FieldsOf(t) = NotEmpty(Append(ps, p)) /\ RunsThere(t)
  BY DEF SplitInto
<1>3. Split(T) = Cut(Append(ps, p), c)
  BY <1>1, <1>2, SplitsOn
<1>4. T # <<>> /\ (T = <<>> \/ T[Len(T)] = Slash <=> c = Slash)
  BY <1>1, EmptySeq
<1>5. /\ Append(ps, p) \in Seq(Seq(Byte)) /\ Front(Append(ps, p)) = ps /\ Last(Append(ps, p)) = p
  BY <1>2, PutTogether
<1>6. <<>> \in Seq(Byte)
  BY EmptySeq
<1>7. \A qs \in Seq(Seq(Byte)), q \in Seq(Byte) : NotEmpty(Append(qs, q)) = Keep(NotEmpty(qs), q)
  BY KeepsOn
<1>8. CASE c = Slash
  <2>1. Split(T) = Append(Append(ps, p), <<>>)
    BY <1>3, <1>8 DEF Cut
  <2>2. NotEmpty(Append(Append(ps, p), <<>>)) = FieldsOf(t)
    BY <1>2, <1>5, <1>6, <1>7 DEF Keep
  <2>3. FieldsOf(T) = FieldsOf(t) /\ RunsThere(T)
    <3>1. GoesOn(t, Slash, T)
      BY <1>8
    <3> QED
      BY <1>2, <3>1, SlashGoesOn
  <2>4. SplitInto(T, Append(ps, p), <<>>)
    BY <1>4, <1>5, <1>6, <1>8, <2>1, <2>2, <2>3 DEF SplitInto
  <2> QED
    BY <2>4
<1>9. CASE c # Slash
  <2> DEFINE q == Append(p, c)
             f == NotEmpty(ps)
             K == Cardinality(Starts(t))
  <2>1. q \in Seq(Byte) /\ q # <<>>
    <3>1. p \in Seq(Byte) /\ c \in Byte
      BY <1>1, <1>2
    <3> QED
      BY ONLY <3>1, PutTogether
  <2>2. Split(T) = Append(ps, q)
    BY <1>3, <1>5, <1>9 DEF Cut
  <2>3. NotEmpty(Append(ps, q)) = Append(f, q)
    <3> HIDE DEF q
    <3> QED
      BY <1>2, <1>7, <2>1 DEF Keep
  <2>4. f \in Seq(Seq(Byte)) /\ Len(f) \in Nat
    <3>1. f \in Kept
      BY <1>2, KeepsOn
    <3> HIDE DEF f
    <3>2. f \in Seq(Seq(Byte))
      BY <3>1 DEF Kept
    <3> QED
      BY <3>2
  <2>5. FieldsOf(t) = Keep(f, p)
    BY <1>2, <1>7
  <2>6. K \in Nat /\ DOMAIN FieldsOf(t) = 1..K
    BY <1>1, StartsAreFew DEF FieldsOf
  <2> HIDE DEF f, K, q
  <2>7. CASE p = <<>>
    <3>1. /\ RunsThere(T)
          /\ FieldsOf(T) = [k \in 1..K + 1 |-> IF k <= K THEN FieldsOf(t)[k] ELSE <<c>>]
      BY <1>2, <1>9, <2>7, FieldStarts DEF K
    <3>2. FieldsOf(t) = f /\ q = <<c>>
      BY <1>1, <2>5, <2>7 DEF Keep, q
    <3>3. K = Len(f)
      BY <2>4, <2>6, <3>2
    <3>4. FieldsOf(T) = Append(f, q)
      BY <2>1, <2>4, <3>1, <3>2, <3>3
    <3>5. SplitInto(T, ps, q)
      BY <1>2, <1>4, <1>9, <2>1, <2>2, <2>3, <3>1, <3>4 DEF SplitInto
    <3> QED
      BY <3>5
  <2>8. CASE p # <<>>
    <3>1. FieldsOf(t) = Append(f, p)
      BY <2>5, <2>8 DEF Keep
    <3>2. K = Len(f) + 1
      BY <1>2, <2>4, <2>6, <3>1
    <3>3. K >= 1
      BY <2>4, <3>2
    <3>4. /\ RunsThere(T)
          /\ FieldsOf(T) = [k \in 1..K |-> IF k < K THEN FieldsOf(t)[k] ELSE Append(FieldsOf(t)[k], c)]
      BY <1>2, <1>9, <2>8, <3>3, FieldGoesOn DEF K
    <3>5. FieldsOf(T) = Append(f, q)
      <4>1. \A k \in 1..K : IF k < K THEN k \in 1..Len(f) ELSE k = Len(f) + 1
        BY <2>4, <3>2
      <4>2. FieldsOf(t)[K] = p /\ \A k \in 1..Len(f) : FieldsOf(t)[k] = f[k]
        BY <1>2, <2>4, <3>1, <3>2
      <4>3. \A k \in 1..K : (IF k < K THEN FieldsOf(t)[k] ELSE Append(FieldsOf(t)[k], c))
                            = IF k \in 1..Len(f) THEN f[k] ELSE q
        BY <2>4, <3>2, <4>1, <4>2 DEF q
      <4>4. Append(f, q) = [k \in 1..K |-> IF k \in 1..Len(f) THEN f[k] ELSE q]
        <5>1. Append(f, q) \in Seq(Seq(Byte)) /\ Len(Append(f, q)) = Len(f) + 1
              /\ \A k \in 1..Len(f) + 1 : Append(f, q)[k] = IF k \in 1..Len(f) THEN f[k] ELSE q
          BY <2>1, <2>4
        <5>2. \A k \in 1..K : Append(f, q)[k] = IF k \in 1..Len(f) THEN f[k] ELSE q
          BY <3>2, <5>1
        <5>3. Append(f, q) = [k \in 1..K |-> Append(f, q)[k]]
          <6> DEFINE A == Append(f, q)
          <6>1. A \in Seq(Seq(Byte)) /\ Len(A) = K
            BY <3>2, <5>1
          <6> HIDE DEF A
          <6>2. A = [k \in 1..K |-> A[k]]
            BY <6>1
          <6> QED
            BY <6>2 DEF A
        <5> QED
          BY <5>2, <5>3
      <4> QED
        BY <3>4, <4>3, <4>4
    <3>6. SplitInto(T, ps, q)
      BY <1>2, <1>4, <1>9, <2>1, <2>2, <2>3, <3>4, <3>5 DEF SplitInto
    <3> QED
      BY <3>6
  <2> QED
    BY <2>7, <2>8
<1> QED
  BY <1>8, <1>9

\* splitNamespace finds the fields.
LEMMA SplitsIntoFields ==
  ASSUME NEW text \in Seq(Byte)
  PROVE  splitNamespace(text) = FieldsOf(text) /\ FieldsOf(text) \in Kept /\ RunsThere(text)
<1> DEFINE P == {n \in Nat : \A t \in Seq(Byte) : Len(t) = n => \E ps, p : SplitInto(t, ps, p)}
<1>1. 0 \in P
  <2>1. \A t \in Seq(Byte) : Len(t) = 0 => t = <<>>
    BY EmptySeq
  <2> QED
    BY <2>1, NothingSplits
<1>2. ASSUME NEW n \in Nat, n \in P PROVE n + 1 \in P
  <2> SUFFICES ASSUME NEW t \in Seq(Byte), Len(t) = n + 1 PROVE \E ps, p : SplitInto(t, ps, p)
    OBVIOUS
  <2>1. t # <<>> /\ n + 1 - 1 = n
    BY EmptySeq
  <2>2. /\ Front(t) \in Seq(Byte) /\ Len(Front(t)) = n /\ Last(t) \in Byte
        /\ t = Append(Front(t), Last(t))
    BY <2>1, TakenApart
  <2>3. PICK ps, p : SplitInto(Front(t), ps, p)
    BY <1>2, <2>2
  <2> HIDE DEF P
  <2>4. GoesOn(Front(t), Last(t), t)
    BY <2>2, ItGoesOn
  <2> QED
    BY <2>3, <2>4, SplitGoesOn
<1> HIDE DEF P
<1>3. \A n \in Nat : n \in P
  BY <1>1, <1>2, SetInduction
<1>4. Len(text) \in P
  BY <1>3
<1>5. PICK ps, p : SplitInto(text, ps, p)
  BY <1>4 DEF P
<1>6. RunsThere(text)
  BY <1>5 DEF SplitInto
<1>7. splitNamespace(text) = FieldsOf(text)
  BY <1>5 DEF splitNamespace, SplitInto
<1>8. FieldsOf(text) \in Kept
  <2>1. Append(ps, p) \in Seq(Seq(Byte)) /\ FieldsOf(text) = NotEmpty(Append(ps, p))
    BY <1>5 DEF SplitInto
  <2> QED
    BY <2>1, KeepsOn
<1> QED
  BY <1>6, <1>7, <1>8

\* No field is longer than the text, and there are no more of them than characters.
LEMMA FieldsAreSmall ==
  ASSUME NEW t \in Seq(Byte)
  PROVE  /\ Len(FieldsOf(t)) <= Len(t) /\ DOMAIN FieldsOf(t) = 1..Len(FieldsOf(t))
         /\ \A k \in DOMAIN FieldsOf(t) : /\ FieldsOf(t)[k] \in Seq(Byte) /\ FieldsOf(t)[k] # <<>>
                                          /\ Len(FieldsOf(t)[k]) <= Len(t)
<1> DEFINE K == Cardinality(Starts(t))
           n == Len(t)
<1>1. K \in Nat /\ K <= n /\ n \in Nat
  BY StartsAreFew
<1>2. DOMAIN FieldsOf(t) = 1..K
  BY DEF FieldsOf
<1>3. FieldsOf(t) \in Seq(Seq(Byte) \ {<<>>})
  BY SplitsIntoFields DEF Kept
<1> HIDE DEF K, n
<1>4. Len(FieldsOf(t)) = K
  BY <1>1, <1>2, <1>3
<1>5. ASSUME NEW k \in 1..K PROVE Len(FieldsOf(t)[k]) <= n
  <2>1. Run(t, k) # {}
    BY SplitsIntoFields DEF RunsThere, K
  <2> DEFINE a == Min(Run(t, k))
             b == Max(Run(t, k))
  <2>2. a \in 1..n /\ b \in 1..n /\ a <= b
    BY <2>1, RunEnds DEF n
  <2>3. FieldsOf(t)[k] = SubSeq(t, a, b)
    BY DEF FieldsOf, K
  <2> HIDE DEF a, b
  <2>4. Len(SubSeq(t, a, b)) = b - a + 1
    <3>1. a \in Nat /\ b \in Nat /\ 1 <= a /\ b <= Len(t) /\ a <= b + 1
      BY <1>1, <2>2 DEF n
    <3> QED
      BY <3>1, PartOf
  <2>5. b - a + 1 <= n
    BY <1>1, <2>2
  <2> QED
    BY <2>3, <2>4, <2>5
<1> QED
  BY <1>1, <1>2, <1>3, <1>4, <1>5 DEF n

-----------------------------------------------------------------------------
(***************************************************************************)
(* The relay's loop over the fields of a namespace.                        *)
(***************************************************************************)
\* The relay's loop over the fields: x[1] of them are still in the bytes x[2].
FieldsLeft == (0..MaxUint) \X Seq(Byte)

FieldsBody(f, x) ==
  IF x[1] = 0 THEN Result(<<>>, x[2])
  ELSE Then(ReadSized(x[2]), LAMBDA b, r1 :
         Then(f[<<x[1] - 1, r1>>], LAMBDA more, r2 : Result(<<b>> \o more, r2)))

FieldsStep(f, x) ==
  LET d == ReadSized(x[2])
      g == f[<<x[1] - 1, d.rest>>]
  IN IF x[1] = 0 THEN Result(<<>>, x[2])
     ELSE IF d.err # "nil" THEN Failure(d.err)
     ELSE IF g.err # "nil" THEN Failure(g.err)
     ELSE Result(<<d.val>> \o g.val, g.rest)

LEMMA FieldsBodyIsStep ==
  ASSUME NEW f, NEW x
  PROVE  FieldsBody(f, x) = FieldsStep(f, x)
BY DEF FieldsBody, FieldsStep, Then

LEMMA FieldsLeftType ==
  \A x \in FieldsLeft : x[1] \in 0..MaxUint /\ x[1] \in Nat /\ x[2] \in Seq(Byte)
BY Limits DEF FieldsLeft

LEMMA SizedRest ==
  ASSUME NEW r \in Seq(Byte), ReadSized(r).err = "nil"
  PROVE  ReadSized(r).rest \in Seq(Byte)
<1> DEFINE d == ReadVarint(r)
           b == ReadFull(d.rest, d.val)
<1>1. ReadSized(r) = IF d.err = "nil" THEN b ELSE Failure(d.err)
  BY DEF ReadSized, Then
<1>2. d.err = "nil" /\ b.err = "nil" /\ ReadSized(r) = b
  <2> HIDE DEF d, b
  <2>1. Failure(d.err).err = d.err
    BY DEF Failure
  <2> QED
    BY <1>1, <2>1
<1>3. d.rest \in Seq(Byte) /\ d.val \in Nat
  BY <1>2, ReadShortens
<1> HIDE DEF d
<1>4. d.val <= Len(d.rest)
  <2>1. \A e : Failure(e).err = e
    BY DEF Failure
  <2> QED
    BY <1>2, <2>1 DEF ReadFull
<1>5. b.rest = SubSeq(d.rest, d.val + 1, Len(d.rest))
  BY <1>4 DEF ReadFull, Result
<1>6. SubSeq(d.rest, d.val + 1, Len(d.rest)) \in Seq(Byte)
  BY <1>3, <1>4, CutAndJoined
<1> QED
  BY <1>2, <1>5, <1>6

LEMMA FieldsStepGoesDown ==
  ASSUME NEW x \in FieldsLeft, x[1] # 0, ReadSized(x[2]).err = "nil"
  PROVE  LET y == <<x[1] - 1, ReadSized(x[2]).rest>> IN y \in FieldsLeft /\ y[1] < x[1]
<1>1. ReadSized(x[2]).rest \in Seq(Byte)
  BY FieldsLeftType, SizedRest
<1>2. x[1] - 1 \in 0..MaxUint /\ x[1] - 1 < x[1]
  BY FieldsLeftType, Limits
<1> QED
  BY <1>1, <1>2 DEF FieldsLeft

LEMMA FieldsStepIsLocal ==
  ASSUME NEW f, NEW g, NEW x \in FieldsLeft,
         \A y \in FieldsLeft : y[1] < x[1] => f[y] = g[y]
  PROVE  FieldsStep(f, x) = FieldsStep(g, x)
<1> DEFINE d == ReadSized(x[2])
           y == <<x[1] - 1, d.rest>>
<1>1. CASE x[1] = 0 \/ d.err # "nil"
  BY <1>1 DEF FieldsStep
<1>2. CASE x[1] # 0 /\ d.err = "nil"
  <2>1. y \in FieldsLeft /\ y[1] < x[1]
    BY <1>2, FieldsStepGoesDown
  <2>2. f[y] = g[y]
    <3> HIDE DEF y
    <3> QED
      BY <2>1
  <2> QED
    BY <2>2 DEF FieldsStep
<1> QED
  BY <1>1, <1>2

\* A table of the loop's results for less than n fields.
GoodFields(n, f) == \A x \in FieldsLeft : x[1] < n => f[x] = FieldsStep(f, x)

LEMMA GoodFieldsExist == \A n \in Nat : \E f : GoodFields(n, f)
<1> DEFINE P == {n \in Nat : \E f : GoodFields(n, f)}
<1>1. 0 \in P
  BY FieldsLeftType DEF GoodFields
<1>2. ASSUME NEW n \in Nat, n \in P PROVE n + 1 \in P
  <2>1. PICK f : GoodFields(n, f)
    BY <1>2
  <2> DEFINE g == [x \in FieldsLeft |-> FieldsStep(f, x)]
  <2>2. ASSUME NEW x \in FieldsLeft, x[1] < n + 1 PROVE g[x] = FieldsStep(g, x)
    <3>1. ASSUME NEW y \in FieldsLeft, y[1] < x[1] PROVE f[y] = g[y]
      <4>1. y[1] < n
        BY <2>2, <3>1, FieldsLeftType
      <4> QED
        BY <2>1, <4>1 DEF GoodFields
    <3> HIDE DEF g
    <3>2. FieldsStep(f, x) = FieldsStep(g, x)
      BY <3>1, FieldsStepIsLocal
    <3> QED
      BY <3>2 DEF g
  <2> HIDE DEF g
  <2>3. GoodFields(n + 1, g)
    BY <2>2 DEF GoodFields
  <2> QED
    BY <2>3
<1> HIDE DEF P
<1>3. \A n \in Nat : n \in P
  BY <1>1, <1>2, SetInduction
<1> QED
  BY <1>3 DEF P

LEMMA GoodFieldsAgree ==
  ASSUME NEW m \in Nat, NEW n \in Nat, NEW f, NEW g, GoodFields(m, f), GoodFields(n, g)
  PROVE  \A x \in FieldsLeft : x[1] < m /\ x[1] < n => f[x] = g[x]
<1> DEFINE P == {k \in Nat : \A x \in FieldsLeft : x[1] < k /\ x[1] < m /\ x[1] < n => f[x] = g[x]}
<1>1. 0 \in P
  BY FieldsLeftType
<1>2. ASSUME NEW k \in Nat, k \in P PROVE k + 1 \in P
  <2> SUFFICES ASSUME NEW x \in FieldsLeft, x[1] < k + 1, x[1] < m, x[1] < n
               PROVE  f[x] = g[x]
    OBVIOUS
  <2>1. ASSUME NEW y \in FieldsLeft, y[1] < x[1] PROVE f[y] = g[y]
    <3>1. y[1] < k /\ y[1] < m /\ y[1] < n
      BY <2>1, FieldsLeftType
    <3> QED
      BY <1>2, <3>1
  <2>2. FieldsStep(f, x) = FieldsStep(g, x)
    BY <2>1, FieldsStepIsLocal
  <2> QED
    BY <2>2 DEF GoodFields
<1> HIDE DEF P
<1>3. \A k \in Nat : k \in P
  BY <1>1, <1>2, SetInduction
<1> QED
  BY <1>3, FieldsLeftType DEF P

LEMMA FieldsExist == \E f : f = [x \in FieldsLeft |-> FieldsStep(f, x)]
<1> DEFINE Table(n) == CHOOSE f : GoodFields(n, f)
           f == [x \in FieldsLeft |-> Table(x[1] + 1)[x]]
<1>1. \A n \in Nat : GoodFields(n, Table(n))
  BY GoodFieldsExist
<1> HIDE DEF Table
<1>2. ASSUME NEW x \in FieldsLeft PROVE f[x] = FieldsStep(f, x)
  <2> DEFINE n == x[1] + 1
  <2>1. n \in Nat /\ x[1] < n
    BY FieldsLeftType
  <2>2. f[x] = Table(n)[x]
    OBVIOUS
  <2>3. Table(n)[x] = FieldsStep(Table(n), x)
    <3> HIDE DEF n
    <3> QED
      BY <1>1, <2>1 DEF GoodFields
  <2>4. ASSUME NEW y \in FieldsLeft, y[1] < x[1] PROVE Table(n)[y] = f[y]
    <3> DEFINE m == y[1] + 1
    <3>1. m \in Nat /\ y[1] < m /\ y[1] < n
      BY <2>1, <2>4, FieldsLeftType
    <3>2. f[y] = Table(m)[y]
      OBVIOUS
    <3> HIDE DEF n, m, f
    <3>3. Table(n)[y] = Table(m)[y]
      BY <1>1, <2>1, <3>1, GoodFieldsAgree
    <3> QED
      BY <3>2, <3>3
  <2> HIDE DEF n, f
  <2>5. FieldsStep(Table(n), x) = FieldsStep(f, x)
    BY <2>4, FieldsStepIsLocal
  <2> QED
    BY <2>2, <2>3, <2>5
<1>3. f = [x \in FieldsLeft |-> f[x]]
  OBVIOUS
<1> HIDE DEF f
<1>4. f = [x \in FieldsLeft |-> FieldsStep(f, x)]
  BY <1>2, <1>3
<1> QED
  BY <1>4

ReadsFields(f) ==
  /\ \A x \in FieldsLeft : f[x] = FieldsStep(f, x)
  /\ \A r : ReadFields(r) = LET n == ReadVarint(r)
                            IN IF n.err = "nil" THEN f[<<n.val, n.rest>>] ELSE Failure(n.err)

LEMMA FieldsAre == \E f : ReadsFields(f)
<1> DEFINE f == CHOOSE f : f = [x \in FieldsLeft |-> FieldsBody(f, x)]
<1>1. \E g : g = [x \in FieldsLeft |-> FieldsBody(g, x)]
  <2>1. PICK g : g = [x \in FieldsLeft |-> FieldsStep(g, x)]
    BY FieldsExist
  <2>2. \A x \in FieldsLeft : FieldsBody(g, x) = FieldsStep(g, x)
    BY FieldsBodyIsStep
  <2>3. [x \in FieldsLeft |-> FieldsBody(g, x)] = [x \in FieldsLeft |-> FieldsStep(g, x)]
    BY <2>2
  <2> QED
    BY <2>1, <2>3
<1>2. f = [x \in FieldsLeft |-> FieldsBody(f, x)]
  BY <1>1
<1>3. \A r : ReadFields(r) = LET n == ReadVarint(r)
                             IN IF n.err = "nil" THEN f[<<n.val, n.rest>>] ELSE Failure(n.err)
  BY DEF ReadFields, FieldsBody, FieldsLeft, Then
<1> HIDE DEF f
<1>4. \A x \in FieldsLeft : f[x] = FieldsStep(f, x)
  BY <1>2, FieldsBodyIsStep
<1>5. ReadsFields(f)
  BY <1>3, <1>4 DEF ReadsFields
<1> QED
  BY <1>5

\* Some bytes with their length in front are read back, with bytes to follow.
SizedFront(b, t) ==
  Sized(b) \in Seq(Byte) /\ Sized(b) \o t \in Seq(Byte) /\ ReadSized(Sized(b) \o t) = Result(b, t)

LEMMA SizedReads ==
  \A b, t \in Seq(Byte) : Len(b) <= MaxUint => SizedFront(b, t)
<1> SUFFICES ASSUME NEW b \in Seq(Byte), NEW t \in Seq(Byte), Len(b) <= MaxUint
             PROVE  SizedFront(b, t)
  OBVIOUS
<1> DEFINE n == Len(b)
           i == Integer(n)
           bt == b \o t
           r == i \o bt
<1>1. n \in 0..MaxUint
  BY Limits
<1>2. bt \in Seq(Byte)
  BY Joined
<1>3. i \in Seq(Byte) /\ ReadVarint(r) = Result(n, bt)
  <2> HIDE DEF n, bt
  <2> QED
    BY <1>1, <1>2, ReadsBack
<1>4. Sized(b) = i \o b
  BY DEF Sized
<1>5. ReadFull(bt, n) = Result(b, t)
  BY FrontRead
<1> HIDE DEF n, i, bt, r
<1> DEFINE d == ReadVarint(r)
<1>6. ReadSized(r) = IF d.err = "nil" THEN ReadFull(d.rest, d.val) ELSE Failure(d.err)
  BY DEF ReadSized, Then
<1>7. d.err = "nil" /\ d.val = n /\ d.rest = bt
  <2> HIDE DEF d
  <2> QED
    BY <1>3 DEF Result, d
<1> HIDE DEF d
<1>8. ReadSized(r) = Result(b, t)
  BY <1>5, <1>6, <1>7
<1>9. i \o b \in Seq(Byte) /\ (i \o b) \o t = r /\ r \in Seq(Byte)
  <2>1. Regroups(i, b, t)
    BY <1>3, AllRegroup
  <2>2. i \o b \in Seq(Byte) /\ i \o bt \in Seq(Byte)
    BY <1>2, <1>3, Joined
  <2> QED
    BY ONLY <2>1, <2>2 DEF Regroups, r, bt
<1> QED
  BY <1>4, <1>8, <1>9 DEF SizedFront

\* One field in front of those that are read.
FieldInFront(f, b, u, n, more, t) ==
  /\ ReadsFields(f) /\ b \in Seq(Byte) /\ u \in Seq(Byte) /\ Len(b) <= MaxUint
  /\ n \in Nat /\ n + 1 <= MaxUint /\ f[<<n, u>>] = Result(more, t)

FieldTaken(f, b, u, n, more, t) == f[<<n + 1, Sized(b) \o u>>] = Result(<<b>> \o more, t)

LEMMA FieldTakes ==
  ASSUME NEW f, NEW b, NEW u, NEW n, NEW more, NEW t, FieldInFront(f, b, u, n, more, t)
  PROVE  FieldTaken(f, b, u, n, more, t)
<1> DEFINE all == Sized(b) \o u
           k   == n + 1
           x   == <<k, all>>
<1>1. all \in Seq(Byte) /\ ReadSized(all) = Result(b, u)
  BY SizedReads DEF FieldInFront, SizedFront
<1>2. k \in 0..MaxUint /\ k # 0 /\ k - 1 = n
  BY Limits DEF FieldInFront
<1> HIDE DEF all, k
<1>3. x \in FieldsLeft /\ x[1] = k /\ x[2] = all
  BY <1>1, <1>2 DEF FieldsLeft
<1> HIDE DEF x
<1>4. f[x] = FieldsStep(f, x)
  BY <1>3 DEF FieldInFront, ReadsFields
<1> DEFINE d == ReadSized(x[2])
           g == f[<<x[1] - 1, d.rest>>]
<1>5. FieldsStep(f, x) = IF x[1] = 0 THEN Result(<<>>, x[2])
                         ELSE IF d.err # "nil" THEN Failure(d.err)
                         ELSE IF g.err # "nil" THEN Failure(g.err)
                         ELSE Result(<<d.val>> \o g.val, g.rest)
  BY DEF FieldsStep
<1>6. d.err = "nil" /\ d.val = b /\ d.rest = u
  <2>1. d = Result(b, u)
    BY <1>1, <1>3
  <2> HIDE DEF d
  <2> QED
    BY <2>1 DEF Result
<1> HIDE DEF d
<1>7. g.err = "nil" /\ g.val = more /\ g.rest = t
  <2>1. g = Result(more, t)
    BY <1>2, <1>3, <1>6 DEF FieldInFront
  <2> HIDE DEF g
  <2> QED
    BY <2>1 DEF Result
<1> HIDE DEF g
<1>8. f[x] = Result(<<b>> \o more, t)
  BY <1>2, <1>3, <1>4, <1>5, <1>6, <1>7
<1> QED
  BY <1>8 DEF FieldTaken, x, k, all

\* Fields that an encoder may write.
Writable(fields) ==
  /\ fields \in Seq(Seq(Byte)) /\ Len(fields) <= MaxUint
  /\ \A i \in 1..Len(fields) : Len(fields[i]) <= MaxUint

SizedFields(fields) == FlattenSeq([i \in DOMAIN fields |-> Sized(fields[i])])

LEMMA SizedFieldsJoin ==
  ASSUME NEW fields, Writable(fields)
  PROVE  \E F : /\ \A i \in 0..Len(fields) : F[i] \in Seq(Byte)
                /\ F[0] = <<>> /\ \A i \in 1..Len(fields) : F[i] = F[i - 1] \o Sized(fields[i])
                /\ SizedFields(fields) = F[Len(fields)]
<1> DEFINE n == Len(fields)
           seqs == [i \in DOMAIN fields |-> Sized(fields[i])]
<1>1. n \in Nat /\ DOMAIN fields = 1..n /\ \A i \in 1..n : fields[i] \in Seq(Byte) /\ Len(fields[i]) <= MaxUint
  BY DEF Writable
<1>2. seqs \in Seq(Seq(Byte)) /\ Len(seqs) = n /\ \A i \in 1..n : seqs[i] = Sized(fields[i])
  <2>1. ASSUME NEW i \in 1..n PROVE Sized(fields[i]) \in Seq(Byte)
    <3>1. fields[i] \in Seq(Byte) /\ <<>> \in Seq(Byte) /\ Len(fields[i]) <= MaxUint
      BY <1>1, EmptySeq
    <3> QED
      BY <3>1, SizedReads DEF SizedFront
  <2>2. seqs = [i \in 1..n |-> Sized(fields[i])]
    BY <1>1
  <2> HIDE DEF seqs, n
  <2> QED
    BY <1>1, <2>1, <2>2
<1> HIDE DEF seqs
<1>3. PICK F : JoinedUpTo(Byte, seqs, n, F) /\ FlattenSeq(seqs) = F[n]
  BY <1>2, Flattened
<1>4. F[0] = <<>> /\ (\A i \in 0..n : F[i] \in Seq(Byte)) /\ \A i \in 1..n : F[i] = F[i - 1] \o seqs[i]
  BY <1>3 DEF JoinedUpTo
<1>5. \A i \in 1..n : F[i] = F[i - 1] \o Sized(fields[i])
  BY <1>2, <1>4
<1> QED
  BY <1>3, <1>4, <1>5 DEF SizedFields, seqs

\* The relay's loop reads the fields back, with bytes t to follow.
LEMMA FieldsReadBack ==
  ASSUME NEW fields, Writable(fields), NEW t \in Seq(Byte), NEW f, ReadsFields(f)
  PROVE  /\ SizedFields(fields) \in Seq(Byte)
         /\ f[<<Len(fields), SizedFields(fields) \o t>>] = Result(fields, t)
<1> DEFINE n == Len(fields)
<1>1. PICK F : /\ \A i \in 0..n : F[i] \in Seq(Byte)
               /\ F[0] = <<>> /\ \A i \in 1..n : F[i] = F[i - 1] \o Sized(fields[i])
               /\ SizedFields(fields) = F[n]
  BY SizedFieldsJoin
<1>2. n \in Nat /\ n <= MaxUint /\ MaxUint \in Nat /\ fields \in Seq(Seq(Byte))
      /\ \A i \in 1..n : fields[i] \in Seq(Byte) /\ Len(fields[i]) <= MaxUint
  BY Limits DEF Writable
<1> DEFINE all == F[n] \o t
           Reads(k, u) == /\ u \in Seq(Byte) /\ all = F[n - k] \o u
                          /\ f[<<k, u>>] = Result(SubSeq(fields, n - k + 1, n), t)
           P == {k \in Nat : k <= n => \E u : Reads(k, u)}
<1>3. 0 \in P
  <2>1. SubSeq(fields, n + 1, n) = <<>>
    <3>1. n + 1 \in Int /\ n \in Int /\ n < n + 1
      BY <1>2
    <3> QED
      BY <3>1, SubSeqEmpty
  <2> DEFINE x == <<0, t>>
  <2>2. x \in FieldsLeft /\ x[1] = 0 /\ x[2] = t
    BY <1>2 DEF FieldsLeft
  <2>3. f[x] = Result(<<>>, t)
    <3> HIDE DEF x
    <3> QED
      BY <2>2 DEF ReadsFields, FieldsStep
  <2>4. n - 0 = n /\ n - 0 + 1 = n + 1
    BY <1>2
  <2> HIDE DEF n
  <2>5. Reads(0, t)
    BY <2>1, <2>3, <2>4
  <2> HIDE DEF Reads
  <2> QED
    BY <2>5
<1>4. ASSUME NEW k \in Nat, k \in P PROVE k + 1 \in P
  <2> SUFFICES ASSUME k + 1 <= n PROVE \E u : Reads(k + 1, u)
    <3> HIDE DEF Reads, n
    <3> QED
      OBVIOUS
  <2> DEFINE m == n - k
  <2>1. m \in 1..n /\ m - 1 = n - (k + 1) /\ m = n - (k + 1) + 1 /\ m - 1 \in 0..n /\ m \in 0..n
        /\ m + 1 = n - k + 1 /\ n \in m..n /\ k <= n
    BY <1>2
  <2>2. PICK u : Reads(k, u)
    <3> HIDE DEF Reads, n
    <3> QED
      BY <1>4, <2>1
  <2>3. u \in Seq(Byte) /\ all = F[m] \o u /\ f[<<k, u>>] = Result(SubSeq(fields, m + 1, n), t)
    <3> HIDE DEF n, all
    <3> QED
      BY <2>1, <2>2
  <2> HIDE DEF m, all, Reads
  <2> DEFINE b == fields[m]
             c == Sized(b)
             w == c \o u
  <2>4. b \in Seq(Byte) /\ Len(b) <= MaxUint
    BY <1>2, <2>1
  <2> HIDE DEF b
  <2>5. c \in Seq(Byte) /\ w \in Seq(Byte)
    BY <2>3, <2>4, SizedReads DEF SizedFront
  <2>6. f[<<k + 1, w>>] = Result(SubSeq(fields, m, n), t)
    <3> DEFINE more == SubSeq(fields, m + 1, n)
    <3>1. k + 1 <= MaxUint
      BY <1>2
    <3>2. FieldInFront(f, b, u, k, more, t)
      BY <2>3, <2>4, <3>1 DEF FieldInFront
    <3>3. <<b>> \o more = SubSeq(fields, m, n)
      <4>1. m \in 1..Len(fields) /\ n \in m..Len(fields)
        BY <2>1
      <4> HIDE DEF n
      <4> QED
        BY <1>2, <4>1, SubSeqRecursiveFirst DEF b
    <3> HIDE DEF more
    <3>4. FieldTaken(f, b, u, k, more, t)
      BY ONLY <3>2, FieldTakes
    <3> QED
      BY <3>3, <3>4 DEF FieldTaken
  <2>7. all = F[m - 1] \o w
    <3> DEFINE a == F[m - 1]
    <3>1. a \in Seq(Byte) /\ F[m] = a \o c
      BY <1>1, <2>1 DEF b
    <3> HIDE DEF a, c
    <3>2. Regroups(a, c, u)
      BY <2>3, <2>5, <3>1, AllRegroup
    <3> QED
      BY <2>3, <3>1, <3>2 DEF Regroups, a
  <2> HIDE DEF w
  <2>8. Reads(k + 1, w)
    <3> HIDE DEF n
    <3> QED
      BY <2>1, <2>5, <2>6, <2>7 DEF Reads
  <2> QED
    BY <2>8
<1> HIDE DEF P
<1>5. n \in P
  BY <1>2, <1>3, <1>4, SetInduction
<1>6. PICK u : Reads(n, u)
  <2>1. n <= n
    BY <1>2
  <2> HIDE DEF Reads
  <2> QED
    BY <1>5, <2>1 DEF P
<1>7. u \in Seq(Byte) /\ all = <<>> \o u /\ f[<<n, u>>] = Result(fields, t)
  <2>1. n - n = 0 /\ n - n + 1 = 1 /\ SubSeq(fields, 1, n) = fields
    BY <1>2, SubSeqFull
  <2> HIDE DEF n, all
  <2> QED
    BY <1>1, <1>6, <2>1
<1>8. all = u
  BY <1>7, ConcatEmptySeq
<1>9. F[n] \in Seq(Byte)
  BY <1>1, <1>2
<1> HIDE DEF n
<1> QED
  BY <1>1, <1>7, <1>8, <1>9 DEF n

-----------------------------------------------------------------------------
(***************************************************************************)
(* The SUBSCRIBE that is sent is read.                                     *)
(***************************************************************************)
LEMMA RelayReadsForm ==
  ASSUME NEW payload
  PROVE  LET a == ReadVarint(payload)
             b == ReadFields(a.rest)
             c == ReadSized(b.rest)
             d == ReadVarint(c.rest)
         IN a.err = "nil" /\ b.err = "nil" /\ c.err = "nil" /\ d.err = "nil" =>
              RelayReads(payload) =
                Result([id |-> a.val, namespace |-> b.val, name |-> c.val, params |-> d.val], d.rest)
BY DEF RelayReads, Then

\* The payload of a SUBSCRIBE.
Subscribe(id, fields, name) ==
  Integer(id) \o (Integer(Len(fields)) \o SizedFields(fields)) \o Sized(name) \o Integer(0)

PartsRegroup(i, j, s, z, o) ==
  /\ ((i \o (j \o s)) \o z) \o o = i \o (j \o (s \o (z \o o)))
  /\ z \o o \in Seq(Byte) /\ s \o (z \o o) \in Seq(Byte) /\ j \o (s \o (z \o o)) \in Seq(Byte)
  /\ ((i \o (j \o s)) \o z) \o o \in Seq(Byte)

LEMMA AllPartsRegroup == \A i, j, s, z, o \in Seq(Byte) : PartsRegroup(i, j, s, z, o)
<1> TAKE i, j, s, z, o \in Seq(Byte)
<1> DEFINE js == j \o s
           zo == z \o o
           ijs == i \o js
           szo == s \o zo
<1>1. js \in Seq(Byte) /\ zo \in Seq(Byte)
  BY Joined
<1> HIDE DEF js, zo
<1>2. ijs \in Seq(Byte) /\ szo \in Seq(Byte) /\ js \o zo \in Seq(Byte)
  BY <1>1, Joined
<1> HIDE DEF ijs, szo
<1>3. Regroups(ijs, z, o) /\ Regroups(i, js, zo) /\ Regroups(j, s, zo)
  BY <1>1, <1>2, AllRegroup
<1>4. ijs \o zo \in Seq(Byte)
  BY <1>1, <1>2, Joined
<1>5. (ijs \o z) \o o = ijs \o zo /\ ijs \o zo = i \o (js \o zo) /\ js \o zo = j \o szo
  BY ONLY <1>3 DEF Regroups, zo, js, ijs, szo
<1>6. ((i \o (j \o s)) \o z) \o o = (ijs \o z) \o o
  BY DEF ijs, js
<1>7. (ijs \o z) \o o = i \o (j \o szo) /\ j \o szo \in Seq(Byte) /\ (ijs \o z) \o o \in Seq(Byte)
  BY ONLY <1>2, <1>4, <1>5
<1> QED
  BY ONLY <1>1, <1>2, <1>6, <1>7 DEF PartsRegroup, szo, zo

\* What the relay makes of it.
LEMMA SubscribeIsRead ==
  ASSUME NEW id \in 0..MaxUint, NEW fields, Writable(fields), NEW name \in Seq(Byte), Len(name) <= MaxUint
  PROVE  /\ Subscribe(id, fields, name) \in Seq(Byte)
         /\ RelayReads(Subscribe(id, fields, name)) =
              Result([id |-> id, namespace |-> fields, name |-> name, params |-> 0], <<>>)
<1> DEFINE n == Len(fields)
           i == Integer(id)
           j == Integer(n)
           s == SizedFields(fields)
           z == Sized(name)
           o == Integer(0)
           zo == z \o o
           szo == s \o zo
           jszo == j \o szo
           payload == i \o jszo
<1>0. n \in 0..MaxUint /\ 0 \in 0..MaxUint /\ <<>> \in Seq(Byte)
  BY Limits, EmptySeq DEF Writable
<1>1. PICK f : ReadsFields(f)
  BY FieldsAre
<1>2. \A v \in 0..MaxUint, r \in Seq(Byte) : Integer(v) \in Seq(Byte) /\ ReadVarint(Integer(v) \o r) = Result(v, r)
  BY ReadsBack
<1>3. i \in Seq(Byte) /\ j \in Seq(Byte) /\ o \in Seq(Byte) /\ ReadVarint(o \o <<>>) = Result(0, <<>>)
      /\ \A r \in Seq(Byte) : ReadVarint(i \o r) = Result(id, r) /\ ReadVarint(j \o r) = Result(n, r)
  <2> HIDE DEF n
  <2> QED
    BY <1>0, <1>2
<1>4. o \o <<>> = o
  BY <1>3, ConcatEmptySeq
<1> HIDE DEF n, i, j, o
<1>5. z \in Seq(Byte) /\ ReadSized(zo) = Result(name, o)
  BY <1>3, SizedReads DEF SizedFront
<1> HIDE DEF z
<1>6. s \in Seq(Byte)
  BY <1>0, <1>1, FieldsReadBack
<1>7. PartsRegroup(i, j, s, z, o)
  <2> HIDE DEF s
  <2> QED
    BY <1>3, <1>5, <1>6, AllPartsRegroup
<1>8. zo \in Seq(Byte) /\ szo \in Seq(Byte) /\ jszo \in Seq(Byte)
  BY ONLY <1>7 DEF PartsRegroup, zo, szo, jszo
<1>9. f[<<n, szo>>] = Result(fields, zo)
  <2> HIDE DEF zo
  <2> QED
    BY <1>1, <1>8, FieldsReadBack DEF n
<1> HIDE DEF zo
<1> HIDE DEF s
<1> HIDE DEF szo
<1>10. ReadFields(jszo) = Result(fields, zo)
  <2> DEFINE m == ReadVarint(jszo)
  <2>1. ReadFields(jszo) = IF m.err = "nil" THEN f[<<m.val, m.rest>>] ELSE Failure(m.err)
    BY <1>1 DEF ReadsFields
  <2>2. m = Result(n, szo)
    BY <1>3, <1>8
  <2> HIDE DEF m
  <2>3. m.err = "nil" /\ m.val = n /\ m.rest = szo
    BY <2>2 DEF Result
  <2> QED
    BY <1>9, <2>1, <2>3
<1> HIDE DEF jszo
<1> DEFINE a == ReadVarint(payload)
           b == ReadFields(a.rest)
           c == ReadSized(b.rest)
           d == ReadVarint(c.rest)
<1>11. a.err = "nil" /\ a.val = id /\ a.rest = jszo
  <2>1. a = Result(id, jszo)
    BY <1>3, <1>8
  <2> HIDE DEF a
  <2> QED
    BY <2>1 DEF Result
<1> HIDE DEF payload, a
<1>12. b.err = "nil" /\ b.val = fields /\ b.rest = zo
  <2>1. b = Result(fields, zo)
    BY <1>10, <1>11
  <2> HIDE DEF b
  <2> QED
    BY <2>1 DEF Result
<1> HIDE DEF b
<1>13. c.err = "nil" /\ c.val = name /\ c.rest = o
  <2>1. c = Result(name, o)
    BY <1>5, <1>12
  <2> HIDE DEF c
  <2> QED
    BY <2>1 DEF Result
<1> HIDE DEF c
<1>14. d.err = "nil" /\ d.val = 0 /\ d.rest = <<>>
  <2>1. d = Result(0, <<>>)
    BY <1>3, <1>4, <1>13
  <2> HIDE DEF d
  <2> QED
    BY <2>1 DEF Result
<1> HIDE DEF d
<1>15. RelayReads(payload) = Result([id |-> id, namespace |-> fields, name |-> name, params |-> 0], <<>>)
  <2>1. RelayReads(payload) =
          Result([id |-> a.val, namespace |-> b.val, name |-> c.val, params |-> d.val], d.rest)
    BY <1>11, <1>12, <1>13, <1>14, RelayReadsForm DEF a, b, c, d
  <2> QED
    BY <1>11, <1>12, <1>13, <1>14, <2>1
<1>16. Subscribe(id, fields, name) = ((i \o (j \o s)) \o z) \o o
  BY DEF Subscribe, i, j, s, z, o, n
<1>17. Subscribe(id, fields, name) = payload /\ payload \in Seq(Byte)
  BY ONLY <1>7, <1>16 DEF PartsRegroup, payload, jszo, szo, zo
<1> QED
  BY <1>15, <1>17

\* The fields of --namespace can be written.
LEMMA FieldsAreWritable ==
  ASSUME TextsTypeOK
  PROVE  /\ Fields = splitNamespace(namespace) /\ Writable(Fields)
         /\ ~\E i \in DOMAIN Fields : Fields[i] = <<>>
<1>1. namespace \in Seq(Byte) /\ Len(namespace) <= MaxText /\ MaxText \in Nat /\ MaxText <= MaxUint
      /\ MaxUint \in Nat
  BY RequestsAssumption, Limits DEF TextsTypeOK
<1>2. splitNamespace(namespace) = Fields /\ Fields \in Kept
  BY <1>1, SplitsIntoFields DEF Fields
<1>3. /\ Len(Fields) <= Len(namespace) /\ DOMAIN Fields = 1..Len(Fields)
      /\ \A k \in DOMAIN Fields : /\ Fields[k] \in Seq(Byte) /\ Fields[k] # <<>>
                                  /\ Len(Fields[k]) <= Len(namespace)
  BY <1>1, FieldsAreSmall DEF Fields
<1>4. Fields \in Seq(Seq(Byte)) /\ Len(Fields) \in Nat
  BY <1>2 DEF Kept
<1>5. \A k \in 1..Len(Fields) : Len(Fields[k]) <= MaxUint
  BY <1>1, <1>3
<1>6. Len(Fields) <= MaxUint
  BY <1>1, <1>3, <1>4
<1> QED
  BY <1>2, <1>3, <1>4, <1>5, <1>6 DEF Writable

LEMMA SendForm ==
  ASSUME NEW id, ~\E i \in DOMAIN Fields : Fields[i] = <<>>, Fields = splitNamespace(namespace)
  PROVE  sendSubscribeMessage(id) =
           IF NamespaceTooLong(Fields) THEN Failure("other")
           ELSE WriteFrame(MsgSubscribe, Subscribe(id, Fields, trackName))
<1> DEFINE msg == [requestID |-> id, namespace |-> Fields, trackName |-> trackName, parameters |-> <<>>]
           e == EncodeTrackNamespaceFromStrings(Fields)
           s == EncodeSubscribe(msg)
           ns == encodeTrackNamespace(Fields)
           ps == encodeParameters(<<>>)
<1>1. \A b : Encoded(b).err = "nil" /\ Encoded(b).val = b
  BY DEF Encoded, Result
<1>2. \A x : Failure(x).err = x
  BY DEF Failure
<1>3. e.err = "nil" /\ e.val = Fields
  BY <1>1 DEF EncodeTrackNamespaceFromStrings
<1>4. sendSubscribeMessage(id) = IF s.err = "nil" THEN WriteFrame(MsgSubscribe, s.val) ELSE Failure(s.err)
  <2>1. sendSubscribeMessage(id) =
          IF e.err = "nil"
          THEN LET x == EncodeSubscribe([requestID |-> id, namespace |-> e.val, trackName |-> trackName,
                                         parameters |-> <<>>])
               IN IF x.err = "nil" THEN WriteFrame(MsgSubscribe, x.val) ELSE Failure(x.err)
          ELSE Failure(e.err)
    BY DEF sendSubscribeMessage, Then
  <2> HIDE DEF e
  <2> QED
    BY <1>3, <2>1
<1> HIDE DEF e
<1>5. ps.err = "nil" /\ ps.val = Integer(0)
  BY <1>1 DEF encodeParameters
<1>6. s = IF ns.err # "nil" THEN Failure(ns.err)
          ELSE IF ps.err # "nil" THEN Failure(ps.err)
          ELSE Encoded(Integer(id) \o ns.val \o Sized(trackName) \o ps.val)
  BY DEF EncodeSubscribe, Then
<1>7. ns = IF NamespaceTooLong(Fields) THEN Failure("other")
           ELSE Encoded(Integer(Len(Fields)) \o SizedFields(Fields))
  BY DEF encodeTrackNamespace, SizedFields
<1> HIDE DEF s, ns, ps
<1>8. CASE NamespaceTooLong(Fields)
  <2>1. ns.err = "other"
    BY <1>2, <1>7, <1>8
  <2>2. s.err = "other"
    BY <1>2, <1>6, <2>1
  <2> QED
    BY <1>4, <1>8, <2>2
<1>9. CASE ~NamespaceTooLong(Fields)
  <2>1. ns.err = "nil" /\ ns.val = Integer(Len(Fields)) \o SizedFields(Fields)
    BY <1>1, <1>7, <1>9
  <2>2. s = Encoded(Subscribe(id, Fields, trackName))
    BY <1>5, <1>6, <2>1 DEF Subscribe
  <2>3. s.err = "nil" /\ s.val = Subscribe(id, Fields, trackName)
    BY <1>1, <2>2
  <2> QED
    BY <1>4, <1>9, <2>3
<1> QED
  BY <1>8, <1>9

\* SubscribeArrives for every namespace and track name.
LEMMA SubscribeIsSent ==
  ASSUME TextsTypeOK
  PROVE  SubscribeArrives
<1> SUFFICES ASSUME NEW id \in RequestIDs, sendSubscribeMessage(id).err = "nil"
             PROVE  LET frame == ReadFrame(sendSubscribeMessage(id).val)
                    IN /\ frame.err = "nil" /\ frame.rest = <<>> /\ frame.val.type = MsgSubscribe
                       /\ RelayReads(frame.val.payload) =
                            Result([id |-> id, namespace |-> Fields, name |-> trackName, params |-> 0], <<>>)
  BY DEF SubscribeArrives
<1> DEFINE sent == sendSubscribeMessage(id)
           frame == ReadFrame(sent.val)
           payload == Subscribe(id, Fields, trackName)
<1>1. id \in 0..MaxUint /\ MsgSubscribe \in 0..MaxUint
  BY MaxUintIsLarge, RequestsAssumption DEF RequestIDs
<1>2. /\ Fields = splitNamespace(namespace) /\ Writable(Fields)
      /\ ~\E i \in DOMAIN Fields : Fields[i] = <<>>
  BY FieldsAreWritable
<1>3. trackName \in Seq(Byte) /\ Len(trackName) <= MaxUint
  <2>1. MaxName \in Nat /\ MaxName <= MaxUint /\ MaxUint \in Nat
    BY RequestsAssumption, Limits
  <2>2. trackName \in Seq(Byte) /\ Len(trackName) <= MaxName /\ Len(trackName) \in Nat
    BY DEF TextsTypeOK
  <2> QED
    BY <2>1, <2>2
<1>4. sent = WriteFrame(MsgSubscribe, payload)
  <2>1. Failure("other").err # "nil"
    BY DEF Failure
  <2> QED
    BY <1>2, <2>1, SendForm
<1>5. /\ payload \in Seq(Byte)
      /\ RelayReads(payload) =
           Result([id |-> id, namespace |-> Fields, name |-> trackName, params |-> 0], <<>>)
  BY <1>1, <1>2, <1>3, SubscribeIsRead
<1> HIDE DEF sent, payload
<1>6. frame = Result([type |-> MsgSubscribe, payload |-> payload], <<>>)
  <2>1. sent.err = "nil"
    BY DEF sent
  <2> QED
    BY <1>1, <1>4, <1>5, <2>1, FrameReadsBack
<1> HIDE DEF frame
<1>7. frame.err = "nil" /\ frame.rest = <<>> /\ frame.val.type = MsgSubscribe /\ frame.val.payload = payload
  BY <1>6 DEF Result
<1> QED
  BY <1>5, <1>7 DEF frame, sent

-----------------------------------------------------------------------------
(***************************************************************************)
(* The length of what is sent.                                             *)
(***************************************************************************)
LEMMA SizedLength ==
  \A b \in Seq(Byte) : Len(b) <= MaxUint =>
    Sized(b) \in Seq(Byte) /\ SizeOf(b) \in Nat /\ SizeOf(b) = Len(Sized(b))
<1> SUFFICES ASSUME NEW b \in Seq(Byte), Len(b) <= MaxUint
             PROVE  Sized(b) \in Seq(Byte) /\ SizeOf(b) \in Nat /\ SizeOf(b) = Len(Sized(b))
  OBVIOUS
<1>1. <<>> \in Seq(Byte)
  BY EmptySeq
<1>2. Sized(b) \in Seq(Byte)
  BY <1>1, SizedReads DEF SizedFront
<1>3. Len(Sized(b)) \in Nat
  BY <1>2
<1> QED
  BY <1>2, <1>3 DEF SizeOf

LEMMA IntegerLength ==
  \A v \in 0..MaxUint : Integer(v) \in Seq(Byte) /\ Len(Integer(v)) \in Nat
<1> SUFFICES ASSUME NEW v \in 0..MaxUint PROVE Integer(v) \in Seq(Byte) /\ Len(Integer(v)) \in Nat
  OBVIOUS
<1>1. <<>> \in Seq(Byte)
  BY EmptySeq
<1>2. Integer(v) \in Seq(Byte)
  BY <1>1, ReadsBack
<1> QED
  BY <1>2

\* The fields of a namespace take as many bytes as their sizes add up to.
LEMMA SizedFieldsLength ==
  ASSUME NEW fields, Writable(fields)
  PROVE  /\ SizedFields(fields) \in Seq(Byte)
         /\ Len(SizedFields(fields)) = Total([i \in DOMAIN fields |-> SizeOf(fields[i])])
<1> DEFINE n == Len(fields)
           sizes == [i \in DOMAIN fields |-> SizeOf(fields[i])]
<1>1. PICK F : /\ \A i \in 0..n : F[i] \in Seq(Byte)
               /\ F[0] = <<>> /\ \A i \in 1..n : F[i] = F[i - 1] \o Sized(fields[i])
               /\ SizedFields(fields) = F[n]
  BY SizedFieldsJoin
<1>2. n \in Nat /\ DOMAIN fields = 1..n /\ \A i \in 1..n : fields[i] \in Seq(Byte) /\ Len(fields[i]) <= MaxUint
  BY DEF Writable
<1>3. \A i \in 1..n : Sized(fields[i]) \in Seq(Byte) /\ SizeOf(fields[i]) \in Nat
                      /\ SizeOf(fields[i]) = Len(Sized(fields[i]))
  BY <1>2, SizedLength
<1>4. sizes \in Seq(Nat) /\ Len(sizes) = n /\ \A i \in 1..n : sizes[i] = Len(Sized(fields[i]))
  <2>1. sizes = [i \in 1..n |-> SizeOf(fields[i])]
    BY <1>2
  <2> HIDE DEF sizes, n
  <2> QED
    BY <1>2, <1>3, <2>1
<1> HIDE DEF sizes, n
<1>5. PICK u \in [0..n -> Nat] : /\ u[0] = 0
                                 /\ \A i \in 1..n : u[i] = 1 * u[i - 1] + sizes[i]
                                 /\ Number(1, sizes) = u[n]
  BY <1>4, NumberByDigits
<1> DEFINE P == {i \in Nat : i <= n => u[i] = Len(F[i])}
<1>6. 0 \in P
  BY <1>1, <1>5, EmptySeq
<1>7. ASSUME NEW i \in Nat, i \in P PROVE i + 1 \in P
  <2> DEFINE k == i + 1
  <2> SUFFICES ASSUME k <= n PROVE u[k] = Len(F[k])
    OBVIOUS
  <2>1. k \in 1..n /\ k - 1 = i /\ i <= n /\ i \in 0..n
    BY <1>2
  <2>2. u[i] = Len(F[i]) /\ u[i] \in Nat
    BY <1>5, <1>7, <2>1
  <2> HIDE DEF k, P
  <2>3. u[k] = 1 * u[i] + sizes[k] /\ sizes[k] = Len(Sized(fields[k]))
    BY <1>4, <1>5, <2>1
  <2>4. F[k] = F[i] \o Sized(fields[k]) /\ F[i] \in Seq(Byte) /\ Sized(fields[k]) \in Seq(Byte)
    BY <1>1, <1>3, <2>1
  <2>5. Len(F[k]) = Len(F[i]) + Len(Sized(fields[k]))
    BY <2>4, Joined
  <2>6. Len(Sized(fields[k])) \in Nat
    BY <2>4
  <2> DEFINE x == u[i]
             y == sizes[k]
  <2>7. x \in Nat /\ y \in Nat /\ u[k] = 1 * x + y /\ Len(F[k]) = x + y
    BY <2>2, <2>3, <2>5, <2>6
  <2> HIDE DEF x, y
  <2>8. 1 * x + y = x + y
    BY <2>7
  <2> QED
    BY <2>7, <2>8
<1> HIDE DEF P
<1>8. n \in P
  BY <1>2, <1>6, <1>7, SetInduction
<1>9. u[n] = Len(F[n]) /\ F[n] \in Seq(Byte)
  BY <1>1, <1>2, <1>8 DEF P
<1> QED
  BY <1>1, <1>5, <1>9 DEF Total, sizes

LEMMA SubscribeLength ==
  ASSUME NEW id \in 0..MaxUint, Writable(Fields), trackName \in Seq(Byte), Len(trackName) <= MaxUint
  PROVE  Len(Subscribe(id, Fields, trackName)) = SubscribeSize(id) /\ SubscribeSize(id) \in Nat
<1> DEFINE n == Len(Fields)
           i == Integer(id)
           j == Integer(n)
           s == SizedFields(Fields)
           z == Sized(trackName)
           o == Integer(0)
<1>1. n \in 0..MaxUint /\ 0 \in 0..MaxUint
  BY Limits DEF Writable
<1>2. i \in Seq(Byte) /\ j \in Seq(Byte) /\ o \in Seq(Byte) /\ z \in Seq(Byte) /\ s \in Seq(Byte)
      /\ Len(o) = 1
  <2>1. i \in Seq(Byte) /\ j \in Seq(Byte)
    <3> HIDE DEF n
    <3> QED
      BY <1>1, IntegerLength
  <2>2. o \in Seq(Byte) /\ Len(o) = 1
    BY ZeroFront
  <2> QED
    BY <2>1, <2>2, SizedLength, SizedFieldsLength
<1>3. Subscribe(id, Fields, trackName) = ((i \o (j \o s)) \o z) \o o
  BY DEF Subscribe
<1>4. SubscribeSize(id) = Len(i) + Len(j) + Len(s) + Len(z) + 1
  BY SizedFieldsLength DEF SubscribeSize, SizeOf
<1> HIDE DEF i, j, s, z, o
<1>5. Len(((i \o (j \o s)) \o z) \o o) = Len(i) + (Len(j) + Len(s)) + Len(z) + Len(o)
  <2> DEFINE js == j \o s
             ijs == i \o js
             ijsz == ijs \o z
  <2>1. js \in Seq(Byte) /\ Len(js) = Len(j) + Len(s)
    BY <1>2, Joined
  <2> HIDE DEF js
  <2>2. ijs \in Seq(Byte) /\ Len(ijs) = Len(i) + Len(js)
    BY <1>2, <2>1, Joined
  <2> HIDE DEF ijs
  <2>3. ijsz \in Seq(Byte) /\ Len(ijsz) = Len(ijs) + Len(z)
    BY <1>2, <2>2, Joined
  <2> HIDE DEF ijsz
  <2>4. Len(ijsz \o o) = Len(ijsz) + Len(o)
    BY <1>2, <2>3, Joined
  <2>5. Len(ijsz \o o) = Len(i) + (Len(j) + Len(s)) + Len(z) + Len(o)
    BY <2>1, <2>2, <2>3, <2>4
  <2> QED
    BY <2>5 DEF ijsz, ijs, js
<1>6. Len(i) \in Nat /\ Len(j) \in Nat /\ Len(s) \in Nat /\ Len(z) \in Nat
  BY <1>2
<1> QED
  BY <1>2, <1>3, <1>4, <1>5, <1>6

LEMMA WriteFails ==
  ASSUME NEW type, NEW payload \in Seq(Byte), WriteFrame(type, payload).err # "nil"
  PROVE  Len(payload) >= Shift(2)
<1>1. Len(payload) \in Nat /\ Shift(2) \in Nat
  BY Shifts
<1>2. FrameTooLong(payload)
  BY DEF WriteFrame, Encoded, Result
<1>3. Len(payload) > Shift(2) - 1
  BY <1>2 DEF FrameTooLong, maxFrameLen
<1> QED
  BY <1>1, <1>3

LEMMA EncodedLength ==
  ASSUME NEW d \in 0..MaxUint, NEW p, p.raw \in Seq(Byte), Len(p.raw) <= MaxUint,
         NEW prev, p.type - prev = d, Odd(p.type)
  PROVE  /\ encodePair(prev, p) \in Seq(Byte)
         /\ Len(encodePair(prev, p)) = Len(Integer(d)) + SizeOf(p.raw)
         /\ Len(Integer(d)) \in Nat /\ SizeOf(p.raw) \in Nat
<1> DEFINE i == Integer(d)
           z == Sized(p.raw)
<1>1. i \in Seq(Byte) /\ z \in Seq(Byte) /\ SizeOf(p.raw) = Len(z) /\ SizeOf(p.raw) \in Nat
      /\ Len(i) \in Nat
  BY IntegerLength, SizedLength
<1>2. encodePair(prev, p) = i \o z
  BY DEF encodePair
<1> HIDE DEF i, z
<1>3. i \o z \in Seq(Byte) /\ Len(i \o z) = Len(i) + Len(z)
  BY <1>1, Joined
<1> QED
  BY <1>1, <1>2, <1>3 DEF i

\* What is joined of two or three is as long as these together.
LEMMA JoinedLength ==
  ASSUME NEW seqs \in Seq(Seq(Byte))
  PROVE  /\ Len(seqs) = 2 => Len(FlattenSeq(seqs)) = Len(seqs[1]) + Len(seqs[2])
         /\ Len(seqs) = 3 => Len(FlattenSeq(seqs)) = Len(seqs[1]) + Len(seqs[2]) + Len(seqs[3])
<1> DEFINE n == Len(seqs)
<1>1. PICK F : JoinedUpTo(Byte, seqs, n, F) /\ FlattenSeq(seqs) = F[n]
  BY Flattened
<1>2. n \in Nat /\ \A i \in 1..n : seqs[i] \in Seq(Byte) /\ Len(seqs[i]) \in Nat
  OBVIOUS
<1> HIDE DEF n
<1>3. F[0] = <<>> /\ (\A i \in 0..n : F[i] \in Seq(Byte)) /\ \A i \in 1..n : F[i] = F[i - 1] \o seqs[i]
  BY <1>1 DEF JoinedUpTo
<1>4. ASSUME NEW i \in 1..n PROVE Len(F[i]) = Len(F[i - 1]) + Len(seqs[i]) /\ Len(F[i - 1]) \in Nat
  <2>1. i - 1 \in 0..n
    BY <1>2
  <2>2. F[i - 1] \in Seq(Byte) /\ seqs[i] \in Seq(Byte) /\ F[i] = F[i - 1] \o seqs[i]
    BY <1>2, <1>3, <2>1
  <2> QED
    BY <2>2, Joined
<1>5. Len(F[0]) = 0
  BY <1>3, EmptySeq
<1>6. CASE n = 2
  <2>1. 1 \in 1..n /\ 2 \in 1..n /\ 1 - 1 = 0 /\ 2 - 1 = 1
    BY <1>6
  <2>2. Len(F[1]) = Len(F[0]) + Len(seqs[1]) /\ Len(F[2]) = Len(F[1]) + Len(seqs[2])
    BY <1>4, <2>1
  <2> QED
    BY <1>1, <1>2, <1>5, <1>6, <2>1, <2>2 DEF n
<1>7. CASE n = 3
  <2>1. 1 \in 1..n /\ 2 \in 1..n /\ 3 \in 1..n /\ 1 - 1 = 0 /\ 2 - 1 = 1 /\ 3 - 1 = 2
    BY <1>7
  <2>2. /\ Len(F[1]) = Len(F[0]) + Len(seqs[1]) /\ Len(F[2]) = Len(F[1]) + Len(seqs[2])
        /\ Len(F[3]) = Len(F[2]) + Len(seqs[3])
    BY <1>4, <2>1
  <2> QED
    BY <1>1, <1>2, <1>5, <1>7, <2>1, <2>2 DEF n
<1> QED
  BY <1>6, <1>7 DEF n

LEMMA ShortText ==
  ASSUME NEW p \in Seq(Byte), p # <<>> => p[1] = Slash
  PROVE  p \in {<<>>, <<Slash>>} <=> Len(p) <= 1
<1> DEFINE one == <<Slash>>
<1>1. one \in Seq(Byte) /\ Len(one) = 1 /\ one[1] = Slash
  BY RequestsAssumption
<1> HIDE DEF one
<1>2. Len(<<>>) = 0 /\ Len(p) \in Nat /\ (Len(p) = 0 => p = <<>>)
  BY EmptySeq
<1>3. ASSUME Len(p) = 1 PROVE p = one
  <2>1. p # <<>>
    BY <1>2, <1>3
  <2>2. \A i \in 1..Len(p) : p[i] = one[i]
    BY <1>1, <1>3, <2>1
  <2> QED
    BY <1>1, <1>3, <2>2, SameSequence
<1>4. Len(p) <= 1 <=> Len(p) = 0 \/ Len(p) = 1
  <2> DEFINE n == Len(p)
  <2>1. n \in Nat
    BY <1>2
  <2> HIDE DEF n
  <2>2. n <= 1 <=> n = 0 \/ n = 1
    BY <2>1
  <2> QED
    BY <2>2 DEF n
<1>5. p = <<>> <=> Len(p) = 0
  BY <1>2
<1>6. p = one <=> Len(p) = 1
  BY <1>1, <1>3
<1>7. p \in {<<>>, one} <=> Len(p) <= 1
  BY <1>4, <1>5, <1>6
<1> QED
  BY <1>7 DEF one

LEMMA SetupLength ==
  ASSUME TextsTypeOK, NEW b, EncodeSetup(SetupOptions) = Encoded(b)
  PROVE  Len(b) = SetupSize
<1> DEFINE options == SetupOptions
           A == Authority
           I == Implementation
           O == PathOption
           seqs == [i \in DOMAIN options |->
                      encodePair(IF i = 1 THEN 0 ELSE options[i - 1].type, options[i])]
<1>1. b = FlattenSeq(seqs)
  <2>1. Failure("other").err # "nil" /\ Encoded(b).err = "nil"
    BY DEF Failure, Encoded, Result
  <2>2. Encoded(b) = Encoded(FlattenSeq(seqs))
    <3> HIDE DEF A, I, O
    <3> QED
      BY <2>1 DEF EncodeSetup, encodeKeyValuePairs
  <2> HIDE DEF seqs
  <2>3. \A x : Encoded(x).val = x
    BY DEF Encoded, Result
  <2> QED
    BY <2>2, <2>3
<1>2. /\ \A p \in {A, I, O} : p.raw \in Seq(Byte) /\ Len(p.raw) <= MaxUint
      /\ A.type = 5 /\ I.type = 7 /\ O.type = 1 /\ O.raw = path
  <2>1. /\ A.type = 5 /\ I.type = 7 /\ O.type = 1 /\ O.raw = path
    BY OptionsAreCanonical
  <2>2. ASSUME NEW p \in {A, I, O} PROVE p.raw \in Seq(Byte) /\ Len(p.raw) <= MaxUint
    <3>1. p \in Pair /\ Canonical(p)
      BY OptionsAreCanonical
    <3>2. Odd(p.type)
      BY <2>1, SmallTypes
    <3> QED
      BY <3>1, <3>2, Limits DEF Canonical, Pair
  <2> QED
    BY <2>1, <2>2
<1>3. /\ Odd(5) /\ Odd(7) /\ Odd(1) /\ 1 \in 0..MaxUint /\ 2 \in 0..MaxUint /\ 4 \in 0..MaxUint /\ 5 \in 0..MaxUint
      /\ 5 - 0 = 5 /\ 7 - 5 = 2 /\ 5 - 1 = 4 /\ 1 - 0 = 1
  BY SmallTypes, MaxUintIsLarge
<1> HIDE DEF A, I, O, options
<1>4. /\ encodePair(5, I) \in Seq(Byte) /\ Len(encodePair(5, I)) = Len(Integer(2)) + SizeOf(I.raw)
      /\ encodePair(0, A) \in Seq(Byte) /\ Len(encodePair(0, A)) = Len(Integer(5)) + SizeOf(A.raw)
      /\ encodePair(1, A) \in Seq(Byte) /\ Len(encodePair(1, A)) = Len(Integer(4)) + SizeOf(A.raw)
      /\ encodePair(0, O) \in Seq(Byte) /\ Len(encodePair(0, O)) = Len(Integer(1)) + SizeOf(O.raw)
  <2>1. encodePair(5, I) \in Seq(Byte) /\ Len(encodePair(5, I)) = Len(Integer(2)) + SizeOf(I.raw)
    BY <1>2, <1>3, EncodedLength
  <2>2. encodePair(0, A) \in Seq(Byte) /\ Len(encodePair(0, A)) = Len(Integer(5)) + SizeOf(A.raw)
    BY <1>2, <1>3, EncodedLength
  <2>3. encodePair(1, A) \in Seq(Byte) /\ Len(encodePair(1, A)) = Len(Integer(4)) + SizeOf(A.raw)
    BY <1>2, <1>3, EncodedLength
  <2>4. encodePair(0, O) \in Seq(Byte) /\ Len(encodePair(0, O)) = Len(Integer(1)) + SizeOf(O.raw)
    BY <1>2, <1>3, EncodedLength
  <2> QED
    BY <2>1, <2>2, <2>3, <2>4
<1>5. /\ SizeOf(A.raw) \in Nat /\ SizeOf(I.raw) \in Nat /\ SizeOf(path) \in Nat
      /\ \A v \in {1, 2, 4, 5} : Len(Integer(v)) \in Nat
  BY <1>2, <1>3, SizedLength, IntegerLength
<1>6. path \in {<<>>, <<Slash>>} <=> Len(path) <= 1
  BY ShortText DEF TextsTypeOK
<1>7. CASE path \in {<<>>, <<Slash>>}
  <2>1. options = <<A, I>>
    BY <1>7, SetupForms DEF options, A, I
  <2>2. DOMAIN options = 1..2 /\ options[1] = A /\ options[2] = I
    BY <2>1
  <2>3. DOMAIN seqs = 1..2 /\ seqs[1] = encodePair(0, A) /\ seqs[2] = encodePair(5, I)
    <3>1. 2 # 1 /\ 2 - 1 = 1
      OBVIOUS
    <3> QED
      BY <1>2, <2>2, <3>1
  <2>4. seqs = [i \in 1..2 |-> seqs[i]]
    BY <2>3
  <2> HIDE DEF seqs
  <2>5. \A i \in 1..2 : i = 1 \/ i = 2
    OBVIOUS
  <2>6. seqs \in Seq(Seq(Byte)) /\ Len(seqs) = 2
    BY <1>4, <2>3, <2>4, <2>5
  <2>7. Len(b) = Len(encodePair(0, A)) + Len(encodePair(5, I))
    BY <1>1, <2>3, <2>6, JoinedLength
  <2>8. SetupSize = SizeOf(A.raw) + Len(Integer(2)) + SizeOf(I.raw) + Len(Integer(5))
    BY <1>6, <1>7 DEF SetupSize, A, I
  <2> DEFINE a == SizeOf(A.raw)
             c == SizeOf(I.raw)
             d == Len(Integer(2))
             e == Len(Integer(5))
  <2>9. /\ a \in Nat /\ c \in Nat /\ d \in Nat /\ e \in Nat
        /\ Len(b) = (e + a) + (d + c) /\ SetupSize = a + d + c + e
    BY <1>4, <1>5, <2>7, <2>8
  <2> HIDE DEF a, c, d, e
  <2> QED
    BY <2>9
<1>8. CASE path \notin {<<>>, <<Slash>>}
  <2>1. options = <<O, A, I>>
    BY <1>8, SetupForms DEF options, A, I, O
  <2>2. DOMAIN options = 1..3 /\ options[1] = O /\ options[2] = A /\ options[3] = I
    BY <2>1
  <2>3. DOMAIN seqs = 1..3 /\ seqs[1] = encodePair(0, O) /\ seqs[2] = encodePair(1, A)
        /\ seqs[3] = encodePair(5, I)
    <3>1. 2 # 1 /\ 2 - 1 = 1 /\ 3 # 1 /\ 3 - 1 = 2
      OBVIOUS
    <3> QED
      BY <1>2, <2>2, <3>1
  <2>4. seqs = [i \in 1..3 |-> seqs[i]]
    BY <2>3
  <2> HIDE DEF seqs
  <2>5. \A i \in 1..3 : i = 1 \/ i = 2 \/ i = 3
    OBVIOUS
  <2>6. seqs \in Seq(Seq(Byte)) /\ Len(seqs) = 3
    BY <1>4, <2>3, <2>4, <2>5
  <2>7. Len(b) = Len(encodePair(0, O)) + Len(encodePair(1, A)) + Len(encodePair(5, I))
    BY <1>1, <2>3, <2>6, JoinedLength
  <2>8. SetupSize = SizeOf(A.raw) + Len(Integer(2)) + SizeOf(I.raw) +
                      (Len(Integer(1)) + SizeOf(path) + Len(Integer(4)))
    BY <1>6, <1>8 DEF SetupSize, A, I
  <2> DEFINE a == SizeOf(A.raw)
             c == SizeOf(I.raw)
             d == Len(Integer(2))
             e == Len(Integer(1))
             g == SizeOf(path)
             h == Len(Integer(4))
  <2>9. /\ a \in Nat /\ c \in Nat /\ d \in Nat /\ e \in Nat /\ g \in Nat /\ h \in Nat
        /\ Len(b) = (e + g) + (h + a) + (d + c) /\ SetupSize = a + d + c + (e + g + h)
    BY <1>2, <1>4, <1>5, <2>7, <2>8
  <2> HIDE DEF a, c, d, e, g, h
  <2> QED
    BY <2>9
<1> QED
  BY <1>7, <1>8

\* SentUnlessTooLong for every namespace, track name and path.
LEMMA SendingFails ==
  ASSUME TextsTypeOK
  PROVE  SentUnlessTooLong
<1>1. ASSUME NEW id \in RequestIDs, sendSubscribeMessage(id).err # "nil", ~NamespaceTooLong(Fields)
      PROVE  SubscribeSize(id) >= Shift(2)
  <2> DEFINE payload == Subscribe(id, Fields, trackName)
  <2>1. id \in 0..MaxUint
    BY MaxUintIsLarge DEF RequestIDs
  <2>2. /\ Fields = splitNamespace(namespace) /\ Writable(Fields)
        /\ ~\E i \in DOMAIN Fields : Fields[i] = <<>>
    BY FieldsAreWritable
  <2>3. trackName \in Seq(Byte) /\ Len(trackName) <= MaxUint
    <3>1. MaxName \in Nat /\ MaxName <= MaxUint /\ MaxUint \in Nat
      BY RequestsAssumption, Limits
    <3>2. trackName \in Seq(Byte) /\ Len(trackName) <= MaxName /\ Len(trackName) \in Nat
      BY DEF TextsTypeOK
    <3> QED
      BY <3>1, <3>2
  <2>4. WriteFrame(MsgSubscribe, payload).err # "nil"
    BY <1>1, <2>2, SendForm
  <2>5. payload \in Seq(Byte) /\ Len(payload) = SubscribeSize(id)
    BY <2>1, <2>2, <2>3, SubscribeIsRead, SubscribeLength
  <2> HIDE DEF payload
  <2> QED
    BY <2>4, <2>5, WriteFails
<1>2. ASSUME sendClientSetup.err # "nil"
      PROVE  SetupSize >= Shift(2)
  <2>1. PICK b \in Seq(Byte) : EncodeSetup(SetupOptions) = Encoded(b)
    BY SetupIsWellFormed, OptionsReadBack
  <2>2. sendClientSetup = WriteFrame(MsgSetup, b)
    <3> DEFINE e == EncodeSetup(SetupOptions)
    <3>1. e.err = "nil" /\ e.val = b
      <4> HIDE DEF e
      <4> QED
        BY <2>1 DEF e, Encoded, Result
    <3>2. sendClientSetup = IF e.err = "nil" THEN WriteFrame(MsgSetup, e.val) ELSE Failure(e.err)
      BY DEF sendClientSetup, Then
    <3> HIDE DEF e
    <3> QED
      BY <3>1, <3>2
  <2>3. Len(b) >= Shift(2)
    BY <1>2, <2>2, WriteFails
  <2> QED
    BY <2>1, <2>3, SetupLength
<1> QED
  BY <1>1, <1>2 DEF SentUnlessTooLong

-----------------------------------------------------------------------------
(***************************************************************************)
(* The theorems: of every string of bytes that may arrive, of any length   *)
(* and for every width of a byte.                                          *)
(***************************************************************************)

\* What arrives is a string of bytes (the reader under ReadVarint and ReadFrame).
THEOREM BytesArrive == WireSpec => [](bytes \in Seq(Byte))
<1>1. BytesInit => bytes \in Seq(Byte)
  BY DEF BytesInit
<1>2. bytes \in Seq(Byte) /\ [Arrive]_bytes => (bytes \in Seq(Byte))'
  <2> SUFFICES ASSUME bytes \in Seq(Byte), Arrive PROVE bytes' \in Seq(Byte)
    OBVIOUS
  <2>1. PICK b \in Byte : bytes' = Append(bytes, b)
    BY DEF Arrive
  <2> HIDE DEF Byte
  <2> QED
    BY <2>1
<1> QED
  BY <1>1, <1>2, PTL DEF WireSpec

\* ReadVarint and ParseVarint decode what the table of varint.go says, byte by byte and bit
\* by bit; one that is cut off is io.EOF if nothing or its first byte alone is there.
THEOREM TableCorrect == WireSpec => []DecodesByTheTable
<1>1. bytes \in Seq(Byte) => DecodesByTheTable
  BY ByTheTable
<1> QED
  BY <1>1, BytesArrive, PTL

\* AppendVarint writes what ReadVarint reads, and in the fewest bytes (varintSize).
THEOREM EncodingCorrect == WireSpec => []EncodesMinimally
<1>1. bytes \in Seq(Byte) => EncodesMinimally
  BY Minimal
<1> QED
  BY <1>1, BytesArrive, PTL

\* The fields that DecodeSubscribeOK and DecodeRequestError have found stay what they are
\* when more bytes follow.
THEOREM AnswersStay == WireSpec => []AnswersStayPut
<1>1. bytes \in Seq(Byte) => AnswersStayPut
  BY Stays
<1> QED
  BY <1>1, BytesArrive, PTL

\* The sums of type differences in decodeKeyValuePairs never wrap: its test against
\* overflow lets through no difference that would.
THEOREM SetupTypesCorrect == WireSpec => []TypesNeverWrap
<1>1. bytes \in Seq(Byte) => TypesNeverWrap
  BY NeverWraps
<1> QED
  BY <1>1, BytesArrive, PTL

\* A SETUP that was decoded is encoded again exactly if no option is repeated, and
\* encodeKeyValuePairs and decodeKeyValuePairs then bring back the same options.
THEOREM SetupReadBack == WireSpec => []SetupReadsBack
<1>1. bytes \in Seq(Byte) => SetupReadsBack
  BY EncodedAgain
<1> QED
  BY <1>1, BytesArrive, PTL

\* A SETUP fails with io.EOF, which acceptUniStreams takes for the end of the stream, only
\* where an integer is missing or there is no more of it than its first byte.
THEOREM EOFCorrect == WireSpec => []EOFMeansCutOff
<1>1. bytes \in Seq(Byte) => EOFMeansCutOff
  BY CutOffAtEOF
<1> QED
  BY <1>1, BytesArrive, PTL

\* The namespace, the track name and the path are strings of bytes, and the path is no
\* longer than a string can be (what sendClientSetup and sendSubscribeMessage are given).
THEOREM TextsCorrect == TextsSpec => []TextsTypeOK
<1>0. /\ Slash \in Byte /\ Letter \in Byte
      /\ MaxName \in Nat /\ MaxName <= MaxUint /\ MaxText \in Nat /\ MaxText <= MaxUint /\ MaxUint \in Nat
  BY RequestsAssumption, Limits
<1>1. TextsInit => TextsTypeOK
  BY <1>0 DEF TextsInit, TextsTypeOK
<1>2. TextsTypeOK /\ [WriteText]_textVars => TextsTypeOK'
  <2> SUFFICES ASSUME TextsTypeOK, [WriteText]_textVars PROVE TextsTypeOK'
    OBVIOUS
  <2> USE DEF TextsTypeOK
  <2> HIDE DEF Byte
  <2>1. CASE WriteNamespace
    <3>1. PICK c \in Byte : namespace' = Append(namespace, c)
      BY <1>0, <2>1 DEF WriteNamespace
    <3>2. namespace' \in Seq(Byte) /\ Len(namespace') <= MaxText
      BY <1>0, <2>1, <3>1 DEF WriteNamespace
    <3> QED
      BY <2>1, <3>2 DEF WriteNamespace
  <2>2. CASE WriteTrackName
    <3>1. trackName' \in Seq(Byte) /\ Len(trackName') <= MaxName
      BY <1>0, <2>2 DEF WriteTrackName
    <3> QED
      BY <2>2, <3>1 DEF WriteTrackName
  <2>3. CASE WritePath
    <3>1. PICK c \in Byte : path' = Append(path, c) /\ (path = <<>> => c = Slash)
      BY <1>0, <2>3 DEF WritePath
    <3>2. path' \in Seq(Byte) /\ Len(path') <= MaxName
      BY <1>0, <2>3, <3>1 DEF WritePath
    <3>3. path'[1] = Slash
      BY <3>1, EmptySeq
    <3> QED
      BY <2>3, <3>2, <3>3 DEF WritePath
  <2>4. CASE UNCHANGED textVars
    BY <2>4 DEF textVars
  <2> QED
    BY <2>1, <2>2, <2>3, <2>4 DEF WriteText
<1> QED
  BY <1>1, <1>2, PTL DEF TextsSpec

\* The relay reads the SETUP that sendClientSetup sends: the authority and the
\* implementation, and the path unless it is the root.
THEOREM SetupCorrect == TextsSpec => []SetupArrives
<1>1. TextsTypeOK => SetupArrives
  BY SetupIsRead
<1> QED
  BY <1>1, TextsCorrect, PTL

\* splitNamespace finds the maximal runs of characters between slashes, in any text,
\* whether it starts, ends or goes on with slashes.
THEOREM SplitCorrect == \A text \in Seq(Byte) : splitNamespace(text) = FieldsOf(text)
BY SplitsIntoFields

\* The relay reads the SUBSCRIBE that sendSubscribeMessage sends: the request ID, the
\* fields of --namespace, the track name and no parameters, and nothing is left over.
THEOREM SubscribeCorrect == TextsSpec => []SubscribeArrives
<1>1. TextsTypeOK => SubscribeArrives
  BY SubscribeIsSent
<1> QED
  BY <1>1, TextsCorrect, PTL

\* sendSubscribeMessage and sendClientSetup fail only for what is too long for the draft
\* or for a frame.
THEOREM SendingCorrect == TextsSpec => []SentUnlessTooLong
<1>1. TextsTypeOK => SentUnlessTooLong
  BY SendingFails
<1> QED
  BY <1>1, TextsCorrect, PTL

=============================================================================

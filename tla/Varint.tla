------------------------------- MODULE Varint -------------------------------
(***************************************************************************)
(* The integers of the wire (moqt/draft18/varint.go): the number of        *)
(* leading 1-bits of the first byte is the number of bytes that follow.    *)
(*                                                                         *)
(* A byte has ByteBits bits and a uint64 ByteBits bytes; ByteBits is 8 in  *)
(* the code.  Nothing else depends on the 8, so smaller widths show every  *)
(* case of the encoding.                                                   *)
(***************************************************************************)
EXTENDS Naturals, SequencesExt

CONSTANT ByteBits

ASSUME VarintAssumption == ByteBits \in Nat /\ ByteBits >= 2

\* A shift by k bytes is one by ByteBits * k bits.
Shift(k) == 2^(ByteBits * k)

Base    == Shift(1)
Byte    == 0..Base-1
MaxUint == Shift(ByteBits) - 1

(***************************************************************************)
(* io.Reader over bytes that end: a read takes bytes from the front of     *)
(* those that are left.  A read of nothing at all fails with io.EOF, a     *)
(* partial one with io.ErrUnexpectedEOF.                                   *)
(***************************************************************************)
Result(v, rest) == [err |-> "nil", val |-> v, rest |-> rest]
Failure(e)      == [err |-> e, val |-> 0, rest |-> <<>>]

\* if err != nil { return err }
Then(res, Op(_, _)) == IF res.err = "nil" THEN Op(res.val, res.rest) ELSE Failure(res.err)

ReadFull(r, n) ==
  IF n <= Len(r) THEN Result(SubSeq(r, 1, n), SubSeq(r, n + 1, Len(r)))
  ELSE Failure(IF r = <<>> THEN "EOF" ELSE "unexpectedEOF")

-----------------------------------------------------------------------------
\* Big-endian numbers; PutUint truncates to its width.
BigEndian(v, k) == [i \in 1..k |-> (v \div Shift(k - i)) % Base]

\* The number with these digits, the highest first.
Number(base, digits) ==
  LET upTo[i \in 0..Len(digits)] == IF i = 0 THEN 0 ELSE base * upTo[i - 1] + digits[i]
  IN upTo[Len(digits)]

Uint(b) == Number(Base, b)

\* The largest value of n bytes, the table of the draft.
MaxValue(n) == IF n <= ByteBits THEN 2^(n * (ByteBits - 1)) - 1 ELSE MaxUint

\* Faulty variant: the bounds of the table taken as exclusive.
varintSizeBelow(x) ==
  CHOOSE n \in 1..ByteBits+1 : /\ x < MaxValue(n) \/ n = ByteBits + 1
                               /\ \A m \in 1..n-1 : x >= MaxValue(m)

varintSize(x) ==
  CHOOSE n \in 1..ByteBits+1 : x <= MaxValue(n) /\ \A m \in 1..n-1 : x > MaxValue(m)

\* The tag's 1-bits and the data's bits do not overlap, so + is the code's |.
AppendVarint(b, v) ==
  LET n   == varintSize(v)
      tag == Base - 2^(ByteBits + 1 - n)
  IN b \o CASE n = 1            -> <<v>>
            [] n = ByteBits + 1 -> <<Base - 1>> \o BigEndian(v, ByteBits)
            [] OTHER            -> <<tag + v \div Shift(n - 1)>> \o BigEndian(v, n - 1)

\* bits.LeadingZeros8(^b)
LeadingOnes(b) ==
  CHOOSE k \in 0..ByteBits : /\ b >= Base - 2^(ByteBits - k)
                             /\ k = ByteBits \/ b < Base - 2^(ByteBits - k - 1)

\* Faulty variant: the data bits of a first byte that has some are forgotten.
decodeVarintBytesTail(first, rest) ==
  IF rest = <<>> THEN first % 2^(ByteBits - 1) ELSE Uint(rest)

decodeVarintBytes(first, rest) ==
  LET extra == Len(rest)
  IN IF extra >= ByteBits - 1 THEN Uint(rest)
     ELSE (first % 2^(ByteBits - 1 - extra)) * Shift(extra) + Uint(rest)

\* The value and the number of bytes it took.
ParseVarint(b) ==
  LET total == 1 + LeadingOnes(b[1])
  IN IF b = <<>> \/ Len(b) < total THEN [err |-> "unexpectedEOF", val |-> 0, n |-> 0]
     ELSE [err |-> "nil", val |-> decodeVarintBytes(b[1], SubSeq(b, 2, total)), n |-> total]

ReadVarint(r) ==
  Then(ReadFull(r, 1), LAMBDA first, r1 :
    Then(ReadFull(r1, LeadingOnes(first[1])), LAMBDA rest, r2 :
      Result(decodeVarintBytes(first[1], rest), r2)))
=============================================================================

-------------------------------- MODULE Wire --------------------------------
(***************************************************************************)
(* What the decoders of moqt/draft18 make of every string of bytes, as it  *)
(* arrives byte by byte (external: the peer chooses the bytes).            *)
(***************************************************************************)
EXTENDS Varint

CONSTANTS
  MaxBytes,   \* the longest string
  AnyBytes,   \* strings up to this length may have any bytes
  Sample      \* the bytes of longer ones

ASSUME WireAssumption == {MaxBytes, AnyBytes} \subseteq Nat /\ Sample \subseteq Byte

VARIABLE bytes      \* what has arrived

BytesInit == bytes = <<>>

Arrive ==
  /\ Len(bytes) < MaxBytes
  /\ \E b \in Byte :
       /\ Len(bytes) < AnyBytes \/ ToSet(bytes) \cup {b} \subseteq Sample
       /\ bytes' = Append(bytes, b)

WireSpec == BytesInit /\ [][Arrive]_bytes

-----------------------------------------------------------------------------
(***************************************************************************)
(* The table of the draft (varint.go:9): the bits after the leading ones   *)
(* and, unless the first byte has nothing but ones, a zero, are the value. *)
(***************************************************************************)
Bit(b, i)  == (b \div 2^(ByteBits - i)) % 2
Bits       == [i \in 1..Len(bytes) * ByteBits |->
                 Bit(bytes[1 + (i - 1) \div ByteBits], 1 + ((i - 1) % ByteBits))]
Ones       == CHOOSE k \in 0..ByteBits : /\ \A i \in 1..k : Bits[i] = 1
                                         /\ k = ByteBits \/ Bits[k + 1] = 0
TableTotal == 1 + Ones
TableValue ==
  Number(2, SubSeq(Bits, IF Ones = ByteBits THEN Ones + 1 ELSE Ones + 2, TableTotal * ByteBits))

(***************************************************************************)
(* Both decoders follow the table, and agree on the value and on what is   *)
(* left.  Of a varint that is cut off they make none; ReadVarint, which    *)
(* takes two reads for it, fails with io.EOF exactly if nothing or the     *)
(* first byte alone has arrived (ParseVarint, ReadVarint).                 *)
(***************************************************************************)
DecodesByTheTable ==
  LET read == ReadVarint(bytes)  parsed == ParseVarint(bytes)
  IN IF bytes # <<>> /\ Len(bytes) >= TableTotal
     THEN /\ read = Result(TableValue, SubSeq(bytes, TableTotal + 1, Len(bytes)))
          /\ parsed = [err |-> "nil", val |-> TableValue, n |-> TableTotal]
     ELSE /\ read = Failure(IF Len(bytes) <= 1 THEN "EOF" ELSE "unexpectedEOF")
          /\ parsed.err = "unexpectedEOF"

(***************************************************************************)
(* What is decoded is encoded in the fewest bytes that can hold it, and    *)
(* decodes to itself again (AppendVarint, varintSize).                     *)
(***************************************************************************)
EncodesMinimally ==
  LET read  == ReadVarint(bytes)
      again == AppendVarint(<<>>, read.val)
  IN read.err = "nil" =>
       /\ ReadVarint(again) = Result(read.val, <<>>)
       /\ Len(again) <= Len(bytes) - Len(read.rest)
=============================================================================

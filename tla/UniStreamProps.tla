--------------------------- MODULE UniStreamProps ---------------------------
(***************************************************************************)
(* What reading a stream promises to the rest of the session.              *)
(***************************************************************************)
EXTENDS UniStream, FiniteSets

\* The items as the reader hands them on.
Decoded ==
  [i \in DOMAIN content.items |->
     IF content.type = SetupType THEN content.items[i]
     ELSE [id |-> content.items[i].id, len |-> content.items[i].len]]

V == INSTANCE StreamView WITH items <- Decoded, taken <- got

(***************************************************************************)
(* Wherever the stream is cut off, only whole objects and messages come    *)
(* out of it, in the order in which they were sent and with the object IDs *)
(* the publisher meant, and a stream that was read to its end is not taken *)
(* for a broken one (handleUniStream, SubgroupObjectReader.Next).          *)
(***************************************************************************)
ViewSpec == V!Spec

(***************************************************************************)
(* The reader takes every field for what the publisher wrote it as, for    *)
(* each of the stream types it accepts (subgroupHasSubgroupID,             *)
(* subgroupHasExtensions against the bits of the type).                    *)
(***************************************************************************)
InStep == end = "open" => pc = at

(***************************************************************************)
(* The summary's gap hints are the objects that are not the successor of   *)
(* the one before, or of -1, and its status objects those without payload  *)
(* (handleSubgroupStream).                                                 *)
(***************************************************************************)
Predecessor(i) == IF i = 1 THEN MaxID ELSE got[i - 1].id

Gaps == {i \in DOMAIN got : got[i].id # PlusWrap(Predecessor(i), 1)}

SummaryAgrees ==
  content.type \in SubgroupTypes =>
    /\ gapHints = Cardinality(Gaps)
    /\ statusObjects = Cardinality({i \in DOMAIN got : got[i].len = 0})

-----------------------------------------------------------------------------
(***************************************************************************)
(* The inductive invariant behind them: what the reader has come to tells  *)
(* what it has read (handleUniStream, SubgroupObjectReader.Next).          *)
(***************************************************************************)
ObjectFields  == {"delta", "extLen", "ext", "payloadLen", "status", "payload"}
CommandFields == {"msgType", "length", "body"}

Read == [id : 0..MaxID, len : Nat] \cup Commands

StreamTypeOK ==
  /\ content \in Contents /\ got \in Seq(Read) /\ Len(got) <= Len(content.items)
  /\ opened \in BOOLEAN /\ part \in {"first", "rest"}
  /\ delta \in 0..MaxID /\ prevObjectID \in (0..MaxID) \cup {NoID}
  /\ end \in {"open", "fin", "bad", "reset", "panic"}

\* Which fields belong to which streams, and when the header is complete.
FieldsInv ==
  /\ pc \in HeaderFields \cup ObjectFields \cup CommandFields
  /\ pc \in HeaderFields => ~opened /\ got = <<>>
  /\ pc \in HeaderFields \ {"type"} => content.type \in SubgroupTypes
  /\ pc \in ObjectFields => opened /\ content.type \in SubgroupTypes
  /\ pc \in CommandFields => opened /\ content.type = SetupType

\* The ID that the next delta is relative to, and what is known of the object at hand.
ObjectInv ==
  /\ content.type \in SubgroupTypes =>
       prevObjectID = IF got = <<>> THEN NoID ELSE content.items[Len(got)].id
  /\ pc \in ObjectFields \ {"delta"} => HasItem /\ delta = DeltaSent
  /\ pc \in {"status", "payload"} => (pc = "status" <=> Item.len = 0)

\* What was read is what was sent.
GotInv == \A i \in DOMAIN got : got[i] = Decoded[i]

StreamInv ==
  /\ StreamTypeOK /\ InStep /\ GotInv /\ (end = "open" => FieldsInv /\ ObjectInv)
=============================================================================

------------------------------ MODULE UniStream -----------------------------
(***************************************************************************)
(* One incoming unidirectional stream, read by handleUniStream (run.go)    *)
(* with ReadVarint, ReadFrame, ParseSubgroupHeader and                     *)
(* SubgroupObjectReader.Next (moqt/draft18).                               *)
(*                                                                         *)
(* The unit is one io.ReadFull: a varint is read with two, its first byte  *)
(* and the others.  The stream may end before, within or after each of     *)
(* them; which of these errors.Is(err, io.EOF) takes for the end depends   *)
(* on where the calls are.                                                 *)
(***************************************************************************)
EXTENDS Integers, Sequences

CONSTANTS
  MaxID,      \* the largest object ID, 2^64 - 1
  MaxMake,    \* the most bytes make() accepts (Go's runtime)
  Contents    \* what a publisher may send: [type, items]

SetupType == 12032   \* 0x2F00, stream type and message type
FetchType == 5

Objects  == [id : 0..MaxID, ext : Nat, len : Nat]         \* len = 0: a status object
Commands == [msg : {"setup", "badsetup", "cutsetup", "goaway", "other"}, len : Nat]

(***************************************************************************)
(* Subgroup streams carry objects, with extensions only if the type says   *)
(* so; a control stream begins with a SETUP; other types may carry anything*)
(* that nobody reads.                                                      *)
(***************************************************************************)
SubgroupTypes == (16..21) \cup (24..29)
ExtBit(t)     == t % 2 = 1

ASSUME UniStreamAssumption ==
  /\ MaxID \in Nat /\ MaxMake \in Nat
  /\ \A c \in Contents :
       /\ c.type \in Nat
       /\ c.type \in SubgroupTypes =>
            c.items \in Seq(Objects) /\ \A i \in DOMAIN c.items : c.items[i].ext > 0 => ExtBit(c.type)
       /\ c.type = SetupType => c.items \in Seq(Commands) /\ c.items # <<>>
       /\ c.type \notin SubgroupTypes \cup {SetupType} => c.items = <<>>

VARIABLES
  content,        \* what the publisher sends on this stream
  at,             \* the field of the publisher's layout the reader has come to
  pc,             \* the field the reader takes it for
  part,           \* "first" or "rest" of a varint
  opened,         \* the header is complete
  delta,          \* the object ID delta that was read
  prevObjectID,   \* SubgroupObjectReader.prevObjectID
  got,            \* the items read so far
  gapHints, statusObjects,   \* Stats
  end             \* "open", or how the handler ended, "panic" with the whole process

vars == <<content, at, pc, part, opened, delta, prevObjectID, got, gapHints, statusObjects, end>>

NoID == -1

Init ==
  /\ content \in Contents
  /\ at = "type" /\ pc = "type" /\ part = "first" /\ opened = FALSE
  /\ delta = 0 /\ prevObjectID = NoID /\ got = <<>>
  /\ gapHints = 0 /\ statusObjects = 0 /\ end = "open"

-----------------------------------------------------------------------------
(***************************************************************************)
(* The publisher's layout (external: the draft, by the bits of the type).  *)
(***************************************************************************)
HasItem == Len(got) < Len(content.items)
Item    == content.items[Len(got) + 1]

SubgroupIDBits(t) == (t \div 2) % 4 = 2

AfterField ==
  CASE at = "type"       -> IF content.type = SetupType THEN "length" ELSE "alias"
    [] at = "alias"      -> "group"
    [] at = "group"      -> IF SubgroupIDBits(content.type) THEN "subgroup" ELSE "priority"
    [] at = "subgroup"   -> "priority"
    [] at = "priority"   -> "delta"
    [] at = "delta"      -> IF ExtBit(content.type) THEN "extLen" ELSE "payloadLen"
    [] at = "extLen"     -> IF Item.ext > 0 THEN "ext" ELSE "payloadLen"
    [] at = "ext"        -> "payloadLen"
    [] at = "payloadLen" -> IF Item.len = 0 THEN "status" ELSE "payload"
    [] at \in {"status", "payload"} -> "delta"
    [] at = "msgType"    -> "length"
    [] at = "length"     -> "body"
    [] at = "body"       -> "msgType"

\* IDs are sent as differences: what has to be added, modulo 2^64, to the successor of the last.
PlusWrap(a, b) == IF a + b > MaxID THEN a + b - (MaxID + 1) ELSE a + b

DeltaSent ==
  IF got = <<>> THEN Item.id
  ELSE LET last == content.items[Len(got)].id
       IN IF Item.id > last THEN Item.id - last - 1 ELSE Item.id - last + MaxID

\* The bytes of a field that is no varint.
RawSize ==
  CASE at = "length" -> 2
    [] at = "ext"    -> Item.ext
    [] at \in {"payload", "body"} -> Item.len
    [] OTHER         -> 1

-----------------------------------------------------------------------------
(***************************************************************************)
(* The reader.                                                             *)
(***************************************************************************)
Varints      == {"type", "alias", "group", "subgroup", "delta", "extLen", "payloadLen", "status", "msgType"}
HeaderFields == {"type", "alias", "group", "subgroup", "priority"}

IsSubgroupStreamType(t) == (t >= 16 /\ t <= 21) \/ (t >= 24 /\ t <= 29)

\* Faulty variant: the types with END_OF_GROUP are forgotten.
subgroupHasExtensionsShort(t) == t \in {17, 19, 21}

subgroupHasSubgroupID(t) == t \in {20, 21, 28, 29}
subgroupHasExtensions(t) == t \in {17, 19, 21, 25, 27, 29}

\* Nothing is read past the last item: there the reader waits for the stream's end.
Arrives == end = "open" /\ (pc \in HeaderFields \/ HasItem)

\* The first byte of a varint of more than one byte.
ReadFirstByte ==
  /\ Arrives
  /\ pc \in Varints /\ part = "first"
  /\ part' = "rest"
  /\ UNCHANGED <<content, at, pc, opened, delta, prevObjectID, got, gapHints, statusObjects, end>>

\* The field is complete and the reader goes on to the next one.
Advance(next) ==
  /\ Arrives
  /\ part' = "first"
  /\ at' = AfterField
  /\ pc' = next
  /\ UNCHANGED <<content, prevObjectID, gapHints, statusObjects>>

\* handleUniStream's switch on the type.
ReadType ==
  /\ pc = "type"
  /\ \/ /\ content.type = SetupType
        /\ Advance("length")
        /\ opened' = TRUE /\ UNCHANGED end
     \/ /\ IsSubgroupStreamType(content.type)
        /\ Advance("alias")
        /\ UNCHANGED <<opened, end>>
     \/ /\ content.type # SetupType /\ ~IsSubgroupStreamType(content.type)
        /\ Advance("type")
        /\ end' = "fin" /\ UNCHANGED opened
  /\ UNCHANGED <<delta, got>>

\* ParseSubgroupHeader.
ReadHeaderField ==
  /\ \/ pc = "alias" /\ Advance("group")
     \/ pc = "group" /\ Advance(IF subgroupHasSubgroupID(content.type) THEN "subgroup" ELSE "priority")
     \/ pc = "subgroup" /\ Advance("priority")
     \/ pc = "priority" /\ Advance("delta")
  /\ opened' = (pc = "priority")
  /\ UNCHANGED <<delta, got, end>>

\* The peer's length of what follows, a varint.
LengthRead == IF pc = "extLen" THEN Item.ext ELSE Item.len

\* SubgroupObjectReader.Next, up to the payload.
ReadObjectField ==
  /\ pc \in {"extLen", "payloadLen"} => LengthRead <= MaxMake
  /\ \/ /\ pc = "delta"
        /\ Advance(IF subgroupHasExtensions(content.type) THEN "extLen" ELSE "payloadLen")
        /\ delta' = DeltaSent
     \/ /\ \/ pc = "extLen" /\ Advance(IF Item.ext > 0 THEN "ext" ELSE "payloadLen")
           \/ pc = "ext" /\ Advance("payloadLen")
           \/ pc = "payloadLen" /\ Advance(IF Item.len = 0 THEN "status" ELSE "payload")
        /\ UNCHANGED delta
  /\ UNCHANGED <<opened, got, end>>

\* A buffer of that length is made before anything is read into it; make() may panic.
MakePanics ==
  /\ Arrives
  /\ pc \in {"extLen", "payloadLen"} /\ LengthRead > MaxMake
  /\ end' = "panic"
  /\ UNCHANGED <<content, at, pc, part, opened, delta, prevObjectID, got, gapHints, statusObjects>>

\* Faulty variant: the successor of the previous ID is forgotten.
ObjectIDSum == IF prevObjectID = NoID THEN delta ELSE PlusWrap(prevObjectID, delta)

\* objID := delta, or the sum of uint64 values that wraps at 2^64 (at most once).
ObjectID == IF prevObjectID = NoID THEN delta ELSE PlusWrap(prevObjectID, delta + 1)

\* Faulty variant: gaps are looked for after status objects have been dealt with.
GapSeenInPayload == pc = "payload" /\ delta > 0

GapSeen == delta > 0

\* The end of Next, and handleSubgroupStream's counters.
ReadObject ==
  /\ pc \in {"status", "payload"}
  /\ Arrives
  /\ part' = "first" /\ at' = AfterField /\ pc' = "delta"
  /\ got' = Append(got, [id |-> ObjectID, len |-> Item.len])
  /\ prevObjectID' = ObjectID
  /\ gapHints' = gapHints + (IF GapSeen THEN 1 ELSE 0)
  /\ statusObjects' = statusObjects + (IF pc = "status" THEN 1 ELSE 0)
  /\ UNCHANGED <<content, opened, delta, end>>

\* ReadFrame and dispatchControlMessage.
ReadFrameField ==
  /\ \/ pc = "msgType" /\ Advance("length")
     \/ pc = "length" /\ Advance("body")
  /\ UNCHANGED <<opened, delta, got, end>>

DispatchControlMessage ==
  /\ pc = "body"
  /\ Advance("msgType")
  /\ \/ /\ Item.msg \in {"setup", "goaway", "other"}
        /\ got' = Append(got, Item) /\ UNCHANGED end
     \/ /\ Item.msg = "badsetup"
        /\ end' = "bad" /\ UNCHANGED got
     \/ /\ Item.msg = "cutsetup"     \* its error wraps io.EOF, see module Messages
        /\ end' = "fin" /\ UNCHANGED got
  /\ UNCHANGED <<opened, delta>>

(***************************************************************************)
(* A read fails.  Nothing of it arrived: io.EOF.  Some of it:              *)
(* io.ErrUnexpectedEOF, possible if it is for two bytes or more.  A read   *)
(* of an empty body does not touch the stream.                             *)
(***************************************************************************)
EmptyRead == pc = "body" /\ RawSize = 0
LongRead  == IF pc \in Varints THEN part = "rest" ELSE RawSize > 1

\* Faulty variant: the end of the stream is an error like any other.
HandlerEndStrict(err) == IF err = "reset" THEN "reset" ELSE "bad"

\* What the handler makes of it: an error that wraps io.EOF is not reported.
HandlerEnd(err) ==
  CASE err = "EOF" -> "fin" [] err = "unexpectedEOF" -> "bad" [] err = "reset" -> "reset"

StreamEnds ==
  /\ end = "open" /\ (Arrives => ~EmptyRead)
  /\ \E err \in {"EOF", "unexpectedEOF", "reset"} :
       /\ err = "unexpectedEOF" => Arrives /\ LongRead
       /\ end' = HandlerEnd(err)
  /\ UNCHANGED <<content, at, pc, part, opened, delta, prevObjectID, got, gapHints, statusObjects>>

Next ==
  \/ ReadFirstByte \/ ReadType \/ ReadHeaderField \/ ReadObjectField \/ MakePanics
  \/ ReadObject \/ ReadFrameField \/ DispatchControlMessage \/ StreamEnds

Spec == Init /\ [][Next]_vars
=============================================================================

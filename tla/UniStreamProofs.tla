--------------------------- MODULE UniStreamProofs ---------------------------
(***************************************************************************)
(* Theorems about one incoming stream, for every type and content and      *)
(* wherever the stream ends.                                               *)
(***************************************************************************)
EXTENDS UniStreamProps, FiniteSetTheorems, TLAPS

\* The reader's tables of types against the bits of the publisher's layout.
LEMMA TypeTables ==
  \A t \in Nat :
    /\ IsSubgroupStreamType(t) <=> t \in SubgroupTypes
    /\ t \in SubgroupTypes => (subgroupHasExtensions(t) <=> ExtBit(t))
    /\ t \in SubgroupTypes => (subgroupHasSubgroupID(t) <=> SubgroupIDBits(t))
<1> SUFFICES ASSUME NEW t \in Nat
             PROVE  /\ IsSubgroupStreamType(t) <=> t \in SubgroupTypes
                    /\ t \in SubgroupTypes => (subgroupHasExtensions(t) <=> ExtBit(t))
                    /\ t \in SubgroupTypes => (subgroupHasSubgroupID(t) <=> SubgroupIDBits(t))
  OBVIOUS
<1>1. IsSubgroupStreamType(t) <=> t \in SubgroupTypes
  BY DEF IsSubgroupStreamType, SubgroupTypes
<1>2. t \in SubgroupTypes => t \in {16, 17, 18, 19, 20, 21, 24, 25, 26, 27, 28, 29}
  BY DEF SubgroupTypes
<1>3. t \in SubgroupTypes => (subgroupHasExtensions(t) <=> ExtBit(t))
  BY <1>2 DEF subgroupHasExtensions, ExtBit
<1>4. t \in SubgroupTypes => (subgroupHasSubgroupID(t) <=> SubgroupIDBits(t))
  BY <1>2 DEF subgroupHasSubgroupID, SubgroupIDBits
<1> QED
  BY <1>1, <1>3, <1>4

\* What a publisher sends on a stream of each kind.
LEMMA ContentTypes ==
  ASSUME content \in Contents
  PROVE  /\ content.type \in Nat
         /\ content.type \in SubgroupTypes => content.items \in Seq(Objects)
         /\ content.type = SetupType => content.items \in Seq(Commands) /\ content.items # <<>>
         /\ content.type \notin SubgroupTypes \cup {SetupType} => content.items = <<>>
         /\ Len(content.items) \in Nat /\ DOMAIN content.items = 1..Len(content.items)
         /\ SetupType \notin SubgroupTypes
BY UniStreamAssumption DEF SubgroupTypes, SetupType

\* The sum of the previous ID and the delta is the ID that was meant, with and without wrap.
LEMMA IDsAddUp ==
  ASSUME NEW last \in 0..MaxID, NEW id \in 0..MaxID,
         NEW d, d = IF id > last THEN id - last - 1 ELSE id - last + MaxID
  PROVE  d \in 0..MaxID /\ PlusWrap(last, d + 1) = id
BY UniStreamAssumption DEF PlusWrap

\* The next item of a subgroup stream is an object, with its fields in range.
LEMMA ItemTypes ==
  ASSUME StreamTypeOK, HasItem
  PROVE  /\ Len(got) + 1 \in DOMAIN content.items
         /\ content.type \in SubgroupTypes => Item \in Objects
         /\ content.type = SetupType => Item \in Commands
         /\ content.type \in SubgroupTypes =>
              \A i \in 1..Len(got) : content.items[i] \in Objects
<1>1. Len(got) \in Nat
  BY DEF StreamTypeOK
<1> QED
  BY <1>1, ContentTypes DEF StreamTypeOK, HasItem, Item

\* The ID the reader computes is the one the publisher meant.
LEMMA ObjectIDMeant ==
  ASSUME StreamInv, end = "open", pc \in ObjectFields, HasItem
  PROVE  /\ DeltaSent \in 0..MaxID
         /\ pc # "delta" => ObjectID = Item.id
<1>1. content.type \in SubgroupTypes /\ Item \in Objects /\ Len(got) \in Nat
  BY ItemTypes DEF StreamInv, StreamTypeOK, FieldsInv
<1>2. Item.id \in 0..MaxID
  BY <1>1 DEF Objects
<1>3. CASE got = <<>>
  BY <1>1, <1>2, <1>3 DEF StreamInv, ObjectInv, DeltaSent, ObjectID, NoID
<1>4. CASE got # <<>>
  <2>1. Len(got) \in 1..Len(got)
    BY <1>4 DEF StreamInv, StreamTypeOK
  <2>2. content.items[Len(got)].id \in 0..MaxID
    BY <1>1, <2>1, ItemTypes DEF StreamInv, Objects
  <2>3. prevObjectID = content.items[Len(got)].id /\ prevObjectID # NoID
    BY <1>1, <1>4, <2>2, UniStreamAssumption DEF StreamInv, ObjectInv, NoID
  <2>4. DeltaSent \in 0..MaxID /\ PlusWrap(prevObjectID, DeltaSent + 1) = Item.id
    BY <1>2, <1>4, <2>2, <2>3, IDsAddUp DEF DeltaSent
  <2> QED
    BY <2>3, <2>4 DEF StreamInv, ObjectInv, ObjectID
<1> QED
  BY <1>3, <1>4

-----------------------------------------------------------------------------
(***************************************************************************)
(* Every step keeps the invariant.                                         *)
(***************************************************************************)

LEMMA InitInv == Init => StreamInv
<1> SUFFICES ASSUME Init PROVE StreamInv
  OBVIOUS
<1>1. Len(content.items) \in Nat
  BY ContentTypes DEF Init
<1>2. StreamTypeOK
  <2>1. got = <<>> /\ <<>> \in Seq(Read) /\ Len(<<>>) = 0
    BY DEF Init
  <2>2. got \in Seq(Read) /\ Len(got) <= Len(content.items)
    BY <1>1, <2>1
  <2>3. delta \in 0..MaxID /\ prevObjectID \in (0..MaxID) \cup {NoID}
    BY UniStreamAssumption DEF Init
  <2> QED
    BY <2>2, <2>3 DEF Init, StreamTypeOK
<1>3. GotInv
  BY DEF Init, GotInv
<1>4. FieldsInv /\ ObjectInv
  BY ContentTypes DEF Init, FieldsInv, ObjectInv, HeaderFields, ObjectFields, CommandFields
<1> QED
  BY <1>2, <1>3, <1>4 DEF StreamInv, InStep, Init

\* What a step leaves to prove that reads a field and takes nothing.
LEMMA AdvanceKeeps ==
  ASSUME StreamInv, NEW next, Advance(next), UNCHANGED got
  PROVE  /\ GotInv' /\ HasItem' = HasItem /\ Item' = Item /\ DeltaSent' = DeltaSent
         /\ StreamTypeOK /\ end = "open" /\ pc = at /\ FieldsInv /\ ObjectInv
BY DEF StreamInv, InStep, GotInv, Decoded, Advance, Arrives, HasItem, DeltaSent, Item

LEMMA StepKeepsInv == StreamInv /\ [Next]_vars => StreamInv'
<1> SUFFICES ASSUME StreamInv, [Next]_vars PROVE StreamInv'
  OBVIOUS
<1> USE DEF StreamInv
<1>1. CASE ReadFirstByte
  <2>1. StreamTypeOK'
    BY <1>1 DEF ReadFirstByte, StreamTypeOK
  <2>2. GotInv' /\ InStep' /\ FieldsInv' /\ ObjectInv'
    BY <1>1 DEF ReadFirstByte, Arrives, InStep, GotInv, Decoded, FieldsInv, ObjectInv, HasItem,
       DeltaSent, Item
  <2> QED
    BY <2>1, <2>2
<1>2. CASE ReadType
  <2>1. PICK next : Advance(next)
    BY <1>2 DEF ReadType
  <2>2. UNCHANGED <<content, delta, prevObjectID, got>> /\ pc = "type"
    BY <1>2, <2>1 DEF ReadType, Advance
  <2>3. GotInv' /\ end = "open" /\ pc = at /\ ~opened /\ got = <<>>
    BY <2>1, <2>2, AdvanceKeeps DEF FieldsInv, HeaderFields
  <2>4. StreamTypeOK'
    BY <1>2, <2>1, <2>2 DEF ReadType, Advance, StreamTypeOK
  <2>5. InStep'
    BY <1>2, <2>2, <2>3, ContentTypes, TypeTables
       DEF ReadType, Advance, InStep, AfterField, StreamTypeOK
  <2>6. end' = "open" => FieldsInv'
    BY <1>2, <2>2, <2>3, ContentTypes, TypeTables
       DEF ReadType, Advance, FieldsInv, HeaderFields, ObjectFields, CommandFields, StreamTypeOK
  <2>7. end' = "open" => ObjectInv'
    BY <1>2, <2>2, <2>3 DEF ReadType, Advance, ObjectInv, ObjectFields
  <2> QED
    BY <2>3, <2>4, <2>5, <2>6, <2>7
<1>3. CASE ReadHeaderField
  <2>1. PICK next : Advance(next)
    BY <1>3 DEF ReadHeaderField
  <2>2. UNCHANGED <<content, delta, prevObjectID, got, end>>
    BY <1>3, <2>1 DEF ReadHeaderField, Advance
  <2>3. /\ pc \in HeaderFields \ {"type"} /\ content.type \in SubgroupTypes
        /\ GotInv' /\ end = "open" /\ pc = at /\ ~opened /\ got = <<>>
    BY <1>3, <2>1, <2>2, AdvanceKeeps DEF ReadHeaderField, FieldsInv, HeaderFields
  <2>4. StreamTypeOK'
    BY <1>3, <2>1, <2>2 DEF ReadHeaderField, Advance, StreamTypeOK
  <2>5. InStep'
    BY <1>3, <2>2, <2>3, ContentTypes, TypeTables
       DEF ReadHeaderField, Advance, InStep, AfterField, StreamTypeOK
  <2>6. FieldsInv'
    BY <1>3, <2>2, <2>3 DEF ReadHeaderField, Advance, FieldsInv, HeaderFields, ObjectFields,
       CommandFields
  <2>7. ObjectInv'
    BY <1>3, <2>2, <2>3, AdvanceKeeps DEF ReadHeaderField, Advance, ObjectInv, ObjectFields,
       HeaderFields
  <2> QED
    BY <2>3, <2>4, <2>5, <2>6, <2>7
<1>4. CASE ReadObjectField
  <2>1. PICK next : Advance(next)
    BY <1>4 DEF ReadObjectField
  <2>2. UNCHANGED <<content, prevObjectID, got, opened, end>>
    BY <1>4, <2>1 DEF ReadObjectField, Advance
  <2>3. /\ pc \in ObjectFields /\ content.type \in SubgroupTypes /\ HasItem
        /\ GotInv' /\ end = "open" /\ pc = at /\ opened
    BY <1>4, <2>1, <2>2, AdvanceKeeps DEF ReadObjectField, FieldsInv, HeaderFields, ObjectFields,
       Advance, Arrives
  <2>4. delta' = DeltaSent /\ delta' \in 0..MaxID
    BY <1>4, <2>3, ObjectIDMeant DEF ReadObjectField, ObjectInv, ObjectFields
  <2>5. StreamTypeOK'
    BY <1>4, <2>1, <2>2, <2>4 DEF Advance, StreamTypeOK
  <2>6. InStep'
    BY <1>4, <2>2, <2>3, ContentTypes, TypeTables
       DEF ReadObjectField, Advance, InStep, AfterField, StreamTypeOK
  <2>7. FieldsInv'
    BY <1>4, <2>2, <2>3 DEF ReadObjectField, Advance, FieldsInv, HeaderFields, ObjectFields,
       CommandFields
  <2>8. ObjectInv'
    <3>1. Item' = Item /\ HasItem' = HasItem /\ DeltaSent' = DeltaSent /\ part' = "first"
      BY <2>1, <2>2, AdvanceKeeps DEF Advance
    <3>2. pc' \in {"status", "payload"} => (pc' = "status" <=> Item.len = 0)
      BY <1>4 DEF ReadObjectField, Advance
    <3> QED
      BY <2>2, <2>3, <2>4, <3>1, <3>2 DEF ObjectInv
  <2> QED
    BY <2>3, <2>5, <2>6, <2>7, <2>8
<1>5. CASE ReadObject
  <2>1. UNCHANGED <<content, opened, delta, end>>
    BY <1>5 DEF ReadObject
  <2>2. /\ pc \in ObjectFields \ {"delta"} /\ end = "open" /\ pc = at /\ HasItem
        /\ content.type \in SubgroupTypes /\ opened
    BY <1>5 DEF ReadObject, Arrives, InStep, FieldsInv, HeaderFields, ObjectFields
  <2>3. ObjectID = Item.id /\ Item \in Objects /\ Len(got) + 1 \in DOMAIN content.items
    BY <2>2, ObjectIDMeant, ItemTypes
  <2>4. Item.id \in 0..MaxID /\ Item.len \in Nat
    BY <2>3 DEF Objects
  <2>5. got' = Append(got, [id |-> Item.id, len |-> Item.len]) /\ prevObjectID' = Item.id
    BY <1>5, <2>3 DEF ReadObject
  <2>6. got' \in Seq(Read) /\ Len(got') = Len(got) + 1 /\ got' # <<>>
        /\ got'[Len(got) + 1] = [id |-> Item.id, len |-> Item.len]
        /\ \A i \in 1..Len(got) : got'[i] = got[i]
    BY <2>4, <2>5 DEF StreamTypeOK, Read
  <2>7. StreamTypeOK'
    BY <1>5, <2>1, <2>2, <2>4, <2>5, <2>6, ContentTypes DEF ReadObject, StreamTypeOK, HasItem
  <2>8. GotInv'
    <3>1. content.type # SetupType /\ Decoded' = Decoded
      BY <2>1, <2>2, ContentTypes DEF StreamTypeOK, Decoded
    <3>2. Decoded[Len(got) + 1] = [id |-> Item.id, len |-> Item.len]
      BY <2>3, <3>1 DEF Decoded, Item
    <3>3. DOMAIN got' = 1..(Len(got) + 1) /\ DOMAIN got = 1..Len(got) /\ Len(got) \in Nat
      BY <2>6 DEF StreamTypeOK
    <3> QED
      BY <2>6, <3>1, <3>2, <3>3 DEF GotInv
  <2>9. InStep' /\ FieldsInv' /\ ObjectInv'
    BY <1>5, <2>1, <2>2, <2>5, <2>6, ContentTypes
       DEF ReadObject, StreamTypeOK, InStep, AfterField, FieldsInv, ObjectInv, Item, HeaderFields,
       ObjectFields, CommandFields
  <2> QED
    BY <2>7, <2>8, <2>9
<1>6. CASE ReadFrameField
  <2>1. PICK next : Advance(next)
    BY <1>6 DEF ReadFrameField
  <2>2. UNCHANGED <<content, delta, prevObjectID, got, opened, end>>
    BY <1>6, <2>1 DEF ReadFrameField, Advance
  <2>3. /\ pc \in CommandFields /\ content.type = SetupType /\ content.type \notin SubgroupTypes
        /\ GotInv' /\ end = "open" /\ pc = at /\ opened
    BY <1>6, <2>1, <2>2, AdvanceKeeps, ContentTypes
       DEF ReadFrameField, FieldsInv, CommandFields, StreamTypeOK
  <2>4. StreamTypeOK'
    BY <2>1, <2>2 DEF Advance, StreamTypeOK
  <2>5. InStep' /\ FieldsInv' /\ ObjectInv'
    BY <1>6, <2>2, <2>3 DEF ReadFrameField, Advance, InStep, AfterField, FieldsInv, ObjectInv,
       HeaderFields, ObjectFields, CommandFields
  <2> QED
    BY <2>3, <2>4, <2>5
<1>7. CASE DispatchControlMessage
  <2>1. UNCHANGED <<content, delta, prevObjectID, opened>> /\ pc = "body" /\ Advance("msgType")
    BY <1>7 DEF DispatchControlMessage, Advance
  <2>2. /\ content.type = SetupType /\ content.type \notin SubgroupTypes /\ HasItem
        /\ end = "open" /\ pc = at /\ opened
    BY <2>1, ContentTypes DEF FieldsInv, HeaderFields, CommandFields, StreamTypeOK, Advance,
       Arrives, InStep
  <2>3. Item \in Commands /\ Len(got) + 1 \in DOMAIN content.items /\ Len(got) \in Nat
    BY <2>2, ItemTypes DEF StreamTypeOK
  <2>4. CASE got' = Append(got, Item) /\ UNCHANGED end
    <3>1. got' \in Seq(Read) /\ Len(got') = Len(got) + 1 /\ got'[Len(got) + 1] = Item
          /\ \A i \in 1..Len(got) : got'[i] = got[i]
      BY <2>3, <2>4 DEF StreamTypeOK, Read
    <3>2. StreamTypeOK'
      BY <2>1, <2>2, <2>3, <2>4, <3>1, ContentTypes DEF StreamTypeOK, HasItem, Advance
    <3>3. GotInv'
      <4>1. Decoded' = Decoded /\ Decoded[Len(got) + 1] = Item
        BY <2>1, <2>2, <2>3 DEF Decoded, Item
      <4>2. DOMAIN got' = 1..(Len(got) + 1) /\ DOMAIN got = 1..Len(got)
        BY <3>1 DEF StreamTypeOK
      <4> QED
        BY <2>3, <3>1, <4>1, <4>2 DEF GotInv
    <3>4. InStep' /\ FieldsInv' /\ ObjectInv'
      BY <2>1, <2>2 DEF Advance, InStep, AfterField, FieldsInv, ObjectInv, HeaderFields,
         ObjectFields, CommandFields
    <3> QED
      BY <3>2, <3>3, <3>4
  <2>5. CASE UNCHANGED got /\ end' \in {"bad", "fin"}
    <3>1. StreamTypeOK'
      BY <2>1, <2>5 DEF StreamTypeOK, Advance
    <3>2. GotInv' /\ InStep'
      BY <2>1, <2>5 DEF GotInv, Decoded, InStep
    <3> QED
      BY <2>5, <3>1, <3>2
  <2> QED
    BY <1>7, <2>4, <2>5 DEF DispatchControlMessage
<1>8. CASE StreamEnds
  <2>1. end' \in {"fin", "bad", "reset"}
    BY <1>8 DEF StreamEnds, HandlerEnd
  <2>2. StreamTypeOK' /\ GotInv' /\ InStep'
    BY <1>8, <2>1 DEF StreamEnds, StreamTypeOK, GotInv, Decoded, InStep
  <2> QED
    BY <2>1, <2>2
<1>9. CASE UNCHANGED vars
  <2>1. StreamTypeOK' /\ InStep' /\ GotInv' /\ (end' = "open" => FieldsInv')
    BY <1>9 DEF vars, StreamTypeOK, InStep, GotInv, Decoded, FieldsInv
  <2>2. end' = "open" => ObjectInv'
    BY <1>9 DEF vars, ObjectInv, HasItem, Item, DeltaSent
  <2> QED
    BY <2>1, <2>2
<1>10. CASE MakePanics
  BY <1>10 DEF MakePanics, StreamTypeOK, InStep, GotInv, Decoded
<1> QED
  BY <1>1, <1>2, <1>3, <1>4, <1>5, <1>6, <1>7, <1>8, <1>9, <1>10 DEF Next

-----------------------------------------------------------------------------
(***************************************************************************)
(* In every reachable state the reader has read what was sent, and knows   *)
(* where it is (handleUniStream, ParseSubgroupHeader, Next).               *)
(***************************************************************************)
THEOREM StreamCorrect == Spec => []StreamInv
BY InitInv, StepKeepsInv, PTL DEF Spec

(***************************************************************************)
(* Each field is taken for what it was written as, for every type the      *)
(* reader accepts (subgroupHasExtensions, subgroupHasSubgroupID).          *)
(***************************************************************************)
THEOREM InStepCorrect == Spec => []InStep
<1>1. StreamInv => InStep
  BY DEF StreamInv
<1> QED
  BY <1>1, StreamCorrect, PTL

-----------------------------------------------------------------------------
(***************************************************************************)
(* The refinement.                                                         *)
(***************************************************************************)

LEMMA InitIsViewInit == Init => V!Init
BY DEF Init, V!Init

\* A stream that has an item to come, or whose header is incomplete, lacks something.
LEMMA ReadsWhatIsMissing ==
  ASSUME StreamInv, end = "open", Arrives
  PROVE  V!Missing
BY DEF StreamInv, FieldsInv, Arrives, HasItem, V!Missing, Decoded, StreamTypeOK

LEMMA StepIsViewStep == StreamInv /\ [Next]_vars => [V!Next]_V!vars
<1> SUFFICES ASSUME StreamInv, [Next]_vars PROVE [V!Next]_V!vars
  OBVIOUS
<1> USE DEF StreamInv
<1>0. content \in Contents
  BY DEF StreamTypeOK
<1>1. CASE ReadFirstByte \/ ReadObjectField \/ ReadFrameField
  BY <1>1 DEF ReadFirstByte, ReadObjectField, ReadFrameField, Advance, Decoded, V!vars
<1>2. CASE ReadType
  <2>1. UNCHANGED <<content, got>> /\ Decoded' = Decoded
    BY <1>2 DEF ReadType, Advance, Decoded
  <2>2. end = "open" /\ ~opened
    BY <1>2 DEF ReadType, Advance, Arrives, FieldsInv, HeaderFields
  <2>3. CASE opened' = TRUE /\ UNCHANGED end
    BY <2>1, <2>2, <2>3 DEF V!Next, V!Open
  <2>4. CASE UNCHANGED <<opened, end>>
    BY <2>1, <2>4 DEF V!vars
  <2>5. CASE end' = "fin" /\ UNCHANGED opened
    BY <2>1, <2>2, <2>5 DEF V!Next, V!End
  <2> QED
    BY <1>2, <2>3, <2>4, <2>5 DEF ReadType
<1>3. CASE ReadHeaderField
  <2>1. UNCHANGED <<content, got, end>> /\ Decoded' = Decoded
    BY <1>3 DEF ReadHeaderField, Advance, Decoded
  <2>2. end = "open" /\ ~opened /\ opened' \in BOOLEAN
    BY <1>3 DEF ReadHeaderField, Advance, Arrives, FieldsInv, HeaderFields
  <2>3. CASE opened' = TRUE
    BY <2>1, <2>2, <2>3 DEF V!Next, V!Open
  <2>4. CASE opened' = FALSE
    BY <2>1, <2>2, <2>4 DEF V!vars, StreamTypeOK
  <2> QED
    BY <2>2, <2>3, <2>4
<1>4. CASE ReadObject
  <2>1. UNCHANGED <<content, opened, end>> /\ Decoded' = Decoded
    BY <1>4 DEF ReadObject, Decoded
  <2>2. /\ pc \in ObjectFields \ {"delta"} /\ end = "open" /\ HasItem /\ opened
        /\ content.type \in SubgroupTypes
    BY <1>4 DEF ReadObject, Arrives, FieldsInv, HeaderFields, ObjectFields
  <2>3. ObjectID = Item.id /\ Len(got) + 1 \in DOMAIN content.items
    BY <2>2, ObjectIDMeant, ItemTypes
  <2>4. Decoded[Len(got) + 1] = [id |-> Item.id, len |-> Item.len]
    BY <1>0, <2>2, <2>3, ContentTypes DEF Decoded, Item
  <2>5. got' = Append(got, Decoded[Len(got) + 1])
    BY <1>4, <2>3, <2>4 DEF ReadObject
  <2>6. Len(got) < Len(Decoded)
    BY <1>0, <2>2, ContentTypes DEF HasItem, Decoded
  <2> QED
    BY <2>1, <2>2, <2>5, <2>6 DEF V!Next, V!Take
<1>5. CASE DispatchControlMessage
  <2>1. UNCHANGED <<content, opened>> /\ Decoded' = Decoded /\ pc = "body" /\ Arrives
    BY <1>5 DEF DispatchControlMessage, Advance, Decoded
  <2>2. end = "open" /\ HasItem /\ opened /\ content.type = SetupType
    BY <2>1 DEF Arrives, FieldsInv, HeaderFields, CommandFields
  <2>3. CASE got' = Append(got, Item) /\ UNCHANGED end
    <3>1. Decoded[Len(got) + 1] = Item
      BY <2>2, ItemTypes DEF Decoded, Item
    <3>2. Len(got) < Len(Decoded)
      BY <1>0, <2>2, ContentTypes DEF HasItem, Decoded
    <3> QED
      BY <2>1, <2>2, <2>3, <3>1, <3>2 DEF V!Next, V!Take
  <2>4. CASE end' \in {"bad", "fin"} /\ UNCHANGED got
    BY <2>1, <2>2, <2>4, ReadsWhatIsMissing DEF V!Next, V!End
  <2> QED
    BY <1>5, <2>3, <2>4 DEF DispatchControlMessage
<1>6. CASE StreamEnds
  <2>1. UNCHANGED <<content, opened, got>> /\ Decoded' = Decoded /\ end = "open"
    BY <1>6 DEF StreamEnds, Decoded
  <2>2. end' \in {"fin", "reset"} \/ (Arrives /\ end' = "bad")
    BY <1>6 DEF StreamEnds, HandlerEnd
  <2> QED
    BY <2>1, <2>2, ReadsWhatIsMissing DEF V!Next, V!End
<1>7. CASE UNCHANGED vars
  BY <1>7 DEF vars, V!vars, Decoded
<1>8. CASE MakePanics
  <2>1. UNCHANGED <<content, opened, got>> /\ Decoded' = Decoded
        /\ end = "open" /\ end' = "panic" /\ Arrives
    BY <1>8 DEF MakePanics, Decoded, Arrives
  <2>2. opened
    BY <1>8, <2>1 DEF MakePanics, FieldsInv, ObjectFields, HeaderFields
  <2> QED
    BY <2>1, <2>2, ReadsWhatIsMissing DEF V!Next, V!End
<1> QED
  BY <1>1, <1>2, <1>3, <1>4, <1>5, <1>6, <1>7, <1>8 DEF Next

(***************************************************************************)
(* The reader implements StreamView: whole items, in order, with the IDs   *)
(* that were meant, and a finished stream is never a broken one            *)
(* (handleUniStream, SubgroupObjectReader.Next).                           *)
(***************************************************************************)
THEOREM UniStreamImplementsView == Spec => ViewSpec
BY InitIsViewInit, StepIsViewStep, StreamCorrect, PTL DEF Spec, ViewSpec, V!Spec

-----------------------------------------------------------------------------
(***************************************************************************)
(* The counters.                                                           *)
(***************************************************************************)

\* One more index than those counted so far (for the counters of handleSubgroupStream).
LEMMA CountAppended ==
  ASSUME NEW n \in Nat, NEW old \in SUBSET (1..n)
  PROVE  Cardinality(old) \in Nat /\ Cardinality(old \cup {n + 1}) = Cardinality(old) + 1
<1>0. IsFiniteSet(1..n)
  BY FS_Interval
<1>1. IsFiniteSet(old)
  BY <1>0, FS_Subset
<1>2. Cardinality(old) \in Nat
  BY <1>1, FS_CardinalityType
<1>3. n + 1 \notin old
  OBVIOUS
<1>4. Cardinality(old \cup {n + 1}) = Cardinality(old) + 1
  BY <1>1, <1>3, FS_AddElement
<1> QED
  BY <1>2, <1>4

\* A delta is zero exactly for the successor of the last ID, or of -1.
LEMMA DeltaTellsGaps ==
  ASSUME StreamInv, end = "open", pc \in ObjectFields \ {"delta"}, HasItem
  PROVE  (delta > 0) <=> Item.id # PlusWrap(IF got = <<>> THEN MaxID ELSE got[Len(got)].id, 1)
<1>1. content.type \in SubgroupTypes /\ Item.id \in 0..MaxID /\ Len(got) \in Nat
  BY ItemTypes DEF StreamInv, StreamTypeOK, FieldsInv, Objects
<1>2. delta = DeltaSent
  BY DEF StreamInv, ObjectInv
<1>3. CASE got = <<>>
  BY <1>1, <1>2, <1>3, UniStreamAssumption DEF DeltaSent, PlusWrap
<1>4. CASE got # <<>>
  <2>1. Len(got) \in 1..Len(got) /\ Len(got) \in DOMAIN got
    BY <1>4 DEF StreamInv, StreamTypeOK
  <2>2. content.items[Len(got)].id \in 0..MaxID
    BY <1>1, <2>1, ItemTypes DEF StreamInv, Objects
  <2>3. got[Len(got)].id = content.items[Len(got)].id
    <3>1. got[Len(got)] = Decoded[Len(got)]
      BY <2>1 DEF StreamInv, GotInv
    <3>2. Len(got) \in DOMAIN content.items /\ content.type # SetupType
      BY <1>1, <2>1, ContentTypes DEF StreamInv, StreamTypeOK
    <3> QED
      BY <3>1, <3>2 DEF Decoded
  <2> QED
    BY <1>1, <1>2, <1>4, <2>2, <2>3, UniStreamAssumption DEF DeltaSent, PlusWrap
<1> QED
  BY <1>3, <1>4

StatusObjects == {i \in DOMAIN got : got[i].len = 0}

LEMMA ReadObjectCounts ==
  ASSUME StreamInv, ReadObject
  PROVE  /\ Cardinality(Gaps') = Cardinality(Gaps) + (IF delta > 0 THEN 1 ELSE 0)
         /\ Cardinality(StatusObjects')
              = Cardinality(StatusObjects) + (IF pc = "status" THEN 1 ELSE 0)
<1> PICK n, x : n = Len(got) /\ x = [id |-> Item.id, len |-> Item.len]
  OBVIOUS
<1>1. /\ pc \in {"status", "payload"} /\ pc \in ObjectFields \ {"delta"}
      /\ end = "open" /\ HasItem /\ pc = at
  BY DEF ReadObject, Arrives, HeaderFields, ObjectFields, StreamInv, InStep
<1>2. ObjectID = Item.id
  BY <1>1, ObjectIDMeant
<1>3. got' = Append(got, x) /\ got \in Seq(Read)
  BY <1>2 DEF ReadObject, StreamInv, StreamTypeOK
<1>4. /\ n \in Nat /\ DOMAIN got = 1..n /\ DOMAIN got' = 1..(n + 1)
      /\ \A i \in 1..n : got'[i] = got[i]
      /\ got'[n + 1] = x
  BY <1>3
<1>5. (pc = "status") <=> Item.len = 0
  BY <1>1 DEF StreamInv, ObjectInv
<1>6. StatusObjects' = IF pc = "status" THEN StatusObjects \cup {n + 1} ELSE StatusObjects
  BY <1>4, <1>5 DEF StatusObjects
<1>7. Gaps' = IF delta > 0 THEN Gaps \cup {n + 1} ELSE Gaps
  <2>1. \A i \in 1..n : Predecessor(i)' = Predecessor(i)
    BY <1>4 DEF Predecessor
  <2>2. Predecessor(n + 1)' = IF got = <<>> THEN MaxID ELSE got[n].id
    BY <1>3, <1>4 DEF Predecessor
  <2>3. (delta > 0) <=> x.id # PlusWrap(Predecessor(n + 1)', 1)
    BY <1>1, <2>2, DeltaTellsGaps
  <2> QED
    BY <1>4, <2>1, <2>3 DEF Gaps
<1>8. Gaps \in SUBSET (1..n) /\ StatusObjects \in SUBSET (1..n)
  BY <1>4 DEF Gaps, StatusObjects
<1>9. Cardinality(Gaps') = Cardinality(Gaps) + (IF delta > 0 THEN 1 ELSE 0)
  <2>1. CASE delta > 0
    <3>1. Gaps' = Gaps \cup {n + 1}
      BY <1>7, <2>1
    <3>2. Cardinality(Gaps \cup {n + 1}) = Cardinality(Gaps) + 1
      BY <1>4, <1>8, CountAppended
    <3> QED
      BY <2>1, <3>1, <3>2
  <2>2. CASE ~(delta > 0)
    <3>1. Gaps' = Gaps /\ Cardinality(Gaps) \in Nat
      BY <1>4, <1>7, <1>8, <2>2, CountAppended
    <3> QED
      BY <2>2, <3>1
  <2> QED
    BY <2>1, <2>2
<1>10. Cardinality(StatusObjects')
        = Cardinality(StatusObjects) + (IF pc = "status" THEN 1 ELSE 0)
  <2>1. CASE pc = "status"
    <3>1. StatusObjects' = StatusObjects \cup {n + 1}
      BY <1>6, <2>1
    <3>2. Cardinality(StatusObjects \cup {n + 1}) = Cardinality(StatusObjects) + 1
      BY <1>4, <1>8, CountAppended
    <3> QED
      BY <2>1, <3>1, <3>2
  <2>2. CASE pc # "status"
    <3>1. StatusObjects' = StatusObjects /\ Cardinality(StatusObjects) \in Nat
      BY <1>4, <1>6, <1>8, <2>2, CountAppended
    <3> QED
      BY <2>2, <3>1
  <2> QED
    BY <2>1, <2>2
<1> QED
  BY <1>9, <1>10

LEMMA SummaryInit == Init => SummaryAgrees
<1> SUFFICES ASSUME Init PROVE SummaryAgrees
  OBVIOUS
<1>1. Gaps = {} /\ StatusObjects = {}
  BY DEF Init, Gaps, StatusObjects
<1>2. Cardinality({}) = 0
  BY FS_EmptySet
<1> QED
  BY <1>1, <1>2 DEF Init, SummaryAgrees, StatusObjects

\* Only ReadObject reads an object or counts one.
LEMMA SummaryStep ==
  ASSUME StreamInv, SummaryAgrees, [Next]_vars
  PROVE  SummaryAgrees'
<1>1. CASE ReadObject
  <2>1. content' = content
    BY <1>1 DEF ReadObject
  <2>2. /\ gapHints' = gapHints + (IF delta > 0 THEN 1 ELSE 0)
        /\ statusObjects' = statusObjects + (IF pc = "status" THEN 1 ELSE 0)
    BY <1>1 DEF ReadObject, GapSeen
  <2> QED
    BY <1>1, <2>1, <2>2, ReadObjectCounts DEF SummaryAgrees, StatusObjects
<1>2. CASE UNCHANGED <<content, got, gapHints, statusObjects>>
  BY <1>2 DEF SummaryAgrees, Gaps, Predecessor
<1>3. CASE DispatchControlMessage
  <2>1. content' = content
    BY <1>3 DEF DispatchControlMessage, Advance
  <2>2. content.type = SetupType
    BY <1>3 DEF DispatchControlMessage, Advance, Arrives, StreamInv, FieldsInv,
                HeaderFields, ObjectFields, CommandFields
  <2> QED
    BY <2>1, <2>2 DEF SummaryAgrees, SetupType, SubgroupTypes
<1>4. CASE ReadFirstByte \/ MakePanics \/ StreamEnds \/ UNCHANGED vars
  BY <1>2, <1>4 DEF ReadFirstByte, MakePanics, StreamEnds, vars
<1>5. CASE ReadType \/ ReadHeaderField \/ ReadObjectField \/ ReadFrameField
  BY <1>2, <1>5 DEF ReadType, ReadHeaderField, ReadObjectField, ReadFrameField, Advance
<1> QED
  BY <1>1, <1>3, <1>4, <1>5 DEF Next

(***************************************************************************)
(* The counters of the summary agree with what was read, for every content *)
(* of the stream (handleSubgroupStream's gap hints and status objects).    *)
(***************************************************************************)
THEOREM SummaryCorrect == Spec => []SummaryAgrees
BY SummaryInit, SummaryStep, StreamCorrect, PTL DEF Spec
=============================================================================

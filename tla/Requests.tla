------------------------------ MODULE Requests ------------------------------
(***************************************************************************)
(* What the subscriber puts on the wire: SETUP and SUBSCRIBE, built from   *)
(* the relay URL, the --namespace flag and the track names of the catalog  *)
(* (sendClientSetup in run.go, sendSubscribeMessage in subscriptions.go).  *)
(* The user and the publisher write these texts one character at a time.   *)
(***************************************************************************)
EXTENDS Codec

CONSTANTS
  Slash, Letter,            \* two characters
  MsgSetup, MsgSubscribe,   \* message types: 0x2F00 and 3
  MaxText,                  \* the longest --namespace
  MaxName                   \* the longest track name, and the longest path

ASSUME RequestsAssumption ==
  /\ Slash # Letter /\ {Slash, Letter} \subseteq Byte
  /\ MsgSetup # MsgSubscribe /\ {MsgSetup, MsgSubscribe} \subseteq 0..MaxUint
  /\ {MaxText, MaxName} \subseteq 0..MaxUint     \* the length of a Go string is an int

VARIABLES
  namespace,   \* --namespace
  trackName,   \* a name from the catalog
  path         \* path and query of the relay URL, absolute or empty

textVars == <<namespace, trackName, path>>

TextsInit == namespace = <<>> /\ trackName = <<>> /\ path = <<>>

WriteNamespace ==
  /\ Len(namespace) < MaxText
  /\ \E c \in {Slash, Letter} : namespace' = Append(namespace, c)
  /\ UNCHANGED <<trackName, path>>

WriteTrackName ==
  /\ Len(trackName) < MaxName
  /\ trackName' = Append(trackName, Letter)
  /\ UNCHANGED <<namespace, path>>

WritePath ==
  /\ Len(path) < MaxName
  /\ path' = Append(path, IF path = <<>> THEN Slash ELSE Letter)
  /\ UNCHANGED <<namespace, trackName>>

WriteText == WriteNamespace \/ WriteTrackName \/ WritePath

TextsSpec == TextsInit /\ [][WriteText]_textVars

-----------------------------------------------------------------------------
\* strings.Split: the parts between slashes, some of them empty.  What strings.Trim takes off
\* beforehand are empty parts at the ends, which are left out like the others.
Split(text) ==
  LET upTo[i \in 0..Len(text)] ==
        IF i = 0 THEN <<<<>>>>
        ELSE IF text[i] = Slash THEN Append(upTo[i - 1], <<>>)
        ELSE Append(Front(upTo[i - 1]), Append(Last(upTo[i - 1]), text[i]))
  IN upTo[Len(text)]

\* The loop over the parts.
NotEmpty(parts) ==
  LET upTo[i \in 0..Len(parts)] ==
        IF i = 0 THEN <<>>
        ELSE IF parts[i] = <<>> THEN upTo[i - 1] ELSE Append(upTo[i - 1], parts[i])
  IN upTo[Len(parts)]

splitNamespace(text) == NotEmpty(Split(text))

sendSubscribeMessage(id) ==
  Then(EncodeTrackNamespaceFromStrings(splitNamespace(namespace)), LAMBDA ns, r :
    Then(EncodeSubscribe([requestID |-> id, namespace |-> ns, trackName |-> trackName,
                          parameters |-> <<>>]), LAMBDA payload, r1 :
      WriteFrame(MsgSubscribe, payload)))

Authority      == [type |-> 5, raw |-> <<Letter>>]
Implementation == [type |-> 7, raw |-> <<Slash>>]
PathOption     == [type |-> 1, raw |-> path]

\* Faulty variants: the root path is sent; the path comes last.
SetupOptionsRooted == (IF path = <<>> THEN <<>> ELSE <<PathOption>>) \o <<Authority, Implementation>>

SetupOptionsLast ==
  <<Authority, Implementation>> \o (IF path \in {<<>>, <<Slash>>} THEN <<>> ELSE <<PathOption>>)

SetupOptions ==
  (IF path \in {<<>>, <<Slash>>} THEN <<>> ELSE <<PathOption>>) \o <<Authority, Implementation>>

sendClientSetup ==
  Then(EncodeSetup(SetupOptions), LAMBDA payload, r : WriteFrame(MsgSetup, payload))

-----------------------------------------------------------------------------
(***************************************************************************)
(* The relay's reading of a SUBSCRIBE (external), field by field.          *)
(***************************************************************************)
ReadSized(r) == Then(ReadVarint(r), LAMBDA n, r1 : ReadFull(r1, n))

ReadFields(r) ==
  LET fields[x \in (0..MaxUint) \X Seq(Byte)] ==
        IF x[1] = 0 THEN Result(<<>>, x[2])
        ELSE Then(ReadSized(x[2]), LAMBDA f, r1 :
               Then(fields[<<x[1] - 1, r1>>], LAMBDA more, r2 : Result(<<f>> \o more, r2)))
  IN Then(ReadVarint(r), LAMBDA n, r1 : fields[<<n, r1>>])

RelayReads(payload) ==
  Then(ReadVarint(payload), LAMBDA id, r :
    Then(ReadFields(r), LAMBDA ns, r1 :
      Then(ReadSized(r1), LAMBDA name, r2 :
        Then(ReadVarint(r2), LAMBDA params, r3 :
          Result([id |-> id, namespace |-> ns, name |-> name, params |-> params], r3)))))

\* The fields of a namespace: the maximal runs of characters other than the slash.
Starts(text) == {i \in DOMAIN text : text[i] # Slash /\ (i = 1 \/ text[i - 1] = Slash)}

Place(text, i) == Cardinality({s \in Starts(text) : s <= i})

Run(text, k) == {i \in DOMAIN text : text[i] # Slash /\ Place(text, i) = k}

FieldsOf(text) ==
  [k \in 1..Cardinality(Starts(text)) |-> SubSeq(text, Min(Run(text, k)), Max(Run(text, k)))]

Fields == FieldsOf(namespace)

RequestIDs == {0, 2, 4}

(***************************************************************************)
(* The relay reads the SUBSCRIBE that was sent: the request ID, the fields *)
(* between the slashes, however many slashes there are, the track name,    *)
(* no parameters, and nothing is left over (splitNamespace,                *)
(* EncodeSubscribe, WriteFrame's limit against the 16-bit length).         *)
(***************************************************************************)
SubscribeArrives ==
  \A id \in RequestIDs :
    LET sent == sendSubscribeMessage(id)  frame == ReadFrame(sent.val)
    IN sent.err = "nil" =>
         /\ frame.err = "nil" /\ frame.rest = <<>> /\ frame.val.type = MsgSubscribe
         /\ RelayReads(frame.val.payload) =
              Result([id |-> id, namespace |-> Fields, name |-> trackName, params |-> 0], <<>>)

(***************************************************************************)
(* The relay reads the SETUP that was sent: the authority, and the path    *)
(* unless it is the root (sendClientSetup, EncodeSetup).                   *)
(***************************************************************************)
SetupArrives ==
  LET sent == sendClientSetup  frame == ReadFrame(sent.val)
      setup == DecodeSetup(frame.val.payload)
      raws(t) == {setup.val[i].raw : i \in {j \in DOMAIN setup.val : setup.val[j].type = t}}
  IN sent.err = "nil" =>
       /\ frame.err = "nil" /\ frame.rest = <<>> /\ frame.val.type = MsgSetup
       /\ setup.err = "nil" /\ raws(5) = {Authority.raw} /\ raws(7) = {Implementation.raw}
       /\ raws(1) = {path} \ {<<>>, <<Slash>>}

(***************************************************************************)
(* Sending fails only for what is too long for the draft or for a frame:   *)
(* no use of slashes in the namespace and no path keeps a session from     *)
(* starting (encodeTrackNamespace, encodeKeyValuePairs).                   *)
(***************************************************************************)
SizeOf(b) == Len(Sized(b))

\* In base one, a number is the sum of its digits.
Total(sizes) == Number(1, sizes)

SubscribeSize(id) ==
  Len(Integer(id)) + Len(Integer(Len(Fields))) + Total([i \in DOMAIN Fields |-> SizeOf(Fields[i])])
    + SizeOf(trackName) + 1

SetupSize ==
  SizeOf(Authority.raw) + Len(Integer(2)) + SizeOf(Implementation.raw) +
    IF Len(path) <= 1 THEN Len(Integer(5)) ELSE Len(Integer(1)) + SizeOf(path) + Len(Integer(4))

SentUnlessTooLong ==
  /\ \A id \in RequestIDs :
       sendSubscribeMessage(id).err # "nil" =>
         NamespaceTooLong(Fields) \/ SubscribeSize(id) >= Shift(2)
  /\ sendClientSetup.err # "nil" => SetupSize >= Shift(2)
=============================================================================

-------------------------------- MODULE Codec -------------------------------
(***************************************************************************)
(* Control messages on the wire (moqt/draft18/codec.go): frames, SETUP,    *)
(* SUBSCRIBE, SUBSCRIBE_OK, REQUEST_ERROR, namespaces and key-value pairs. *)
(*                                                                         *)
(* A result carries the error that errors.Is finds: wrapping a read error  *)
(* keeps it, any other failure is "other".                                 *)
(***************************************************************************)
EXTENDS Varint

CONSTANTS
  MaxFields,      \* 32: fields of a namespace
  MaxNamespace,   \* 4096: bytes of a namespace
  MaxReason       \* 1024: bytes of a reason phrase

ASSUME CodecAssumption == {MaxFields, MaxNamespace, MaxReason} \subseteq Nat

Encoded(b) == Result(b, <<>>)
Integer(v) == AppendVarint(<<>>, v)
Sized(b)   == Integer(Len(b)) \o b

-----------------------------------------------------------------------------
\* Faulty variant: the limit of a frame is one too high for the length field.
maxFrameLenPlus == Shift(2)

\* Frames.
maxFrameLen == Shift(2) - 1

FrameTooLong(payload) == Len(payload) > maxFrameLen

WriteFrame(msgType, payload) ==
  IF FrameTooLong(payload) THEN Failure("other")
  ELSE Encoded(Integer(msgType) \o BigEndian(Len(payload), 2) \o payload)

ReadFrameBody(r) == Then(ReadFull(r, 2), LAMBDA length, r1 : ReadFull(r1, Uint(length)))

ReadFrame(r) ==
  Then(ReadVarint(r), LAMBDA t, r1 :
    Then(ReadFrameBody(r1), LAMBDA p, r2 : Result([type |-> t, payload |-> p], r2)))

-----------------------------------------------------------------------------
\* Key-value pairs: [type, raw], types as differences, even types with a varint as value.
Odd(t) == t % 2 = 1

WholeVarint(raw) == raw = <<>> \/ (ParseVarint(raw).err = "nil" /\ ParseVarint(raw).n = Len(raw))

\* Faulty variant: a repeated type is let through.
TypesGrowOrRepeat(options) ==
  \A i \in DOMAIN options : i > 1 => options[i].type >= options[i - 1].type

TypesGrow(options) == \A i \in DOMAIN options : i > 1 => options[i].type > options[i - 1].type

encodePair(prev, opt) ==
  Integer(opt.type - prev) \o
    IF Odd(opt.type) THEN Sized(opt.raw)
    ELSE Integer(IF opt.raw = <<>> THEN 0 ELSE ParseVarint(opt.raw).val)

encodeKeyValuePairs(options) ==
  IF TypesGrow(options) /\ \A i \in DOMAIN options : Odd(options[i].type) \/ WholeVarint(options[i].raw)
  THEN Encoded(FlattenSeq([i \in DOMAIN options |->
                 encodePair(IF i = 1 THEN 0 ELSE options[i - 1].type, options[i])]))
  ELSE Failure("other")

\* Faulty variant: the sum of the types is not watched.
NeverOverflows(delta, prev) == FALSE

Overflows(delta, prev) == delta > MaxUint - prev

\* Faulty variant: the length is left to the read to check.
readValueUnchecked(r, l) == ReadFull(r, l)

readValue(r, l) == IF l > Len(r) THEN Failure("other") ELSE ReadFull(r, l)

decodePair(prev, r) ==
  Then(ReadVarint(r), LAMBDA delta, r1 :
    LET t == (prev + delta) % (MaxUint + 1)
    IN IF Overflows(delta, prev) THEN Failure("other")
       ELSE Then(ReadVarint(r1), LAMBDA v, r2 :
              IF Odd(t) THEN Then(readValue(r2, v), LAMBDA raw, r3 : Result([type |-> t, raw |-> raw], r3))
              ELSE Result([type |-> t, raw |-> Integer(v)], r2)))

\* The loop over the payload: the pairs of the bytes s[1] that are left, after one of type s[2].
decodeKeyValuePairs(payload) ==
  LET pairs[s \in Seq(Byte) \X (0..MaxUint)] ==
        IF s[1] = <<>> THEN Encoded(<<>>)
        ELSE Then(decodePair(s[2], s[1]), LAMBDA p, r1 :
               Then(pairs[<<r1, p.type>>], LAMBDA more, r2 : Encoded(<<p>> \o more)))
  IN pairs[<<payload, 0>>]

countKeyValuePairs(payload) ==
  Then(decodeKeyValuePairs(payload), LAMBDA pairs, r : Result(Len(pairs), r))

EncodeSetup(options) == encodeKeyValuePairs(options)
DecodeSetup(payload) == decodeKeyValuePairs(payload)

-----------------------------------------------------------------------------
\* Requests and their answers.
EncodeTrackNamespaceFromStrings(fields) ==
  IF \E i \in DOMAIN fields : fields[i] = <<>> THEN Failure("other") ELSE Encoded(fields)

NamespaceTooLong(fields) ==
  Len(fields) > MaxFields \/ SumFunction([i \in DOMAIN fields |-> Len(fields[i])]) > MaxNamespace

encodeTrackNamespace(fields) ==
  IF NamespaceTooLong(fields) \/ \E i \in DOMAIN fields : fields[i] = <<>> THEN Failure("other")
  ELSE Encoded(Integer(Len(fields)) \o FlattenSeq([i \in DOMAIN fields |-> Sized(fields[i])]))

encodeParameters(raw) ==
  IF raw = <<>> THEN Encoded(Integer(0))
  ELSE Then(countKeyValuePairs(raw), LAMBDA num, r : Encoded(Integer(num) \o raw))

EncodeSubscribe(msg) ==
  Then(encodeTrackNamespace(msg.namespace), LAMBDA ns, r :
    Then(encodeParameters(msg.parameters), LAMBDA params, r1 :
      Encoded(Integer(msg.requestID) \o ns \o Sized(msg.trackName) \o params)))

DecodeSubscribeOK(payload) ==
  Then(ReadVarint(payload), LAMBDA alias, r :
    Then(ReadVarint(r), LAMBDA numParams, r1 :
      Result([alias |-> alias, numParams |-> numParams, properties |-> r1], <<>>)))

\* Faulty variant: the reason's bytes are read with a single short read.
readReasonShort(r, n) == Result(SubSeq(r, 1, IF n < Len(r) THEN n ELSE Len(r)),
                                SubSeq(r, n + 1, Len(r)))

readReason(r, n) == IF n > MaxReason THEN Failure("other") ELSE ReadFull(r, n)

DecodeRequestError(payload) ==
  Then(ReadVarint(payload), LAMBDA code, r :
    Then(ReadVarint(r), LAMBDA retry, r1 :
      Then(ReadVarint(r1), LAMBDA n, r2 :
        Then(readReason(r2, n), LAMBDA reason, r3 :
          Result([code |-> code, retry |-> retry, reason |-> reason, redirect |-> r3], <<>>)))))
=============================================================================

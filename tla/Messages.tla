------------------------------ MODULE Messages ------------------------------
(***************************************************************************)
(* What the message decoders make of every string of bytes a peer may send *)
(* as the body of a message.                                               *)
(***************************************************************************)
EXTENDS Wire, Codec

(***************************************************************************)
(* The types of a decoded SETUP never decrease, though they are sums of    *)
(* differences in 64 bits (decodeKeyValuePairs, the test against overflow).*)
(***************************************************************************)
TypesNeverWrap ==
  LET setup == DecodeSetup(bytes)
  IN setup.err = "nil" =>
       \A i, j \in DOMAIN setup.val : i < j => setup.val[i].type <= setup.val[j].type

(***************************************************************************)
(* A SETUP that was decoded can be encoded again exactly if no option is   *)
(* repeated, and is then read back unchanged: the encoder refuses what the *)
(* decoder lets pass (encodeKeyValuePairs, decodeKeyValuePairs).           *)
(***************************************************************************)
SetupReadsBack ==
  LET setup == DecodeSetup(bytes)
      again == EncodeSetup(setup.val)
      repeated == \E i, j \in DOMAIN setup.val : i # j /\ setup.val[i].type = setup.val[j].type
  IN setup.err = "nil" =>
       IF repeated THEN again.err # "nil" ELSE DecodeSetup(again.val) = setup

(***************************************************************************)
(* A SETUP that does not decode fails its stream, with one exception:      *)
(* io.EOF, which the handler takes for the end of the stream.  It comes up *)
(* only if an integer is missing or there is no more than its first byte,  *)
(* never for a value cut short, a length too large or a type that wraps    *)
(* (decodeKeyValuePairs, dispatchControlMessage, acceptUniStreams).        *)
(***************************************************************************)
Decodes(b) == DecodeSetup(b).err = "nil"

BreaksOffInInteger ==
  \/ Decodes(bytes \o <<0>>)
  \/ LeadingOnes(Last(bytes)) > 0 /\ (Decodes(Front(bytes)) \/ Decodes(Front(bytes) \o <<0>>))

EOFMeansCutOff == DecodeSetup(bytes).err = "EOF" => BreaksOffInInteger

(***************************************************************************)
(* The fields of an answer do not depend on what follows them: when a part *)
(* of the bytes decodes, the whole decodes to the same fields, and only    *)
(* the properties or the redirect are longer (DecodeSubscribeOK,           *)
(* DecodeRequestError).                                                    *)
(***************************************************************************)
Extends(part, whole) ==
  part.err = "nil" =>
    /\ whole.err = "nil"
    /\ \A f \in DOMAIN part.val \ {"properties", "redirect"} : whole.val[f] = part.val[f]

AnswersStayPut ==
  \A p \in Prefixes(bytes) :
    /\ Extends(DecodeSubscribeOK(p), DecodeSubscribeOK(bytes))
    /\ Extends(DecodeRequestError(p), DecodeRequestError(bytes))
=============================================================================

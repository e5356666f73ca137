--------------------------- MODULE SessionProofs ---------------------------
(***************************************************************************)
(* Proofs that every session, with any number of streams and any choices   *)
(* of the relay, keeps SessionInv, and what follows from it.               *)
(*                                                                         *)
(* The step lemmas have one case per action.  In each, the first step says *)
(* what the action leaves alone, the next ones treat the parts of the      *)
(* invariant it can disturb, and the frame lemmas give the rest.           *)
(***************************************************************************)
EXTENDS SessionInv, TLAPS

\* Tuples of variables and conjunctions that only list their parts.
USE DEF registryVars, relayVars, sinkVars, mainVars, envVars, subVars, errVars,
        handlerVars, statVars, SessionInv, TypeOK

(***************************************************************************)
(* The invariant holds when Run starts (New, newSubscriptionRegistry).     *)
(***************************************************************************)
LEMMA InitInv == Init => SessionInv
<1> SUFFICES ASSUME Init PROVE SessionInv
  OBVIOUS
<1>1. RegistryTypeOK
  BY DEF Init, newSubscriptionRegistry, RegistryTypeOK
<1>2. <<>> \in Seq(Messages)
  OBVIOUS
<1>3. RelayTypeOK
  <2>1. replied \subseteq Roles
    BY DEF Init, RelayInit
  <2>2. reply \in [Roles -> Seq(Messages)]
    BY <1>2 DEF Init, RelayInit
  <2>3. /\ request \in [Roles -> Ids \cup {NoId}]
        /\ trackAlias \in [Roles -> Ids \cup {NoId}]
        /\ track \in [Streams -> Roles \cup {NoSub}]
        /\ body \in [Streams -> Bodies \cup {NoBody}]
    BY DEF Init, RelayInit
  <2> QED
    BY <2>1, <2>2, <2>3 DEF RelayTypeOK
<1>4. MainTypeOK
  BY DEF Init, MainTypeOK, MainStates, Roles
<1>5. SinkTypeOK
  <2>1. <<>> \in Seq(Payloads)
    OBVIOUS
  <2> QED
    BY <2>1 DEF Init, SinkInit, SinkTypeOK
<1>6. SubTypeOK
  BY DEF Init, SubTypeOK
<1>7. ErrTypeOK
  <2>1. <<>> \in Seq(Errors) /\ Len(<<>>) = 0
    OBVIOUS
  <2> QED
    BY <2>1, SessionAssumption DEF Init, ErrTypeOK
<1>8. HandlerTypeOK
  BY DEF Init, HandlerTypeOK
<1>9. StreamsInv
  BY DEF Init, RelayInit, StreamsInv, NoBody, NoSub
<1>10. StartedInv
  BY DEF Init, RelayInit, newSubscriptionRegistry, StartedInv, NoSub
<1>11. RequestInv
  BY DEF Init, RelayInit, newSubscriptionRegistry, RequestInv, NoSub, Roles
<1>12. ConventionInv
  BY DEF Init, RelayInit, ConventionInv, BoundToOwnTrack, Resolved, NoBody
<1>13. AliasInv
  BY DEF Init, RelayInit, AliasInv
<1>14. BindingInv /\ DeliveryInv
  BY DEF Init, newSubscriptionRegistry, RelayInit, BindingInv, DeliveryInv, Roles, NoSub
<1>15. OutputInv /\ ErrorInv
  BY DEF Init, SinkInit, OutputInv, ErrorInv, NoErr
<1> QED
  BY <1>1, <1>3, <1>4, <1>5, <1>6, <1>7, <1>8, <1>9, <1>10, <1>11, <1>12, <1>13, <1>14, <1>15

-----------------------------------------------------------------------------
(***************************************************************************)
(* Frames: each part of the invariant speaks of few variables, and a step  *)
(* that leaves these alone preserves it.                                   *)
(***************************************************************************)

\* The parts of TypeOK: a step that leaves their variables alone preserves them.
LEMMA TypeFrame ==
  /\ RegistryTypeOK /\ UNCHANGED registryVars => RegistryTypeOK'
  /\ RelayTypeOK /\ UNCHANGED relayVars => RelayTypeOK'
  /\ MainTypeOK /\ UNCHANGED <<mainVars, envVars>> => MainTypeOK'
  /\ SinkTypeOK /\ UNCHANGED <<sinkVars, statVars>> => SinkTypeOK'
  /\ SubTypeOK /\ UNCHANGED subVars => SubTypeOK'
  /\ ErrTypeOK /\ UNCHANGED errVars => ErrTypeOK'
  /\ HandlerTypeOK /\ UNCHANGED handlerVars => HandlerTypeOK'
<1>1. RegistryTypeOK /\ UNCHANGED registryVars => RegistryTypeOK'
  BY DEF RegistryTypeOK, registryVars
<1>2. RelayTypeOK /\ UNCHANGED relayVars => RelayTypeOK'
  BY DEF RelayTypeOK, relayVars
<1>3. MainTypeOK /\ UNCHANGED <<mainVars, envVars>> => MainTypeOK'
  BY DEF MainTypeOK, mainVars, envVars
<1>4. SinkTypeOK /\ UNCHANGED <<sinkVars, statVars>> => SinkTypeOK'
  BY DEF SinkTypeOK, sinkVars, statVars
<1>5. SubTypeOK /\ UNCHANGED subVars => SubTypeOK'
  BY DEF SubTypeOK, subVars
<1>6. ErrTypeOK /\ UNCHANGED errVars => ErrTypeOK'
  BY DEF ErrTypeOK, errVars
<1>7. HandlerTypeOK /\ UNCHANGED handlerVars => HandlerTypeOK'
  BY DEF HandlerTypeOK, handlerVars
<1> QED
  BY <1>1, <1>2, <1>3, <1>4, <1>5, <1>6, <1>7

\* The other parts of SessionInv: a step that leaves their variables alone preserves them.
LEMMA InvFrame ==
  /\ StreamsInv /\ UNCHANGED <<body, track, trackAlias, hpc, hsub>> => StreamsInv'
  /\ StartedInv /\ UNCHANGED <<byRequest, request, trackAlias, cur>> => StartedInv'
  /\ RequestInv /\ UNCHANGED <<nextID, byRequest, requestID, request, main, cur>> => RequestInv'
  /\ ConventionInv /\ UNCHANGED <<trackAlias, request, body, track, hpc, hsub>> => ConventionInv'
  /\ AliasInv /\ UNCHANGED <<trackAlias, replied, reply>> => AliasInv'
  /\ BindingInv /\ UNCHANGED <<byAlias, trackAlias, reader, okCh, main, cur>> => BindingInv'
  /\ DeliveryInv /\ UNCHANGED <<hsub, track, firstObjCh, main, cur, held>> => DeliveryInv'
  /\ OutputInv /\ UNCHANGED <<output, cur, firstObjCh, held, hpos, hpc>> => OutputInv'
  /\ ErrorInv /\ UNCHANGED <<acc, accErr, errCh, hpc, herr, result, ctxDone>> => ErrorInv'
<1>1. StreamsInv /\ UNCHANGED <<body, track, trackAlias, hpc, hsub>> => StreamsInv'
  BY DEF StreamsInv
<1>2. StartedInv /\ UNCHANGED <<byRequest, request, trackAlias, cur>> => StartedInv'
  BY DEF StartedInv, Started
<1>3. AliasInv /\ UNCHANGED <<trackAlias, replied, reply>> => AliasInv'
  BY DEF AliasInv
<1>4. BindingInv /\ UNCHANGED <<byAlias, trackAlias, reader, okCh, main, cur>> => BindingInv'
  BY DEF BindingInv, Bound
<1>5. DeliveryInv /\ UNCHANGED <<hsub, track, firstObjCh, main, cur, held>> => DeliveryInv'
  BY DEF DeliveryInv
<1>6. OutputInv /\ UNCHANGED <<output, cur, firstObjCh, held, hpos, hpc>> => OutputInv'
  BY DEF OutputInv, Behind
<1>7. ErrorInv /\ UNCHANGED <<acc, accErr, errCh, hpc, herr, result, ctxDone>> => ErrorInv'
  BY DEF ErrorInv
<1>8. RequestInv /\ UNCHANGED <<nextID, byRequest, requestID, request, main, cur>> => RequestInv'
  BY DEF RequestInv, Started
<1>9. ConventionInv /\ UNCHANGED <<trackAlias, request, body, track, hpc, hsub>> => ConventionInv'
  BY DEF ConventionInv, BoundToOwnTrack, Resolved
<1> QED
  BY <1>1, <1>2, <1>3, <1>4, <1>5, <1>6, <1>7, <1>8, <1>9

-----------------------------------------------------------------------------
(***************************************************************************)
(* Sequences, as errCh, the request streams and the output use them.       *)
(***************************************************************************)

\* Receiving from a channel takes its head.
LEMMA TailSeq ==
  ASSUME NEW S, NEW q \in Seq(S), q # <<>>
  PROVE  /\ Tail(q) \in Seq(S) /\ Len(Tail(q)) < Len(q)
         /\ Head(q) \in S /\ Head(q) = q[1] /\ 1 \in DOMAIN q
         /\ \A i \in DOMAIN Tail(q) : i + 1 \in DOMAIN q /\ Tail(q)[i] = q[i + 1]
  OBVIOUS

\* Sending, or writing, appends.
LEMMA AppendSeq ==
  ASSUME NEW S, NEW q \in Seq(S), NEW e \in S
  PROVE  /\ Append(q, e) \in Seq(S) /\ Append(q, e) # <<>> /\ Len(Append(q, e)) = Len(q) + 1
         /\ \A i \in DOMAIN Append(q, e) :
              Append(q, e)[i] = e \/ (i \in DOMAIN q /\ Append(q, e)[i] = q[i])
  OBVIOUS

-----------------------------------------------------------------------------
(***************************************************************************)
(* Handlers only move forward in their streams: what was behind a handler  *)
(* stays behind it.                                                        *)
(***************************************************************************)
HandlersAdvance ==
  \A s \in Streams :
    /\ hpos[s] <= hpos'[s]
    /\ hpc'[s] = "write" => hpc[s] = "write" \/ hpos[s] < hpos'[s]

\* Behind in the next state, for a payload of this one.
BehindNext(p) ==
  /\ p.n <= hpos'[p.stream]
  /\ hpc'[p.stream] = "write" => p.n < hpos'[p.stream]

\* Reading on (SubgroupObjectReader.Next) keeps a handler ahead of what it delivered.
LEMMA BehindKept ==
  ASSUME HandlerTypeOK, HandlerTypeOK', HandlersAdvance
  PROVE  \A p \in Payloads : Behind(p) => BehindNext(p)
BY DEF HandlerTypeOK, HandlersAdvance, Payloads, Behind, BehindNext

\* A step that advances handlers and writes nothing preserves OutputInv.
LEMMA OutputKept ==
  ASSUME TypeOK, HandlerTypeOK', OutputInv, HandlersAdvance,
         UNCHANGED <<output, cur, firstObjCh, held>>
  PROVE  OutputInv'
<1>1. \A p \in Payloads : Behind(p) => BehindNext(p)
  BY BehindKept
<1>2. \A i \in DOMAIN output : BehindNext(output[i])
  BY <1>1 DEF OutputInv, SinkTypeOK
<1>3. \A r \in Roles : firstObjCh[r] # NoPayload => BehindNext(firstObjCh[r])
  BY <1>1 DEF OutputInv, SubTypeOK
<1>4. held # NoPayload => BehindNext(held)
  BY <1>1 DEF OutputInv, MainTypeOK
<1> QED
  BY <1>2, <1>3, <1>4 DEF OutputInv, Behind, BehindNext

-----------------------------------------------------------------------------
(***************************************************************************)
(* The heart of the argument: a data stream's alias leads to its own track *)
(* or to the track just being subscribed to, never to another one.         *)
(***************************************************************************)
LEMMA LookupFinds ==
  ASSUME SessionInv, NEW s \in Streams, body[s].kind = "subgroup",
         NEW sub, sub = lookupDelivery(trackAlias[track[s]])
  PROVE  /\ sub \in Roles \cup {NoSub}
         /\ sub = "init"  => cur = "media" \/ (cur = "init" /\ track[s] = "init")
         /\ sub = "media" => cur = "media" /\ track[s] = "media"
         /\ main = "loop" => sub = track[s]
<1> DEFINE a == trackAlias[track[s]]
<1>1. track[s] \in Roles /\ a \in Ids /\ a # NoId
  BY IdsAssumption DEF StreamsInv, NoId
<1>2. Started(track[s])
  BY <1>1 DEF StartedInv
<1>3. byAlias[a] \in Roles \cup {NoSub} /\ byRequest[a] \in Roles \cup {NoSub}
  BY <1>1 DEF RegistryTypeOK
<1>4. CASE byAlias[a] # NoSub
  <2>1. byAlias[a] = track[s]
    BY <1>1, <1>3, <1>4 DEF BindingInv, AliasInv
  <2> QED
    BY <1>2, <1>4, <2>1, <1>1 DEF lookupDelivery, Started
<1>5. CASE byAlias[a] = NoSub
  <2>1. ~Bound(track[s])
    BY <1>1, <1>5 DEF Bound, Roles, NoSub
  <2>2. /\ main # "loop"
        /\ track[s] = "catalog" => cur = "catalog"
        /\ track[s] = "init" => cur # "media"
    BY <1>1, <2>1 DEF BindingInv, Roles
  <2>3. sub # NoSub => Started(sub)
    BY <1>1, <1>5 DEF lookupDelivery, StartedInv
  <2> QED
    BY <1>1, <1>2, <1>3, <1>5, <2>2, <2>3 DEF Started, Roles, lookupDelivery, NoSub
<1> QED
  BY <1>4, <1>5

(***************************************************************************)
(* When the relay uses the request ID as the alias, an unbound alias is    *)
(* found in the request map.                                               *)
(***************************************************************************)
LEMMA LookupByConvention ==
  ASSUME SessionInv, MatchAlias, NEW s \in Streams, body[s].kind = "subgroup"
  PROVE  lookupDelivery(trackAlias[track[s]]) = track[s]
<1> DEFINE a == trackAlias[track[s]]
<1>1. track[s] \in Roles /\ a \in Ids /\ a # NoId
  BY IdsAssumption DEF StreamsInv, NoId
<1>2. byRequest[a] = track[s]
  BY <1>1 DEF ConventionInv, RequestInv
<1>3. byAlias[a] # NoSub => byAlias[a] = track[s]
  BY <1>1 DEF BindingInv, AliasInv, RegistryTypeOK
<1> QED
  BY <1>2, <1>3 DEF lookupDelivery

-----------------------------------------------------------------------------
(***************************************************************************)
(* Writes that fail or are cut off.                                        *)
(***************************************************************************)

\* What is being written: objects of the media track, or the init segment.
LEMMA InWritePayloads ==
  ASSUME SessionInv, NEW p \in InWrite
  PROVE  /\ p \in Payloads
         /\ \/ p.track = "media" /\ cur = "media"
            \/ p.track = "init" /\ p = held /\ main = "use" /\ cur = "init"
<1>1. CASE p = held /\ main = "use" /\ cur = "init"
  BY <1>1 DEF DeliveryInv, MainTypeOK
<1>2. ASSUME NEW s \in Streams, hpc[s] = "write", p = Payload(s)
      PROVE  p \in Payloads /\ p.track = "media" /\ cur = "media"
  BY <1>2 DEF StreamsInv, DeliveryInv, HandlerTypeOK, Payload, Payloads
<1> QED
  BY <1>1, <1>2 DEF InWrite

\* A part of a payload that is put out (Sink.Write) is one of a payload.
LEMMA TearTypeOK ==
  ASSUME SinkTypeOK, UNCHANGED statVars, NEW p \in Payloads, Tear(p)
  PROVE  SinkTypeOK'
<1>1. Len(output) \in Nat
  BY DEF SinkTypeOK
<1>2. [after |-> Len(output), of |-> p] \in [after : Nat, of : Payloads]
  BY <1>1
<1> QED
  BY <1>2 DEF SinkTypeOK, Tear

\* The end of the process (Run returns, or a panic) leaves the sink's types alone.
LEMMA CutOffTypeOK ==
  ASSUME SessionInv, UNCHANGED statVars, CutOff
  PROVE  SinkTypeOK' /\ UNCHANGED <<output, sink, child>>
<1>1. CASE UNCHANGED sinkVars
  BY <1>1, TypeFrame
<1>2. CASE \E p \in InWrite : Tear(p)
  <2>1. PICK p \in InWrite : Tear(p)
    BY <1>2
  <2>2. SinkTypeOK'
    BY <2>1, InWritePayloads, TearTypeOK
  <2> QED
    BY <2>1, <2>2 DEF Tear
<1> QED
  BY <1>1, <1>2 DEF CutOff

-----------------------------------------------------------------------------
\* Every step of the main goroutine (Run, bootstrapFromCatalog) preserves the invariant.
LEMMA MainKeepsInv ==
  ASSUME SessionInv, MainStep PROVE SessionInv'
<1>1. CASE Dial
  <2>1. UNCHANGED <<registryVars, relayVars, sinkVars, cur, held, ctxDone, subVars,
                    errVars, handlerVars, statVars>>
    BY <1>1 DEF Dial, GoTo, Return, CallErrors
  <2>2. MainTypeOK'
    BY <1>1, <2>1 DEF MainTypeOK, MainStates, Dial, GoTo, Return, CallErrors
  <2>3. BindingInv'
    BY <1>1, <2>1 DEF BindingInv, Bound, Dial, GoTo, Return, CallErrors
  <2>4. DeliveryInv'
    BY <1>1, <2>1 DEF DeliveryInv, Dial, GoTo, Return, CallErrors
  <2>5. RequestInv'
    BY <1>1, <2>1 DEF RequestInv, Started, Dial, GoTo, Return, CallErrors
  <2>6. ErrorInv'
    BY <1>1, <2>1 DEF ErrorInv, Dial, GoTo, Return, CallErrors
  <2> QED
    BY <2>1, <2>2, <2>3, <2>4, <2>5, <2>6, TypeFrame, InvFrame
<1>2. CASE OpenOutput
  <2>1. UNCHANGED <<registryVars, relayVars, output, torn, cur, held, envVars, subVars, accErr,
                    errCh, handlerVars, statVars>>
    BY <1>2 DEF OpenOutput, GoTo, Return, CallErrors, NewSink
  <2>2. MainTypeOK'
    BY <1>2, <2>1 DEF MainTypeOK, MainStates, OpenOutput, GoTo, Return, CallErrors, NewSink
  <2>3. SinkTypeOK'
    BY <1>2, <2>1 DEF SinkTypeOK, OpenOutput, GoTo, Return, CallErrors, NewSink
  <2>4. ErrTypeOK'
    BY <1>2, <2>1 DEF ErrTypeOK, OpenOutput, GoTo, Return, CallErrors, NewSink
  <2>5. BindingInv'
    BY <1>2, <2>1 DEF BindingInv, Bound, OpenOutput, GoTo, Return, CallErrors, NewSink
  <2>6. DeliveryInv'
    BY <1>2, <2>1 DEF DeliveryInv, OpenOutput, GoTo, Return, CallErrors, NewSink
  <2>7. RequestInv'
    BY <1>2, <2>1 DEF RequestInv, Started, OpenOutput, GoTo, Return, CallErrors, NewSink
  <2>8. ErrorInv'
    BY <1>2, <2>1 DEF ErrorInv, OpenOutput, GoTo, Return, CallErrors, NewSink
  <2> QED
    BY <2>1, <2>2, <2>3, <2>4, <2>5, <2>6, <2>7, <2>8, TypeFrame, InvFrame
<1>3. CASE SendClientSetup
  <2>1. UNCHANGED <<registryVars, relayVars, sinkVars, cur, held, envVars, subVars,
                    errVars, handlerVars, statVars>>
    BY <1>3 DEF SendClientSetup, GoTo, Return
  <2>2. MainTypeOK'
    BY <1>3, <2>1 DEF MainTypeOK, MainStates, SendClientSetup, GoTo, Return
  <2>3. BindingInv'
    BY <1>3, <2>1 DEF BindingInv, Bound, SendClientSetup, GoTo, Return
  <2>4. DeliveryInv'
    BY <1>3, <2>1 DEF DeliveryInv, SendClientSetup, GoTo, Return
  <2>5. RequestInv'
    BY <1>3, <2>1 DEF RequestInv, Started, SendClientSetup, GoTo, Return
  <2>6. ErrorInv'
    BY <1>3, <2>1 DEF ErrorInv, SendClientSetup, GoTo, Return
  <2> QED
    BY <2>1, <2>2, <2>3, <2>4, <2>5, <2>6, TypeFrame, InvFrame
<1>4. CASE WaitPeerSetup
  <2>1. UNCHANGED <<registryVars, relayVars, sinkVars, cur, held, envVars, subVars,
                    errVars, handlerVars, statVars>>
    BY <1>4 DEF WaitPeerSetup, GoTo, Return, DoneCase
  <2>2. MainTypeOK'
    BY <1>4, <2>1 DEF MainTypeOK, MainStates, WaitPeerSetup, GoTo, Return, DoneCase
  <2>3. BindingInv'
    BY <1>4, <2>1 DEF BindingInv, Bound, WaitPeerSetup, GoTo, Return, DoneCase
  <2>4. DeliveryInv'
    BY <1>4, <2>1 DEF DeliveryInv, WaitPeerSetup, GoTo, Return, DoneCase
  <2>5. RequestInv'
    BY <1>4, <2>1 DEF RequestInv, Started, WaitPeerSetup, GoTo, Return, DoneCase
  <2>6. ErrorInv'
    BY <1>4, <2>1 DEF ErrorInv, WaitPeerSetup, GoTo, Return, DoneCase
  <2> QED
    BY <2>1, <2>2, <2>3, <2>4, <2>5, <2>6, TypeFrame, InvFrame
<1>5. CASE NewTrackSubscription
  <2>1. UNCHANGED <<byAlias, relayVars, sinkVars, cur, held, result, envVars, okCh,
                    firstObjCh, gotFirst, reader, errVars, handlerVars, statVars>>
    BY <1>5 DEF NewTrackSubscription, GoTo, allocRequestID, register
  <2>2. RegistryTypeOK'
    BY <1>5, <2>1 DEF RegistryTypeOK, MainTypeOK, NewTrackSubscription, GoTo,
         allocRequestID, register
  <2>3. MainTypeOK'
    BY <1>5, <2>1 DEF MainTypeOK, MainStates, NewTrackSubscription, GoTo, allocRequestID,
         register
  <2>4. SubTypeOK'
    BY <1>5, <2>1 DEF SubTypeOK, NewTrackSubscription, GoTo, allocRequestID, register
  <2>5. StartedInv'
    BY <1>5, <2>1 DEF StartedInv, Started, NewTrackSubscription, GoTo, allocRequestID,
         register
  <2>6. BindingInv'
    BY <1>5, <2>1 DEF BindingInv, Bound, NewTrackSubscription, GoTo, allocRequestID,
         register
  <2>7. DeliveryInv'
    BY <1>5, <2>1 DEF DeliveryInv, NewTrackSubscription, GoTo, allocRequestID, register
  <2>8. RequestInv'
    <3>1. PICK id \in Ids : /\ id = nextID /\ nextID' = nextID + 2
                           /\ byRequest' = [byRequest EXCEPT ![id] = cur]
                           /\ requestID' = [requestID EXCEPT ![cur] = id]
      BY <1>5 DEF NewTrackSubscription, allocRequestID, register
    <3>2. requestID[cur] = NoId /\ main' = "sendSub" /\ cur \in Roles /\ id # NoId /\ id \in Nat
      BY <1>5, <3>1, IdsAssumption DEF NewTrackSubscription, GoTo, RequestInv, MainTypeOK, NoId
    <3>3. \A i \in Ids : byRequest'[i] # NoSub => requestID'[byRequest'[i]] = i /\ i < nextID'
      BY <3>1, <3>2, IdsAssumption DEF RequestInv, RegistryTypeOK, SubTypeOK, NoId
    <3>4. \A r \in Roles : requestID'[r] # NoId => byRequest'[requestID'[r]] = r
      <4> SUFFICES ASSUME NEW r \in Roles, requestID'[r] # NoId PROVE byRequest'[requestID'[r]] = r
        OBVIOUS
      <4>1. CASE r = cur
        BY <3>1, <3>2, <4>1 DEF RegistryTypeOK, SubTypeOK
      <4>2. CASE r # cur
        <5>1. requestID'[r] = requestID[r] /\ requestID[r] \in Ids
          BY <3>1, <4>2 DEF SubTypeOK
        <5>2. byRequest[requestID[r]] = r /\ r # NoSub
          BY <5>1 DEF RequestInv, Roles, NoSub
        <5>3. requestID[r] # id
          BY <3>1, <3>2, <5>1, <5>2 DEF RequestInv
        <5> QED
          BY <3>1, <5>1, <5>2, <5>3 DEF RegistryTypeOK
      <4> QED
        BY <4>1, <4>2
    <3>5. \A r \in Roles : requestID'[r] # NoId => Started(r)
      BY <3>1, <3>2 DEF RequestInv, SubTypeOK, Started
    <3>6. \A r \in Roles : request[r] # NoId => request[r] = requestID'[r]
      BY <3>1, <3>2 DEF RequestInv, SubTypeOK
    <3> QED
      BY <2>1, <3>2, <3>3, <3>4, <3>5, <3>6 DEF RequestInv, Started
  <2> QED
    BY <2>1, <2>2, <2>3, <2>4, <2>5, <2>6, <2>7, <2>8, TypeFrame, InvFrame
<1>6. CASE SendSubscribe
  <2>1. UNCHANGED <<registryVars, trackAlias, replied, reply, track, body, sinkVars, cur,
                    held, envVars, requestID, okCh, firstObjCh, gotFirst, errVars,
                    handlerVars, statVars>>
    BY <1>6 DEF SendSubscribe, GoTo, Return, CallErrors
  <2>2. RelayTypeOK'
    BY <1>6, <2>1 DEF RelayTypeOK, SubTypeOK, MainTypeOK, SendSubscribe, GoTo, Return,
         CallErrors
  <2>3. MainTypeOK'
    BY <1>6, <2>1 DEF MainTypeOK, MainStates, SendSubscribe, GoTo, Return, CallErrors
  <2>4. SubTypeOK'
    BY <1>6, <2>1 DEF SubTypeOK, SendSubscribe, GoTo, Return, CallErrors
  <2>5. StartedInv'
    BY <1>6, <2>1 DEF StartedInv, Started, RelayTypeOK, MainTypeOK, SendSubscribe, GoTo,
         Return, CallErrors
  <2>6. BindingInv'
    BY <1>6, <2>1 DEF BindingInv, Bound, SubTypeOK, MainTypeOK, Roles, SendSubscribe, GoTo,
         Return, CallErrors
  <2>7. DeliveryInv'
    BY <1>6, <2>1 DEF DeliveryInv, SendSubscribe, GoTo, Return, CallErrors
  <2>8. RequestInv'
    <3>1. \A r \in Roles : request'[r] \in {request[r], requestID[r]}
      BY <1>6 DEF SendSubscribe, RelayTypeOK
    <3>2. main' \in {"waitOK", "closeSink"}
      BY <1>6 DEF SendSubscribe, GoTo, Return
    <3> QED
      BY <2>1, <3>1, <3>2 DEF RequestInv, Started
  <2>9. ConventionInv'
    <3>1. \A r \in Roles : request'[r] \in {request[r], requestID[r]}
      BY <1>6 DEF SendSubscribe, RelayTypeOK
    <3> QED
      BY <2>1, <3>1 DEF ConventionInv, RequestInv, BoundToOwnTrack, Resolved
  <2>10. ErrorInv'
    BY <1>6, <2>1 DEF ErrorInv, SendSubscribe, GoTo, Return, CallErrors
  <2> QED
    BY <2>1, <2>2, <2>3, <2>4, <2>5, <2>6, <2>7, <2>8, <2>9, <2>10, TypeFrame, InvFrame
<1>7. CASE WaitSubscribeOK
  <2>1. UNCHANGED <<registryVars, relayVars, sinkVars, cur, held, envVars, requestID,
                    firstObjCh, gotFirst, reader, errVars, handlerVars, statVars>>
    BY <1>7 DEF WaitSubscribeOK, GoTo, Return, DoneCase
  <2>2. MainTypeOK'
    BY <1>7, <2>1 DEF MainTypeOK, MainStates, WaitSubscribeOK, GoTo, Return, DoneCase
  <2>3. SubTypeOK'
    BY <1>7, <2>1 DEF SubTypeOK, WaitSubscribeOK, GoTo, Return, DoneCase
  <2>4. BindingInv'
    BY <1>7, <2>1 DEF BindingInv, Bound, SubTypeOK, MainTypeOK, Roles, WaitSubscribeOK,
         GoTo, Return, DoneCase
  <2>5. DeliveryInv'
    BY <1>7, <2>1 DEF DeliveryInv, WaitSubscribeOK, GoTo, Return, DoneCase
  <2>6. RequestInv'
    BY <1>7, <2>1 DEF RequestInv, Started, WaitSubscribeOK, GoTo, Return, DoneCase
  <2>7. ErrorInv'
    BY <1>7, <2>1 DEF ErrorInv, WaitSubscribeOK, GoTo, Return, DoneCase
  <2> QED
    BY <2>1, <2>2, <2>3, <2>4, <2>5, <2>6, <2>7, TypeFrame, InvFrame
<1>8. CASE WaitFirstObject
  <2>1. UNCHANGED <<registryVars, relayVars, sinkVars, cur, envVars, requestID, okCh,
                    gotFirst, reader, errVars, handlerVars, statVars>>
    BY <1>8 DEF WaitFirstObject, Return, DoneCase
  <2>2. MainTypeOK'
    BY <1>8, <2>1 DEF MainTypeOK, MainStates, SubTypeOK, WaitFirstObject, Return, DoneCase
  <2>3. SubTypeOK'
    BY <1>8, <2>1 DEF SubTypeOK, WaitFirstObject, Return, DoneCase
  <2>4. BindingInv'
    BY <1>8, <2>1 DEF BindingInv, Bound, WaitFirstObject, Return, DoneCase
  <2>5. DeliveryInv'
    BY <1>8, <2>1 DEF DeliveryInv, SubTypeOK, MainTypeOK, BindingInv, Roles,
         WaitFirstObject, Return, DoneCase
  <2>6. OutputInv'
    BY <1>8, <2>1 DEF OutputInv, Behind, SubTypeOK, MainTypeOK, WaitFirstObject, Return,
         DoneCase
  <2>7. RequestInv'
    BY <1>8, <2>1 DEF RequestInv, Started, WaitFirstObject, Return, DoneCase
  <2>8. ErrorInv'
    BY <1>8, <2>1 DEF ErrorInv, WaitFirstObject, Return, DoneCase
  <2> QED
    BY <2>1, <2>2, <2>3, <2>4, <2>5, <2>6, <2>7, <2>8, TypeFrame, InvFrame
<1>9. CASE UseCatalog
  <2>1. UNCHANGED <<registryVars, relayVars, sinkVars, held, envVars, subVars, errVars,
                    handlerVars, statVars>>
    BY <1>9 DEF UseCatalog, Return
  <2>2. MainTypeOK'
    BY <1>9, <2>1 DEF MainTypeOK, MainStates, Roles, UseCatalog, Return
  <2>3. StartedInv'
    BY <1>9, <2>1 DEF StartedInv, Started, UseCatalog, Return
  <2>4. BindingInv'
    BY <1>9, <2>1 DEF BindingInv, Bound, UseCatalog, Return
  <2>5. DeliveryInv'
    BY <1>9, <2>1 DEF DeliveryInv, UseCatalog, Return
  <2>6. OutputInv'
    BY <1>9, <2>1 DEF OutputInv, Behind, UseCatalog, Return
  <2>7. RequestInv'
    BY <1>9, <2>1 DEF RequestInv, Started, Roles, UseCatalog, Return
  <2>8. ErrorInv'
    BY <1>9, <2>1 DEF ErrorInv, UseCatalog, Return
  <2> QED
    BY <2>1, <2>2, <2>3, <2>4, <2>5, <2>6, <2>7, <2>8, TypeFrame, InvFrame
<1>10. CASE WriteInitSegment
  <2>1. UNCHANGED <<registryVars, relayVars, sink, child, held, envVars, subVars, errVars,
                    handlerVars, statVars>>
    BY <1>10 DEF WriteInitSegment, Return, Write, WriteFails, Tear
  <2>2. MainTypeOK'
    BY <1>10, <2>1 DEF MainTypeOK, MainStates, Roles, WriteInitSegment, Return
  <2>3. SinkTypeOK'
    <3>1. held \in Payloads
      BY <1>10 DEF WriteInitSegment, DeliveryInv, MainTypeOK
    <3>2. CASE Write(held)
      BY <2>1, <3>1, <3>2, AppendSeq DEF Write, SinkTypeOK
    <3>3. CASE Tear(held)
      BY <2>1, <3>1, <3>3, TearTypeOK
    <3>4. CASE UNCHANGED sinkVars
      BY <2>1, <3>4, TypeFrame
    <3> QED
      BY <1>10, <3>2, <3>3, <3>4 DEF WriteInitSegment, WriteFails
  <2>4. StartedInv'
    BY <1>10, <2>1 DEF StartedInv, Started, WriteInitSegment, Return
  <2>5. BindingInv'
    BY <1>10, <2>1 DEF BindingInv, Bound, WriteInitSegment, Return
  <2>6. DeliveryInv'
    BY <1>10, <2>1 DEF DeliveryInv, WriteInitSegment, Return
  <2>7. OutputInv'
    <3>1. held \in Payloads /\ held # NoPayload /\ cur = "init"
      BY <1>10 DEF WriteInitSegment, DeliveryInv, MainTypeOK
    <3>2. CASE UNCHANGED <<output, cur>>
      BY <2>1, <3>2 DEF OutputInv, Behind
    <3>3. CASE output' = Append(output, held) /\ cur' = "media"
      <4>1. output' # <<>> /\ \A i \in DOMAIN output' : output'[i] = held \/
              (i \in DOMAIN output /\ output'[i] = output[i])
        BY <3>1, <3>3, AppendSeq DEF SinkTypeOK
      <4> QED
        BY <2>1, <3>1, <3>3, <4>1 DEF OutputInv, Behind
    <3> QED
      BY <1>10, <3>2, <3>3 DEF WriteInitSegment, Write, WriteFails, Tear, Return
  <2>8. RequestInv'
    BY <1>10, <2>1 DEF RequestInv, Started, Roles, WriteInitSegment, Return
  <2>9. ErrorInv'
    BY <1>10, <2>1 DEF ErrorInv, WriteInitSegment, Return
  <2> QED
    BY <2>1, <2>2, <2>3, <2>4, <2>5, <2>6, <2>7, <2>8, <2>9, TypeFrame, InvFrame
<1>11. CASE CountInitSegment
  <2>1. UNCHANGED <<registryVars, relayVars, sinkVars, cur, held, result, envVars, subVars,
                    errVars, handlerVars, peerSetupSeen, streamResets>>
    BY <1>11 DEF CountInitSegment, GoTo
  <2>2. MainTypeOK'
    BY <1>11, <2>1 DEF MainTypeOK, MainStates, CountInitSegment, GoTo
  <2>3. SinkTypeOK'
    BY <1>11, <2>1 DEF SinkTypeOK, CountInitSegment, CountPayload
  <2>4. BindingInv'
    BY <1>11, <2>1 DEF BindingInv, Bound, CountInitSegment, GoTo
  <2>5. DeliveryInv'
    BY <1>11, <2>1 DEF DeliveryInv, CountInitSegment, GoTo
  <2>6. RequestInv'
    BY <1>11, <2>1 DEF RequestInv, Started, CountInitSegment, GoTo
  <2> QED
    BY <2>1, <2>2, <2>3, <2>4, <2>5, <2>6, TypeFrame, InvFrame
<1>12. CASE LoopDone
  <2>1. UNCHANGED <<registryVars, relayVars, sinkVars, cur, held, envVars, subVars,
                    errVars, handlerVars, statVars>>
    BY <1>12 DEF LoopDone, Return
  <2>2. MainTypeOK'
    BY <1>12, <2>1 DEF MainTypeOK, MainStates, LoopDone, Return
  <2>3. BindingInv'
    BY <1>12, <2>1 DEF BindingInv, Bound, LoopDone, Return
  <2>4. DeliveryInv'
    BY <1>12, <2>1 DEF DeliveryInv, LoopDone, Return
  <2>5. RequestInv'
    BY <1>12, <2>1 DEF RequestInv, Started, LoopDone, Return
  <2>6. ErrorInv'
    BY <1>12, <2>1 DEF ErrorInv, LoopDone, Return
  <2> QED
    BY <2>1, <2>2, <2>3, <2>4, <2>5, <2>6, TypeFrame, InvFrame
<1>13. CASE LoopError
  <2>1. UNCHANGED <<registryVars, relayVars, sinkVars, cur, held, envVars, subVars, acc,
                    accErr, handlerVars, peerSetupSeen, bytesWritten>>
    BY <1>13 DEF LoopError, Return, LoopResult
  <2>2. MainTypeOK'
    <3>1. Head(errCh) \in Errors
      BY <1>13, TailSeq DEF LoopError, ErrTypeOK
    <3> QED
      BY <1>13, <2>1, <3>1 DEF LoopError, MainTypeOK, MainStates, Errors, Return, LoopResult
  <2>3. SinkTypeOK'
    BY <1>13, <2>1 DEF SinkTypeOK, LoopError, Return, LoopResult
  <2>4. ErrTypeOK'
    <3>1. errCh' \in Seq(Errors) /\ Len(errCh') < Len(errCh)
      BY <1>13, TailSeq DEF LoopError, ErrTypeOK
    <3> QED
      BY <2>1, <3>1, SessionAssumption DEF ErrTypeOK
  <2>5. BindingInv'
    BY <1>13, <2>1 DEF BindingInv, Bound, LoopError, Return, LoopResult
  <2>6. DeliveryInv'
    BY <1>13, <2>1 DEF DeliveryInv, LoopError, Return, LoopResult
  <2>7. RequestInv'
    BY <1>13, <2>1 DEF RequestInv, Started, LoopError, Return, LoopResult
  <2>8. ErrorInv'
    <3>1. Head(errCh) \in Errors /\ Head(errCh) = errCh[1] /\ 1 \in DOMAIN errCh
      BY <1>13, TailSeq DEF LoopError, ErrTypeOK
    <3>2. \A i \in DOMAIN errCh' : i + 1 \in DOMAIN errCh /\ errCh'[i] = errCh[i + 1]
      BY <1>13, TailSeq DEF LoopError, ErrTypeOK
    <3>3. result' \in {"nil", "cancelled"} => ctxDone
      BY <1>13, <2>1, <3>1 DEF LoopError, ErrorInv, Errors, Return, LoopResult
    <3> QED
      BY <2>1, <3>2, <3>3 DEF ErrorInv
  <2> QED
    BY <2>1, <2>2, <2>3, <2>4, <2>5, <2>6, <2>7, <2>8, TypeFrame, InvFrame
<1>14. CASE CloseSink
  <2>1. UNCHANGED <<registryVars, relayVars, output, torn, child, cur, held, result, envVars,
                    subVars, errVars, handlerVars, statVars>>
    BY <1>14 DEF CloseSink, GoTo, CloseWriter
  <2>2. MainTypeOK'
    BY <1>14, <2>1 DEF MainTypeOK, MainStates, CloseSink, GoTo, CloseWriter
  <2>3. SinkTypeOK'
    BY <1>14, <2>1 DEF SinkTypeOK, CloseSink, GoTo, CloseWriter
  <2>4. BindingInv'
    BY <1>14, <2>1 DEF BindingInv, Bound, CloseSink, GoTo, CloseWriter
  <2>5. DeliveryInv'
    BY <1>14, <2>1 DEF DeliveryInv, CloseSink, GoTo, CloseWriter
  <2>6. RequestInv'
    BY <1>14, <2>1 DEF RequestInv, Started, CloseSink, GoTo, CloseWriter
  <2> QED
    BY <2>1, <2>2, <2>3, <2>4, <2>5, <2>6, TypeFrame, InvFrame
<1>15. CASE ReapChild
  <2>1. UNCHANGED <<registryVars, relayVars, sinkVars, cur, held, result, envVars, subVars,
                    errVars, handlerVars, statVars>>
    BY <1>15 DEF ReapChild, GoTo
  <2>2. MainTypeOK'
    BY <1>15, <2>1 DEF MainTypeOK, MainStates, ReapChild, GoTo
  <2>3. BindingInv'
    BY <1>15, <2>1 DEF BindingInv, Bound, ReapChild, GoTo
  <2>4. DeliveryInv'
    BY <1>15, <2>1 DEF DeliveryInv, ReapChild, GoTo
  <2>5. RequestInv'
    BY <1>15, <2>1 DEF RequestInv, Started, ReapChild, GoTo
  <2> QED
    BY <2>1, <2>2, <2>3, <2>4, <2>5, TypeFrame, InvFrame
<1>16. CASE CloseConn
  <2>1. UNCHANGED <<registryVars, relayVars, cur, held, result, ctxDone, subVars, errVars,
                    handlerVars, statVars>>
    BY <1>16 DEF CloseConn, GoTo
  <2>2. MainTypeOK'
    BY <1>16, <2>1 DEF MainTypeOK, MainStates, CloseConn, GoTo
  <2>3. SinkTypeOK' /\ output' = output
    BY <1>16, <2>1, CutOffTypeOK DEF CloseConn
  <2>4. BindingInv'
    BY <1>16, <2>1 DEF BindingInv, Bound, CloseConn, GoTo
  <2>5. DeliveryInv'
    BY <1>16, <2>1 DEF DeliveryInv, CloseConn, GoTo
  <2>6. RequestInv'
    BY <1>16, <2>1 DEF RequestInv, Started, CloseConn, GoTo
  <2> QED
    BY <2>1, <2>2, <2>3, <2>4, <2>5, <2>6, TypeFrame, InvFrame
<1> QED
  BY <1>1, <1>2, <1>3, <1>4, <1>5, <1>6, <1>7, <1>8, <1>9, <1>10, <1>11, <1>12, <1>13, <1>14,
     <1>15, <1>16 DEF MainStep

-----------------------------------------------------------------------------
\* Every step of a request stream's reader (readRequestStream) preserves it.
LEMMA ReadersKeepInv ==
  ASSUME SessionInv, NEW r \in Roles, ReaderStep(r) PROVE SessionInv'
<1>1. CASE ReadMessage(r)
  <2>1. UNCHANGED <<nextID, byRequest, request, trackAlias, replied, track, body, sinkVars,
                    mainVars, envVars, requestID, firstObjCh, gotFirst, errVars,
                    handlerVars, statVars>>
    BY <1>1 DEF ReadMessage, Offer, bindAlias
  <2>2. RegistryTypeOK'
    BY <1>1, <2>1 DEF RegistryTypeOK, ReadMessage, Offer, bindAlias
  <2>3. RelayTypeOK'
    BY <1>1, <2>1 DEF RelayTypeOK, ReadMessage, Offer, bindAlias
  <2>4. SubTypeOK'
    BY <1>1, <2>1 DEF SubTypeOK, ReadMessage, Offer, bindAlias
  <2>5. AliasInv'
    <3>1. reply[r] \in Seq(Messages) /\ reply[r] # <<>>
      BY <1>1 DEF ReadMessage, RelayTypeOK
    <3>2. \A i \in DOMAIN Tail(reply[r]) :
            i + 1 \in DOMAIN reply[r] /\ Tail(reply[r])[i] = reply[r][i + 1]
      BY <3>1, TailSeq
    <3>3. reply'[r] = Tail(reply[r]) /\ \A q \in Roles \ {r} : reply'[q] = reply[q]
      BY <1>1 DEF ReadMessage, RelayTypeOK
    <3>4. \A i \in DOMAIN reply'[r] : reply'[r][i] = "ok" => trackAlias[r] \in Ids
      BY <3>2, <3>3 DEF AliasInv
    <3>5. \A q \in Roles \ {r} : \A i \in DOMAIN reply'[q] :
            reply'[q][i] = "ok" => trackAlias[q] \in Ids
      BY <3>3 DEF AliasInv
    <3> QED
      BY <2>1, <3>4, <3>5 DEF AliasInv
  <2>6. BindingInv'
    <3>1. reply[r] \in Seq(Messages) /\ reply[r] # <<>>
      BY <1>1 DEF ReadMessage, RelayTypeOK
    <3>2. Head(reply[r]) = reply[r][1] /\ 1 \in DOMAIN reply[r]
      BY <3>1, TailSeq
    <3>3. CASE Head(reply[r]) = "ok"
      <4>0. byAlias' = [byAlias EXCEPT ![trackAlias[r]] = r]
        BY <1>1, <3>3 DEF ReadMessage, bindAlias
      <4>1. trackAlias[r] \in Ids /\ trackAlias[r] # NoId
        BY <3>2, <3>3, IdsAssumption DEF AliasInv, NoId
      <4>2. Bound(r)'
        BY <2>1, <4>0, <4>1 DEF Bound, RegistryTypeOK
      <4>3. \A q \in Roles : Bound(q) => Bound(q)'
        BY <2>1, <4>0, <4>1, <4>2 DEF Bound, RegistryTypeOK, AliasInv
      <4>4. \A a \in Ids : byAlias'[a] # NoSub => trackAlias[byAlias'[a]] = a
        BY <4>0, <4>1 DEF BindingInv, RegistryTypeOK
      <4>5. okCh' = okCh /\ reader' = [reader EXCEPT ![r] = "bound"]
        BY <1>1, <3>3 DEF ReadMessage
      <4> QED
        BY <2>1, <4>2, <4>3, <4>4, <4>5 DEF BindingInv, SubTypeOK, MainTypeOK, Roles
    <3>4. CASE Head(reply[r]) # "ok"
      <4>0. byAlias' = byAlias
        BY <1>1, <3>4 DEF ReadMessage
      <4>1. \A q \in Roles : reader'[q] = "bound" \/ okCh'[q] = "ok"
                               => reader[q] = "bound" \/ okCh[q] = "ok"
        BY <1>1, <3>4, <2>1 DEF ReadMessage, SubTypeOK, Offer
      <4> QED
        BY <2>1, <4>0, <4>1 DEF BindingInv, Bound
    <3> QED
      BY <3>3, <3>4
  <2> QED
    BY <2>1, <2>2, <2>3, <2>4, <2>5, <2>6, TypeFrame, InvFrame
<1>2. CASE NotifyOK(r)
  <2>1. UNCHANGED <<registryVars, relayVars, sinkVars, mainVars, envVars, requestID,
                    firstObjCh, gotFirst, errVars, handlerVars, statVars>>
    BY <1>2 DEF NotifyOK, Offer
  <2>2. SubTypeOK'
    BY <1>2, <2>1 DEF SubTypeOK, NotifyOK, Offer
  <2>3. BindingInv'
    BY <1>2, <2>1 DEF BindingInv, Bound, NotifyOK, Offer
  <2> QED
    BY <2>1, <2>2, <2>3, TypeFrame, InvFrame
<1>3. CASE ReaderEnds(r)
  <2>1. UNCHANGED <<registryVars, relayVars, sinkVars, mainVars, envVars, requestID, okCh,
                    firstObjCh, gotFirst, errVars, handlerVars, statVars>>
    BY <1>3 DEF ReaderEnds
  <2>2. SubTypeOK'
    BY <1>3, <2>1 DEF SubTypeOK, ReaderEnds
  <2>3. BindingInv'
    BY <1>3, <2>1 DEF BindingInv, Bound, ReaderEnds
  <2> QED
    BY <2>1, <2>2, <2>3, TypeFrame, InvFrame
<1> QED
  BY <1>1, <1>2, <1>3 DEF ReaderStep

-----------------------------------------------------------------------------
\* Every step of the accept loops (acceptUniStreams, acceptPeerBidiStreams) preserves it.
LEMMA AcceptorsKeepInv ==
  ASSUME SessionInv, NEW k \in Acceptors, AcceptorStep(k) PROVE SessionInv'
<1>1. CASE AcceptFails(k)
  <2>1. UNCHANGED <<registryVars, relayVars, sinkVars, mainVars, envVars, subVars, errCh,
                    handlerVars, statVars>>
    BY <1>1 DEF AcceptFails, Errors
  <2>2. ErrTypeOK'
    BY <1>1, <2>1 DEF ErrTypeOK, AcceptFails, Errors
  <2>3. ErrorInv'
    BY <1>1, <2>1 DEF ErrorInv, ErrTypeOK, NoErr, AcceptFails, Errors
  <2> QED
    BY <2>1, <2>2, <2>3, TypeFrame, InvFrame
<1>2. CASE SendAcceptError(k)
  <2>1. UNCHANGED <<registryVars, relayVars, sinkVars, mainVars, envVars, subVars, accErr,
                    handlerVars, statVars>>
    BY <1>2 DEF SendAcceptError, Room
  <2>2. ErrTypeOK'
    <3>1. accErr[k] \in Errors /\ Len(errCh) < ErrCap
      BY <1>2 DEF SendAcceptError, ErrTypeOK, ErrorInv, Room
    <3>2. errCh' \in Seq(Errors) /\ Len(errCh') <= ErrCap
      BY <1>2, <3>1, AppendSeq, SessionAssumption DEF SendAcceptError, ErrTypeOK
    <3> QED
      BY <1>2, <2>1, <3>2 DEF SendAcceptError, ErrTypeOK
  <2>3. ErrorInv'
    BY <1>2, <2>1 DEF ErrorInv, SendAcceptError, Room
  <2> QED
    BY <2>1, <2>2, <2>3, TypeFrame, InvFrame
<1> QED
  BY <1>1, <1>2 DEF AcceptorStep

-----------------------------------------------------------------------------
\* Accepting a stream and every step of its handler (handleUniStream) preserve it.
LEMMA HandlersKeepInv ==
  ASSUME SessionInv, NEW s \in Streams, AcceptUniStream(s) \/ HandlerStep(s) PROVE SessionInv'
<1>1. CASE AcceptUniStream(s)
  <2>1. UNCHANGED <<registryVars, relayVars, sinkVars, mainVars, envVars, subVars, errVars,
                    hsub, hpos, herr, statVars>>
    BY <1>1 DEF AcceptUniStream
  <2>2. HandlerTypeOK'
    BY <1>1, <2>1 DEF HandlerTypeOK, Errors, AcceptUniStream
  <2>3. StreamsInv'
    BY <1>1, <2>1 DEF StreamsInv, HandlerTypeOK, RelayTypeOK, AcceptUniStream
  <2>4. OutputInv'
    <3>1. HandlersAdvance
      BY <1>1, <2>1 DEF HandlersAdvance, HandlerTypeOK, AcceptUniStream
    <3> QED
      BY <2>1, <2>2, <3>1, OutputKept
  <2>5. ConventionInv'
    BY <1>1, <2>1 DEF ConventionInv, BoundToOwnTrack, Resolved, HandlerTypeOK,
         AcceptUniStream
  <2>6. ErrorInv'
    BY <1>1, <2>1 DEF ErrorInv, HandlerTypeOK, NoErr, AcceptUniStream
  <2> QED
    BY <2>1, <2>2, <2>3, <2>4, <2>5, <2>6, TypeFrame, InvFrame
<1>2. CASE HandleUniStream(s)
  <2>1. UNCHANGED <<registryVars, relayVars, sinkVars, mainVars, envVars, subVars, errVars,
                    hpos, herr, statVars>>
    BY <1>2 DEF HandleUniStream, Finish
  <2>2. HandlerTypeOK'
    <3>1. body[s].kind = "subgroup" => lookupDelivery(trackAlias[track[s]]) \in Roles \cup {NoSub}
      BY DEF lookupDelivery, StreamsInv, RegistryTypeOK
    <3> QED
      BY <1>2, <2>1, <3>1 DEF HandlerTypeOK, HandleUniStream, Finish
  <2>3. StreamsInv'
    BY <1>2, <2>1 DEF StreamsInv, HandlerTypeOK, RelayTypeOK, HandleUniStream, Finish
  <2>4. DeliveryInv'
    <3>1. CASE body[s].kind = "subgroup"
      BY <1>2, <2>1, <3>1, LookupFinds DEF HandleUniStream, HandlerTypeOK, DeliveryInv, Finish
    <3>2. CASE body[s].kind # "subgroup"
      BY <1>2, <2>1, <3>2, InvFrame DEF HandleUniStream, Finish
    <3> QED
      BY <3>1, <3>2
  <2>5. OutputInv'
    <3>1. HandlersAdvance
      BY <1>2, <2>1 DEF HandlersAdvance, HandlerTypeOK, HandleUniStream, Finish
    <3> QED
      BY <2>1, <2>2, <3>1, OutputKept
  <2>6. ConventionInv'
    <3>1. CASE body[s].kind = "subgroup"
      <4>1. MatchAlias => lookupDelivery(trackAlias[track[s]]) = track[s]
        BY <3>1, LookupByConvention
      <4> QED
        BY <1>2, <2>1, <3>1, <4>1 DEF HandleUniStream, HandlerTypeOK, ConventionInv,
           BoundToOwnTrack, Resolved, Finish
    <3>2. CASE body[s].kind # "subgroup"
      BY <1>2, <2>1, <3>2 DEF HandleUniStream, HandlerTypeOK, ConventionInv, BoundToOwnTrack,
         Resolved, Finish
    <3> QED
      BY <3>1, <3>2
  <2>7. ErrorInv'
    BY <1>2, <2>1 DEF ErrorInv, HandlerTypeOK, NoErr, HandleUniStream, Finish
  <2> QED
    BY <2>1, <2>2, <2>3, <2>4, <2>5, <2>6, <2>7, TypeFrame, InvFrame
<1>3. CASE DispatchControlMessage(s)
  <2>1. UNCHANGED <<registryVars, relayVars, sinkVars, mainVars, envVars, subVars, errVars,
                    hsub, bytesWritten, streamResets>>
    BY <1>3 DEF DispatchControlMessage, Fail, Finish
  <2>2. SinkTypeOK'
    BY <1>3, <2>1 DEF SinkTypeOK, DispatchControlMessage, Fail, Finish
  <2>3. HandlerTypeOK'
    BY <1>3, <2>1 DEF HandlerTypeOK, Errors, DispatchControlMessage, Fail, Finish
  <2>4. StreamsInv'
    BY <1>3, <2>1 DEF StreamsInv, HandlerTypeOK, RelayTypeOK, DispatchControlMessage, Fail, Finish
  <2>5. OutputInv'
    <3>1. HandlersAdvance
      BY <1>3, <2>1 DEF HandlersAdvance, HandlerTypeOK, DispatchControlMessage, Fail, Finish
    <3> QED
      BY <2>1, <2>3, <3>1, OutputKept
  <2>6. ConventionInv'
    BY <1>3, <2>1 DEF ConventionInv, BoundToOwnTrack, Resolved, HandlerTypeOK,
         DispatchControlMessage, Fail, Finish
  <2>7. ErrorInv'
    BY <1>3, <2>1 DEF ErrorInv, HandlerTypeOK, NoErr, DispatchControlMessage, Fail, Finish
  <2> QED
    BY <2>1, <2>2, <2>3, <2>4, <2>5, <2>6, <2>7, TypeFrame, InvFrame
<1>4. CASE ReadObject(s)
  <2>1. UNCHANGED <<registryVars, relayVars, sinkVars, mainVars, envVars, subVars, errVars,
                    hsub, herr, statVars>>
    BY <1>4 DEF ReadObject, AfterObject
  <2>2. HandlerTypeOK'
    BY <1>4, <2>1 DEF HandlerTypeOK, Errors, ReadObject, AfterObject
  <2>3. StreamsInv'
    BY <1>4, <2>1 DEF StreamsInv, HandlerTypeOK, RelayTypeOK, ReadObject, AfterObject
  <2>4. OutputInv'
    <3>1. HandlersAdvance
      BY <1>4, <2>1 DEF HandlersAdvance, HandlerTypeOK, ReadObject, AfterObject
    <3> QED
      BY <2>1, <2>2, <3>1, OutputKept
  <2>5. ConventionInv'
    BY <1>4, <2>1 DEF ConventionInv, BoundToOwnTrack, Resolved, HandlerTypeOK, ReadObject,
         AfterObject
  <2>6. ErrorInv'
    BY <1>4, <2>1 DEF ErrorInv, HandlerTypeOK, NoErr, ReadObject, AfterObject
  <2> QED
    BY <2>1, <2>2, <2>3, <2>4, <2>5, <2>6, TypeFrame, InvFrame
<1>5. CASE DeliverFirst(s)
  <2>1. UNCHANGED <<registryVars, relayVars, sinkVars, mainVars, envVars, requestID, okCh,
                    reader, errVars, hsub, hpos, herr, statVars>>
    BY <1>5 DEF DeliverFirst, Payload
  <2>2. SubTypeOK'
    <3>1. Payload(s) \in Payloads
      BY <1>5 DEF DeliverFirst, Payload, Payloads, StreamsInv, HandlerTypeOK
    <3> QED
      BY <1>5, <2>1, <3>1 DEF DeliverFirst, SubTypeOK
  <2>3. HandlerTypeOK'
    BY <1>5, <2>1 DEF HandlerTypeOK, Errors, DeliverFirst, Payload
  <2>4. StreamsInv'
    BY <1>5, <2>1 DEF StreamsInv, HandlerTypeOK, RelayTypeOK, DeliverFirst, Payload
  <2>5. DeliveryInv'
    BY <1>5, <2>1 DEF DeliveryInv, HandlerTypeOK, DeliverFirst, Payload
  <2>6. OutputInv'
    <3>1. HandlersAdvance
      BY <1>5, <2>1 DEF HandlersAdvance, HandlerTypeOK, DeliverFirst
    <3>2. \A p \in Payloads : Behind(p) => BehindNext(p)
      BY <2>3, <3>1, BehindKept
    <3>3. BehindNext(Payload(s))
      BY <1>5, <2>1 DEF DeliverFirst, BehindNext, Payload, HandlerTypeOK
    <3>4. \A r \in Roles : firstObjCh'[r] \in {firstObjCh[r], Payload(s)}
      BY <1>5 DEF DeliverFirst, SubTypeOK
    <3>5. \A r \in Roles : firstObjCh'[r] # NoPayload => BehindNext(firstObjCh'[r])
      BY <3>2, <3>3, <3>4 DEF OutputInv, SubTypeOK
    <3>6. \A i \in DOMAIN output : BehindNext(output[i])
      BY <3>2 DEF OutputInv, SinkTypeOK
    <3>7. held # NoPayload => BehindNext(held)
      BY <3>2 DEF OutputInv, MainTypeOK
    <3> QED
      BY <2>1, <3>5, <3>6, <3>7 DEF OutputInv, Behind, BehindNext
  <2>7. ConventionInv'
    BY <1>5, <2>1 DEF ConventionInv, BoundToOwnTrack, Resolved, HandlerTypeOK,
         DeliverFirst, Payload
  <2>8. ErrorInv'
    BY <1>5, <2>1 DEF ErrorInv, HandlerTypeOK, NoErr, DeliverFirst, Payload
  <2> QED
    BY <2>1, <2>2, <2>3, <2>4, <2>5, <2>6, <2>7, <2>8, TypeFrame, InvFrame
<1>6. CASE DeliverMedia(s)
  <2>1. UNCHANGED <<registryVars, relayVars, sink, child, mainVars, envVars, subVars,
                    errVars, hsub, hpos, statVars>>
    BY <1>6 DEF DeliverMedia, Fail, Write, WriteFails, Tear
  <2>2. SinkTypeOK'
    <3>1. Payload(s) \in Payloads
      BY <1>6 DEF DeliverMedia, Payload, Payloads, StreamsInv, HandlerTypeOK
    <3>2. CASE Write(Payload(s))
      BY <2>1, <3>1, <3>2, AppendSeq DEF Write, SinkTypeOK
    <3>3. CASE Tear(Payload(s))
      BY <2>1, <3>1, <3>3, TearTypeOK
    <3>4. CASE UNCHANGED sinkVars
      BY <2>1, <3>4, TypeFrame
    <3> QED
      BY <1>6, <3>2, <3>3, <3>4 DEF DeliverMedia, WriteFails
  <2>3. HandlerTypeOK'
    BY <1>6, <2>1 DEF HandlerTypeOK, Errors, DeliverMedia, Fail, Payload, Write
  <2>4. StreamsInv'
    BY <1>6, <2>1 DEF StreamsInv, HandlerTypeOK, RelayTypeOK, DeliverMedia, Fail, Payload,
         Write
  <2>5. OutputInv'
    <3>1. HandlersAdvance
      BY <1>6, <2>1 DEF HandlersAdvance, HandlerTypeOK, DeliverMedia, Fail
    <3>2. \A p \in Payloads : Behind(p) => BehindNext(p)
      BY <2>3, <3>1, BehindKept
    <3>3. CASE UNCHANGED output
      BY <2>1, <2>3, <3>1, <3>3, OutputKept
    <3>4. CASE Write(Payload(s)) /\ hpc' = [hpc EXCEPT ![s] = "count"]
      <4>1. Payload(s) \in Payloads /\ cur = "media"
        BY <1>6 DEF DeliverMedia, Payload, Payloads, StreamsInv, HandlerTypeOK, DeliveryInv
      <4>2. BehindNext(Payload(s))
        BY <2>1, <3>4 DEF BehindNext, Payload, HandlerTypeOK
      <4>3. output' # <<>> /\ \A i \in DOMAIN output' : output'[i] = Payload(s) \/
              (i \in DOMAIN output /\ output'[i] = output[i])
        BY <3>4, <4>1, AppendSeq DEF SinkTypeOK, Write
      <4>4. \A i \in DOMAIN output' : BehindNext(output'[i])
        BY <3>2, <4>2, <4>3 DEF OutputInv, SinkTypeOK
      <4>5. \A r \in Roles : firstObjCh[r] # NoPayload => BehindNext(firstObjCh[r])
        BY <3>2 DEF OutputInv, SubTypeOK
      <4>6. held # NoPayload => BehindNext(held)
        BY <3>2 DEF OutputInv, MainTypeOK
      <4> QED
        BY <2>1, <4>1, <4>3, <4>4, <4>5, <4>6 DEF OutputInv, Behind, BehindNext
    <3> QED
      BY <1>6, <3>3, <3>4 DEF DeliverMedia, WriteFails, Tear
  <2>6. ConventionInv'
    BY <1>6, <2>1 DEF ConventionInv, BoundToOwnTrack, Resolved, HandlerTypeOK,
         DeliverMedia, Fail, Payload, Write
  <2>7. ErrorInv'
    BY <1>6, <2>1 DEF ErrorInv, HandlerTypeOK, NoErr, DeliverMedia, Fail
  <2> QED
    BY <2>1, <2>2, <2>3, <2>4, <2>5, <2>6, <2>7, TypeFrame, InvFrame
<1>7. CASE CountBytes(s)
  <2>1. UNCHANGED <<registryVars, relayVars, sinkVars, mainVars, envVars, subVars, errVars,
                    hsub, hpos, herr, peerSetupSeen, streamResets>>
    BY <1>7 DEF CountBytes, CountPayload
  <2>2. SinkTypeOK'
    BY <1>7, <2>1 DEF SinkTypeOK, CountBytes, CountPayload
  <2>3. HandlerTypeOK'
    BY <1>7, <2>1 DEF HandlerTypeOK, Errors, CountBytes, CountPayload
  <2>4. StreamsInv'
    BY <1>7, <2>1 DEF StreamsInv, HandlerTypeOK, RelayTypeOK, CountBytes, CountPayload
  <2>5. OutputInv'
    <3>1. HandlersAdvance
      BY <1>7, <2>1 DEF HandlersAdvance, HandlerTypeOK, CountBytes
    <3> QED
      BY <2>1, <2>3, <3>1, OutputKept
  <2>6. ConventionInv'
    BY <1>7, <2>1 DEF ConventionInv, BoundToOwnTrack, Resolved, HandlerTypeOK, CountBytes,
         CountPayload
  <2>7. ErrorInv'
    BY <1>7, <2>1 DEF ErrorInv, HandlerTypeOK, NoErr, CountBytes, CountPayload
  <2> QED
    BY <2>1, <2>2, <2>3, <2>4, <2>5, <2>6, <2>7, TypeFrame, InvFrame
<1>8. CASE ReadFails(s)
  <2>1. UNCHANGED <<registryVars, relayVars, sinkVars, mainVars, envVars, subVars, errVars,
                    hsub, hpos, statVars>>
    BY <1>8 DEF ReadFails, Fail, Finish
  <2>2. HandlerTypeOK'
    BY <1>8, <2>1 DEF HandlerTypeOK, Errors, ReadFails, Fail, Finish
  <2>3. StreamsInv'
    BY <1>8, <2>1 DEF StreamsInv, HandlerTypeOK, RelayTypeOK, ReadFails, Fail, Finish
  <2>4. OutputInv'
    <3>1. HandlersAdvance
      BY <1>8, <2>1 DEF HandlersAdvance, HandlerTypeOK, ReadFails, Fail, Finish
    <3> QED
      BY <2>1, <2>2, <3>1, OutputKept
  <2>5. ConventionInv'
    BY <1>8, <2>1 DEF ConventionInv, BoundToOwnTrack, Resolved, HandlerTypeOK, ReadFails,
         Fail, Finish
  <2>6. ErrorInv'
    BY <1>8, <2>1 DEF ErrorInv, HandlerTypeOK, NoErr, ReadFails, Fail, Finish
  <2> QED
    BY <2>1, <2>2, <2>3, <2>4, <2>5, <2>6, TypeFrame, InvFrame
<1>9. CASE SendStreamError(s)
  <2>1. UNCHANGED <<registryVars, relayVars, sinkVars, mainVars, envVars, subVars, acc,
                    accErr, hsub, hpos, herr, statVars>>
    BY <1>9 DEF SendStreamError, Room
  <2>2. ErrTypeOK'
    <3>1. herr[s] \in Errors /\ Len(errCh) < ErrCap
      BY <1>9 DEF SendStreamError, HandlerTypeOK, ErrorInv, Room
    <3>2. errCh' \in Seq(Errors) /\ Len(errCh') <= ErrCap
      BY <1>9, <3>1, AppendSeq, SessionAssumption DEF SendStreamError, ErrTypeOK
    <3> QED
      BY <1>9, <2>1, <3>2 DEF SendStreamError, ErrTypeOK
  <2>3. HandlerTypeOK'
    BY <1>9, <2>1 DEF HandlerTypeOK, Errors, SendStreamError, Room
  <2>4. StreamsInv'
    BY <1>9, <2>1 DEF StreamsInv, HandlerTypeOK, RelayTypeOK, SendStreamError, Room
  <2>5. OutputInv'
    <3>1. HandlersAdvance
      BY <1>9, <2>1 DEF HandlersAdvance, HandlerTypeOK, SendStreamError
    <3> QED
      BY <2>1, <2>3, <3>1, OutputKept
  <2>6. ConventionInv'
    BY <1>9, <2>1 DEF ConventionInv, BoundToOwnTrack, Resolved, HandlerTypeOK,
         SendStreamError, Room
  <2>7. ErrorInv'
    BY <1>9, <2>1 DEF ErrorInv, HandlerTypeOK, NoErr, SendStreamError, Room
  <2> QED
    BY <2>1, <2>2, <2>3, <2>4, <2>5, <2>6, <2>7, TypeFrame, InvFrame
<1>10. CASE ReadPanics(s)
  <2>1. UNCHANGED <<registryVars, relayVars, cur, held, envVars, subVars, errVars, handlerVars,
                    statVars>>
    BY <1>10 DEF ReadPanics
  <2>2. main' = "exited" /\ result' = "panic"
    BY <1>10 DEF ReadPanics
  <2>3. MainTypeOK'
    BY <2>1, <2>2 DEF MainTypeOK, MainStates
  <2>4. SinkTypeOK' /\ output' = output
    BY <1>10, <2>1, CutOffTypeOK DEF ReadPanics
  <2>5. BindingInv'
    BY <2>1, <2>2 DEF BindingInv, Bound
  <2>6. DeliveryInv'
    BY <2>1, <2>2 DEF DeliveryInv
  <2>7. RequestInv'
    BY <2>1, <2>2 DEF RequestInv, Started
  <2>8. ErrorInv'
    BY <2>1, <2>2 DEF ErrorInv
  <2> QED
    BY <2>1, <2>3, <2>4, <2>5, <2>6, <2>7, <2>8, TypeFrame, InvFrame
<1> QED
  BY <1>1, <1>2, <1>3, <1>4, <1>5, <1>6, <1>7, <1>8, <1>9, <1>10 DEF HandlerStep

-----------------------------------------------------------------------------
\* Signals, the connection, the relay and the output's child process preserve it.
LEMMA EnvironmentKeepsInv ==
  ASSUME SessionInv, Cancel \/ ConnLost \/ Stall \/ RelayStep \/ ChildStep PROVE SessionInv'
<1>1. CASE Cancel
  <2>1. UNCHANGED <<registryVars, relayVars, sinkVars, mainVars, conn, subVars, errVars,
                    handlerVars, statVars>>
    BY <1>1 DEF Cancel
  <2>2. MainTypeOK'
    BY <1>1, <2>1 DEF MainTypeOK, MainStates, Cancel
  <2>3. ErrorInv'
    BY <1>1, <2>1 DEF ErrorInv, Cancel
  <2> QED
    BY <2>1, <2>2, <2>3, TypeFrame, InvFrame
<1>2. CASE ConnLost
  <2>1. UNCHANGED <<registryVars, relayVars, sinkVars, mainVars, ctxDone, subVars, errVars,
                    handlerVars, statVars>>
    BY <1>2 DEF ConnLost
  <2>2. MainTypeOK'
    BY <1>2, <2>1 DEF MainTypeOK, MainStates, ConnLost
  <2> QED
    BY <2>1, <2>2, TypeFrame, InvFrame
<1>3. CASE Stall
  <2>1. UNCHANGED <<registryVars, relayVars, sinkVars, mainVars, ctxDone, conn, subVars, errVars,
                    handlerVars, statVars>>
    BY <1>3 DEF Stall
  <2>2. MainTypeOK'
    BY <1>3, <2>1 DEF MainTypeOK, Stall
  <2> QED
    BY <2>1, <2>2, TypeFrame, InvFrame
<1>4. CASE ChildStep
  <2>1. UNCHANGED <<registryVars, relayVars, output, torn, sink, mainVars, envVars, subVars,
                    errVars, handlerVars, statVars>>
    BY <1>4 DEF ChildStep, ShellExits, PipeFreed
  <2>2. SinkTypeOK'
    BY <1>4, <2>1 DEF SinkTypeOK, ChildStep, ShellExits, PipeFreed
  <2> QED
    BY <2>1, <2>2, TypeFrame, InvFrame
<1>5. CASE RelayStep /\ \E r \in Roles : RelayAccepts(r)
  <2>1. UNCHANGED <<registryVars, request, track, body, sinkVars, mainVars, envVars,
                    subVars, errVars, handlerVars, statVars>>
    BY <1>5 DEF RelayStep, RelayAccepts, FreshAlias
  <2>2. RelayTypeOK'
    <3>1. PICK r \in Roles : RelayAccepts(r)
      BY <1>5
    <3> QED
      BY <2>1, <3>1, RelayAssumption DEF RelayAccepts, RelayTypeOK
  <2>3. StreamsInv'
    BY <1>5, <2>1 DEF StreamsInv, RelayStep, RelayAccepts, FreshAlias
  <2>4. StartedInv'
    BY <1>5, <2>1 DEF StartedInv, Started, RelayStep, RelayAccepts, FreshAlias
  <2>5. AliasInv'
    <3>1. PICK r \in Roles : RelayAccepts(r)
      BY <1>5
    <3> QED
      BY <2>1, <3>1, IdsAssumption DEF RelayAccepts, RelayTypeOK, AliasInv, FreshAlias
  <2>6. BindingInv'
    <3>1. PICK r \in Roles : RelayAccepts(r)
      BY <1>5
    <3>2. trackAlias[r] = NoId /\ \A q \in Roles \ {r} : trackAlias'[q] = trackAlias[q]
      BY <3>1 DEF RelayAccepts, RelayTypeOK, AliasInv
    <3>3. \A q \in Roles : Bound(q) => Bound(q)'
      BY <2>1, <3>2, IdsAssumption DEF Bound, NoId
    <3>4. \A a \in Ids : byAlias[a] # NoSub => trackAlias'[byAlias[a]] = a
      BY <3>2, IdsAssumption DEF BindingInv, RegistryTypeOK, NoId
    <3> QED
      BY <2>1, <3>3, <3>4 DEF BindingInv, MainTypeOK, Roles
  <2>7. ConventionInv'
    <3>1. PICK r \in Roles : RelayAccepts(r)
      BY <1>5
    <3> QED
      BY <2>1, <3>1 DEF RelayAccepts, RelayTypeOK, AliasInv, ConventionInv, BoundToOwnTrack,
         Resolved, FreshAlias
  <2> QED
    BY <2>1, <2>2, <2>3, <2>4, <2>5, <2>6, <2>7, TypeFrame, InvFrame
<1>6. CASE RelayStep /\ \E r \in Roles : RelayDeclines(r)
  <2>1. UNCHANGED <<registryVars, request, trackAlias, track, body, sinkVars, mainVars,
                    envVars, subVars, errVars, handlerVars, statVars>>
    BY <1>6 DEF RelayStep, RelayDeclines
  <2>2. RelayTypeOK'
    <3>1. PICK r \in Roles : RelayDeclines(r)
      BY <1>6
    <3> QED
      BY <2>1, <3>1, RelayAssumption DEF RelayDeclines, RelayTypeOK
  <2>3. AliasInv'
    BY <1>6, <2>1 DEF AliasInv, RelayStep, RelayDeclines
  <2> QED
    BY <2>1, <2>2, <2>3, TypeFrame, InvFrame
<1>7. CASE RelayStep /\ \E s \in Streams, r \in Roles : RelayOpensData(s, r)
  <2>1. UNCHANGED <<registryVars, request, trackAlias, replied, reply, sinkVars, mainVars,
                    envVars, subVars, errVars, handlerVars, statVars>>
    BY <1>7 DEF RelayStep, RelayOpensData
  <2>2. RelayTypeOK'
    BY <1>7, <2>1 DEF RelayTypeOK, RelayStep, RelayOpensData
  <2>3. StreamsInv'
    <3>1. PICK s \in Streams, r \in Roles : RelayOpensData(s, r)
      BY <1>7
    <3> QED
      BY <2>1, <3>1 DEF RelayOpensData, RelayTypeOK, StreamsInv, NoBody, HandlerTypeOK
  <2>4. DeliveryInv'
    <3>1. PICK s \in Streams, r \in Roles : RelayOpensData(s, r)
      BY <1>7
    <3> QED
      BY <2>1, <3>1 DEF RelayOpensData, RelayTypeOK, StreamsInv, DeliveryInv, NoBody, NoSub
  <2>5. ConventionInv'
    <3>1. PICK s \in Streams, r \in Roles : RelayOpensData(s, r)
      BY <1>7
    <3> QED
      BY <2>1, <3>1 DEF RelayOpensData, RelayTypeOK, StreamsInv, ConventionInv, BoundToOwnTrack,
         Resolved, NoBody
  <2> QED
    BY <2>1, <2>2, <2>3, <2>4, <2>5, TypeFrame, InvFrame
<1>8. CASE RelayStep /\ \E s \in Streams : RelayOpensOther(s)
  <2>1. UNCHANGED <<registryVars, request, trackAlias, replied, reply, track, sinkVars,
                    mainVars, envVars, subVars, errVars, handlerVars, statVars>>
    BY <1>8 DEF RelayStep, RelayOpensOther
  <2>2. RelayTypeOK'
    BY <1>8, <2>1 DEF RelayTypeOK, RelayStep, RelayOpensOther
  <2>3. StreamsInv'
    <3>1. PICK s \in Streams : RelayOpensOther(s)
      BY <1>8
    <3> QED
      BY <2>1, <3>1 DEF RelayOpensOther, RelayTypeOK, StreamsInv, NoBody
  <2>4. ConventionInv'
    <3>1. PICK s \in Streams : RelayOpensOther(s)
      BY <1>8
    <3> QED
      BY <2>1, <3>1 DEF RelayOpensOther, RelayTypeOK, StreamsInv, ConventionInv, BoundToOwnTrack,
         Resolved, NoBody
  <2> QED
    BY <2>1, <2>2, <2>3, <2>4, TypeFrame, InvFrame
<1> QED
  BY <1>1, <1>2, <1>3, <1>4, <1>5, <1>6, <1>7, <1>8 DEF RelayStep

-----------------------------------------------------------------------------
(***************************************************************************)
(* Every step of the session, and every stutter, preserves the invariant.  *)
(***************************************************************************)
LEMMA StepKeepsInv == SessionInv /\ [Next]_vars => SessionInv'
<1> SUFFICES ASSUME SessionInv, [Next]_vars PROVE SessionInv'
  OBVIOUS
<1>1. CASE MainStep
  BY <1>1, MainKeepsInv
<1>2. CASE \E r \in Roles : ReaderStep(r)
  BY <1>2, ReadersKeepInv
<1>3. CASE \E k \in Acceptors : AcceptorStep(k)
  BY <1>3, AcceptorsKeepInv
<1>4. CASE \E s \in Streams : AcceptUniStream(s) \/ HandlerStep(s)
  BY <1>4, HandlersKeepInv
<1>5. CASE Cancel \/ ConnLost \/ Stall \/ RelayStep \/ ChildStep
  BY <1>5, EnvironmentKeepsInv
<1>6. CASE UNCHANGED vars
  BY <1>6, TypeFrame, InvFrame DEF vars
<1> QED
  BY <1>1, <1>2, <1>3, <1>4, <1>5, <1>6 DEF Next, Alive, Terminated

(***************************************************************************)
(* Whatever the relay does and in whatever order its streams are handled,  *)
(* the session's state satisfies SessionInv (all of run.go and             *)
(* subscriptions.go that is modelled).                                     *)
(***************************************************************************)
THEOREM SessionCorrect == Spec => []SessionInv
<1>1. Init => SessionInv
  BY InitInv
<1>2. SessionInv /\ [Next]_vars => SessionInv'
  BY StepKeepsInv
<1> QED
  BY <1>1, <1>2, PTL DEF Spec

(***************************************************************************)
(* Type correctness, errCh's bound included (run.go: make(chan error, 8)). *)
(***************************************************************************)
THEOREM TypeCorrect == Spec => []TypeOK
<1>1. SessionInv => TypeOK
  OBVIOUS
<1> QED
  BY <1>1, SessionCorrect, PTL

(***************************************************************************)
(* Exit status 0 means that the user cancelled (run.go: the receive loop;  *)
(* main.go: errors.Is(err, context.Canceled)).                             *)
(***************************************************************************)
THEOREM ExitZeroCorrect == Spec => []ExitZeroOnlyIfCancelled
<1>1. SessionInv => ExitZeroOnlyIfCancelled
  BY DEF ErrorInv, ExitZeroOnlyIfCancelled
<1> QED
  BY <1>1, SessionCorrect, PTL

-----------------------------------------------------------------------------
(***************************************************************************)
(* Who writes what.                                                        *)
(***************************************************************************)

\* Only handlers change handlerVars.
LEMMA HandlersOwnState ==
  ASSUME MainStep \/ (\E r \in Roles : ReaderStep(r)) \/ (\E k \in Acceptors : AcceptorStep(k))
           \/ Cancel \/ ConnLost \/ Stall \/ RelayStep \/ ChildStep
  PROVE  UNCHANGED handlerVars
<1>1. CASE MainStep
  BY <1>1 DEF MainStep, Dial, OpenOutput, SendClientSetup, WaitPeerSetup, NewTrackSubscription,
     SendSubscribe, WaitSubscribeOK, WaitFirstObject, UseCatalog, WriteInitSegment, CountInitSegment,
     LoopDone, LoopError, CloseSink, ReapChild, CloseConn
<1>2. CASE \E r \in Roles : ReaderStep(r)
  BY <1>2 DEF ReaderStep, ReadMessage, NotifyOK, ReaderEnds
<1>3. CASE \E k \in Acceptors : AcceptorStep(k)
  BY <1>3 DEF AcceptorStep, AcceptFails, SendAcceptError
<1>4. CASE Cancel \/ ConnLost \/ Stall \/ RelayStep \/ ChildStep
  BY <1>4 DEF Cancel, ConnLost, Stall, RelayStep, ChildStep
<1> QED
  BY <1>1, <1>2, <1>3, <1>4

\* A handler that gets from the stream type to the objects has looked the alias up.
LEMMA ResolvesByLookup ==
  ASSUME TypeOK, Next, NEW s \in Streams, hpc[s] = "type", hpc'[s] = "read"
  PROVE  HandleUniStream(s)
<1>1. PICK t \in Streams : AcceptUniStream(t) \/ HandlerStep(t)
  BY HandlersOwnState DEF Next, Alive, Terminated, vars
<1>2. CASE t # s
  BY <1>1, <1>2 DEF HandlerTypeOK, AcceptUniStream, HandlerStep, HandleUniStream,
     DispatchControlMessage, ReadObject, DeliverFirst, DeliverMedia, CountBytes, ReadFails,
     ReadPanics, SendStreamError, Fail, Finish
<1>3. CASE t = s
  BY <1>1, <1>3 DEF HandlerTypeOK, AcceptUniStream, HandlerStep,
     DispatchControlMessage, ReadObject, DeliverFirst, DeliverMedia, CountBytes, ReadFails,
     ReadPanics, SendStreamError, Fail, Finish
<1> QED
  BY <1>2, <1>3

\* Only the init segment and media objects are written, whole or in part; the end of the
\* process may cut a write off.
LEMMA OutputWriters ==
  ASSUME Next
  PROVE  /\ UNCHANGED output \/ WriteInitSegment \/ \E s \in Streams : DeliverMedia(s)
         /\ \/ UNCHANGED torn \/ WriteInitSegment \/ CloseConn
            \/ \E s \in Streams : DeliverMedia(s) \/ ReadPanics(s)
<1>1. CASE MainStep
  BY <1>1 DEF MainStep, Dial, OpenOutput, NewSink, SendClientSetup, WaitPeerSetup,
     NewTrackSubscription, SendSubscribe, WaitSubscribeOK, WaitFirstObject, UseCatalog,
     CountInitSegment, LoopDone, LoopError, CloseSink, CloseWriter, ReapChild, CloseConn, CutOff, Tear
<1>2. CASE \E r \in Roles : ReaderStep(r)
  BY <1>2 DEF ReaderStep, ReadMessage, NotifyOK, ReaderEnds
<1>3. CASE \E k \in Acceptors : AcceptorStep(k)
  BY <1>3 DEF AcceptorStep, AcceptFails, SendAcceptError
<1>4. CASE \E s \in Streams : AcceptUniStream(s) \/ HandlerStep(s)
  BY <1>4 DEF AcceptUniStream, HandlerStep, HandleUniStream, DispatchControlMessage, ReadObject,
     DeliverFirst, CountBytes, ReadFails, ReadPanics, SendStreamError, CutOff, Tear
<1>5. CASE Cancel \/ ConnLost \/ Stall \/ RelayStep \/ ChildStep
  BY <1>5 DEF Cancel, ConnLost, Stall, RelayStep, ChildStep, ShellExits, PipeFreed
<1> QED
  BY <1>1, <1>2, <1>3, <1>4, <1>5 DEF Next, Alive, Terminated, vars

(***************************************************************************)
(* From the receive loop on, streams are delivered to their own tracks     *)
(* (handleSubgroupStream, lookupDelivery), for arbitrary aliases.          *)
(***************************************************************************)
THEOREM LoopBindsRightCorrect == Spec => LoopBindsRight
<1> DEFINE BindsRight ==
      \A s \in Streams :
        main = "loop" /\ hpc[s] = "type" /\ hpc'[s] = "read" => hsub'[s] = track[s]
<1>1. SessionInv /\ [Next]_vars => [BindsRight]_vars
  <2> SUFFICES ASSUME SessionInv, Next, NEW s \in Streams,
                      main = "loop", hpc[s] = "type", hpc'[s] = "read"
               PROVE  hsub'[s] = track[s]
    BY DEF vars
  <2>1. HandleUniStream(s)
    BY ResolvesByLookup
  <2>2. body[s].kind = "subgroup" /\ hsub'[s] = lookupDelivery(trackAlias[track[s]])
    BY <2>1 DEF HandleUniStream, HandlerTypeOK, Finish
  <2> QED
    BY <2>2, LookupFinds
<1> QED
  BY <1>1, SessionCorrect, PTL DEF Spec, LoopBindsRight

(***************************************************************************)
(* With track_alias = request_id a stream is delivered to its own track    *)
(* however early it comes (register before SUBSCRIBE, lookupDelivery's     *)
(* fallback).                                                              *)
(***************************************************************************)
THEOREM ConventionBindsRight == Spec => [](MatchAlias => BoundToOwnTrack)
<1>1. SessionInv => (MatchAlias => BoundToOwnTrack)
  BY DEF ConventionInv
<1> QED
  BY <1>1, SessionCorrect, PTL

-----------------------------------------------------------------------------
(***************************************************************************)
(* How a session ends.                                                     *)
(***************************************************************************)

\* Only the main goroutine, and a panic, decide on how Run goes on.
LEMMA MainOwnsState ==
  ASSUME Next
  PROVE  MainStep \/ (\E s \in Streams : ReadPanics(s)) \/ UNCHANGED mainVars
<1>1. CASE \E r \in Roles : ReaderStep(r)
  BY <1>1 DEF ReaderStep, ReadMessage, NotifyOK, ReaderEnds
<1>2. CASE \E k \in Acceptors : AcceptorStep(k)
  BY <1>2 DEF AcceptorStep, AcceptFails, SendAcceptError
<1>3. CASE \E s \in Streams : AcceptUniStream(s) \/ HandlerStep(s)
  BY <1>3 DEF AcceptUniStream, HandlerStep, HandleUniStream, DispatchControlMessage, ReadObject,
     DeliverFirst, DeliverMedia, CountBytes, ReadFails, SendStreamError
<1>4. CASE Cancel \/ ConnLost \/ Stall \/ RelayStep \/ ChildStep
  BY <1>4 DEF Cancel, ConnLost, Stall, RelayStep, ChildStep
<1> QED
  BY <1>1, <1>2, <1>3, <1>4 DEF Next, Alive, Terminated, vars

\* Once Run is leaving (its deferred functions, then the exit), it does not turn back.
LEMMA LeavingStays ==
  ASSUME Next, main \in Leaving
  PROVE  main' \in Leaving /\ cur' = cur /\ result' \in {result, "panic"}
<1>1. CASE MainStep
  BY <1>1 DEF Leaving, MainStep, Dial, OpenOutput, SendClientSetup, WaitPeerSetup,
     NewTrackSubscription, SendSubscribe, WaitSubscribeOK, WaitFirstObject, UseCatalog,
     WriteInitSegment, CountInitSegment, LoopDone, LoopError, CloseSink, ReapChild, CloseConn, GoTo
<1>2. CASE \E s \in Streams : ReadPanics(s)
  BY <1>2 DEF ReadPanics, Leaving
<1>3. CASE UNCHANGED mainVars
  BY <1>3
<1> QED
  BY <1>1, <1>2, <1>3, MainOwnsState

\* The bootstrap goes on to the media track for good.
LEMMA MediaStays ==
  ASSUME Next, cur = "media"
  PROVE  cur' = "media"
<1>1. CASE MainStep
  BY <1>1 DEF MainStep, Dial, OpenOutput, SendClientSetup, WaitPeerSetup, NewTrackSubscription,
     SendSubscribe, WaitSubscribeOK, WaitFirstObject, UseCatalog, WriteInitSegment,
     CountInitSegment, LoopDone, LoopError, CloseSink, ReapChild, CloseConn, GoTo, Return, DoneCase
<1>2. CASE (\E s \in Streams : ReadPanics(s)) \/ UNCHANGED mainVars
  BY <1>2 DEF ReadPanics
<1> QED
  BY <1>1, <1>2, MainOwnsState

\* The accept loops are started once, and move only by their own steps.
LEMMA AcceptorsOwnState ==
  ASSUME Next
  PROVE  OpenOutput \/ (\E k \in Acceptors : AcceptorStep(k)) \/ UNCHANGED <<acc, accErr>>
<1>1. CASE MainStep
  BY <1>1 DEF MainStep, Dial, SendClientSetup, WaitPeerSetup, NewTrackSubscription,
     SendSubscribe, WaitSubscribeOK, WaitFirstObject, UseCatalog, WriteInitSegment,
     CountInitSegment, LoopDone, LoopError, CloseSink, ReapChild, CloseConn
<1>2. CASE \E r \in Roles : ReaderStep(r)
  BY <1>2 DEF ReaderStep, ReadMessage, NotifyOK, ReaderEnds
<1>3. CASE \E s \in Streams : AcceptUniStream(s) \/ HandlerStep(s)
  BY <1>3 DEF AcceptUniStream, HandlerStep, HandleUniStream, DispatchControlMessage, ReadObject,
     DeliverFirst, DeliverMedia, CountBytes, ReadFails, ReadPanics, SendStreamError
<1>4. CASE Cancel \/ ConnLost \/ Stall \/ RelayStep \/ ChildStep
  BY <1>4 DEF Cancel, ConnLost, Stall, RelayStep, ChildStep
<1> QED
  BY <1>1, <1>2, <1>3, <1>4 DEF Next, Alive, Terminated, vars

\* A handler, or an accept loop, that has met an error ends with it.
LEMMA OverStays ==
  ASSUME TypeOK, CauseInv, Next
  PROVE  /\ \A s \in Streams : hpc[s] \in Over => hpc'[s] \in Over /\ herr'[s] = herr[s]
         /\ \A k \in Acceptors : acc[k] \in Over => acc'[k] \in Over /\ accErr'[k] = accErr[k]
<1>1. ASSUME NEW s \in Streams, hpc[s] \in Over
      PROVE  hpc'[s] \in Over /\ herr'[s] = herr[s]
  <2>1. CASE \E t \in Streams : AcceptUniStream(t) \/ HandlerStep(t)
    BY <1>1, <2>1 DEF Over, HandlerTypeOK, AcceptUniStream, HandlerStep, HandleUniStream,
       DispatchControlMessage, ReadObject, DeliverFirst, DeliverMedia, CountBytes, ReadFails,
       ReadPanics, SendStreamError, Fail, Finish
  <2>2. CASE UNCHANGED handlerVars
    BY <1>1, <2>2
  <2> QED
    BY <2>1, <2>2, HandlersOwnState DEF Next, Alive, Terminated, vars
<1>2. ASSUME NEW k \in Acceptors, acc[k] \in Over
      PROVE  acc'[k] \in Over /\ accErr'[k] = accErr[k]
  <2>1. ~OpenOutput
    BY <1>2 DEF OpenOutput, CauseInv, Over
  <2>2. CASE \E j \in Acceptors : AcceptorStep(j)
    BY <1>2, <2>2 DEF Over, ErrTypeOK, AcceptorStep, AcceptFails, SendAcceptError
  <2> QED
    BY <1>2, <2>1, <2>2, AcceptorsOwnState
<1> QED
  BY <1>1, <1>2

\* A handler that has not ended has met no error yet, nor has an accept loop.
LEMMA NoErrorYet ==
  ASSUME TypeOK, CauseInv, Next
  PROVE  /\ \A s \in Streams : hpc'[s] \notin Over => herr'[s] = NoErr
         /\ \A k \in Acceptors : acc'[k] \notin Over => accErr'[k] = NoErr
<1>1. ASSUME NEW s \in Streams, hpc'[s] \notin Over
      PROVE  herr'[s] = NoErr
  <2>0. hpc[s] \notin Over /\ herr[s] = NoErr
    BY <1>1, OverStays DEF CauseInv
  <2>1. CASE \E t \in Streams : AcceptUniStream(t) \/ HandlerStep(t)
    BY <1>1, <2>0, <2>1 DEF Over, HandlerTypeOK, AcceptUniStream, HandlerStep, HandleUniStream,
       DispatchControlMessage, ReadObject, DeliverFirst, DeliverMedia, CountBytes, ReadFails,
       ReadPanics, SendStreamError, Fail, Finish
  <2>2. CASE UNCHANGED handlerVars
    BY <2>0, <2>2
  <2> QED
    BY <2>1, <2>2, HandlersOwnState DEF Next, Alive, Terminated, vars
<1>2. ASSUME NEW k \in Acceptors, acc'[k] \notin Over
      PROVE  accErr'[k] = NoErr
  <2>0. acc[k] \notin Over /\ accErr[k] = NoErr
    BY <1>2, OverStays DEF CauseInv
  <2>1. CASE OpenOutput
    BY <2>0, <2>1 DEF OpenOutput
  <2>2. CASE \E j \in Acceptors : AcceptorStep(j)
    BY <1>2, <2>0, <2>2 DEF Over, ErrTypeOK, AcceptorStep, AcceptFails, SendAcceptError
  <2>3. CASE UNCHANGED <<acc, accErr>>
    BY <2>0, <2>3
  <2> QED
    BY <2>1, <2>2, <2>3, AcceptorsOwnState
<1> QED
  BY <1>1, <1>2

\* What is in errCh after a step was there before, or has just been sent.
LEMMA ErrorsQueued ==
  ASSUME TypeOK, Next, NEW i \in DOMAIN errCh'
  PROVE  \/ \E j \in DOMAIN errCh : errCh'[i] = errCh[j]
         \/ \E s \in Streams : errCh'[i] = herr[s] /\ hpc[s] \in Over
         \/ \E k \in Acceptors : errCh'[i] = accErr[k] /\ acc[k] \in Over
<1>1. CASE LoopError
  <2>1. errCh' = Tail(errCh) /\ errCh \in Seq(Errors) /\ errCh # <<>>
    BY <1>1 DEF LoopError, ErrTypeOK
  <2> QED
    BY <2>1, TailSeq
<1>2. ASSUME NEW s \in Streams, SendStreamError(s)
      PROVE  (\E j \in DOMAIN errCh : errCh'[i] = errCh[j])
               \/ (errCh'[i] = herr[s] /\ hpc[s] \in Over)
  <2>1. errCh' = Append(errCh, herr[s]) /\ errCh \in Seq(Errors \cup {NoErr})
        /\ herr[s] \in Errors \cup {NoErr} /\ hpc[s] \in Over
    BY <1>2 DEF SendStreamError, ErrTypeOK, HandlerTypeOK, Over
  <2> QED
    BY <2>1, AppendSeq
<1>3. ASSUME NEW k \in Acceptors, SendAcceptError(k)
      PROVE  (\E j \in DOMAIN errCh : errCh'[i] = errCh[j])
               \/ (errCh'[i] = accErr[k] /\ acc[k] \in Over)
  <2>1. errCh' = Append(errCh, accErr[k]) /\ errCh \in Seq(Errors \cup {NoErr})
        /\ accErr[k] \in Errors \cup {NoErr} /\ acc[k] \in Over
    BY <1>3 DEF SendAcceptError, ErrTypeOK, Over
  <2> QED
    BY <2>1, AppendSeq
<1>4. CASE UNCHANGED errCh
  BY <1>4
<1>5. CASE MainStep
  BY <1>1, <1>4, <1>5 DEF MainStep, Dial, OpenOutput, SendClientSetup, WaitPeerSetup,
     NewTrackSubscription, SendSubscribe, WaitSubscribeOK, WaitFirstObject, UseCatalog,
     WriteInitSegment, CountInitSegment, LoopDone, CloseSink, ReapChild, CloseConn
<1>6. CASE \E r \in Roles : ReaderStep(r)
  BY <1>4, <1>6 DEF ReaderStep, ReadMessage, NotifyOK, ReaderEnds
<1>7. CASE \E k \in Acceptors : AcceptorStep(k)
  BY <1>3, <1>4, <1>7 DEF AcceptorStep, AcceptFails
<1>8. CASE \E s \in Streams : AcceptUniStream(s) \/ HandlerStep(s)
  BY <1>2, <1>4, <1>8 DEF AcceptUniStream, HandlerStep, HandleUniStream, DispatchControlMessage,
     ReadObject, DeliverFirst, DeliverMedia, CountBytes, ReadFails, ReadPanics
<1>9. CASE Cancel \/ ConnLost \/ Stall \/ RelayStep \/ ChildStep
  BY <1>4, <1>9 DEF Cancel, ConnLost, Stall, RelayStep, ChildStep
<1> QED
  BY <1>4, <1>5, <1>6, <1>7, <1>8, <1>9 DEF Next, Alive, Terminated, vars

\* Every step keeps what is known of the errors (Run's results, errCh's senders).
LEMMA CauseStep ==
  ASSUME SessionInv, CauseInv, Next
  PROVE  CauseInv'
<1>1. main' \in {"dial", "newSink"} => \A k \in Acceptors : acc'[k] = "none"
  <2> SUFFICES ASSUME main' \in {"dial", "newSink"} PROVE \A k \in Acceptors : acc'[k] = "none"
    OBVIOUS
  <2>1. main \in {"dial", "newSink"} /\ ~OpenOutput
    <3>1. CASE MainStep
      BY <3>1 DEF MainStep, Dial, OpenOutput, SendClientSetup, WaitPeerSetup,
         NewTrackSubscription, SendSubscribe, WaitSubscribeOK, WaitFirstObject, UseCatalog,
         WriteInitSegment, CountInitSegment, LoopDone, LoopError, CloseSink, ReapChild, CloseConn,
         GoTo, Return, DoneCase
    <3>2. CASE \E s \in Streams : ReadPanics(s)
      BY <3>2 DEF ReadPanics
    <3>3. CASE UNCHANGED mainVars
      BY <3>3 DEF OpenOutput, GoTo, Return
    <3> QED
      BY <3>1, <3>2, <3>3, MainOwnsState
  <2>2. \A k \in Acceptors : acc[k] = "none"
    BY <2>1 DEF CauseInv
  <2>3. UNCHANGED acc
    BY <2>1, <2>2, AcceptorsOwnState DEF AcceptorStep, AcceptFails, SendAcceptError
  <2> QED
    BY <2>2, <2>3
<1>2. main' \notin Leaving => result' = "none"
  <2>1. CASE MainStep
    BY <2>1 DEF CauseInv, Leaving, MainStep, Dial, OpenOutput, SendClientSetup, WaitPeerSetup,
       NewTrackSubscription, SendSubscribe, WaitSubscribeOK, WaitFirstObject, UseCatalog,
       WriteInitSegment, CountInitSegment, LoopDone, LoopError, CloseSink, ReapChild, CloseConn,
       GoTo, Return, DoneCase
  <2>2. CASE \E s \in Streams : ReadPanics(s)
    BY <2>2 DEF ReadPanics, Leaving
  <2>3. CASE UNCHANGED mainVars
    BY <2>3 DEF CauseInv
  <2> QED
    BY <2>1, <2>2, <2>3, MainOwnsState
<1>3. Cause => Cause'
  <2>1. \A s \in Streams : herr[s] = "other" => herr'[s] = "other"
    BY OverStays DEF CauseInv, NoErr
  <2>2. \A k \in Acceptors : accErr[k] = "other" => accErr'[k] = "other"
    BY OverStays DEF CauseInv, NoErr
  <2> QED
    BY <2>1, <2>2 DEF Cause
<1>4. ASSUME NEW i \in DOMAIN errCh', errCh'[i] = "other" PROVE Cause
  BY <1>4, ErrorsQueued DEF CauseInv, Cause
<1> QED
  BY <1>1, <1>2, <1>3, <1>4, NoErrorYet DEF CauseInv

\* Every step keeps what is known of the torn payloads (writePayload, the exit).
LEMMA TornStep ==
  ASSUME SessionInv, TornInv, CauseInv, Next
  PROVE  TornInv'
<1> DEFINE Known(t) ==
      \/ t.of.track = "init" /\ cur' = "init" /\ main' \in Leaving
      \/ t.of.track = "media" /\ cur' = "media" /\ (hpc'[t.of.stream] \in Over \/ main' = "exited")
<1>1. ASSUME NEW t \in torn PROVE Known(t)
  <2>1. t.of.stream \in Streams
    BY DEF SinkTypeOK, Payloads
  <2>2. CASE t.of.track = "init" /\ cur = "init" /\ main \in Leaving
    BY <2>2, LeavingStays
  <2>3. CASE t.of.track = "media" /\ cur = "media" /\ hpc[t.of.stream] \in Over
    BY <2>1, <2>3, OverStays, MediaStays
  <2>4. CASE t.of.track = "media" /\ cur = "media" /\ main = "exited"
    BY <2>4 DEF Next, Terminated, vars
  <2> QED
    BY <2>2, <2>3, <2>4 DEF TornInv
<1>2. ASSUME NEW t \in torn', t \notin torn PROVE Known(t)
  <2>1. CASE WriteInitSegment
    <3>1. t = [after |-> Len(output), of |-> held] /\ Return("error", "closeSink")
      BY <1>2, <2>1 DEF WriteInitSegment, Write, WriteFails, Tear
    <3>2. held.track = "init" /\ cur = "init"
      BY <2>1 DEF WriteInitSegment, DeliveryInv
    <3> QED
      BY <3>1, <3>2 DEF Return, Leaving
  <2>2. ASSUME NEW s \in Streams, DeliverMedia(s) PROVE Known(t)
    <3>1. t = [after |-> Len(output), of |-> Payload(s)] /\ Fail(s, "other")
      BY <1>2, <2>2 DEF DeliverMedia, Write, WriteFails, Tear
    <3>2. hpc[s] = "write" /\ track[s] = "media" /\ cur = "media" /\ cur' = cur
      BY <2>2 DEF DeliverMedia, StreamsInv, DeliveryInv
    <3>3. t.of.stream = s /\ t.of.track = "media"
      BY <3>1, <3>2 DEF Payload
    <3> QED
      BY <3>1, <3>2, <3>3 DEF Fail, Over, HandlerTypeOK
  <2>3. CASE CutOff /\ main' = "exited" /\ cur' = cur
    <3>1. PICK p \in InWrite : t.of = p
      BY <1>2, <2>3 DEF CutOff, Tear
    <3> QED
      BY <2>3, <3>1, InWritePayloads DEF Leaving
  <2> QED
    BY <1>2, <2>1, <2>2, <2>3, OutputWriters DEF CloseConn, ReadPanics, GoTo
<1> QED
  BY <1>1, <1>2 DEF TornInv

(***************************************************************************)
(* What is known of torn payloads and of errors holds throughout, for any  *)
(* number of handlers that fail in any order (writePayload,                *)
(* handleUniStream, the accept loops, Run).                                *)
(***************************************************************************)
THEOREM EndCorrect == Spec => []EndInv
<1>1. Init => EndInv
  BY DEF Init, SinkInit, EndInv, TornInv, CauseInv
<1>2. SessionInv /\ EndInv /\ [Next]_vars => EndInv'
  <2> SUFFICES ASSUME SessionInv, EndInv, [Next]_vars PROVE EndInv'
    OBVIOUS
  <2>1. CASE Next
    BY <2>1, TornStep, CauseStep DEF EndInv
  <2>2. CASE UNCHANGED vars
    BY <2>2 DEF vars, EndInv, TornInv, CauseInv, Cause
  <2> QED
    BY <2>1, <2>2
<1> QED
  BY <1>1, <1>2, SessionCorrect, PTL DEF Spec

(***************************************************************************)
(* Both invariants hold of every session (Run and all its goroutines).     *)
(***************************************************************************)
THEOREM RunCorrect == Spec => []RunInv
BY SessionCorrect, EndCorrect, PTL DEF RunInv

(***************************************************************************)
(* Run fails in its receive loop only because some goroutine met an error  *)
(* that is no stream reset (Run, handleUniStream, errors.As).              *)
(***************************************************************************)
THEOREM FailsForCauseCorrect == Spec => FailsForCause
<1>1. SessionInv /\ EndInv /\ [Next]_vars => [main = "loop" /\ result' = "error" => Cause]_vars
  <2> SUFFICES ASSUME SessionInv, CauseInv, Next, main = "loop", result' = "error" PROVE Cause
    BY DEF EndInv, vars
  <2>1. result = "none"
    BY DEF CauseInv, Leaving
  <2>2. LoopError
    <3>1. CASE MainStep
      BY <2>1, <3>1 DEF MainStep, Dial, OpenOutput, SendClientSetup, WaitPeerSetup,
         NewTrackSubscription, SendSubscribe, WaitSubscribeOK, WaitFirstObject, UseCatalog,
         WriteInitSegment, CountInitSegment, LoopDone, CloseSink, ReapChild, CloseConn, Return
    <3>2. CASE (\E s \in Streams : ReadPanics(s)) \/ UNCHANGED mainVars
      BY <2>1, <3>2 DEF ReadPanics
    <3> QED
      BY <3>1, <3>2, MainOwnsState
  <2>3. Head(errCh) \in Errors /\ Head(errCh) = errCh[1] /\ 1 \in DOMAIN errCh
    BY <2>2, TailSeq DEF LoopError, ErrTypeOK
  <2>4. Head(errCh) = "other"
    BY <2>1, <2>2, <2>3 DEF LoopError, LoopResult, Errors, Return
  <2> QED
    BY <2>3, <2>4 DEF CauseInv
<1> QED
  BY <1>1, SessionCorrect, EndCorrect, PTL DEF Spec, FailsForCause

-----------------------------------------------------------------------------
(***************************************************************************)
(* The output.                                                             *)
(***************************************************************************)

\* An object that a handler is about to write may come next (deliverSubgroupObject).
LEMMA MediaIsDue ==
  ASSUME SessionInv, TornInv, main # "exited", NEW s \in Streams, hpc[s] = "write"
  PROVE  P!DueMedia(Payload(s)) /\ Payload(s) \in Payloads
<1>1. Payload(s) \in Payloads /\ Payload(s).track = "media" /\ cur = "media"
  BY DEF Payload, Payloads, StreamsInv, HandlerTypeOK, DeliveryInv
<1>2. output # <<>> /\ \A i \in DOMAIN output : output[i].stream = s => output[i].n < hpos[s]
  BY <1>1 DEF OutputInv, Behind, SinkTypeOK, HandlerTypeOK
<1>3. \A t \in torn : t.of.stream # s
  BY <1>1 DEF TornInv, Over
<1> QED
  BY <1>1, <1>2, <1>3 DEF P!DueMedia, Payload

\* So may the init segment that the main goroutine is about to write.
LEMMA InitIsDue ==
  ASSUME SessionInv, TornInv, main = "use", cur = "init"
  PROVE  P!DueInit(held) /\ held \in Payloads
<1>1. output = <<>> /\ held \in Payloads /\ held.track = "init"
  BY DEF OutputInv, DeliveryInv, MainTypeOK
<1>2. torn = {}
  <2> SUFFICES ASSUME NEW t \in torn PROVE FALSE
    OBVIOUS
  <2> QED
    BY DEF TornInv, Leaving
<1> QED
  BY <1>1, <1>2 DEF P!DueInit

\* A write that fails or is cut off puts a part of a payload out that may come next.
LEMMA TearsWhatIsDue ==
  ASSUME NEW p, Tear(p), P!Due(p)
  PROVE  [P!Next]_P!vars
<1> DEFINE t == [after |-> Len(output), of |-> p]
<1>1. torn' = torn \cup {t} /\ t \in torn' /\ t.after = Len(output) /\ t.of = p
  BY DEF Tear
<1>2. P!Tear
  BY <1>1 DEF Tear, P!Tear
<1> QED
  BY <1>2 DEF P!Next

\* So it is for what the end of the process cuts off (CloseConn, a panic).
LEMMA CutOffIsDue ==
  ASSUME SessionInv, TornInv, main # "exited", CutOff
  PROVE  [P!Next]_P!vars
<1>1. CASE UNCHANGED sinkVars
  BY <1>1 DEF P!vars
<1>2. CASE \E p \in InWrite : Tear(p)
  <2>1. PICK p \in InWrite : Tear(p)
    BY <1>2
  <2>2. P!Due(p)
    BY MediaIsDue, InitIsDue DEF InWrite, P!Due
  <2> QED
    BY <2>1, <2>2, TearsWhatIsDue
<1> QED
  BY <1>1, <1>2 DEF CutOff

(***************************************************************************)
(* A step leaves the output alone, writes or tears the init segment when   *)
(* nothing has come out, or writes or tears a stream's next media object.  *)
(***************************************************************************)
LEMMA StepPlays == SessionInv /\ EndInv /\ [Next]_vars => [P!Next]_P!vars
<1> SUFFICES ASSUME SessionInv, TornInv, Next, ~UNCHANGED <<output, torn>> PROVE [P!Next]_P!vars
  BY DEF vars, P!vars, EndInv
<1>0. main # "exited"
  BY DEF Next, Terminated, vars
<1>1. ASSUME NEW p \in Payloads, P!Due(p), Write(p) PROVE [P!Next]_P!vars
  <2>1. output' = Append(output, p) /\ Len(output') = Len(output) + 1 /\ torn' = torn
        /\ output'[Len(output) + 1] = p
    BY <1>1 DEF Write, SinkTypeOK
  <2> QED
    BY <1>1, <2>1 DEF P!Next, P!Write, P!Appended
<1>2. ASSUME NEW p \in Payloads, P!Due(p), WriteFails(p) PROVE [P!Next]_P!vars
  BY <1>2, TearsWhatIsDue DEF WriteFails, P!vars
<1>3. CASE WriteInitSegment
  BY <1>1, <1>2, <1>3, InitIsDue DEF WriteInitSegment, P!Due
<1>4. ASSUME NEW s \in Streams, DeliverMedia(s) PROVE [P!Next]_P!vars
  BY <1>0, <1>1, <1>2, <1>4, MediaIsDue DEF DeliverMedia, P!Due
<1>5. CASE CutOff
  BY <1>0, <1>5, CutOffIsDue
<1> QED
  BY <1>3, <1>4, <1>5, OutputWriters DEF CloseConn, ReadPanics

(***************************************************************************)
(* The session implements Playback: for every set of streams and contents, *)
(* every choice of aliases, every interleaving and every write that fails, *)
(* the output is an init segment followed by media objects in order, and   *)
(* what comes out in part is the last of its stream (bootstrapFromCatalog, *)
(* deliverSubgroupObject, writePayload).                                   *)
(***************************************************************************)
THEOREM PlaysCorrectly == Spec => PlaybackSpec
<1>1. Init => P!Init
  BY DEF Init, SinkInit, P!Init
<1>2. SessionInv /\ EndInv /\ [Next]_vars => [P!Next]_P!vars
  BY StepPlays
<1> QED
  BY <1>1, <1>2, SessionCorrect, EndCorrect, PTL DEF Spec, PlaybackSpec, P!Spec

=============================================================================

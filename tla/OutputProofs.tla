---------------------------- MODULE OutputProofs ----------------------------
(***************************************************************************)
(* Proofs that the output and the byte counter agree with what handlers    *)
(* have read: nothing is lost, and every write is counted.                 *)
(***************************************************************************)
EXTENDS SessionProofs, FiniteSetTheorems

\* Tuples of variables and conjunctions that only list their parts.
USE DEF registryVars, relayVars, sinkVars, mainVars, envVars, subVars, errVars,
        handlerVars, statVars, SessionInv, TypeOK

(***************************************************************************)
(* Every write is counted (CountPayload follows Write).                    *)
(***************************************************************************)
Counting == {s \in Streams : hpc[s] = "count"}

\* Steps by other than the goroutines that write.
LEMMA OthersDoNotCount ==
  ASSUME SessionInv, Next
  PROVE  \/ UNCHANGED <<bytesWritten, output, InitCounting, Counting>>
         \/ WriteInitSegment \/ CountInitSegment
         \/ \E s \in Streams : DeliverMedia(s) \/ CountBytes(s)
         \/ \E s \in Streams : ReadPanics(s)
<1>1. CASE MainStep
  <2>1. UNCHANGED <<bytesWritten, output, InitCounting>> \/ WriteInitSegment \/ CountInitSegment
    BY <1>1 DEF InitCounting, MainStep, Dial, OpenOutput, NewSink, SendClientSetup, WaitPeerSetup,
       NewTrackSubscription, SendSubscribe, WaitSubscribeOK, WaitFirstObject, UseCatalog, LoopDone,
       LoopError, CloseSink, CloseWriter, ReapChild, CloseConn, CutOff, Tear, GoTo, Return, DoneCase
  <2>2. UNCHANGED Counting
    BY <1>1, HandlersOwnState DEF Counting
  <2> QED
    BY <2>1, <2>2
<1>2. CASE \E r \in Roles : ReaderStep(r)
  BY <1>2 DEF ReaderStep, ReadMessage, NotifyOK, ReaderEnds, InitCounting, Counting
<1>3. CASE \E k \in Acceptors : AcceptorStep(k)
  BY <1>3 DEF AcceptorStep, AcceptFails, SendAcceptError, InitCounting, Counting
<1>4. ASSUME NEW s \in Streams, AcceptUniStream(s) \/ HandlerStep(s),
             ~DeliverMedia(s), ~CountBytes(s), ~ReadPanics(s)
      PROVE  UNCHANGED <<bytesWritten, output, InitCounting, Counting>>
  <2>1. UNCHANGED <<bytesWritten, output, main>>
    BY <1>4 DEF AcceptUniStream, HandlerStep, HandleUniStream, DispatchControlMessage, ReadObject,
       DeliverFirst, ReadFails, SendStreamError
  <2>2. \A t \in Streams : hpc'[t] = "count" <=> hpc[t] = "count"
    BY <1>4 DEF HandlerTypeOK, AcceptUniStream, HandlerStep, HandleUniStream,
       DispatchControlMessage, ReadObject, AfterObject, DeliverFirst, ReadFails, SendStreamError,
       Fail, Finish
  <2> QED
    BY <2>1, <2>2 DEF Counting, InitCounting
<1>5. CASE Cancel \/ ConnLost \/ Stall \/ RelayStep \/ ChildStep \/ Terminated
  BY <1>5 DEF Cancel, ConnLost, Stall, RelayStep, ChildStep, ShellExits, PipeFreed, Terminated,
     vars, InitCounting, Counting
<1> QED
  BY <1>1, <1>2, <1>3, <1>4, <1>5 DEF Next, Alive

LEMMA StepCounts ==
  ASSUME SessionInv, EndInv, IsFiniteSet(Counting), BytesAccounted, [Next]_vars
  PROVE  IsFiniteSet(Counting)' /\ BytesAccounted'
<1> USE DEF SinkTypeOK
<1> DEFINE Accounted == bytesWritten + InitCounting + Cardinality(Counting) = Len(output)
<1>0. BytesAccounted <=> (result # "panic" => Accounted)
  BY DEF BytesAccounted, Counting
<1>1. IsFiniteSet(Counting) /\ Cardinality(Counting) \in Nat /\ InitCounting \in {0, 1}
      /\ Len(output) \in Nat
  BY FS_CardinalityType DEF InitCounting
<1>2. BytesAccounted' <=> (result' # "panic" => Accounted')
  BY DEF BytesAccounted, Counting
<1>3. result = "panic" => result' = "panic"
  <2>1. result = "panic" => main \in Leaving
    BY DEF EndInv, CauseInv
  <2>2. CASE UNCHANGED vars
    BY <2>2 DEF vars
  <2> QED
    BY <2>1, <2>2, LeavingStays
<1>4. CASE UNCHANGED <<bytesWritten, output, InitCounting, Counting>>
  BY <1>0, <1>1, <1>2, <1>3, <1>4
<1>5. CASE WriteInitSegment
  <2>1. UNCHANGED <<bytesWritten, Counting>> /\ InitCounting = 0
    BY <1>5 DEF WriteInitSegment, Counting, InitCounting
  <2>2. \/ main' = "count" /\ output' = Append(output, held)
        \/ main' = "closeSink" /\ output' = output
    BY <1>5 DEF WriteInitSegment, Write, WriteFails, Tear, Return
  <2>3. Len(Append(output, held)) = Len(output) + 1
    OBVIOUS
  <2>4. InitCounting' = IF main' = "count" THEN 1 ELSE 0
    BY DEF InitCounting
  <2> QED
    BY <1>0, <1>1, <1>2, <1>3, <2>1, <2>2, <2>3, <2>4
<1>6. CASE CountInitSegment
  <2>1. UNCHANGED <<output, Counting>> /\ bytesWritten' = bytesWritten + 1
    BY <1>6 DEF CountInitSegment, CountPayload, Counting
  <2>2. InitCounting = 1 /\ InitCounting' = 0
    BY <1>6 DEF CountInitSegment, GoTo, InitCounting
  <2> QED
    BY <1>0, <1>1, <1>2, <1>3, <2>1, <2>2
<1>7. ASSUME NEW s \in Streams, DeliverMedia(s) PROVE IsFiniteSet(Counting)' /\ BytesAccounted'
  <2>0. UNCHANGED <<bytesWritten, InitCounting>>
    BY <1>7 DEF DeliverMedia, InitCounting
  <2>1. CASE output' = Append(output, Payload(s)) /\ hpc' = [hpc EXCEPT ![s] = "count"]
    <3>1. Len(output') = Len(output) + 1
      BY <2>1
    <3>2. Counting' = Counting \cup {s} /\ s \notin Counting
      BY <1>7, <2>1 DEF DeliverMedia, Counting, HandlerTypeOK
    <3>3. IsFiniteSet(Counting') /\ Cardinality(Counting') = Cardinality(Counting) + 1
      BY <1>1, <3>2, FS_AddElement
    <3> QED
      BY <1>0, <1>1, <1>2, <1>3, <2>0, <3>1, <3>3
  <2>2. CASE UNCHANGED output /\ hpc' = [hpc EXCEPT ![s] = "send"]
    <3>1. UNCHANGED Counting
      BY <1>7, <2>2 DEF DeliverMedia, Counting, HandlerTypeOK
    <3> QED
      BY <1>0, <1>1, <1>2, <1>3, <2>0, <2>2, <3>1
  <2> QED
    BY <1>7, <2>1, <2>2 DEF DeliverMedia, Write, WriteFails, Tear, Fail
<1>8. ASSUME NEW s \in Streams, CountBytes(s) PROVE IsFiniteSet(Counting)' /\ BytesAccounted'
  <2>1. UNCHANGED <<output, InitCounting>> /\ bytesWritten' = bytesWritten + 1
    BY <1>8 DEF CountBytes, CountPayload, InitCounting
  <2>2. Counting' = Counting \ {s} /\ s \in Counting
    BY <1>8 DEF CountBytes, Counting, HandlerTypeOK
  <2>3. IsFiniteSet(Counting') /\ Cardinality(Counting') = Cardinality(Counting) - 1
    BY <1>1, <2>2, FS_RemoveElement
  <2> QED
    BY <1>0, <1>1, <1>2, <1>3, <2>1, <2>2, <2>3
<1>9. CASE \E s \in Streams : ReadPanics(s)
  <2>1. UNCHANGED Counting /\ result' = "panic"
    BY <1>9 DEF ReadPanics, Counting
  <2> QED
    BY <1>1, <1>2, <2>1
<1>10. CASE UNCHANGED vars
  BY <1>0, <1>1, <1>2, <1>10 DEF vars, InitCounting, Counting
<1> QED
  BY <1>4, <1>5, <1>6, <1>7, <1>8, <1>9, <1>10, OthersDoNotCount

(***************************************************************************)
(* The byte counter lags behind the output by the goroutines between their *)
(* write and the counter, however many streams the relay opens             *)
(* (deliverSubgroupObject, bootstrapFromCatalog).                          *)
(***************************************************************************)
THEOREM BytesCorrect == Spec => []BytesAccounted
<1>1. Init => IsFiniteSet(Counting) /\ BytesAccounted
  <2> SUFFICES ASSUME Init PROVE IsFiniteSet(Counting) /\ BytesAccounted
    OBVIOUS
  <2>1. Counting = {}
    BY DEF Init, Counting
  <2>2. IsFiniteSet({}) /\ Cardinality({}) = 0
    BY FS_EmptySet
  <2>3. bytesWritten = 0 /\ Len(output) = 0 /\ InitCounting = 0
    BY DEF Init, SinkInit, InitCounting
  <2>4. bytesWritten + InitCounting + Cardinality(Counting) = Len(output) => BytesAccounted
    BY DEF BytesAccounted, Counting
  <2> QED
    BY <2>1, <2>2, <2>3, <2>4
<1>2. SessionInv /\ EndInv /\ IsFiniteSet(Counting) /\ BytesAccounted /\ [Next]_vars
        => IsFiniteSet(Counting)' /\ BytesAccounted'
  BY StepCounts
<1> QED
  BY <1>1, <1>2, SessionCorrect, EndCorrect, PTL DEF Spec

-----------------------------------------------------------------------------
(***************************************************************************)
(* With track_alias = request_id no media is lost.                         *)
(***************************************************************************)

\* What is played stays played.
LEMMA PlayedKept ==
  ASSUME SessionInv, [Next]_vars
  PROVE  \A s \in Streams : \A i : Played(s, i) => Played(s, i)'
<1>1. output' = output \/ \E p : output' = Append(output, p)
  BY OutputWriters DEF WriteInitSegment, DeliverMedia, Write, WriteFails, Tear, vars
<1>2. output \in Seq(Payloads)
  BY DEF SinkTypeOK
<1>3. \A j \in DOMAIN output : j \in DOMAIN output' /\ output'[j] = output[j]
  BY <1>1, <1>2
<1> QED
  BY <1>3 DEF Played

\* A stream whose handler and content stay the same.
LEMMA StreamKeepsMedia ==
  ASSUME SessionInv, MediaInv, [Next]_vars, NEW s \in Streams,
         hpc'[s] = hpc[s], hpos'[s] = hpos[s], hsub'[s] = hsub[s],
         hpc[s] \in {"read", "write", "count"} => body'[s] = body[s] /\ track'[s] = track[s]
  PROVE  /\ hpc'[s] \in {"none", "type"} => hpos'[s] = 0
         /\ hpc'[s] = "first" => hsub'[s] # "media"
         /\ MatchAlias /\ track'[s] = "media" /\ hpc'[s] \in {"read", "write", "count"} =>
              \A i \in PayloadsOf(s)' :
                i <= hpos'[s] /\ ~(hpc'[s] = "write" /\ i = hpos'[s]) => Played(s, i)'
BY PlayedKept DEF MediaInv, PayloadsOf

\* The handler of s itself.
LEMMA HandlerKeepsMedia ==
  ASSUME SessionInv, MediaInv, Next, NEW s \in Streams, AcceptUniStream(s) \/ HandlerStep(s)
  PROVE  MediaInv'
<1> DEFINE Fine(t) ==
      /\ hpc[t] \in {"none", "type"} => hpos[t] = 0
      /\ hpc[t] = "first" => hsub[t] # "media"
      /\ MatchAlias /\ track[t] = "media" /\ hpc[t] \in {"read", "write", "count"} =>
           \A i \in PayloadsOf(t) :
             i <= hpos[t] /\ ~(hpc[t] = "write" /\ i = hpos[t]) => Played(t, i)
<1>1. UNCHANGED <<body, track>>
  BY DEF AcceptUniStream, HandlerStep, HandleUniStream, DispatchControlMessage, ReadObject,
         DeliverFirst, DeliverMedia, CountBytes, ReadFails, ReadPanics, SendStreamError
<1>2. ASSUME NEW t \in Streams, t # s PROVE Fine(t)'
  <2>1. hpc'[t] = hpc[t] /\ hpos'[t] = hpos[t] /\ hsub'[t] = hsub[t]
    BY <1>2 DEF HandlerTypeOK, AcceptUniStream, HandlerStep, HandleUniStream,
       DispatchControlMessage, ReadObject, DeliverFirst, DeliverMedia, CountBytes, ReadFails,
       ReadPanics, SendStreamError, Fail, Finish
  <2> QED
    BY <1>1, <2>1, StreamKeepsMedia
<1>3. Fine(s)'
  <2> USE DEF HandlerTypeOK
  <2>0. /\ PayloadsOf(s)' = PayloadsOf(s) /\ \A i : Played(s, i) => Played(s, i)'
        /\ \A i \in PayloadsOf(s) : i \in Nat /\ i >= 1
        /\ hpos[s] \in Nat
        /\ Fine(s)
    <3>1. \A i \in PayloadsOf(s) : i \in Nat /\ i >= 1
      <4>1. CASE body[s] = NoBody
        BY <4>1 DEF PayloadsOf, NoBody
      <4>2. CASE body[s] # NoBody
        <5>1. body[s].items \in Seq(Items)
          BY <4>2, RelayAssumption DEF RelayTypeOK
        <5> QED
          BY <5>1 DEF PayloadsOf
      <4> QED
        BY <4>1, <4>2
    <3> QED
      BY <1>1, <3>1, PlayedKept DEF PayloadsOf, MediaInv
  <2>1. CASE AcceptUniStream(s)
    BY <2>0, <2>1 DEF AcceptUniStream
  <2>2. CASE HandleUniStream(s)
    BY <2>0, <2>2 DEF HandleUniStream, Finish
  <2>3. CASE DispatchControlMessage(s)
    BY <2>0, <2>3 DEF DispatchControlMessage, Fail, Finish
  <2>4. CASE ReadObject(s)
    <3>1. /\ hpc[s] = "read" /\ hpos'[s] = hpos[s] + 1 /\ hpc'[s] = AfterObject(s)
          /\ hsub'[s] = hsub[s] /\ UNCHANGED output
      BY <2>4 DEF ReadObject
    <3>2. AfterObject(s) \in {"read", "first", "write"}
      BY DEF AfterObject
    <3>3. AfterObject(s) = "first" => hsub[s] # "media"
      BY DEF AfterObject
    <3>4. ASSUME MatchAlias, track[s] = "media", AfterObject(s) = "read",
                 hpos[s] + 1 \in PayloadsOf(s)
          PROVE  FALSE
      <4>1. Item(s) = "payload"
        BY <3>4 DEF PayloadsOf, Item
      <4>2. hsub[s] = "media"
        BY <3>1, <3>4 DEF ConventionInv, BoundToOwnTrack, Resolved, StreamsInv
      <4> QED
        BY <3>4, <4>1, <4>2 DEF AfterObject, NoSub
    <3>5. ASSUME MatchAlias, track[s] = "media", NEW i \in PayloadsOf(s), i <= hpos[s] + 1,
                 hpc'[s] \in {"read", "write"}, ~(hpc'[s] = "write" /\ i = hpos[s] + 1)
          PROVE  Played(s, i)
      <4>1. i # hpos[s] + 1
        BY <3>1, <3>4, <3>5
      <4>2. i <= hpos[s]
        BY <2>0, <3>5, <4>1
      <4> QED
        BY <2>0, <3>1, <3>5, <4>2
    <3> QED
      BY <1>1, <2>0, <3>1, <3>2, <3>3, <3>5
  <2>5. CASE DeliverFirst(s)
    <3>1. ~(MatchAlias /\ track[s] = "media")
      BY <2>5 DEF DeliverFirst, MediaInv, ConventionInv, BoundToOwnTrack, Resolved, StreamsInv
    <3> QED
      BY <1>1, <2>5, <3>1 DEF DeliverFirst
  <2>6. CASE DeliverMedia(s)
    <3>1. CASE hpc' = [hpc EXCEPT ![s] = "count"] /\ Write(Payload(s)) /\ UNCHANGED hpos
      <4>1. output' = Append(output, Payload(s)) /\ output \in Seq(Payloads)
        BY <3>1 DEF Write, SinkTypeOK
      <4>2. /\ Len(output) + 1 \in DOMAIN output'
            /\ output'[Len(output) + 1] = Payload(s)
        BY <4>1
      <4>3. Played(s, hpos[s])'
        BY <3>1, <4>2 DEF Played, Payload
      <4>4. hpc[s] = "write" /\ hpc'[s] = "count" /\ hpos'[s] = hpos[s]
        BY <2>6, <3>1 DEF DeliverMedia
      <4> QED
        BY <1>1, <2>0, <4>3, <4>4
    <3>2. CASE hpc'[s] = "send"
      BY <3>2
    <3> QED
      BY <2>6, <3>1, <3>2 DEF DeliverMedia, Fail
  <2>7. CASE CountBytes(s)
    BY <1>1, <2>0, <2>7 DEF CountBytes
  <2>8. CASE ReadFails(s) \/ SendStreamError(s)
    BY <2>8 DEF ReadFails, SendStreamError, Fail, Finish
  <2>9. CASE ReadPanics(s)
    BY <1>1, <2>0, <2>9 DEF ReadPanics
  <2> QED
    BY <2>1, <2>2, <2>3, <2>4, <2>5, <2>6, <2>7, <2>8, <2>9 DEF HandlerStep
<1> QED
  BY <1>2, <1>3 DEF MediaInv

LEMMA StepKeepsMedia ==
  ASSUME SessionInv, MediaInv, [Next]_vars
  PROVE  MediaInv'
<1>1. CASE \E s \in Streams : AcceptUniStream(s) \/ HandlerStep(s)
  <2>1. CASE Next
    BY <1>1, <2>1, HandlerKeepsMedia
  <2>2. CASE UNCHANGED vars
    BY <2>2, StreamKeepsMedia DEF vars, MediaInv
  <2> QED
    BY <2>1, <2>2
<1>2. CASE ~\E s \in Streams : AcceptUniStream(s) \/ HandlerStep(s)
  <2>1. UNCHANGED handlerVars
    BY <1>2, HandlersOwnState DEF Next, Alive, Terminated, vars
  <2>2. \A s \in Streams : body[s] # NoBody => body'[s] = body[s] /\ track'[s] = track[s]
    <3>1. CASE RelayStep
      BY <3>1 DEF RelayStep, RelayAccepts, RelayDeclines, RelayOpensData, RelayOpensOther,
                  RelayTypeOK
    <3>2. CASE MainStep \/ (\E r \in Roles : ReaderStep(r)) \/ (\E k \in Acceptors : AcceptorStep(k))
      BY <3>2 DEF MainStep, Dial, OpenOutput, SendClientSetup, WaitPeerSetup, NewTrackSubscription,
         SendSubscribe, WaitSubscribeOK, WaitFirstObject, UseCatalog, WriteInitSegment,
         CountInitSegment, LoopDone, LoopError, CloseSink, ReapChild, CloseConn, ReaderStep, ReadMessage, NotifyOK, ReaderEnds,
         AcceptorStep, AcceptFails, SendAcceptError
    <3>3. CASE Cancel \/ ConnLost \/ Stall \/ ChildStep \/ Terminated \/ UNCHANGED vars
      BY <3>3 DEF Cancel, ConnLost, Stall, ChildStep, Terminated, vars
    <3> QED
      BY <1>2, <3>1, <3>2, <3>3 DEF Next, Alive
  <2>3. \A s \in Streams : hpc[s] \in {"read", "write", "count"} => body[s] # NoBody
    BY DEF StreamsInv, NoBody
  <2> QED
    BY <2>1, <2>2, <2>3, StreamKeepsMedia DEF MediaInv
<1> QED
  BY <1>1, <1>2

\* The invariant behind NoMediaLost (handleSubgroupStream, deliverSubgroupObject).
THEOREM MediaCorrect == Spec => []MediaInv
<1>1. Init => MediaInv
  BY DEF Init, MediaInv
<1>2. SessionInv /\ MediaInv /\ [Next]_vars => MediaInv'
  BY StepKeepsMedia
<1> QED
  BY <1>1, <1>2, SessionCorrect, PTL DEF Spec

(***************************************************************************)
(* With track_alias = request_id every media object that was read is in    *)
(* the output while its handler goes on, however early its stream came     *)
(* (register before SUBSCRIBE, lookupDelivery's fallback, writePayload).   *)
(***************************************************************************)
THEOREM NoMediaLostCorrect == Spec => [](MatchAlias => NoMediaLost)
<1>1. MediaInv => (MatchAlias => NoMediaLost)
  BY DEF MediaInv, NoMediaLost
<1> QED
  BY <1>1, MediaCorrect, PTL
=============================================================================

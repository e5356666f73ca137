------------------------- MODULE RichSessionProofs --------------------------
(***************************************************************************)
(* Proofs about sessions with --rich-log: recording changes nothing that a *)
(* session does, and the page shows the init segment above all media.      *)
(***************************************************************************)
EXTENDS RichSessionProps, SessionProofs

\* Tuples of variables and conjunctions that only list their parts.
USE DEF registryVars, relayVars, sinkVars, mainVars, envVars, subVars, errVars,
        handlerVars, statVars, recorderVars, SessionInv, TypeOK, RecorderTypeOK

(***************************************************************************)
(* Recording.                                                              *)
(***************************************************************************)

\* A step of a session that records is one of Session, or one of the recorder only.
LEMMA RichStepIsStep == RichNext => [Next]_vars
<1> SUFFICES ASSUME RichNext PROVE Next \/ UNCHANGED vars
  OBVIOUS
<1>1. CASE Terminated
  BY <1>1 DEF Next
<1>2. CASE main # "exited" /\ RichAlive
  <2>1. CASE RichMain
    BY <1>2, <2>1 DEF RichMain, Next, Alive
  <2>2. CASE AddOwed("main") \/ \E s \in Streams : AddOwed(s)
    BY <2>2 DEF AddOwed
  <2>3. ASSUME NEW r \in Roles, RichReader(r) PROVE Next \/ UNCHANGED vars
    BY <1>2, <2>3 DEF RichReader, Note, ReaderStep, Next, Alive
  <2>4. ASSUME NEW s \in Streams, RichHandler(s) PROVE Next \/ UNCHANGED vars
    BY <1>2, <2>4 DEF RichHandler, HandlerStep, Next, Alive
  <2>5. ASSUME NEW s \in Streams, RichControl(s) PROVE Next \/ UNCHANGED vars
    BY <1>2, <2>5 DEF RichControl, Note, HandlerStep, Next, Alive
  <2>6. CASE \/ \E k \in Acceptors : AcceptorStep(k)
             \/ \E s \in Streams : AcceptUniStream(s)
             \/ Cancel \/ ConnLost \/ Stall \/ RelayStep \/ ChildStep
    BY <1>2, <2>6 DEF Next, Alive
  <2> QED
    BY <1>2, <2>1, <2>2, <2>3, <2>4, <2>5, <2>6 DEF RichAlive
<1> QED
  BY <1>1, <1>2 DEF RichNext

(***************************************************************************)
(* A session that records is a session: the recorder's mutex, and events   *)
(* owed and noted, only delay its steps (richlog.Recorder).                *)
(***************************************************************************)
THEOREM RichImplementsSession == RichSpec => Spec
<1>1. RichInit => Init
  BY DEF RichInit
<1>2. [RichNext]_allVars => [Next]_vars
  BY RichStepIsStep DEF allVars
<1> QED
  BY <1>1, <1>2, PTL DEF RichSpec, Spec

(***************************************************************************)
(* So everything proved of Session holds of it, such as what is played     *)
(* (bootstrapFromCatalog, writePayload).                                   *)
(***************************************************************************)
THEOREM RichPlaysCorrectly == RichSpec => PlaybackSpec /\ []SessionInv
BY RichImplementsSession, PlaysCorrectly, SessionCorrect, PTL

-----------------------------------------------------------------------------
(***************************************************************************)
(* What an addition does to the page (Recorder.Add).                       *)
(***************************************************************************)

LEMMA AddingKeeps ==
  ASSUME NEW ev \in Events, events \in Seq(Events), events' = With(ev)
  PROVE  /\ events' \in Seq(Events)
         /\ \A x : Recorded(x) => Recorded(x)'
         /\ \A x : Recorded(x)' => Recorded(x) \/ x = ev
         /\ ev.name \in Kept => Recorded(ev)'
         /\ \A a, b : Precedes(a, b) /\ (ev = b => Recorded(a)) => Precedes(a, b)'
<1>1. CASE ev.name \notin Kept
  <2>1. events' = events
    BY <1>1 DEF With
  <2> QED
    BY <1>1, <2>1 DEF Recorded, Precedes
<1>2. CASE ev.name \in Kept
  <2> PICK n : n = Len(events)
    OBVIOUS
  <2>1. events' = Append(events, ev)
    BY <1>2 DEF With
  <2>2. /\ n \in Nat /\ DOMAIN events = 1..n /\ DOMAIN events' = 1..(n + 1)
        /\ \A i \in 1..n : events'[i] = events[i]
        /\ events'[n + 1] = ev /\ events' \in Seq(Events)
    BY <2>1
  <2>3. \A x : Recorded(x) => Recorded(x)'
    BY <2>2 DEF Recorded
  <2>4. \A x : Recorded(x)' => Recorded(x) \/ x = ev
    BY <2>2 DEF Recorded
  <2>5. Recorded(ev)'
    BY <2>2 DEF Recorded
  <2>6. ASSUME NEW a, NEW b, Precedes(a, b), ev = b => Recorded(a)
        PROVE  Precedes(a, b)'
    <3> SUFFICES ASSUME NEW j \in DOMAIN events', events'[j] = b
                 PROVE  \E i \in 1..j : events'[i] = a
      BY DEF Precedes
    <3>1. CASE j \in 1..n
      <4>1. PICK i \in 1..j : events[i] = a
        BY <2>2, <2>6, <3>1 DEF Precedes
      <4> QED
        BY <2>2, <3>1, <4>1
    <3>2. CASE j = n + 1
      <4>1. PICK i \in 1..n : events[i] = a
        BY <2>2, <2>6, <3>2 DEF Recorded
      <4> QED
        BY <2>2, <3>2, <4>1
    <3> QED
      BY <2>2, <3>1, <3>2
  <2> QED
    BY <2>2, <2>3, <2>4, <2>5, <2>6
<1> QED
  BY <1>1, <1>2

-----------------------------------------------------------------------------
(***************************************************************************)
(* Every step records: what is on the page stays there (Recorder.Add).     *)
(***************************************************************************)

\* A handler owes its header, a row, or nothing.
LEMMA HandlerOwes ==
  ASSUME NEW s \in Streams
  PROVE  HandlerEvent(s) \in {HeaderOf(s), Row, Nothing} /\ HandlerEvent(s) \in Events
BY DEF HandlerEvent, HeaderOf, Event, Events, EventNames, Row, Nothing

LEMMA MainOwes ==
  ASSUME cur \in Roles
  PROVE  /\ MainEvent \in Events /\ MainEvent # Row
         /\ \A s \in Streams : MainEvent # HeaderOf(s)
BY DEF MainEvent, Nothing, Row, Event, Events, EventNames, HeaderOf

\* A step adds an event or none.
LEMMA StepAdds ==
  ASSUME SessionInv, RecorderTypeOK, [RichNext]_allVars
  PROVE  UNCHANGED events \/ \E ev \in Events : events' = With(ev)
<1>1. CASE RichMain \/ (\E s \in Streams : RichHandler(s)) \/ UNCHANGED richVars
  BY <1>1 DEF RichMain, RichHandler, Owe, richVars
<1>2. ASSUME NEW g \in {"main"} \cup Streams, AddOwed(g)
      PROVE  UNCHANGED events \/ \E ev \in Events : events' = With(ev)
  <2>1. Event("OBJECTS", g) \in Events
    BY DEF Event, Events, EventNames
  <2> QED
    BY <1>2, <2>1 DEF AddOwed, Add, AddObject
<1>3. ASSUME NEW r \in Roles, RichReader(r)
      PROVE  UNCHANGED events \/ \E ev \in Events : events' = With(ev)
  <2>1. AnswerEvent(r) \in Events
    BY DEF AnswerEvent, Event, Events, EventNames
  <2> QED
    BY <1>3, <2>1 DEF RichReader, Note, Add, ActOn, richVars
<1>4. ASSUME NEW s \in Streams, RichControl(s)
      PROVE  UNCHANGED events \/ \E ev \in Events : events' = With(ev)
  <2>1. Event("SETUP", s) \in Events /\ Event("GOAWAY", s) \in Events
    BY DEF Event, Events, EventNames
  <2> QED
    BY <1>4, <2>1 DEF RichControl, Note, Add, ActOn, richVars
<1> QED
  BY <1>1, <1>2, <1>3, <1>4 DEF RichNext, RichAlive, allVars, richVars

LEMMA StepRecords ==
  ASSUME SessionInv, RecorderTypeOK, [RichNext]_allVars
  PROVE  RecorderTypeOK' /\ \A x : Recorded(x) => Recorded(x)'
<1>1. events' \in Seq(Events) /\ \A x : Recorded(x) => Recorded(x)'
  <2>1. CASE UNCHANGED events
    BY <2>1 DEF Recorded
  <2>2. ASSUME NEW ev \in Events, events' = With(ev)
        PROVE  events' \in Seq(Events) /\ \A x : Recorded(x) => Recorded(x)'
    BY <2>2, AddingKeeps
  <2> QED
    BY <2>1, <2>2, StepAdds
<1>2. /\ rows' \in [Streams -> Seq(Nat)]
      /\ owed' \in [{"main"} \cup Streams -> Events] /\ noted' \in [Roles \cup Streams -> BOOLEAN]
  <2>1. CASE RichMain
    <3>1. MainEvent \in Events
      BY MainOwes DEF MainTypeOK
    <3> QED
      BY <2>1, <3>1 DEF RichMain, Owe
  <2>2. CASE \E s \in Streams : RichHandler(s)
    BY <2>2, HandlerOwes DEF RichHandler, Owe
  <2>3. CASE AddOwed("main") \/ \E s \in Streams : AddOwed(s)
    <3>1. PICK g \in {"main"} \cup Streams : AddOwed(g)
      BY <2>3
    <3>2. Nothing \in Events
      BY DEF Nothing, Event, Events, EventNames
    <3>3. rows' \in [Streams -> Seq(Nat)]
      <4>1. UNCHANGED rows \/ rows' = [rows EXCEPT ![g] = Append(@, hpos[g])]
        BY <3>1 DEF AddOwed, Add, AddObject
      <4>2. CASE g \in Streams
        <5>1. Append(rows[g], hpos[g]) \in Seq(Nat)
          BY <4>2 DEF HandlerTypeOK
        <5> QED
          BY <4>1, <5>1
      <4>3. CASE g \notin Streams
        BY <4>1, <4>3
      <4> QED
        BY <4>2, <4>3
    <3> QED
      BY <3>1, <3>2, <3>3 DEF AddOwed
  <2>4. CASE (\E r \in Roles : RichReader(r)) \/ (\E s \in Streams : RichControl(s))
               \/ UNCHANGED richVars
    BY <2>4 DEF RichReader, RichControl, Note, Add, ActOn, richVars
  <2> QED
    BY <2>1, <2>2, <2>3, <2>4 DEF RichNext, RichAlive, allVars
<1> QED
  BY <1>1, <1>2

LEMMA RecorderStarts == RichInit => RecorderTypeOK
<1>1. Nothing \in Events
  BY DEF Nothing, Event, Events, EventNames
<1> QED
  BY <1>1 DEF RichInit, RecorderInit

\* The recorder's variables keep their types.
LEMMA RecorderTypes == RichSpec => []RecorderTypeOK
<1>1. SessionInv /\ RecorderTypeOK /\ [RichNext]_allVars => RecorderTypeOK'
  BY StepRecords
<1> QED
  BY <1>1, RecorderStarts, RichPlaysCorrectly, PTL DEF RichSpec

-----------------------------------------------------------------------------
(***************************************************************************)
(* INIT SEGMENT WRITTEN above all media.                                   *)
(***************************************************************************)
InitKept == "INIT SEGMENT WRITTEN" \in Kept

\* How the bootstrap gets to media (bootstrapFromCatalog).
LEMMA MainReachesMedia ==
  ASSUME SessionInv, MainStep
  PROVE  /\ UNCHANGED trackAlias
         /\ cur' \in Roles
         /\ cur' = "media" => cur = "media" \/ main' = "count"
         /\ requestID'["media"] # NoId => \/ requestID["media"] # NoId
                                          \/ cur = "media" /\ main \notin {"count", "exited"}
         /\ requestID["media"] # NoId => requestID'["media"] # NoId
<1>1. CASE NewTrackSubscription
  BY <1>1, IdsAssumption
     DEF NewTrackSubscription, GoTo, SubTypeOK, MainTypeOK, Roles, NoId
<1>2. CASE Dial \/ OpenOutput \/ SendClientSetup \/ WaitPeerSetup
  BY <1>2 DEF Dial, OpenOutput, SendClientSetup, WaitPeerSetup, GoTo, Return, DoneCase, MainTypeOK
<1>3. CASE SendSubscribe \/ WaitSubscribeOK \/ WaitFirstObject
  BY <1>3 DEF SendSubscribe, WaitSubscribeOK, WaitFirstObject, GoTo, Return, DoneCase, MainTypeOK
<1>4. CASE UseCatalog \/ WriteInitSegment \/ CountInitSegment
  BY <1>4 DEF UseCatalog, WriteInitSegment, CountInitSegment, GoTo, Return, MainTypeOK, Roles
<1>5. CASE LoopDone \/ LoopError \/ CloseSink \/ ReapChild \/ CloseConn
  BY <1>5 DEF LoopDone, LoopError, CloseSink, ReapChild, CloseConn, GoTo, Return, MainTypeOK
<1> QED
  BY <1>1, <1>2, <1>3, <1>4, <1>5 DEF MainStep

\* An alias leads to media only after its subscription got a request ID.
LEMMA LookupNeedsRequest ==
  ASSUME SessionInv, RecorderTypeOK, PageInv, NEW a \in Ids, lookupDelivery(a) = "media"
  PROVE  requestID["media"] # NoId
<1>1. CASE byAlias[a] = "media"
  <2>1. trackAlias["media"] = a
    BY <1>1 DEF BindingInv, NoSub
  <2> QED
    BY <2>1, IdsAssumption DEF PageInv, NoId
<1>2. CASE byRequest[a] = "media"
  <2>1. requestID["media"] = a
    BY <1>2 DEF RequestInv, NoSub
  <2> QED
    BY <2>1, IdsAssumption DEF NoId
<1> QED
  BY <1>1, <1>2 DEF lookupDelivery

\* A step of the recorder only, or one that neither touches it nor what PageInv speaks of.
LEMMA PageFrame ==
  ASSUME RecorderTypeOK, PageInv,
         UNCHANGED <<events, owed, main, cur, requestID, trackAlias, hsub, hpc>>
  PROVE  PageInv'
BY DEF PageInv, InitAboveMedia, Recorded, Precedes

LEMMA PageAdds ==
  ASSUME RecorderTypeOK, PageInv, NEW ev \in Events, events' = With(ev), UNCHANGED owed, UNCHANGED vars,
         \A s \in Streams : ev # HeaderOf(s)
  PROVE  PageInv'
<1>1. /\ UNCHANGED <<main, cur, requestID, trackAlias, hsub, hpc>>
      /\ events \in Seq(Events)
  BY DEF vars, PageInv
<1>2. InitAboveMedia'
  BY <1>1, AddingKeeps DEF PageInv, InitAboveMedia
<1> QED
  BY <1>1, <1>2, AddingKeeps DEF PageInv

\* What the goroutine g owes is added.
LEMMA OwedAdds ==
  ASSUME InitKept, RecorderTypeOK, PageInv, NEW g \in {"main"} \cup Streams, AddOwed(g)
  PROVE  PageInv'
<1>1. /\ UNCHANGED <<main, cur, requestID, trackAlias, hsub, hpc>>
      /\ events \in Seq(Events) /\ owed[g] \in Events
      /\ owed' = [owed EXCEPT ![g] = Nothing] /\ owed \in [{"main"} \cup Streams -> Events]
  BY DEF AddOwed, vars, PageInv
<1>2. Nothing \in Events /\ \A s \in Streams : Nothing # HeaderOf(s)
  BY DEF Nothing, Event, Events, EventNames, HeaderOf, Roles
<1>3. /\ owed' \in [{"main"} \cup Streams -> Events]
      /\ \A h \in {"main"} \cup Streams : owed'[h] \in {owed[h], Nothing}
      /\ \A h \in {"main"} \cup Streams : h # g => owed'[h] = owed[h]
  BY <1>1, <1>2
<1>4. PICK add \in Events :
        /\ events' = events \/ events' = With(add)
        /\ \/ owed[g] # Row /\ add = owed[g] /\ events' = With(add)
           \/ owed[g] = Row /\ \A s \in Streams : add # HeaderOf(s)
  <2>1. CASE owed[g] # Row
    BY <1>1, <2>1 DEF AddOwed, Add
  <2>2. CASE owed[g] = Row
    <3> DEFINE add == Event("OBJECTS", g)
    <3>1. add \in Events
      BY DEF Event, Events, EventNames
    <3>2. \A s \in Streams : add # HeaderOf(s)
      BY DEF Event, HeaderOf
    <3>3. events' = events \/ events' = With(add)
      BY <2>2 DEF AddOwed, AddObject
    <3> QED
      BY <2>2, <3>1, <3>2, <3>3
  <2> QED
    BY <2>1, <2>2
<1>5. /\ events' \in Seq(Events)
      /\ \A x : Recorded(x) => Recorded(x)'
      /\ \A x : Recorded(x)' => Recorded(x) \/ x = add
      /\ \A a, b : Precedes(a, b) /\ (add = b => Recorded(a)) => Precedes(a, b)'
  <2>1. CASE events' = events
    BY <1>1, <2>1 DEF Recorded, Precedes
  <2>2. CASE events' = With(add)
    BY <1>1, <2>2, AddingKeeps
  <2> QED
    BY <1>4, <2>1, <2>2
<1>6. (cur = "media" => \/ Recorded(InitWritten) \/ owed["main"] = InitWritten
                       \/ main \in {"count", "exited"})'
  <2>1. CASE g = "main" /\ owed["main"] = InitWritten
    <3>1. InitWritten # Row /\ InitWritten.name \in Kept
      BY DEF InitKept, InitWritten, Event, Row
    <3>2. Recorded(InitWritten)'
      BY <1>1, <1>4, <2>1, <3>1, AddingKeeps
    <3> QED
      BY <3>2
  <2>2. CASE ~(g = "main" /\ owed["main"] = InitWritten)
    BY <1>1, <1>3, <1>5, <2>2 DEF PageInv
  <2> QED
    BY <2>1, <2>2
<1>7. ASSUME NEW s \in Streams
      PROVE  /\ hsub'[s] = "media" => Recorded(InitWritten)'
             /\ hpc'[s] \in {"none", "type"} => ~Recorded(HeaderOf(s))' /\ owed'[s] # HeaderOf(s)
             /\ \A h \in {"main"} \cup Streams : owed'[h] = HeaderOf(s) => h = s
  <2>1. \A h \in {"main"} \cup Streams : owed'[h] = HeaderOf(s) => owed[h] = HeaderOf(s)
    BY <1>2, <1>3
  <2>2. add = HeaderOf(s) => owed[g] = HeaderOf(s)
    BY <1>4
  <2> QED
    BY <1>1, <1>5, <2>1, <2>2 DEF PageInv
<1>8. InitAboveMedia'
  BY <1>1, <1>5 DEF PageInv, InitAboveMedia
<1> QED
  BY <1>1, <1>3, <1>5, <1>6, <1>7, <1>8 DEF PageInv

-----------------------------------------------------------------------------
(***************************************************************************)
(* The steps.                                                              *)
(***************************************************************************)

\* RichMain: the main goroutine owes InitWritten exactly when it moves on to media.
LEMMA MainKeepsPage ==
  ASSUME SessionInv, RecorderTypeOK, PageInv, RichMain
  PROVE  PageInv'
<1>1. /\ owed["main"] = Nothing /\ MainStep /\ owed' = [owed EXCEPT !["main"] = MainEvent]
      /\ owed \in [{"main"} \cup Streams -> Events]
      /\ UNCHANGED events
  BY DEF RichMain, Free, Owe, PageInv
<1>2. UNCHANGED <<hpc, hsub>>
  BY <1>1, HandlersOwnState
<1>3. MainEvent \in Events /\ \A s \in Streams : MainEvent # HeaderOf(s)
  BY MainOwes DEF MainTypeOK
<1>4. /\ owed' \in [{"main"} \cup Streams -> Events] /\ owed'["main"] = MainEvent
      /\ \A s \in Streams : owed'[s] = owed[s]
  BY <1>1, <1>3, RichAssumption
<1>5. Nothing # InitWritten
  BY DEF Nothing, InitWritten, Event
<1>6. (cur = "media" => \/ Recorded(InitWritten) \/ owed["main"] = InitWritten
                       \/ main \in {"count", "exited"})'
  <2>1. CASE cur = "media" /\ main \notin {"count", "exited"}
    BY <1>1, <1>5, <2>1 DEF PageInv, Recorded
  <2>2. CASE main = "count"
    BY <1>4, <2>2 DEF MainEvent, InitWritten
  <2>3. main # "exited"
    BY <1>1 DEF MainStep, Dial, OpenOutput, SendClientSetup, WaitPeerSetup, NewTrackSubscription,
                SendSubscribe, WaitSubscribeOK, WaitFirstObject, UseCatalog, WriteInitSegment,
                CountInitSegment, LoopDone, LoopError, CloseSink, ReapChild, CloseConn
  <2> QED
    BY <1>1, <2>1, <2>2, <2>3, MainReachesMedia
<1>7. (requestID["media"] # NoId => Recorded(InitWritten))'
  BY <1>1, <1>5, MainReachesMedia DEF PageInv, Recorded
<1>8. (trackAlias["media"] # NoId => requestID["media"] # NoId)'
  BY <1>1, MainReachesMedia DEF PageInv
<1>9. ASSUME NEW s \in Streams
      PROVE  /\ hsub'[s] = "media" => Recorded(InitWritten)'
             /\ hpc'[s] \in {"none", "type"} => ~Recorded(HeaderOf(s))' /\ owed'[s] # HeaderOf(s)
             /\ \A h \in {"main"} \cup Streams : owed'[h] = HeaderOf(s) => h = s
  BY <1>1, <1>2, <1>3, <1>4 DEF PageInv, Recorded
<1>10. InitAboveMedia'
  BY <1>1, <1>2 DEF PageInv, InitAboveMedia, Precedes
<1> QED
  BY <1>1, <1>4, <1>6, <1>7, <1>8, <1>9, <1>10 DEF PageInv

\* A reader adds an answer, or acts on it.
LEMMA ReaderKeepsPage ==
  ASSUME SessionInv, RecorderTypeOK, PageInv, NEW r \in Roles, RichReader(r)
  PROVE  PageInv'
<1>1. CASE Note(r, AnswerEvent(r))
  <2>1. AnswerEvent(r) \in Events
    BY DEF AnswerEvent, Event, Events, EventNames
  <2>2. \A s \in Streams : AnswerEvent(r) # HeaderOf(s)
    BY DEF AnswerEvent, Event, HeaderOf
  <2> QED
    BY <1>1, <2>1, <2>2, PageAdds DEF Note, Add
<1>2. CASE ReaderStep(r) /\ UNCHANGED <<events, owed>>
  <2>1. UNCHANGED <<main, cur, requestID, trackAlias, hsub, hpc>>
    BY <1>2 DEF ReaderStep, ReadMessage, NotifyOK, ReaderEnds
  <2> QED
    BY <1>2, <2>1, PageFrame
<1> QED
  BY <1>1, <1>2 DEF RichReader, ReaderStep, ActOn, richVars

\* A handler owes its header once it has looked the alias up.
LEMMA HandlerKeepsPage ==
  ASSUME SessionInv, RecorderTypeOK, PageInv, NEW s \in Streams, RichHandler(s)
  PROVE  PageInv'
<1>1. /\ owed[s] = Nothing /\ owed' = [owed EXCEPT ![s] = HandlerEvent(s)]
      /\ owed \in [{"main"} \cup Streams -> Events]
      /\ UNCHANGED <<events, cur, requestID, trackAlias>>
      /\ main' = main \/ main' = "exited"
  BY DEF RichHandler, Free, Owe, PageInv, HandleUniStream, ReadObject, DeliverFirst, DeliverMedia,
         CountBytes, ReadFails, ReadPanics, SendStreamError
<1>2. HandlerEvent(s) \in {HeaderOf(s), Row, Nothing}
  BY HandlerOwes
<1>3. /\ HeaderOf(s) \in Events /\ Row \in Events /\ Nothing \in Events
      /\ \A t \in Streams : HeaderOf(t) # Row /\ HeaderOf(t) # Nothing
      /\ \A t \in Streams : HeaderOf(t) = HeaderOf(s) => t = s
  BY DEF Event, Events, EventNames, HeaderOf, Row, Nothing
<1>4. /\ owed' \in [{"main"} \cup Streams -> Events] /\ owed'[s] = HandlerEvent(s)
      /\ \A h \in {"main"} \cup Streams : h # s => owed'[h] = owed[h]
      /\ owed'["main"] = owed["main"]
  BY <1>1, <1>2, <1>3, RichAssumption
<1>5. /\ \A t \in Streams : t # s => hpc'[t] = hpc[t] /\ hsub'[t] = hsub[t]
      /\ hpc'[s] \notin {"none", "type"}
      /\ hsub'[s] # hsub[s] => hpc[s] = "type" /\ hsub'[s] = lookupDelivery(trackAlias[track[s]])
                               /\ body[s].kind = "subgroup"
  BY DEF RichHandler, HandlerTypeOK, HandleUniStream, ReadObject, AfterObject, DeliverFirst,
         DeliverMedia, CountBytes, ReadFails, ReadPanics, SendStreamError, Fail, Finish
<1>6. hsub'[s] = "media" => Recorded(InitWritten)
  <2>1. CASE hsub'[s] = hsub[s]
    BY <2>1 DEF PageInv
  <2>2. CASE hsub'[s] # hsub[s]
    <3>1. trackAlias[track[s]] \in Ids
      BY <1>5, <2>2 DEF StreamsInv
    <3> QED
      BY <1>5, <2>2, <3>1, LookupNeedsRequest DEF PageInv
  <2> QED
    BY <2>1, <2>2
<1>7. ASSUME NEW t \in Streams
      PROVE  /\ hsub'[t] = "media" => Recorded(InitWritten)'
             /\ hpc'[t] \in {"none", "type"} => ~Recorded(HeaderOf(t))' /\ owed'[t] # HeaderOf(t)
             /\ \A h \in {"main"} \cup Streams : owed'[h] = HeaderOf(t) => h = t
  <2>1. CASE t = s
    BY <1>1, <1>2, <1>3, <1>4, <1>5, <1>6, <2>1 DEF PageInv, Recorded
  <2>2. CASE t # s
    BY <1>1, <1>2, <1>3, <1>4, <1>5, <2>2 DEF PageInv, Recorded
  <2> QED
    BY <2>1, <2>2
<1>8. InitAboveMedia'
  <2> SUFFICES ASSUME NEW t \in Streams, hsub'[t] = "media"
               PROVE  Precedes(InitWritten, HeaderOf(t))'
    BY DEF InitAboveMedia
  <2>1. CASE hsub'[t] = hsub[t]
    BY <1>1, <2>1 DEF PageInv, InitAboveMedia, Precedes
  <2>2. CASE hsub'[t] # hsub[t]
    <3>1. hpc[t] = "type"
      BY <1>5, <2>2
    <3>2. ~Recorded(HeaderOf(t))
      BY <3>1 DEF PageInv
    <3> QED
      BY <1>1, <3>2 DEF Recorded, Precedes
  <2> QED
    BY <2>1, <2>2
<1> QED
  BY <1>1, <1>4, <1>7, <1>8 DEF PageInv, Recorded

\* SETUP and GOAWAY are added while the relay's control stream is handled.
LEMMA ControlKeepsPage ==
  ASSUME SessionInv, RecorderTypeOK, PageInv, NEW s \in Streams, RichControl(s)
  PROVE  PageInv'
<1>1. CASE Note(s, Event("SETUP", s))
  <2>1. Event("SETUP", s) \in Events /\ \A t \in Streams : Event("SETUP", s) # HeaderOf(t)
    BY DEF Event, Events, EventNames, HeaderOf
  <2> QED
    BY <1>1, <2>1, PageAdds DEF Note, Add
<1>2. CASE DispatchControlMessage(s)
  <2>1. /\ UNCHANGED <<owed, main, cur, requestID, trackAlias, hsub>>
        /\ hpc[s] = "control"
        /\ \A t \in Streams : hpc'[t] \in {"none", "type"} => hpc[t] = hpc'[t]
    BY <1>2 DEF RichControl, DispatchControlMessage, HasItem, HandlerTypeOK, Fail, Finish, ActOn,
                Note, richVars
  <2>2. PICK add \in Events : /\ events' = events \/ events' = With(add)
                              /\ \A t \in Streams : add # HeaderOf(t)
    <3>1. Event("GOAWAY", s) \in Events /\ \A t \in Streams : Event("GOAWAY", s) # HeaderOf(t)
      BY DEF Event, Events, EventNames, HeaderOf
    <3>2. Event("SETUP", s) \in Events /\ \A t \in Streams : Event("SETUP", s) # HeaderOf(t)
      BY DEF Event, Events, EventNames, HeaderOf
    <3> QED
      BY <3>1, <3>2 DEF RichControl, ActOn, Add, Note, richVars
  <2>3. events \in Seq(Events)
    BY DEF PageInv
  <2>4. /\ events' \in Seq(Events)
        /\ \A x : Recorded(x) => Recorded(x)'
        /\ \A t \in Streams : Recorded(HeaderOf(t))' => Recorded(HeaderOf(t))
        /\ \A t \in Streams : Precedes(InitWritten, HeaderOf(t)) => Precedes(InitWritten, HeaderOf(t))'
    <3>1. CASE events' = events
      BY <2>3, <3>1 DEF Recorded, Precedes
    <3>2. CASE events' = With(add)
      BY <2>2, <2>3, <3>2, AddingKeeps
    <3> QED
      BY <2>2, <3>1, <3>2
  <2> QED
    BY <2>1, <2>4 DEF PageInv, InitAboveMedia
<1> QED
  BY <1>1, <1>2 DEF RichControl

\* The goroutines that add nothing, and the environment.
LEMMA OthersKeepPage ==
  ASSUME SessionInv, RecorderTypeOK, PageInv, UNCHANGED richVars,
         \/ \E k \in Acceptors : AcceptorStep(k)
         \/ \E s \in Streams : AcceptUniStream(s)
         \/ Cancel \/ ConnLost \/ Stall \/ RelayStep \/ ChildStep
  PROVE  PageInv'
<1>1. CASE \E k \in Acceptors : AcceptorStep(k)
  BY <1>1, PageFrame DEF AcceptorStep, AcceptFails, SendAcceptError, richVars
<1>2. CASE \E s \in Streams : AcceptUniStream(s)
  <2>1. PICK s \in Streams : AcceptUniStream(s)
    BY <1>2
  <2>2. /\ UNCHANGED <<events, owed, main, cur, requestID, trackAlias, hsub>>
        /\ \A t \in Streams : hpc'[t] \in {"none", "type"} => hpc[t] \in {"none", "type"}
    BY <2>1 DEF AcceptUniStream, HandlerTypeOK, richVars
  <2> QED
    BY <2>2 DEF PageInv, InitAboveMedia, Recorded, Precedes
<1>3. CASE Cancel \/ ConnLost \/ Stall \/ ChildStep
  BY <1>3, PageFrame DEF Cancel, ConnLost, Stall, ChildStep, richVars
<1>4. CASE RelayStep
  <2>1. UNCHANGED <<events, owed, main, cur, requestID, hsub, hpc>>
    BY <1>4 DEF RelayStep, richVars
  <2>2. trackAlias'["media"] # NoId => requestID["media"] # NoId
    <3>1. CASE trackAlias'["media"] = trackAlias["media"]
      BY <3>1 DEF PageInv
    <3>2. CASE trackAlias'["media"] # trackAlias["media"]
      <4>1. request["media"] # NoId
        <5>1. PICK r \in Roles : RelayAccepts(r)
          BY <1>4, <3>2 DEF RelayStep, RelayDeclines, RelayOpensData, RelayOpensOther
        <5>2. r = "media"
          BY <3>2, <5>1 DEF RelayAccepts, RelayTypeOK, Roles
        <5> QED
          BY <5>1, <5>2 DEF RelayAccepts
      <4> QED
        BY <4>1 DEF RequestInv, Roles
    <3> QED
      BY <3>1, <3>2
  <2> QED
    BY <2>1, <2>2 DEF PageInv, InitAboveMedia, Recorded, Precedes
<1> QED
  BY <1>1, <1>2, <1>3, <1>4

LEMMA PageInit == RichInit => PageInv
<1> SUFFICES ASSUME RichInit PROVE PageInv
  OBVIOUS
<1>1. events = <<>> /\ events \in Seq(Events) /\ \A x : ~Recorded(x)
  BY DEF RichInit, RecorderInit, Recorded
<1>2. Nothing \in Events /\ \A s \in Streams : Nothing # HeaderOf(s)
  BY DEF Nothing, Event, Events, EventNames, HeaderOf
<1>3. owed = [g \in {"main"} \cup Streams |-> Nothing]
  BY DEF RichInit
<1>4. /\ cur = "catalog" /\ requestID["media"] = NoId /\ trackAlias["media"] = NoId
      /\ \A s \in Streams : hsub[s] = NoSub
  BY DEF RichInit, Init, RelayInit, Roles
<1> QED
  BY <1>1, <1>2, <1>3, <1>4 DEF PageInv, InitAboveMedia, NoSub

LEMMA PageStep ==
  ASSUME InitKept, SessionInv, RecorderTypeOK, PageInv, [RichNext]_allVars
  PROVE  PageInv'
<1>1. CASE RichMain
  BY <1>1, MainKeepsPage
<1>2. CASE AddOwed("main") \/ \E s \in Streams : AddOwed(s)
  BY <1>2, OwedAdds
<1>3. CASE \E r \in Roles : RichReader(r)
  BY <1>3, ReaderKeepsPage
<1>4. CASE \E s \in Streams : RichHandler(s)
  BY <1>4, HandlerKeepsPage
<1>5. CASE \E s \in Streams : RichControl(s)
  BY <1>5, ControlKeepsPage
<1>6. CASE UNCHANGED allVars \/ (Terminated /\ UNCHANGED richVars)
  BY <1>6, PageFrame DEF allVars, richVars, vars, Terminated
<1> QED
  BY <1>1, <1>2, <1>3, <1>4, <1>5, <1>6, OthersKeepPage DEF RichNext, RichAlive

\* The invariant holds of every session whose page shows the event (Run, bootstrapFromCatalog).
THEOREM PageCorrect == RichSpec => [](InitKept => PageInv)
<1>1. RichInit => (InitKept => PageInv)
  BY PageInit
<1>2. SessionInv /\ RecorderTypeOK /\ (InitKept => PageInv) /\ [RichNext]_allVars
        => (InitKept => PageInv)'
  BY PageStep DEF InitKept
<1> QED
  BY <1>1, <1>2, RichPlaysCorrectly, RecorderTypes, PTL DEF RichSpec

(***************************************************************************)
(* The page shows INIT SEGMENT WRITTEN above the header and the objects of *)
(* every media stream, for any aliases and any events it keeps besides     *)
(* (bootstrapFromCatalog, handleSubgroupStream, Recorder.Add).             *)
(***************************************************************************)
THEOREM InitAboveMediaCorrect == RichSpec => [](InitKept => InitAboveMedia)
<1>1. (InitKept => PageInv) => (InitKept => InitAboveMedia)
  BY DEF PageInv
<1> QED
  BY <1>1, PageCorrect, PTL

-----------------------------------------------------------------------------
(***************************************************************************)
(* The relay's answers.                                                    *)
(***************************************************************************)
AnswersKept == {"SUBSCRIBE_OK", "REQUEST_ERROR", "SETUP"} \subseteq Kept

\* What is recorded stays recorded.
Records == \A x : Recorded(x) => Recorded(x)'

\* What a reader or handler has noted lasts for as long as its message does.
LEMMA ReaderNotesKept ==
  ASSUME NEW r \in Roles, Records, ReaderNotes(r), noted'[r] = noted[r], reply'[r] = reply[r],
         reader'[r] \in {reader[r], "read"}, r \in replied => r \in replied'
  PROVE  ReaderNotes(r)'
<1>1. noted'[r] => reader'[r] = "read" /\ reply'[r] # <<>> /\ IsAnswer(r)'
  BY DEF ReaderNotes, IsAnswer
<1>2. noted'[r] => Recorded(AnswerEvent(r))'
  <2>1. AnswerEvent(r)' = AnswerEvent(r)
    BY DEF AnswerEvent
  <2>2. PICK ev : ev = AnswerEvent(r)
    OBVIOUS
  <2>3. noted[r] => Recorded(ev)
    BY <2>2 DEF ReaderNotes
  <2>4. noted[r] => Recorded(ev)'
    BY <2>3 DEF Records
  <2> QED
    BY <2>1, <2>2, <2>4 DEF Recorded
<1>3. reader'[r] = "bound" => Recorded(Event("SUBSCRIBE_OK", r))'
  BY DEF ReaderNotes, Records
<1> QED
  BY <1>1, <1>2, <1>3 DEF ReaderNotes

LEMMA HandlerNotesKept ==
  ASSUME NEW s \in Streams, Records, HandlerNotes(s), noted'[s] => noted[s],
         body'[s] = body[s] /\ hpc'[s] = hpc[s] /\ hpos'[s] = hpos[s]
  PROVE  HandlerNotes(s)'
BY DEF HandlerNotes, Records, HasItem, Item

\* A step that touches neither what goroutines have noted nor what they work on.
LEMMA AnswersFrame ==
  ASSUME AnswersInv, Records, UNCHANGED <<noted, replied, reply, body, hpc, hpos, peerSetupSeen>>,
         \A r \in Roles : reader'[r] \in {reader[r], "read"},
         \A r \in Roles : okCh'[r] \in {okCh[r], "empty"},
         \A r \in Roles : Accepted(r)' => Accepted(r) \/ okCh[r] = "ok"
  PROVE  AnswersInv'
<1>1. \A r \in Roles : ReaderNotes(r)'
  BY ReaderNotesKept DEF AnswersInv
<1>2. \A s \in Streams : HandlerNotes(s)'
  BY HandlerNotesKept DEF AnswersInv
<1>3. AnswersRecorded'
  BY DEF AnswersInv, AnswersRecorded, Records
<1> QED
  BY <1>1, <1>2, <1>3 DEF AnswersInv

LEMMA MainKeepsAnswers ==
  ASSUME SessionInv, AnswersInv, Records, RichMain
  PROVE  AnswersInv'
<1>1. MainStep /\ UNCHANGED noted
  BY DEF RichMain, Owe
<1>2. UNCHANGED <<replied, reply, body, hpc, hpos, peerSetupSeen>>
  BY <1>1 DEF MainStep, Dial, OpenOutput, SendClientSetup, WaitPeerSetup, NewTrackSubscription,
     SendSubscribe, WaitSubscribeOK, WaitFirstObject, UseCatalog, WriteInitSegment,
     CountInitSegment, LoopDone, LoopError, CloseSink, ReapChild, CloseConn
<1>3. \A r \in Roles : reader'[r] \in {reader[r], "read"} /\ okCh'[r] \in {okCh[r], "empty"}
  <2>1. CASE SendSubscribe \/ WaitSubscribeOK
    BY <2>1 DEF SendSubscribe, WaitSubscribeOK, SubTypeOK
  <2>2. CASE UNCHANGED <<reader, okCh>>
    BY <2>2
  <2> QED
    BY <1>1, <2>1, <2>2 DEF MainStep, Dial, OpenOutput, SendClientSetup, WaitPeerSetup,
       NewTrackSubscription, WaitFirstObject, UseCatalog, WriteInitSegment, CountInitSegment,
       LoopDone, LoopError, CloseSink, ReapChild, CloseConn
<1>4. ASSUME NEW r \in Roles, Accepted(r)'
      PROVE  Accepted(r) \/ okCh[r] = "ok"
  <2> USE DEF Accepted, MainTypeOK, GoTo, Return, DoneCase
  <2>1. CASE WaitSubscribeOK
    BY <1>4, <2>1 DEF WaitSubscribeOK
  <2>2. CASE UseCatalog \/ WriteInitSegment \/ CountInitSegment
    BY <1>4, <2>2 DEF UseCatalog, WriteInitSegment, CountInitSegment
  <2>3. CASE WaitFirstObject \/ LoopError
    BY <1>4, <2>3 DEF WaitFirstObject, LoopError
  <2>4. CASE Dial \/ OpenOutput \/ SendClientSetup \/ WaitPeerSetup
    BY <1>4, <2>4 DEF Dial, OpenOutput, SendClientSetup, WaitPeerSetup
  <2>5. CASE NewTrackSubscription \/ SendSubscribe
    BY <1>4, <2>5 DEF NewTrackSubscription, SendSubscribe
  <2>6. CASE LoopDone \/ CloseSink \/ ReapChild \/ CloseConn
    BY <1>4, <2>6 DEF LoopDone, CloseSink, ReapChild, CloseConn
  <2> QED
    BY <1>1, <2>1, <2>2, <2>3, <2>4, <2>5, <2>6 DEF MainStep
<1> QED
  BY <1>1, <1>2, <1>3, <1>4, AnswersFrame

\* A reader adds the answer, acts on it, and forgets that it has added it.
LEMMA ReaderKeepsAnswers ==
  ASSUME AnswersKept, SessionInv, RecorderTypeOK, AnswersInv, Records,
         NEW r \in Roles, RichReader(r)
  PROVE  AnswersInv'
<1>1. CASE Note(r, AnswerEvent(r)) /\ reader[r] = "read" /\ reply[r] # <<>> /\ IsAnswer(r)
  <2>1. /\ UNCHANGED <<replied, reply, body, hpc, hpos, peerSetupSeen, reader, okCh, main, cur>>
        /\ noted' = [noted EXCEPT ![r] = TRUE] /\ events' = With(AnswerEvent(r))
    BY <1>1 DEF Note, Add, vars
  <2>2. Recorded(AnswerEvent(r))'
    <3>1. AnswerEvent(r) \in Events /\ AnswerEvent(r).name \in Kept
      BY DEF AnswerEvent, Event, Events, EventNames, AnswersKept
    <3>2. PICK ev \in Events : ev = AnswerEvent(r)
      BY <3>1
    <3>3. Recorded(ev)'
      BY <2>1, <3>1, <3>2, AddingKeeps
    <3>4. AnswerEvent(r)' = ev
      BY <2>1, <3>2 DEF AnswerEvent
    <3> QED
      BY <3>3, <3>4 DEF Recorded
  <2>3. ReaderNotes(r)'
    BY <1>1, <2>1, <2>2 DEF AnswersInv, ReaderNotes, IsAnswer
  <2>4. ASSUME NEW q \in Roles, q # r PROVE ReaderNotes(q)'
    <3>1. noted'[q] = noted[q]
      BY <2>1, <2>4
    <3> QED
      BY <2>1, <3>1, ReaderNotesKept DEF AnswersInv
  <2>5. ASSUME NEW s \in Streams PROVE HandlerNotes(s)'
    BY <2>1, RichAssumption, HandlerNotesKept DEF AnswersInv
  <2>6. AnswersRecorded'
    BY <2>1 DEF AnswersInv, AnswersRecorded, Records, Accepted
  <2> QED
    BY <2>3, <2>4, <2>5, <2>6 DEF AnswersInv
<1>2. CASE /\ (ReadMessage(r) /\ Noted(r, IsAnswer(r))) \/ NotifyOK(r) \/ ReaderEnds(r)
           /\ UNCHANGED events /\ noted' = [noted EXCEPT ![r] = FALSE]
  <2>1. UNCHANGED <<replied, body, hpc, hpos, peerSetupSeen, main, cur>>
    BY <1>2 DEF ReaderStep, ReadMessage, NotifyOK, ReaderEnds
  <2>2. ASSUME NEW q \in Roles, q # r
        PROVE  reader'[q] = reader[q] /\ reply'[q] = reply[q] /\ okCh'[q] = okCh[q]
    BY <1>2, <2>2 DEF ReadMessage, NotifyOK, ReaderEnds, Offer, SubTypeOK, RelayTypeOK
  <2>3. /\ reader'[r] = "bound" => Recorded(Event("SUBSCRIBE_OK", r))
        /\ okCh'[r] = "ok" => okCh[r] = "ok" \/ Recorded(Event("SUBSCRIBE_OK", r))
        /\ okCh'[r] = "err" => okCh[r] = "err" \/ Recorded(Event("REQUEST_ERROR", r))
    <3>1. CASE ReadMessage(r) /\ Noted(r, IsAnswer(r))
      <4>1. Head(reply[r]) = "ok" => Recorded(Event("SUBSCRIBE_OK", r))
        BY <1>2, <3>1 DEF AnswersInv, Noted, IsAnswer, AnswerEvent, ReaderNotes
      <4>2. Head(reply[r]) = "error" => Recorded(Event("REQUEST_ERROR", r))
        BY <1>2, <3>1 DEF AnswersInv, Noted, IsAnswer, AnswerEvent, ReaderNotes
      <4> QED
        BY <3>1, <4>1, <4>2 DEF ReadMessage, Offer, SubTypeOK
    <3>2. CASE NotifyOK(r)
      BY <3>2 DEF NotifyOK, Offer, SubTypeOK, AnswersInv, ReaderNotes
    <3>3. CASE ReaderEnds(r)
      BY <3>3 DEF ReaderEnds, SubTypeOK
    <3> QED
      BY <1>2, <3>1, <3>2, <3>3
  <2>4. r \notin replied => reply'[r] = <<>>
    BY <1>2 DEF ReadMessage, NotifyOK, ReaderEnds, AnswersInv, ReaderNotes
  <2>5. ReaderNotes(r)'
    BY <1>2, <2>1, <2>3, <2>4 DEF ReaderNotes, Recorded
  <2>6. ASSUME NEW q \in Roles, q # r PROVE ReaderNotes(q)'
    <3>1. noted'[q] = noted[q]
      BY <1>2, <2>6
    <3> QED
      BY <2>1, <2>2, <2>6, <3>1, ReaderNotesKept DEF AnswersInv
  <2>7. ASSUME NEW s \in Streams PROVE HandlerNotes(s)'
    BY <1>2, <2>1, RichAssumption, HandlerNotesKept DEF AnswersInv
  <2>8. AnswersRecorded'
    <3>1. \A q \in Roles : Accepted(q)' => Accepted(q)
      BY <2>1 DEF Accepted
    <3>2. ASSUME NEW q \in Roles
          PROVE  /\ (okCh[q] = "ok" \/ Accepted(q) => Recorded(Event("SUBSCRIBE_OK", q)))'
                 /\ (okCh[q] = "err" => Recorded(Event("REQUEST_ERROR", q)))'
      BY <2>2, <2>3, <3>1 DEF AnswersInv, AnswersRecorded, Records
    <3> QED
      BY <2>1, <3>2 DEF AnswersInv, AnswersRecorded, Records
  <2> QED
    BY <2>5, <2>6, <2>7, <2>8 DEF AnswersInv
<1>3. NotifyOK(r) => ~noted[r]
  BY DEF NotifyOK, AnswersInv, ReaderNotes
<1>4. ~noted[r] => noted = [noted EXCEPT ![r] = FALSE]
  OBVIOUS
<1> QED
  BY <1>1, <1>2, <1>3, <1>4 DEF RichReader, ActOn, richVars

\* A handler that has noted a SETUP does nothing before it acts on it.
LEMMA HandlerKeepsAnswers ==
  ASSUME SessionInv, RecorderTypeOK, AnswersInv, Records, NEW s \in Streams, RichHandler(s)
  PROVE  AnswersInv'
<1>1. /\ UNCHANGED <<noted, replied, reply, reader, okCh, body, peerSetupSeen, cur>>
      /\ main' = main \/ main' = "exited"
      /\ ~noted[s]
  BY DEF RichHandler, Owe, HandleUniStream, ReadObject, DeliverFirst, DeliverMedia, CountBytes,
         ReadFails, ReadPanics, SendStreamError
<1>2. \A t \in Streams : t # s => hpc'[t] = hpc[t] /\ hpos'[t] = hpos[t]
  BY DEF RichHandler, HandlerTypeOK, HandleUniStream, ReadObject, DeliverFirst, DeliverMedia,
         CountBytes, ReadFails, ReadPanics, SendStreamError, Fail, Finish
<1>3. \A r \in Roles : ReaderNotes(r)'
  BY <1>1, ReaderNotesKept DEF AnswersInv
<1>4. ASSUME NEW t \in Streams PROVE HandlerNotes(t)'
  <2>1. CASE t = s
    BY <1>1, <2>1 DEF HandlerNotes
  <2>2. CASE t # s
    BY <1>1, <1>2, <2>2, HandlerNotesKept DEF AnswersInv
  <2> QED
    BY <2>1, <2>2
<1>5. AnswersRecorded'
  BY <1>1 DEF AnswersInv, AnswersRecorded, Records, Accepted
<1> QED
  BY <1>3, <1>4, <1>5 DEF AnswersInv

\* SETUP is added, then acted upon.
LEMMA ControlKeepsAnswers ==
  ASSUME AnswersKept, SessionInv, RecorderTypeOK, AnswersInv, Records,
         NEW s \in Streams, RichControl(s)
  PROVE  AnswersInv'
<1>1. UNCHANGED <<replied, reply, reader, okCh, body, main, cur>>
  BY DEF RichControl, Note, vars, DispatchControlMessage
<1>2. /\ \A r \in Roles : noted'[r] = noted[r]
      /\ \A t \in Streams : t # s =>
           noted'[t] = noted[t] /\ hpc'[t] = hpc[t] /\ hpos'[t] = hpos[t]
  BY RichAssumption DEF RichControl, Note, vars, ActOn, richVars, DispatchControlMessage, Fail,
                        Finish, HandlerTypeOK
<1>3. HandlerNotes(s)' /\ (peerSetupSeen' => peerSetupSeen \/ Recorded(Event("SETUP", s))')
  <2>1. CASE hpc[s] = "control" /\ HasItem(s) /\ Item(s) = "setup" /\ Note(s, Event("SETUP", s))
    <3>1. Event("SETUP", s) \in Events /\ Event("SETUP", s).name \in Kept
      BY DEF Event, Events, EventNames, AnswersKept
    <3>2. Recorded(Event("SETUP", s))'
      BY <2>1, <3>1, AddingKeeps DEF Note, Add
    <3> QED
      BY <2>1, <3>2 DEF Note, vars, HandlerNotes, HasItem, Item
  <2>2. CASE DispatchControlMessage(s) /\ Item(s) = "setup" /\ noted[s] /\ ActOn(s)
    <3>1. ~noted'[s]
      BY <2>2 DEF ActOn
    <3>2. Recorded(Event("SETUP", s))'
      BY <2>2 DEF AnswersInv, HandlerNotes, Records
    <3> QED
      BY <3>1, <3>2 DEF HandlerNotes
  <2>3. CASE DispatchControlMessage(s) /\ Item(s) # "setup" /\ UNCHANGED noted
    <3>1. ~noted'[s]
      BY <2>3 DEF AnswersInv, HandlerNotes
    <3> QED
      BY <2>3, <3>1 DEF HandlerNotes, DispatchControlMessage
  <2> QED
    BY <2>1, <2>2, <2>3 DEF RichControl, richVars
<1>4. \A r \in Roles : ReaderNotes(r)'
  BY <1>1, <1>2, ReaderNotesKept DEF AnswersInv
<1>5. ASSUME NEW t \in Streams PROVE HandlerNotes(t)'
  <2>1. CASE t = s
    BY <1>3, <2>1
  <2>2. CASE t # s
    BY <1>1, <1>2, <2>2, HandlerNotesKept DEF AnswersInv
  <2> QED
    BY <2>1, <2>2
<1>6. AnswersRecorded'
  BY <1>1, <1>3 DEF AnswersInv, AnswersRecorded, Records, Accepted
<1> QED
  BY <1>4, <1>5, <1>6 DEF AnswersInv

\* The relay answers a SUBSCRIBE once, and fills a stream once.
LEMMA OthersKeepAnswers ==
  ASSUME SessionInv, RecorderTypeOK, AnswersInv, Records, UNCHANGED richVars,
         \/ \E k \in Acceptors : AcceptorStep(k)
         \/ \E s \in Streams : AcceptUniStream(s)
         \/ Cancel \/ ConnLost \/ Stall \/ RelayStep \/ ChildStep
  PROVE  AnswersInv'
<1>1. CASE \/ \E k \in Acceptors : AcceptorStep(k)
           \/ Cancel \/ ConnLost \/ Stall \/ ChildStep
  <2>1. UNCHANGED <<replied, reply, reader, okCh, body, hpc, hpos, peerSetupSeen, main, cur>>
    BY <1>1 DEF AcceptorStep, AcceptFails, SendAcceptError, Cancel, ConnLost, Stall, ChildStep
  <2>2. \A r \in Roles : Accepted(r)' => Accepted(r)
    BY <2>1 DEF Accepted
  <2> QED
    BY <2>1, <2>2, AnswersFrame DEF richVars
<1>2. ASSUME NEW s \in Streams, AcceptUniStream(s) PROVE AnswersInv'
  <2>1. /\ UNCHANGED <<noted, replied, reply, reader, okCh, body, hpos, peerSetupSeen, main, cur>>
        /\ \A t \in Streams : t # s => hpc'[t] = hpc[t]
        /\ hpc[s] = "none"
    BY <1>2 DEF AcceptUniStream, HandlerTypeOK, richVars
  <2>2. \A r \in Roles : ReaderNotes(r)'
    BY <2>1, ReaderNotesKept DEF AnswersInv
  <2>3. ASSUME NEW t \in Streams PROVE HandlerNotes(t)'
    <3>1. CASE t = s
      BY <2>1, <3>1 DEF AnswersInv, HandlerNotes
    <3>2. CASE t # s
      BY <2>1, <3>2, HandlerNotesKept DEF AnswersInv
    <3> QED
      BY <3>1, <3>2
  <2>4. AnswersRecorded'
    BY <2>1 DEF AnswersInv, AnswersRecorded, Records, Accepted
  <2> QED
    BY <2>2, <2>3, <2>4 DEF AnswersInv
<1>3. CASE RelayStep
  <2>1. UNCHANGED <<noted, reader, okCh, hpc, hpos, peerSetupSeen, main, cur>>
    BY <1>3 DEF RelayStep, richVars
  <2>2. /\ \A r \in Roles : r \in replied => r \in replied' /\ reply'[r] = reply[r]
        /\ \A r \in Roles : r \notin replied' => reply'[r] = reply[r]
        /\ \A s \in Streams : body[s] # NoBody => body'[s] = body[s]
    BY <1>3 DEF RelayStep, RelayAccepts, RelayDeclines, RelayOpensData, RelayOpensOther, RelayTypeOK
  <2>3. ASSUME NEW r \in Roles PROVE ReaderNotes(r)'
    <3>1. CASE r \in replied
      BY <2>1, <2>2, <3>1, ReaderNotesKept DEF AnswersInv
    <3>2. CASE r \notin replied
      <4>1. ~noted'[r]
        BY <2>1, <3>2 DEF AnswersInv, ReaderNotes
      <4> QED
        BY <2>1, <2>2, <3>2, <4>1 DEF AnswersInv, ReaderNotes, Records
    <3> QED
      BY <3>1, <3>2
  <2>4. ASSUME NEW s \in Streams PROVE HandlerNotes(s)'
    <3>1. CASE body[s] = NoBody
      <4>1. ~HasItem(s)
        BY <3>1 DEF HasItem, NoBody, HandlerTypeOK
      <4> QED
        BY <2>1, <4>1 DEF AnswersInv, HandlerNotes
    <3>2. CASE body[s] # NoBody
      BY <2>1, <2>2, <3>2, HandlerNotesKept DEF AnswersInv
    <3> QED
      BY <3>1, <3>2
  <2>5. AnswersRecorded'
    BY <2>1 DEF AnswersInv, AnswersRecorded, Records, Accepted
  <2> QED
    BY <2>3, <2>4, <2>5 DEF AnswersInv
<1> QED
  BY <1>1, <1>2, <1>3

LEMMA AnswersStep ==
  ASSUME AnswersKept, SessionInv, RecorderTypeOK, AnswersInv, [RichNext]_allVars
  PROVE  AnswersInv'
<1>1. Records
  BY StepRecords DEF Records
<1>2. CASE RichMain
  BY <1>1, <1>2, MainKeepsAnswers
<1>3. CASE \E r \in Roles : RichReader(r)
  BY <1>1, <1>3, ReaderKeepsAnswers
<1>4. CASE \E s \in Streams : RichHandler(s)
  BY <1>1, <1>4, HandlerKeepsAnswers
<1>5. CASE \E s \in Streams : RichControl(s)
  BY <1>1, <1>5, ControlKeepsAnswers
<1>6. CASE UNCHANGED <<vars, noted>>
  <2>1. \A r \in Roles : Accepted(r)' => Accepted(r)
    BY <1>6 DEF vars, Accepted
  <2> QED
    BY <1>1, <1>6, <2>1, AnswersFrame DEF vars
<1> QED
  BY <1>1, <1>2, <1>3, <1>4, <1>5, <1>6, OthersKeepAnswers
     DEF RichNext, RichAlive, AddOwed, Terminated, allVars, richVars

(***************************************************************************)
(* The page shows SUBSCRIBE_OK before the bootstrap learns of it, an error *)
(* before it is reported, and the relay's SETUP before the wait for it     *)
(* ends: for any relay, any streams, and whatever else the page keeps      *)
(* (readRequestStream, dispatchControlMessage).                            *)
(***************************************************************************)
THEOREM AnswersCorrect == RichSpec => [](AnswersKept => AnswersInv /\ AnswersRecorded)
<1>1. RichInit => AnswersInv
  BY DEF RichInit, Init, RelayInit, AnswersInv, ReaderNotes, HandlerNotes, AnswersRecorded, Accepted
<1>2. SessionInv /\ RecorderTypeOK /\ (AnswersKept => AnswersInv) /\ [RichNext]_allVars
        => (AnswersKept => AnswersInv)'
  BY AnswersStep DEF AnswersKept
<1>3. (AnswersKept => AnswersInv) => (AnswersKept => AnswersInv /\ AnswersRecorded)
  BY DEF AnswersInv
<1> QED
  BY <1>1, <1>2, <1>3, RichPlaysCorrectly, RecorderTypes, PTL DEF RichSpec

-----------------------------------------------------------------------------
(***************************************************************************)
(* The tables of objects.                                                  *)
(***************************************************************************)

\* An object of s is written and listed, beyond all others of s.
LEMMA ListGrows ==
  ASSUME NEW s \in Streams, NEW t \in Seq(Nat), NEW out \in Seq(Payloads), Lists(t, s, out),
         NEW p \in Payloads, p.stream = s, \A j \in Places(s, out) : out[j].n < p.n
  PROVE  Lists(Append(t, p.n), s, Append(out, p))
<1> DEFINE m == Len(out)
           n == Len(t)
           after == Append(out, p)
           longer == Append(t, p.n)
<1>1. /\ m \in Nat /\ DOMAIN out = 1..m /\ DOMAIN after = 1..(m + 1)
      /\ after[m + 1] = p /\ \A j \in 1..m : after[j] = out[j] /\ out[j] \in Payloads
  OBVIOUS
<1>2. \A q \in Payloads : q.n \in Nat
  BY DEF Payloads
<1>3. /\ n \in Nat /\ DOMAIN t = 1..n /\ DOMAIN longer = 1..(n + 1)
      /\ longer[n + 1] = p.n /\ \A i \in 1..n : longer[i] = t[i] /\ t[i] \in Nat
  BY <1>2
<1>4. Places(s, after) = Places(s, out) \cup {m + 1} /\ Places(s, out) \subseteq 1..m
  BY <1>1 DEF Places
<1>5. /\ \A i, j \in 1..n : i < j => t[i] < t[j]
      /\ \A i, j \in Places(s, out) : i < j => out[i].n < out[j].n
      /\ \A i \in 1..n : \E j \in Places(s, out) : out[j].n = t[i]
      /\ \A j \in Places(s, out) : \E i \in 1..n : t[i] = out[j].n
  BY <1>3 DEF Lists
<1>6. \A i \in 1..n : t[i] < p.n
  BY <1>5
<1> HIDE DEF m, n, after, longer
<1>7. ASSUME NEW i \in 1..(n + 1), NEW j \in 1..(n + 1), i < j
      PROVE  longer[i] < longer[j]
  <2>1. i \in 1..n /\ (j \in 1..n \/ j = n + 1)
    BY <1>3, <1>7
  <2> QED
    BY <1>3, <1>5, <1>6, <1>7, <2>1
<1>8. ASSUME NEW i \in Places(s, after), NEW j \in Places(s, after), i < j
      PROVE  after[i].n < after[j].n
  <2>1. i \in Places(s, out) /\ (j \in Places(s, out) \/ j = m + 1)
    BY <1>1, <1>4, <1>8
  <2> QED
    BY <1>1, <1>4, <1>5, <1>8, <2>1
<1>9. ASSUME NEW i \in 1..(n + 1)
      PROVE  \E j \in Places(s, after) : after[j].n = longer[i]
  <2>1. CASE i \in 1..n
    <3>1. PICK j \in Places(s, out) : out[j].n = t[i]
      BY <1>5, <2>1
    <3>2. j \in Places(s, after) /\ after[j] = out[j] /\ longer[i] = t[i]
      BY <1>1, <1>3, <1>4, <2>1
    <3> QED
      BY <3>1, <3>2
  <2>2. CASE i = n + 1
    BY <1>1, <1>3, <1>4, <2>2
  <2> QED
    BY <1>3, <2>1, <2>2
<1>10. ASSUME NEW j \in Places(s, after)
       PROVE  \E i \in 1..(n + 1) : longer[i] = after[j].n
  <2>1. CASE j \in Places(s, out)
    <3>1. PICK i \in 1..n : t[i] = out[j].n
      BY <1>5, <2>1
    <3>2. i \in 1..(n + 1) /\ after[j] = out[j] /\ longer[i] = t[i]
      BY <1>1, <1>3, <1>4, <2>1
    <3> QED
      BY <3>1, <3>2
  <2>2. CASE j = m + 1
    BY <1>1, <1>3, <2>2
  <2> QED
    BY <1>4, <2>1, <2>2
<1>11. Lists(longer, s, after)
  BY <1>3, <1>7, <1>8, <1>9, <1>10 DEF Lists
<1> QED
  BY <1>11 DEF longer, after

\* What other streams write leaves the table of s complete.
LEMMA ListKept ==
  ASSUME NEW s \in Streams, NEW t, NEW out \in Seq(Payloads), Lists(t, s, out),
         NEW p \in Payloads, p.stream # s
  PROVE  Lists(t, s, Append(out, p))
<1>1. \A j \in DOMAIN out : Append(out, p)[j] = out[j]
  OBVIOUS
<1>2. Places(s, Append(out, p)) = Places(s, out)
  <2>1. /\ Len(out) \in Nat /\ DOMAIN out = 1..Len(out)
        /\ DOMAIN Append(out, p) = 1..(Len(out) + 1) /\ Append(out, p)[Len(out) + 1] = p
    OBVIOUS
  <2> QED
    BY <1>1, <2>1 DEF Places
<1>3. \A j \in Places(s, out) : Append(out, p)[j] = out[j]
  BY <1>1 DEF Places
<1> QED
  BY <1>2, <1>3 DEF Lists

\* Everything that is or was in the output, or is on its way, came from a stream.
LEMMA StreamOfPayload ==
  ASSUME SessionInv
  PROVE  /\ \A i \in DOMAIN output : output[i] \in Payloads /\ output[i].stream \in Streams
         /\ \A r \in Roles : firstObjCh[r] # NoPayload => firstObjCh[r].stream \in Streams
         /\ held # NoPayload => held \in Payloads /\ held.stream \in Streams
<1>1. \A p \in Payloads : p.stream \in Streams
  BY DEF Payloads
<1>2. output \in Seq(Payloads) /\ firstObjCh \in [Roles -> Payloads \cup {NoPayload}]
  BY DEF SinkTypeOK, SubTypeOK
<1> QED
  BY <1>1, <1>2 DEF MainTypeOK

\* Begun in the next state, for a stream of this one.
BegunNext(s) == hpc'[s] \notin {"none", "type"}

\* Handlers do not start anew.
LEMMA BegunStays ==
  ASSUME SessionInv, TablesInv, \A s \in Streams : Begun(s) => BegunNext(s)
  PROVE  /\ \A i \in DOMAIN output : BegunNext(output[i].stream)
         /\ \A r \in Roles : firstObjCh[r] # NoPayload => BegunNext(firstObjCh[r].stream)
         /\ held # NoPayload => BegunNext(held.stream)
BY StreamOfPayload DEF TablesInv

\* A step that writes nothing, and after which every table is as complete as before.
LEMMA TablesFrame ==
  ASSUME SessionInv, TablesInv, UNCHANGED output,
         \A s \in Streams :
           /\ Begun(s) => BegunNext(s)
           /\ ~BegunNext(s) => rows'[s] = <<>>
           /\ owed'[s] = Row => hpc'[s] = "read"
           /\ hpc'[s] = "first" => hsub'[s] # "media"
           /\ hsub'[s] = "media" => \/ hsub[s] = "media" /\ Table(s)' = Table(s)
                                    \/ Places(s, output) = {} /\ Table(s)' = <<>>,
         \A r \in Roles : firstObjCh'[r] # NoPayload => BegunNext(firstObjCh'[r].stream),
         held' # NoPayload => BegunNext(held'.stream)
  PROVE  TablesInv'
<1>1. \A i \in DOMAIN output' : Begun(output[i].stream)'
  BY BegunStays DEF Begun, BegunNext
<1>2. ASSUME NEW s \in Streams, hsub'[s] = "media" PROVE Lists(Table(s), s, output)'
  <2>1. CASE hsub[s] = "media" /\ Table(s)' = Table(s)
    <3>1. Lists(Table(s), s, output)
      BY <2>1 DEF TablesInv, TablesMatchOutput
    <3> QED
      BY <2>1, <3>1 DEF Lists
  <2>2. CASE Places(s, output) = {} /\ Table(s)' = <<>>
    BY <2>2 DEF Lists, Places
  <2> QED
    BY <1>2, <2>1, <2>2
<1>3. TablesMatchOutput'
  BY <1>2 DEF TablesMatchOutput
<1> QED
  BY <1>1, <1>3 DEF TablesInv, Begun, BegunNext

\* Steps that leave handlers and their tables alone.
LEMMA TablesQuiet ==
  ASSUME SessionInv, TablesInv, UNCHANGED <<output, rows, hpc, hsub, hpos>>,
         \A s \in Streams : owed'[s] = owed[s],
         \A r \in Roles : firstObjCh'[r] \in {firstObjCh[r], NoPayload},
         held' = held \/ \E r \in Roles : firstObjCh[r] # NoPayload /\ held' = firstObjCh[r]
  PROVE  TablesInv'
<1>1. ASSUME NEW s \in Streams
      PROVE  /\ Begun(s) => BegunNext(s)
             /\ ~BegunNext(s) => rows'[s] = <<>>
             /\ owed'[s] = Row => hpc'[s] = "read"
             /\ hpc'[s] = "first" => hsub'[s] # "media"
             /\ hsub'[s] = "media" => hsub[s] = "media" /\ Table(s)' = Table(s)
  BY DEF TablesInv, Begun, BegunNext, Table
<1>2. \A r \in Roles : firstObjCh'[r] # NoPayload => BegunNext(firstObjCh'[r].stream)
  BY <1>1, BegunStays
<1>3. held' # NoPayload => BegunNext(held'.stream)
  BY <1>1, BegunStays
<1> QED
  BY <1>1, <1>2, <1>3, TablesFrame

\* What is added for a delivered object completes its stream's table.
LEMMA AddingKeepsTables ==
  ASSUME SessionInv, RecorderTypeOK, TablesInv, NEW g \in {"main"} \cup Streams, AddOwed(g)
  PROVE  TablesInv'
<1>1. /\ UNCHANGED <<output, hpc, hsub, hpos, firstObjCh, held>>
      /\ owed' = [owed EXCEPT ![g] = Nothing] /\ Nothing # Row
      /\ owed[g] = Row => rows' = [rows EXCEPT ![g] = Append(@, hpos[g])]
      /\ owed[g] # Row => UNCHANGED rows
  BY DEF AddOwed, Add, AddObject, vars, Nothing, Row, Event
<1>2. ASSUME NEW s \in Streams
      PROVE  /\ ~Begun(s) => rows'[s] = <<>>
             /\ owed'[s] = Row => hpc'[s] = "read"
             /\ Table(s)' = Table(s)
  <2>1. hpc'[s] = hpc[s] /\ hpos'[s] = hpos[s]
    BY <1>1
  <2>2. CASE g = s /\ owed[s] = Row
    <3>1. hpc[s] = "read" /\ owed'[s] = Nothing /\ rows'[s] = Append(rows[s], hpos[s])
      BY <1>1, <2>2 DEF TablesInv
    <3> QED
      BY <1>1, <2>1, <2>2, <3>1 DEF Begun, Table
  <2>3. CASE g = s /\ owed[s] # Row
    <3>1. owed'[s] = Nothing /\ rows'[s] = rows[s]
      BY <1>1, <2>3
    <3> QED
      BY <1>1, <2>1, <2>3, <3>1 DEF TablesInv, Table
  <2>4. CASE g # s
    <3>1. owed'[s] = owed[s] /\ rows'[s] = rows[s]
      BY <1>1, <2>4
    <3> QED
      BY <2>1, <3>1 DEF TablesInv, Table
  <2> QED
    BY <2>2, <2>3, <2>4
<1>3. \A s \in Streams : BegunNext(s) <=> Begun(s)
  BY <1>1 DEF Begun, BegunNext
<1>4. /\ \A r \in Roles : firstObjCh'[r] # NoPayload => BegunNext(firstObjCh'[r].stream)
      /\ held' # NoPayload => BegunNext(held'.stream)
  BY <1>1, <1>3, BegunStays
<1>5. \A s \in Streams : hpc'[s] = "first" => hsub'[s] # "media"
  BY <1>1 DEF TablesInv
<1> QED
  BY <1>1, <1>2, <1>3, <1>4, <1>5, TablesFrame

\* The init segment is written before any stream is a media stream.
LEMMA MainKeepsTables ==
  ASSUME SessionInv, RecorderTypeOK, TablesInv, RichMain
  PROVE  TablesInv'
<1>1. /\ MainStep /\ UNCHANGED rows
      /\ \A s \in Streams : owed'[s] = owed[s]
  BY RichAssumption DEF RichMain, Owe
<1>2. UNCHANGED handlerVars
  BY <1>1, HandlersOwnState
<1>3. CASE output' = Append(output, held) /\ WriteInitSegment
  <2>1. /\ cur = "init" /\ held \in Payloads /\ output \in Seq(Payloads)
        /\ UNCHANGED <<firstObjCh, held>>
    BY <1>3 DEF WriteInitSegment, Return, DeliveryInv, MainTypeOK, SinkTypeOK
  <2>2. \A s \in Streams : hsub'[s] # "media"
    BY <1>2, <2>1 DEF DeliveryInv
  <2>3. \A s \in Streams : BegunNext(s) <=> Begun(s)
    BY <1>2 DEF Begun, BegunNext
  <2>4. held # NoPayload
    BY <1>3 DEF WriteInitSegment, DeliveryInv
  <2>5. \A i \in DOMAIN output' : BegunNext(output'[i].stream)
    <3>1. \A i \in DOMAIN output' :
            output'[i] = held \/ (i \in DOMAIN output /\ output'[i] = output[i])
      BY <1>3, <2>1
    <3> QED
      BY <2>3, <2>4, <3>1, BegunStays
  <2>6. /\ \A r \in Roles : firstObjCh'[r] # NoPayload => BegunNext(firstObjCh'[r].stream)
        /\ held' # NoPayload => BegunNext(held'.stream)
    BY <2>1, <2>3, BegunStays
  <2> QED
    BY <1>1, <1>2, <2>2, <2>5, <2>6 DEF TablesInv, TablesMatchOutput, Begun, BegunNext
<1>4. CASE UNCHANGED output
  <2>1. /\ \A r \in Roles : firstObjCh'[r] \in {firstObjCh[r], NoPayload}
        /\ held' = held \/ \E r \in Roles : firstObjCh[r] # NoPayload /\ held' = firstObjCh[r]
    <3>1. CASE WaitFirstObject
      BY <3>1 DEF WaitFirstObject, SubTypeOK, MainTypeOK, Return, DoneCase
    <3>2. CASE UNCHANGED <<firstObjCh, held>>
      BY <3>2
    <3> QED
      BY <1>1, <3>1, <3>2 DEF MainStep, Dial, OpenOutput, SendClientSetup, WaitPeerSetup,
         NewTrackSubscription, SendSubscribe, WaitSubscribeOK, UseCatalog, WriteInitSegment,
         CountInitSegment, LoopDone, LoopError, CloseSink, ReapChild, CloseConn, GoTo, Return, DoneCase
  <2> QED
    BY <1>1, <1>2, <1>4, <2>1, TablesQuiet
<1>5. UNCHANGED output \/ (output' = Append(output, held) /\ WriteInitSegment)
  BY <1>1 DEF MainStep, Dial, OpenOutput, NewSink, SendClientSetup, WaitPeerSetup,
     NewTrackSubscription, SendSubscribe, WaitSubscribeOK, WaitFirstObject, UseCatalog,
     WriteInitSegment, Write, WriteFails, CountInitSegment, LoopDone, LoopError, CloseSink,
     CloseWriter, ReapChild, CloseConn, CutOff, Tear
<1> QED
  BY <1>3, <1>4, <1>5

\* A control stream has no table, and goes on to no objects.
LEMMA ControlKeepsTables ==
  ASSUME SessionInv, RecorderTypeOK, TablesInv, NEW s \in Streams, RichControl(s)
  PROVE  TablesInv'
<1>1. /\ UNCHANGED <<output, rows, owed, hsub, firstObjCh, held>> /\ hpc[s] = "control"
      /\ hpc'[s] \in {"control", "send", "done"}
      /\ \A t \in Streams : t # s => hpc'[t] = hpc[t] /\ hpos'[t] = hpos[t]
  BY DEF RichControl, Note, Add, ActOn, vars, richVars, DispatchControlMessage, Fail, Finish,
         HandlerTypeOK
<1>2. ASSUME NEW t \in Streams
      PROVE  /\ Begun(t) => BegunNext(t)
             /\ ~BegunNext(t) => rows'[t] = <<>>
             /\ owed'[t] = Row => hpc'[t] = "read"
             /\ hpc'[t] = "first" => hsub'[t] # "media"
             /\ Table(t)' = Table(t)
  <2>1. CASE t = s
    BY <1>1, <2>1 DEF TablesInv, Begun, BegunNext, Table
  <2>2. CASE t # s
    BY <1>1, <2>2 DEF TablesInv, Begun, BegunNext, Table
  <2> QED
    BY <2>1, <2>2
<1>3. /\ \A r \in Roles : firstObjCh'[r] # NoPayload => BegunNext(firstObjCh'[r].stream)
      /\ held' # NoPayload => BegunNext(held'.stream)
  BY <1>1, <1>2, BegunStays
<1> QED
  BY <1>1, <1>2, <1>3, TablesFrame

LEMMA OthersKeepTables ==
  ASSUME SessionInv, RecorderTypeOK, TablesInv, UNCHANGED richVars,
         \/ \E k \in Acceptors : AcceptorStep(k)
         \/ \E s \in Streams : AcceptUniStream(s)
         \/ Cancel \/ ConnLost \/ Stall \/ RelayStep \/ ChildStep
  PROVE  TablesInv'
<1>1. CASE \/ \E k \in Acceptors : AcceptorStep(k)
           \/ Cancel \/ ConnLost \/ Stall \/ RelayStep \/ ChildStep
  <2>1. UNCHANGED <<output, hpc, hsub, hpos, firstObjCh, held>>
    BY <1>1 DEF AcceptorStep, AcceptFails, SendAcceptError, Cancel, ConnLost, Stall, RelayStep,
                ChildStep, ShellExits, PipeFreed
  <2> QED
    BY <2>1, TablesQuiet DEF richVars
<1>2. ASSUME NEW s \in Streams, AcceptUniStream(s) PROVE TablesInv'
  <2>1. /\ UNCHANGED <<output, rows, owed, hsub, hpos, firstObjCh, held>>
        /\ hpc[s] = "none" /\ hpc'[s] = "type"
        /\ \A t \in Streams : t # s => hpc'[t] = hpc[t]
    BY <1>2 DEF AcceptUniStream, HandlerTypeOK, richVars
  <2>2. ASSUME NEW t \in Streams
        PROVE  /\ Begun(t) => BegunNext(t)
               /\ ~BegunNext(t) => rows'[t] = <<>>
               /\ owed'[t] = Row => hpc'[t] = "read"
               /\ hpc'[t] = "first" => hsub'[t] # "media"
               /\ Table(t)' = Table(t)
    <3>1. CASE t = s
      BY <2>1, <3>1 DEF TablesInv, Begun, BegunNext, Table
    <3>2. CASE t # s
      BY <2>1, <3>2 DEF TablesInv, Begun, BegunNext, Table
    <3> QED
      BY <3>1, <3>2
  <2>3. /\ \A r \in Roles : firstObjCh'[r] # NoPayload => BegunNext(firstObjCh'[r].stream)
        /\ held' # NoPayload => BegunNext(held'.stream)
    BY <2>1, <2>2, BegunStays
  <2> QED
    BY <2>1, <2>2, <2>3, TablesFrame
<1> QED
  BY <1>1, <1>2

\* A row is owed for what was just delivered, and nothing is read before it is added.
LEMMA HandlerKeepsTables ==
  ASSUME SessionInv, RecorderTypeOK, TablesInv, NEW s \in Streams, RichHandler(s)
  PROVE  TablesInv'
<1>1. /\ UNCHANGED <<rows, held>> /\ owed[s] = Nothing /\ owed'[s] = HandlerEvent(s)
      /\ \A t \in Streams : t # s => owed'[t] = owed[t]
  BY DEF RichHandler, Free, Owe, HandleUniStream, ReadObject, DeliverFirst, DeliverMedia, CountBytes,
         ReadFails, ReadPanics, SendStreamError
<1>2. ASSUME NEW t \in Streams, t # s
      PROVE  /\ hpc'[t] = hpc[t] /\ hsub'[t] = hsub[t] /\ hpos'[t] = hpos[t]
             /\ Table(t)' = Table(t)
  <2>1. hpc'[t] = hpc[t] /\ hsub'[t] = hsub[t] /\ hpos'[t] = hpos[t]
    BY <1>2 DEF RichHandler, HandlerTypeOK, HandleUniStream, ReadObject, DeliverFirst, DeliverMedia,
       CountBytes, ReadFails, ReadPanics, SendStreamError, Fail, Finish
  <2> QED
    BY <1>1, <1>2, <2>1 DEF Table
<1>3. Nothing # Row /\ HeaderOf(s) # Row
  BY DEF Nothing, Row, HeaderOf, Event
<1>4. BegunNext(s) /\ Table(s) = (IF hpc[s] = "count" THEN Append(rows[s], hpos[s]) ELSE rows[s])
  <2>1. BegunNext(s)
    BY DEF RichHandler, HandlerTypeOK, HandleUniStream, ReadObject, AfterObject, DeliverFirst,
           DeliverMedia, CountBytes, ReadFails, ReadPanics, SendStreamError, Fail, Finish, BegunNext
  <2> QED
    BY <1>1, <1>3, <2>1 DEF Table
<1>5. \A t \in Streams : Begun(t) => BegunNext(t)
  BY <1>2, <1>4 DEF Begun, BegunNext
<1>6. hpc[s] = "type" => rows[s] = <<>> /\ Places(s, output) = {}
  BY DEF TablesInv, Begun, Places
<1>7. CASE DeliverMedia(s) /\ Write(Payload(s)) /\ hpc' = [hpc EXCEPT ![s] = "count"]
           /\ UNCHANGED <<hsub, hpos>>
  <2>1. /\ output' = Append(output, Payload(s)) /\ output \in Seq(Payloads)
        /\ hpc[s] = "write" /\ hpc'[s] = "count" /\ hsub[s] = "media"
        /\ UNCHANGED <<firstObjCh, hsub, hpos>>
    BY <1>7 DEF DeliverMedia, Write, SinkTypeOK, HandlerTypeOK, StreamsInv
  <2>2. Payload(s) \in Payloads /\ Payload(s).stream = s /\ Payload(s).n = hpos[s]
    BY <2>1 DEF Payload, Payloads, HandlerTypeOK, StreamsInv
  <2>3. owed'[s] # Row
    BY <1>1, <1>3, <2>1 DEF HandlerEvent
  <2>4. Table(s) = rows[s] /\ Table(s)' = Append(rows[s], hpos[s])
    BY <1>1, <1>4, <2>1 DEF Table
  <2>5. \A j \in Places(s, output) : output[j].n < Payload(s).n
    BY <2>1, <2>2 DEF OutputInv, Behind, Places
  <2>6. Lists(Table(s)', s, output')
    <3>1. Lists(rows[s], s, output)
      BY <2>1, <2>4 DEF TablesInv, TablesMatchOutput
    <3>2. rows[s] \in Seq(Nat)
      OBVIOUS
    <3>3. Lists(Append(rows[s], Payload(s).n), s, Append(output, Payload(s)))
      BY <2>1, <2>2, <2>5, <3>1, <3>2, ListGrows
    <3> QED
      BY <2>1, <2>2, <2>4, <3>3
  <2>7. ASSUME NEW t \in Streams, t # s, hsub'[t] = "media"
        PROVE  Lists(Table(t)', t, output')
    <3>1. Lists(Table(t), t, output)
      BY <1>2, <2>7 DEF TablesInv, TablesMatchOutput
    <3>2. Lists(Table(t), t, Append(output, Payload(s)))
      BY <2>1, <2>2, <2>7, <3>1, ListKept
    <3> QED
      BY <1>2, <2>1, <2>7, <3>2
  <2>8. TablesMatchOutput'
    BY <2>6, <2>7 DEF TablesMatchOutput, Lists
  <2>9. \A i \in DOMAIN output' : BegunNext(output'[i].stream)
    <3>1. \A i \in DOMAIN output' :
            output'[i] = Payload(s) \/ (i \in DOMAIN output /\ output'[i] = output[i])
      BY <2>1
    <3> QED
      BY <1>4, <1>5, <2>2, <3>1, BegunStays
  <2>10. /\ \A r \in Roles : firstObjCh'[r] # NoPayload => BegunNext(firstObjCh'[r].stream)
         /\ held' # NoPayload => BegunNext(held'.stream)
    BY <1>1, <1>5, <2>1, BegunStays
  <2>11. ASSUME NEW t \in Streams
         PROVE  /\ ~BegunNext(t) => rows'[t] = <<>>
                /\ owed'[t] = Row => hpc'[t] = "read"
                /\ hpc'[t] = "first" => hsub'[t] # "media"
    BY <1>1, <1>2, <1>4, <1>5, <2>1, <2>3 DEF TablesInv
  <2> QED
    BY <2>8, <2>9, <2>10, <2>11 DEF TablesInv, Begun, BegunNext
<1>8. CASE UNCHANGED output /\ ~(hpc[s] = "write" /\ hpc'[s] = "count")
  <2>1. /\ owed'[s] = Row => hpc'[s] = "read"
        /\ hpc'[s] = "first" => hsub'[s] # "media"
        /\ hsub'[s] = "media" => \/ hsub[s] = "media" /\ Table(s)' = Table(s)
                                 \/ Places(s, output) = {} /\ Table(s)' = <<>>
    <3>1. CASE HandleUniStream(s)
      <4>1. /\ hpc[s] = "type" /\ hpc'[s] \in {"control", "read", "done"}
            /\ owed'[s] # Row
        BY <1>1, <1>3, <3>1 DEF HandleUniStream, Finish, HandlerTypeOK, HandlerEvent, HeaderOf
      <4>2. Table(s)' = <<>>
        BY <1>1, <1>6, <4>1 DEF Table
      <4> QED
        BY <1>6, <4>1, <4>2
    <3>2. CASE ReadObject(s)
      <4>1. /\ hpc[s] = "read" /\ hpc'[s] = AfterObject(s) /\ UNCHANGED hsub
        BY <3>2 DEF ReadObject, HandlerTypeOK
      <4>2. AfterObject(s) \in {"read", "write", "first"}
            /\ (AfterObject(s) = "first" => hsub[s] # "media")
        BY DEF AfterObject
      <4>3. owed'[s] = Row => hpc'[s] = "read" /\ hsub[s] # "media"
        BY <1>1, <1>3, <4>1 DEF HandlerEvent, IsDelivered, AfterObject, NoSub
      <4>4. hsub[s] = "media" => Table(s)' = rows[s]
        BY <1>1, <4>1, <4>2, <4>3 DEF Table
      <4> QED
        BY <1>4, <4>1, <4>2, <4>3, <4>4
    <3>3. CASE DeliverFirst(s)
      <4>1. /\ hpc[s] = "first" /\ hpc'[s] = "read" /\ UNCHANGED hsub
        BY <3>3 DEF DeliverFirst, HandlerTypeOK
      <4>2. hsub[s] # "media"
        BY <4>1 DEF TablesInv
      <4> QED
        BY <4>1, <4>2
    <3>4. CASE CountBytes(s)
      <4>1. /\ hpc[s] = "count" /\ hpc'[s] = "read" /\ UNCHANGED <<hsub, hpos>>
        BY <3>4 DEF CountBytes, HandlerTypeOK
      <4>2. owed'[s] = Row
        BY <1>1, <4>1 DEF HandlerEvent
      <4>3. Table(s)' = Table(s)
        BY <1>1, <1>4, <4>1, <4>2 DEF Table
      <4> QED
        BY <4>1, <4>3
    <3>5. CASE DeliverMedia(s) \/ ReadFails(s) \/ SendStreamError(s)
      <4>1. /\ hpc[s] \in {"write", "type", "control", "read", "send"}
            /\ hpc'[s] \in {"send", "done"} /\ UNCHANGED hsub
        BY <1>8, <3>5 DEF DeliverMedia, ReadFails, SendStreamError, Fail, Finish, HandlerTypeOK
      <4>2. owed'[s] # Row
        BY <1>1, <1>3, <4>1 DEF HandlerEvent
      <4>3. Table(s)' = Table(s)
        BY <1>1, <1>4, <4>1, <4>2 DEF Table
      <4> QED
        BY <4>1, <4>2, <4>3
    <3>6. CASE ReadPanics(s)
      <4>1. /\ hpc[s] = "read" /\ ~IsDelivered(s) /\ UNCHANGED <<hpc, hsub, hpos>>
        BY <3>6 DEF ReadPanics, IsDelivered
      <4>2. owed'[s] # Row
        BY <1>1, <1>3, <4>1 DEF HandlerEvent
      <4>3. Table(s)' = Table(s)
        BY <1>1, <1>4, <4>1, <4>2 DEF Table
      <4> QED
        BY <4>1, <4>2, <4>3
    <3> QED
      BY <3>1, <3>2, <3>3, <3>4, <3>5, <3>6 DEF RichHandler
  <2>2. ASSUME NEW t \in Streams, t # s
        PROVE  /\ ~BegunNext(t) => rows'[t] = <<>>
               /\ owed'[t] = Row => hpc'[t] = "read"
               /\ hpc'[t] = "first" => hsub'[t] # "media"
               /\ hsub'[t] = "media" => hsub[t] = "media" /\ Table(t)' = Table(t)
    BY <1>1, <1>2, <1>5, <2>2 DEF TablesInv
  <2>3. \A r \in Roles : firstObjCh'[r] # NoPayload => BegunNext(firstObjCh'[r].stream)
    <3>1. CASE DeliverFirst(s)
      <4>1. Payload(s).stream = s
        BY DEF Payload
      <4>2. \A r \in Roles : firstObjCh'[r] \in {firstObjCh[r], Payload(s)}
        BY <3>1 DEF DeliverFirst, SubTypeOK
      <4> QED
        BY <1>4, <1>5, <4>1, <4>2, BegunStays
    <3>2. CASE UNCHANGED firstObjCh
      BY <1>5, <3>2, BegunStays
    <3> QED
      BY <3>1, <3>2 DEF RichHandler, HandleUniStream, ReadObject, DeliverMedia, CountBytes, ReadFails,
                        ReadPanics, SendStreamError
  <2>4. held' # NoPayload => BegunNext(held'.stream)
    BY <1>1, <1>5, BegunStays
  <2>5. ASSUME NEW t \in Streams
        PROVE  /\ Begun(t) => BegunNext(t)
               /\ ~BegunNext(t) => rows'[t] = <<>>
               /\ owed'[t] = Row => hpc'[t] = "read"
               /\ hpc'[t] = "first" => hsub'[t] # "media"
               /\ hsub'[t] = "media" => \/ hsub[t] = "media" /\ Table(t)' = Table(t)
                                        \/ Places(t, output) = {} /\ Table(t)' = <<>>
    BY <1>4, <1>5, <2>1, <2>2
  <2> QED
    BY <1>8, <2>3, <2>4, <2>5, TablesFrame
<1>9. \/ UNCHANGED output /\ ~(hpc[s] = "write" /\ hpc'[s] = "count")
      \/ /\ DeliverMedia(s) /\ Write(Payload(s)) /\ hpc' = [hpc EXCEPT ![s] = "count"]
         /\ UNCHANGED <<hsub, hpos>>
  BY DEF RichHandler, HandlerTypeOK, HandleUniStream, ReadObject, AfterObject, DeliverFirst,
         DeliverMedia, WriteFails, CountBytes, ReadFails, ReadPanics, SendStreamError, CutOff, Tear,
         Fail, Finish
<1> QED
  BY <1>7, <1>8, <1>9

LEMMA TablesStep ==
  ASSUME SessionInv, RecorderTypeOK, TablesInv, [RichNext]_allVars
  PROVE  TablesInv'
<1>1. CASE RichMain
  BY <1>1, MainKeepsTables
<1>2. CASE AddOwed("main") \/ \E s \in Streams : AddOwed(s)
  BY <1>2, AddingKeepsTables
<1>3. ASSUME NEW r \in Roles, RichReader(r) PROVE TablesInv'
  <2>1. UNCHANGED <<output, rows, owed, hpc, hsub, hpos, firstObjCh, held>>
    BY <1>3 DEF RichReader, Note, Add, ActOn, vars, richVars, ReadMessage, NotifyOK, ReaderEnds
  <2> QED
    BY <2>1, TablesQuiet
<1>4. CASE \E s \in Streams : RichHandler(s)
  BY <1>4, HandlerKeepsTables
<1>5. CASE \E s \in Streams : RichControl(s)
  BY <1>5, ControlKeepsTables
<1>6. CASE UNCHANGED <<vars, richVars>>
  BY <1>6, TablesQuiet DEF vars, richVars
<1> QED
  BY <1>1, <1>2, <1>3, <1>4, <1>5, <1>6, OthersKeepTables
     DEF RichNext, RichAlive, Terminated, allVars

(***************************************************************************)
(* A media stream's table is the list of its objects in the output, up to  *)
(* the one being delivered: for any relay, any streams, any aliases and    *)
(* whatever the page keeps (handleSubgroupStream, AddObject).              *)
(***************************************************************************)
THEOREM TablesCorrect == RichSpec => [](TablesInv /\ TablesMatchOutput)
<1>1. RichInit => TablesInv
  <2> SUFFICES ASSUME RichInit PROVE TablesInv
    OBVIOUS
  <2>1. /\ output = <<>> /\ held = NoPayload /\ \A r \in Roles : firstObjCh[r] = NoPayload
        /\ \A s \in Streams : /\ rows[s] = <<>> /\ owed[s] = Nothing
                              /\ hpc[s] = "none" /\ hsub[s] = NoSub
    BY DEF RichInit, RecorderInit, Init, SinkInit
  <2>2. Nothing # Row /\ NoSub # "media"
    BY DEF Nothing, Row, Event, NoSub
  <2> QED
    BY <2>1, <2>2 DEF TablesInv, TablesMatchOutput
<1>2. SessionInv /\ RecorderTypeOK /\ TablesInv /\ [RichNext]_allVars => TablesInv'
  BY TablesStep
<1>3. TablesInv => TablesInv /\ TablesMatchOutput
  BY DEF TablesInv
<1> QED
  BY <1>1, <1>2, <1>3, RichPlaysCorrectly, RecorderTypes, PTL DEF RichSpec

(***************************************************************************)
(* The recorder's invariant as a run checks it (richlog.Recorder).         *)
(***************************************************************************)
THEOREM RecorderCorrect == RichSpec => [](AnswersKept => RecorderInv)
<1>1. RecorderTypeOK /\ (TablesInv /\ TablesMatchOutput)
        /\ (AnswersKept => AnswersInv /\ AnswersRecorded) => (AnswersKept => RecorderInv)
  BY DEF RecorderInv
<1> QED
  BY <1>1, RecorderTypes, TablesCorrect, AnswersCorrect, PTL
=============================================================================

------------------------------ MODULE Session -------------------------------
(***************************************************************************)
(* A moqsub session (internal/app/run.go, subscriptions.go): the main      *)
(* goroutine that bootstraps .catalog -> init -> media and then waits for  *)
(* errors, the two accept loops, one reader per request stream and one     *)
(* handler per incoming unidirectional stream.  They share the registry,   *)
(* each subscription's channels, the output sink and the error channel.    *)
(*                                                                         *)
(* A step is one access to shared state; reads of a goroutine's own stream *)
(* are merged with the access that follows.  The session is one without    *)
(* --rich-log: the recorder is nil and its methods do nothing.             *)
(***************************************************************************)
EXTENDS Relay, Sink

CONSTANTS
  ErrCap,   \* capacity of errCh (8 in the code)
  Faults    \* which environment events may happen, of AllFaults

\* Calls that may hang: opening a uni- or bidirectional stream, writing to the output.
Stalls    == {"uni", "bidi", "output"}
AllFaults == {"cancel", "loss", "noSetup", "timeout", "child", "orphan"} \cup Stalls

ASSUME SessionAssumption == ErrCap \in Nat \ {0} /\ Faults \subseteq AllFaults

Acceptors == {"uni", "bidi"}
Payloads  == [stream : Streams, n : Nat, track : Roles]
NoPayload == [stream |-> "nil", n |-> 0, track |-> "nil"]
Errors    == {"cancelled", "stream", "other"}   \* what errors.Is / errors.As tell apart
NoErr     == "nil"

VARIABLES
  main,          \* where the main goroutine is in Run
  cur,           \* the role bootstrapFromCatalog is working on
  held,          \* the payload waitFirstObject returned
  result,        \* what Run returns: "nil", "cancelled" or "error"; "none" before, "panic" if never
  ctxDone,       \* the signal context is cancelled
  conn,          \* "none", "up", "lost" (idle timeout or closed by the relay), "closed"
  stalled,       \* the calls that hang: no stream credit left, nobody reads the output
  peerSetupSeen, \* the channel of that name is closed
  requestID,     \* role -> trackSubscription.requestID
  okCh,          \* role -> content of the one-place channel: "empty", "ok", "err"
  firstObjCh,    \* role -> content of the one-place channel, or NoPayload
  gotFirst,      \* role -> the unsynchronised flag of deliverSubgroupObject
  reader,        \* role -> where readRequestStream is
  acc,           \* accept loop -> where it is
  accErr,        \* accept loop -> the error it is about to send
  errCh,         \* the buffered error channel
  hpc,           \* stream -> where its handler is
  hsub,          \* stream -> the subscription lookupDelivery returned
  hpos,          \* stream -> number of items its handler has read
  herr,          \* stream -> the error its handler is about to send
  bytesWritten,  \* Stats.bytesWritten, in payloads
  streamResets   \* Stats.streamResets

mainVars    == <<main, cur, held, result>>
envVars     == <<ctxDone, conn, stalled>>
subVars     == <<requestID, okCh, firstObjCh, gotFirst, reader>>
errVars     == <<acc, accErr, errCh>>
handlerVars == <<hpc, hsub, hpos, herr>>
statVars    == <<peerSetupSeen, bytesWritten, streamResets>>

vars == <<registryVars, relayVars, sinkVars, mainVars, envVars, subVars,
          errVars, handlerVars, statVars>>

MainStates ==
  {"dial", "newSink", "sendSetup", "waitSetup", "newSub", "sendSub", "waitOK",
   "waitObj", "use", "count", "loop", "closeSink", "reap", "shut", "exited"}

MainTypeOK ==
  /\ main \in MainStates /\ cur \in Roles
  /\ held \in Payloads \cup {NoPayload}
  /\ result \in {"none", "nil", "cancelled", "error", "panic"}
  /\ ctxDone \in BOOLEAN /\ conn \in {"none", "up", "lost", "closed"}
  /\ stalled \subseteq Stalls

SinkTypeOK ==
  /\ output \in Seq(Payloads) /\ torn \subseteq [after : Nat, of : Payloads]
  /\ sink \in {"none", "open", "closed"} /\ child \in {"none", "running", "left", "gone"}
  /\ peerSetupSeen \in BOOLEAN /\ bytesWritten \in Nat /\ streamResets \in Nat

SubTypeOK ==
  /\ requestID \in [Roles -> Ids \cup {NoId}]
  /\ okCh \in [Roles -> {"empty", "ok", "err"}]
  /\ firstObjCh \in [Roles -> Payloads \cup {NoPayload}]
  /\ gotFirst \in [Roles -> BOOLEAN]
  /\ reader \in [Roles -> {"none", "read", "bound", "done"}]

ErrTypeOK ==
  /\ acc \in [Acceptors -> {"none", "accept", "send", "done"}]
  /\ accErr \in [Acceptors -> Errors \cup {NoErr}]
  /\ errCh \in Seq(Errors) /\ Len(errCh) <= ErrCap

HandlerTypeOK ==
  /\ hpc \in [Streams -> {"none", "type", "control", "read", "first", "write", "count", "send", "done"}]
  /\ hsub \in [Streams -> Roles \cup {NoSub}]
  /\ hpos \in [Streams -> Nat]
  /\ herr \in [Streams -> Errors \cup {NoErr}]

(***************************************************************************)
(* The type invariant.  errCh never holds more than its capacity (run.go:  *)
(* make(chan error, 8); a sender waits for room).                          *)
(***************************************************************************)
TypeOK ==
  /\ RegistryTypeOK /\ RelayTypeOK /\ MainTypeOK /\ SinkTypeOK
  /\ SubTypeOK /\ ErrTypeOK /\ HandlerTypeOK

Init ==
  /\ newSubscriptionRegistry /\ RelayInit /\ SinkInit
  /\ main = "dial" /\ cur = "catalog" /\ held = NoPayload /\ result = "none"
  /\ ctxDone = FALSE /\ conn = "none" /\ stalled = {}
  /\ requestID = [r \in Roles |-> NoId]
  /\ okCh = [r \in Roles |-> "empty"]
  /\ firstObjCh = [r \in Roles |-> NoPayload]
  /\ gotFirst = [r \in Roles |-> FALSE]
  /\ reader = [r \in Roles |-> "none"]
  /\ acc = [k \in Acceptors |-> "none"]
  /\ accErr = [k \in Acceptors |-> NoErr]
  /\ errCh = <<>>
  /\ hpc = [s \in Streams |-> "none"]
  /\ hsub = [s \in Streams |-> NoSub]
  /\ hpos = [s \in Streams |-> 0]
  /\ herr = [s \in Streams |-> NoErr]
  /\ peerSetupSeen = FALSE /\ bytesWritten = 0 /\ streamResets = 0

-----------------------------------------------------------------------------
(***************************************************************************)
(* The main goroutine.                                                     *)
(***************************************************************************)

GoTo(l) == main' = l /\ UNCHANGED <<cur, held, result>>

\* return from Run; the deferred functions registered so far start at l.
Return(res, l) == main' = l /\ result' = res /\ UNCHANGED <<cur, held>>

ConnDown == conn \in {"lost", "closed"}

\* Opening a stream waits for the relay's credit, until the connection is gone.
Blocked(call) == call \in stalled /\ ~ConnDown

\* A write waits for the output's reader, until nobody holds the pipe or it is closed.
OutputBlocked == "output" \in stalled /\ ~(CommandSink /\ (child = "gone" \/ sink = "closed"))

CallErrorsNoContext == {"error"}   \* faulty variant: the call gets context.Background()

\* A blocking call that takes the context returns its error only once it is cancelled.
CallErrors == {"error"} \cup {e \in {"cancelled"} : ctxDone}

NoTimer == FALSE          \* faulty variant: the waits have no timeout

SetupTimerFires == "noSetup" \in Faults   \* 5 seconds without the peer's SETUP
TimerFires      == "timeout" \in Faults   \* 15 seconds in one of the bootstrap's waits

DoneIgnored == FALSE      \* faulty variant: the select has no such case

\* The ctx.Done() case of a select before the receive loop.
DoneCase == ctxDone /\ Return("cancelled", "closeSink")

CountLast == bytesWritten' = 1      \* faulty variant: the counter is stored, not added to

\* atomic.AddUint64(&r.stats.bytesWritten, ...), which follows every write.
CountPayload == bytesWritten' = bytesWritten + 1

Dial ==
  /\ main = "dial"
  /\ \/ conn' = "up" /\ GoTo("newSink")
     \/ conn' = conn /\ \E e \in CallErrors : Return(e, "exited")
  /\ UNCHANGED <<registryVars, relayVars, sinkVars, ctxDone, stalled, subVars, errVars, handlerVars, statVars>>

\* NewSink, then the two accept loops are started.
OpenOutput ==
  /\ main = "newSink"
  /\ \/ /\ NewSink
        /\ acc' = [k \in Acceptors |-> "accept"]
        /\ GoTo("sendSetup")
     \/ /\ CommandSink                    \* os.Stdout is always there
        /\ \E e \in CallErrors : Return(e, "shut")
        /\ UNCHANGED <<sinkVars, acc>>
  /\ UNCHANGED <<registryVars, relayVars, envVars, subVars, accErr, errCh, handlerVars, statVars>>

\* OpenUniStreamSync gets context.Background(): cancellation is not noticed here.
SendClientSetup ==
  /\ main = "sendSetup" /\ ~Blocked("uni")
  /\ \/ conn = "up" /\ GoTo("waitSetup")
     \/ Return("error", "closeSink")
  /\ UNCHANGED <<registryVars, relayVars, sinkVars, envVars, subVars, errVars, handlerVars, statVars>>

\* The peer's SETUP, or 5 seconds without it, lets the bootstrap begin.
WaitPeerSetup ==
  /\ main = "waitSetup"
  /\ \/ (peerSetupSeen \/ SetupTimerFires) /\ GoTo("newSub")
     \/ DoneCase
  /\ UNCHANGED <<registryVars, relayVars, sinkVars, envVars, subVars, errVars, handlerVars, statVars>>

\* newTrackSubscription: the subscription is in the registry before SUBSCRIBE is sent.
NewTrackSubscription ==
  /\ main = "newSub"
  /\ \E id \in Ids :
       /\ allocRequestID(id)
       /\ register(cur, id)
       /\ requestID' = [requestID EXCEPT ![cur] = id]
  /\ GoTo("sendSub")
  /\ UNCHANGED <<byAlias, relayVars, sinkVars, envVars, okCh, firstObjCh, gotFirst,
                 reader, errVars, handlerVars, statVars>>

\* sendSubscribeMessage: on success the request stream's reader is running.
SendSubscribe ==
  /\ main = "sendSub"
  /\ \/ /\ conn = "up" /\ ~Blocked("bidi")
        /\ request' = [request EXCEPT ![cur] = requestID[cur]]
        /\ reader' = [reader EXCEPT ![cur] = "read"]
        /\ GoTo("waitOK")
     \/ /\ \E e \in CallErrors : (Blocked("bidi") => e = "cancelled") /\ Return(e, "closeSink")
        /\ UNCHANGED <<request, reader>>
  /\ UNCHANGED <<registryVars, trackAlias, replied, reply, track, body, sinkVars, envVars,
                 requestID, okCh, firstObjCh, gotFirst, errVars, handlerVars, statVars>>

\* The select of waitSubscribeOK: any ready case may be taken.
WaitSubscribeOK ==
  /\ main = "waitOK"
  /\ \/ /\ okCh[cur] = "ok"
        /\ okCh' = [okCh EXCEPT ![cur] = "empty"]
        /\ GoTo(IF cur = "media" THEN "loop" ELSE "waitObj")
     \/ /\ okCh[cur] = "err"
        /\ okCh' = [okCh EXCEPT ![cur] = "empty"]
        /\ Return("error", "closeSink")
     \/ okCh' = okCh /\ DoneCase
     \/ TimerFires /\ okCh' = okCh /\ Return("error", "closeSink")
  /\ UNCHANGED <<registryVars, relayVars, sinkVars, envVars, requestID, firstObjCh, gotFirst,
                 reader, errVars, handlerVars, statVars>>

WaitFirstObject ==
  /\ main = "waitObj"
  /\ \/ /\ firstObjCh[cur] # NoPayload
        /\ held' = firstObjCh[cur]
        /\ firstObjCh' = [firstObjCh EXCEPT ![cur] = NoPayload]
        /\ main' = "use"
        /\ UNCHANGED <<cur, result>>
     \/ firstObjCh' = firstObjCh /\ DoneCase
     \/ TimerFires /\ firstObjCh' = firstObjCh /\ Return("error", "closeSink")
  /\ UNCHANGED <<registryVars, relayVars, sinkVars, envVars, requestID, okCh, gotFirst,
                 reader, errVars, handlerVars, statVars>>

\* parseCatalog and resolveMediaTrack: either track names are found or Run fails.
UseCatalog ==
  /\ main = "use" /\ cur = "catalog"
  /\ \/ main' = "newSub" /\ cur' = "init" /\ UNCHANGED <<held, result>>
     \/ Return("error", "closeSink")
  /\ UNCHANGED <<registryVars, relayVars, sinkVars, envVars, subVars, errVars, handlerVars, statVars>>

\* The init segment goes to the output before the media track is subscribed to.
WriteInitSegment ==
  /\ main = "use" /\ cur = "init" /\ ~OutputBlocked
  /\ \/ /\ Write(held)
        /\ main' = "count" /\ cur' = "media" /\ UNCHANGED <<held, result>>
     \/ WriteFails(held) /\ Return("error", "closeSink")
  /\ UNCHANGED <<registryVars, relayVars, envVars, subVars, errVars, handlerVars, statVars>>

CountInitSegment ==
  /\ main = "count"
  /\ CountPayload
  /\ GoTo("newSub")
  /\ UNCHANGED <<registryVars, relayVars, sinkVars, envVars, subVars, errVars, handlerVars,
                 peerSetupSeen, streamResets>>

\* The receive loop, ctx.Done() case.
LoopDone ==
  /\ main = "loop" /\ ctxDone
  /\ Return("nil", "closeSink")
  /\ UNCHANGED <<registryVars, relayVars, sinkVars, envVars, subVars, errVars, handlerVars, statVars>>

\* Faulty variants: every error ends Run quietly; no error but cancellation ends it;
\* a reset ends it like any other error.
ResultAlwaysNil  == [cancelled |-> "nil", stream |-> "none", other |-> "nil"]
ResultGoesOn     == [cancelled |-> "nil", stream |-> "none", other |-> "none"]
ResultResetFails == [cancelled |-> "nil", stream |-> "error", other |-> "error"]

(***************************************************************************)
(* The receive loop, errCh case: what each error makes Run return, "none"  *)
(* for a stream reset, which is counted and does not end the loop.         *)
(***************************************************************************)
LoopResult == [cancelled |-> "nil", stream |-> "none", other |-> "error"]

LoopError ==
  /\ main = "loop" /\ errCh # <<>>
  /\ errCh' = Tail(errCh)
  /\ \/ /\ LoopResult[Head(errCh)] = "none"
        /\ streamResets' = streamResets + 1 /\ UNCHANGED mainVars
     \/ /\ LoopResult[Head(errCh)] # "none"
        /\ Return(LoopResult[Head(errCh)], "closeSink") /\ UNCHANGED streamResets
  /\ UNCHANGED <<registryVars, relayVars, sinkVars, envVars, subVars, acc, accErr, handlerVars,
                 peerSetupSeen, bytesWritten>>

\* Sink.Close: close the writer; a command is then waited for, unless closing failed.
CloseSink ==
  /\ main = "closeSink"
  /\ CloseWriter
  /\ \/ CommandSink /\ GoTo("reap")
     \/ GoTo("shut")
  /\ UNCHANGED <<registryVars, relayVars, envVars, subVars, errVars, handlerVars, statVars>>

\* cmd.Wait waits for the shell, whose output needs no copying.
ReapChild ==
  /\ main = "reap" /\ child \in {"left", "gone"}
  /\ GoTo("shut")
  /\ UNCHANGED <<registryVars, relayVars, sinkVars, envVars, subVars, errVars, handlerVars, statVars>>

\* The payloads being written: by a handler, or by the main goroutine.
Item(s)    == body[s].items[hpos[s] + 1]
HasItem(s) == hpos[s] < Len(body[s].items)
Payload(s) == [stream |-> s, n |-> hpos[s], track |-> track[s]]

InWrite == {Payload(s) : s \in {q \in Streams : hpc[q] = "write"}}
             \cup {p \in {held} : main = "use" /\ cur = "init"}

\* The end of the process may cut a write off.
CutOff == UNCHANGED sinkVars \/ \E p \in InWrite : Tear(p)

\* The control stream and the connection are closed, Run returns, the process exits.
\* Goroutines that go on after the close have no reads left that succeed.
CloseConn ==
  /\ main = "shut"
  /\ conn' = "closed"
  /\ GoTo("exited") /\ CutOff
  /\ UNCHANGED <<registryVars, relayVars, ctxDone, stalled, subVars, errVars, handlerVars, statVars>>

MainStep ==
  \/ Dial \/ OpenOutput \/ SendClientSetup \/ WaitPeerSetup
  \/ NewTrackSubscription \/ SendSubscribe \/ WaitSubscribeOK \/ WaitFirstObject
  \/ UseCatalog \/ WriteInitSegment \/ CountInitSegment \/ LoopDone \/ LoopError
  \/ CloseSink \/ ReapChild \/ CloseConn

-----------------------------------------------------------------------------
(***************************************************************************)
(* readRequestStream(r).                                                   *)
(***************************************************************************)

\* The select with a default: a full channel drops the value.
Offer(r, v) == okCh' = [okCh EXCEPT ![r] = IF @ = "empty" THEN v ELSE @]

ReadMessage(r) ==
  /\ reader[r] = "read" /\ reply[r] # <<>>
  /\ reply' = [reply EXCEPT ![r] = Tail(@)]
  /\ \/ /\ Head(reply[r]) = "ok"
        /\ bindAlias(r, trackAlias[r])
        /\ reader' = [reader EXCEPT ![r] = "bound"]
        /\ UNCHANGED okCh
     \/ /\ Head(reply[r]) = "error"
        /\ Offer(r, "err")
        /\ reader' = [reader EXCEPT ![r] = "done"]
        /\ UNCHANGED byAlias
     \/ /\ Head(reply[r]) = "bad"          \* the body does not decode
        /\ reader' = [reader EXCEPT ![r] = "done"]
        /\ UNCHANGED <<byAlias, okCh>>
     \/ /\ Head(reply[r]) = "other"
        /\ UNCHANGED <<byAlias, okCh, reader>>
  /\ UNCHANGED <<nextID, byRequest, request, trackAlias, replied, track, body, sinkVars, mainVars,
                 envVars, requestID, firstObjCh, gotFirst, errVars, handlerVars, statVars>>

NotifyOK(r) ==
  /\ reader[r] = "bound"
  /\ Offer(r, "ok")
  /\ reader' = [reader EXCEPT ![r] = "read"]
  /\ UNCHANGED <<registryVars, relayVars, sinkVars, mainVars, envVars, requestID, firstObjCh,
                 gotFirst, errVars, handlerVars, statVars>>

\* ReadFrame fails: the relay ended the stream or the connection is gone.
ReaderEnds(r) ==
  /\ reader[r] = "read"
  /\ ConnDown \/ (reply[r] # <<>> /\ Head(reply[r]) = "end")
  /\ reader' = [reader EXCEPT ![r] = "done"]
  /\ UNCHANGED <<registryVars, relayVars, sinkVars, mainVars, envVars, requestID, okCh, firstObjCh,
                 gotFirst, errVars, handlerVars, statVars>>

ReaderStep(r) == ReadMessage(r) \/ NotifyOK(r) \/ ReaderEnds(r)

-----------------------------------------------------------------------------
(***************************************************************************)
(* acceptUniStreams and acceptPeerBidiStreams.  What the latter's          *)
(* goroutines do with a stream is only logged.                             *)
(***************************************************************************)

AcceptUniStream(s) ==
  /\ acc["uni"] = "accept" /\ conn = "up"
  /\ body[s] # NoBody /\ hpc[s] = "none"
  /\ hpc' = [hpc EXCEPT ![s] = "type"]
  /\ UNCHANGED <<registryVars, relayVars, sinkVars, mainVars, envVars, subVars, errVars, hsub, hpos,
                 herr, statVars>>

AcceptFails(k) ==
  /\ acc[k] = "accept"
  /\ \E e \in {"cancelled", "other"} :
       /\ IF e = "cancelled" THEN ctxDone ELSE ConnDown
       /\ accErr' = [accErr EXCEPT ![k] = e]
  /\ acc' = [acc EXCEPT ![k] = "send"]
  /\ UNCHANGED <<registryVars, relayVars, sinkVars, mainVars, envVars, subVars, errCh, handlerVars,
                 statVars>>

AlwaysRoom == TRUE        \* faulty variant: a queue without a bound

\* errCh <- err blocks while the buffer is full.
Room == Len(errCh) < ErrCap

SendAcceptError(k) ==
  /\ acc[k] = "send" /\ Room
  /\ errCh' = Append(errCh, accErr[k])
  /\ acc' = [acc EXCEPT ![k] = "done"]
  /\ UNCHANGED <<registryVars, relayVars, sinkVars, mainVars, envVars, subVars, accErr, handlerVars,
                 statVars>>

AcceptorStep(k) == AcceptFails(k) \/ SendAcceptError(k)

-----------------------------------------------------------------------------
(***************************************************************************)
(* handleUniStream(s).                                                     *)
(***************************************************************************)

\* Faulty variant: the error is logged and the stream read on.
FailReadsOn(s, e) ==
  /\ hpc' = [hpc EXCEPT ![s] = "read"]
  /\ UNCHANGED <<hsub, hpos, herr>>

\* The handler returns e: EOF and nil are not reported.
Fail(s, e) ==
  /\ hpc' = [hpc EXCEPT ![s] = "send"]
  /\ herr' = [herr EXCEPT ![s] = e]
  /\ UNCHANGED <<hsub, hpos>>

Finish(s) == hpc' = [hpc EXCEPT ![s] = "done"] /\ UNCHANGED <<hsub, hpos, herr>>

\* The stream type and, for a subgroup stream, the header up to the alias lookup.
HandleUniStream(s) ==
  /\ hpc[s] = "type"
  /\ \/ /\ body[s].kind = "control"
        /\ hpc' = [hpc EXCEPT ![s] = "control"]
        /\ UNCHANGED <<hsub, hpos, herr>>
     \/ /\ body[s].kind = "subgroup"
        /\ hsub' = [hsub EXCEPT ![s] = lookupDelivery(trackAlias[track[s]])]
        /\ hpc' = [hpc EXCEPT ![s] = "read"]
        /\ UNCHANGED <<hpos, herr>>
     \/ body[s].kind = "unhandled" /\ Finish(s)
  /\ UNCHANGED <<registryVars, relayVars, sinkVars, mainVars, envVars, subVars, errVars, statVars>>

(***************************************************************************)
(* dispatchControlMessage: SETUP closes peerSetupSeen (once); GOAWAY and   *)
(* the rest are logged.  A SETUP that is cut off before a value does not   *)
(* decode either, but its error wraps io.EOF and counts as the end.        *)
(***************************************************************************)
DispatchControlMessage(s) ==
  /\ hpc[s] = "control" /\ HasItem(s)
  /\ \/ /\ Item(s) = "badsetup"
        /\ Fail(s, "other")
        /\ UNCHANGED peerSetupSeen
     \/ /\ Item(s) = "cutsetup"
        /\ Finish(s)
        /\ UNCHANGED peerSetupSeen
     \/ /\ Item(s) \notin {"badsetup", "cutsetup"}
        /\ peerSetupSeen' = (peerSetupSeen \/ Item(s) = "setup")
        /\ hpos' = [hpos EXCEPT ![s] = @ + 1]
        /\ UNCHANGED <<hpc, hsub, herr>>
  /\ UNCHANGED <<registryVars, relayVars, sinkVars, mainVars, envVars, subVars, errVars, bytesWritten,
                 streamResets>>

(***************************************************************************)
(* reader.Next() and the start of deliverSubgroupObject: a status object,  *)
(* an object of an unmapped alias and any but the first object of a        *)
(* catalog or init subscription are skipped.                               *)
(***************************************************************************)
AfterObject(s) ==
  IF Item(s) = "status" \/ hsub[s] = NoSub THEN "read"
  ELSE IF hsub[s] = "media" THEN "write"
  ELSE IF gotFirst[hsub[s]] THEN "read" ELSE "first"

ReadObject(s) ==
  /\ hpc[s] = "read" /\ HasItem(s)
  /\ hpos' = [hpos EXCEPT ![s] = @ + 1]
  /\ hpc' = [hpc EXCEPT ![s] = AfterObject(s)]
  /\ UNCHANGED <<registryVars, relayVars, sinkVars, mainVars, envVars, subVars, errVars, hsub, herr,
                 statVars>>

(***************************************************************************)
(* gotFirst is tested in ReadObject and set here without a lock, so two    *)
(* handlers of one track may both get this far; a full channel drops.      *)
(***************************************************************************)
DeliverFirst(s) ==
  /\ hpc[s] = "first"
  /\ gotFirst' = [gotFirst EXCEPT ![hsub[s]] = TRUE]
  /\ firstObjCh' = [firstObjCh EXCEPT ![hsub[s]] = IF @ = NoPayload THEN Payload(s) ELSE @]
  /\ hpc' = [hpc EXCEPT ![s] = "read"]
  /\ UNCHANGED <<registryVars, relayVars, sinkVars, mainVars, envVars, requestID, okCh, reader, errVars,
                 hsub, hpos, herr, statVars>>

DeliverMedia(s) ==
  /\ hpc[s] = "write" /\ ~OutputBlocked
  /\ \/ /\ Write(Payload(s))
        /\ hpc' = [hpc EXCEPT ![s] = "count"]
        /\ UNCHANGED <<hsub, hpos, herr>>
     \/ Fail(s, "other") /\ WriteFails(Payload(s))
  /\ UNCHANGED <<registryVars, relayVars, mainVars, envVars, subVars, errVars, statVars>>

CountBytes(s) ==
  /\ hpc[s] = "count"
  /\ CountPayload
  /\ hpc' = [hpc EXCEPT ![s] = "read"]
  /\ UNCHANGED <<registryVars, relayVars, sinkVars, mainVars, envVars, subVars, errVars, hsub, hpos,
                 herr, peerSetupSeen, streamResets>>

\* A read past the last item, or on a dead connection.
ReadFails(s) ==
  /\ hpc[s] \in {"type", "control", "read"}
  /\ \/ ConnDown /\ Fail(s, "other")
     \/ /\ IF hpc[s] = "type" THEN body[s].kind = "headless" ELSE ~HasItem(s)
        /\ \/ body[s].end = "fin" /\ Finish(s)
           \/ body[s].end = "reset" /\ Fail(s, "stream")
           \/ body[s].end = "bad" /\ Fail(s, "other")
  /\ UNCHANGED <<registryVars, relayVars, sinkVars, mainVars, envVars, subVars, errVars, statVars>>

(***************************************************************************)
(* The next length, of extensions or a payload, is one make() does not     *)
(* accept: the goroutine panics, which ends the process on the spot.       *)
(***************************************************************************)
ReadPanics(s) ==
  /\ hpc[s] = "read" /\ ~HasItem(s) /\ body[s].end = "huge"
  /\ main' = "exited" /\ result' = "panic" /\ CutOff
  /\ UNCHANGED <<registryVars, relayVars, cur, held, envVars, subVars, errVars, handlerVars, statVars>>

SendStreamError(s) ==
  /\ hpc[s] = "send" /\ Room
  /\ errCh' = Append(errCh, herr[s])
  /\ hpc' = [hpc EXCEPT ![s] = "done"]
  /\ UNCHANGED <<registryVars, relayVars, sinkVars, mainVars, envVars, subVars, acc, accErr, hsub, hpos,
                 herr, statVars>>

HandlerStep(s) ==
  \/ HandleUniStream(s) \/ DispatchControlMessage(s) \/ ReadObject(s) \/ DeliverFirst(s)
  \/ DeliverMedia(s) \/ CountBytes(s) \/ ReadFails(s) \/ ReadPanics(s) \/ SendStreamError(s)

-----------------------------------------------------------------------------
(***************************************************************************)
(* The environment.                                                        *)
(***************************************************************************)

Cancel ==
  /\ "cancel" \in Faults /\ ~ctxDone /\ ctxDone' = TRUE
  /\ UNCHANGED <<registryVars, relayVars, sinkVars, mainVars, conn, stalled, subVars, errVars, handlerVars,
                 statVars>>

ConnLost ==
  /\ "loss" \in Faults /\ conn = "up" /\ conn' = "lost"
  /\ UNCHANGED <<registryVars, relayVars, sinkVars, mainVars, ctxDone, stalled, subVars, errVars,
                 handlerVars, statVars>>

\* For good: whoever could end it has stopped answering.
Stall ==
  /\ \E call \in Stalls \cap Faults : call \notin stalled /\ stalled' = stalled \cup {call}
  /\ UNCHANGED <<registryVars, relayVars, sinkVars, mainVars, ctxDone, conn, subVars, errVars,
                 handlerVars, statVars>>

RelayStep ==
  /\ conn = "up"
  /\ \/ \E r \in Roles : RelayAccepts(r) \/ RelayDeclines(r)
     \/ \E s \in Streams : RelayOpensOther(s) \/ \E r \in Roles : RelayOpensData(s, r)
  /\ UNCHANGED <<registryVars, sinkVars, mainVars, envVars, subVars, errVars, handlerVars, statVars>>

(***************************************************************************)
(* The shell ends: on its own account, because its input ended, or killed. *)
(* What it has started ends on its own account or with its input.          *)
(***************************************************************************)
ChildStep ==
  /\ \/ /\ "child" \in Faults \/ sink = "closed" \/ ctxDone
        /\ ShellExits
        /\ "orphan" \in Faults \/ child' = "gone"
     \/ /\ "child" \in Faults \/ sink = "closed"
        /\ PipeFreed
  /\ UNCHANGED <<registryVars, relayVars, mainVars, envVars, subVars, errVars, handlerVars, statVars>>

\* The process has exited and nothing runs any more.
Terminated == main = "exited" /\ UNCHANGED vars

Alive ==
  \/ MainStep
  \/ \E r \in Roles : ReaderStep(r)
  \/ \E k \in Acceptors : AcceptorStep(k)
  \/ \E s \in Streams : AcceptUniStream(s) \/ HandlerStep(s)
  \/ Cancel \/ ConnLost \/ Stall \/ RelayStep \/ ChildStep

Next == (main # "exited" /\ Alive) \/ Terminated

Spec == Init /\ [][Next]_vars

(***************************************************************************)
(* Every goroutine keeps running: a call that does not hang returns, and a *)
(* select with a ready case takes one.  A shell that is killed, or whose   *)
(* input is closed, ends; nothing else is assumed of the environment.      *)
(***************************************************************************)
Running == main # "exited"

Fairness ==
  /\ WF_vars(Running /\ MainStep)
  /\ \A r \in Roles : WF_vars(Running /\ ReaderStep(r))
  /\ \A k \in Acceptors : WF_vars(Running /\ AcceptorStep(k))
  /\ \A s \in Streams : WF_vars(Running /\ AcceptUniStream(s)) /\ WF_vars(Running /\ HandlerStep(s))
  /\ WF_vars(Running /\ child = "running" /\ (sink = "closed" \/ ctxDone) /\ ChildStep)

FairSpec == Spec /\ Fairness
=============================================================================

----------------------------- MODULE SessionInv -----------------------------
(***************************************************************************)
(* The inductive invariant behind the safety properties of SessionProps:   *)
(* why aliases that the relay picks freely, and data that overtakes the    *)
(* SUBSCRIBE_OK announcing its alias, cannot put a wrong payload into the  *)
(* output.                                                                 *)
(*                                                                         *)
(* The argument: the bootstrap sends SUBSCRIBE for a track only after the  *)
(* aliases of all earlier tracks are bound.  So the only alias the request *)
(* map can be asked for is that of the track now being subscribed to.      *)
(***************************************************************************)
EXTENDS SessionProps

\* The bootstrap has reached r: .catalog first, then init, then media.
Started(r) == r = "catalog" \/ cur = r \/ cur = "media"

\* The alias of r's track leads to r.
Bound(r) == trackAlias[r] \in Ids /\ byAlias[trackAlias[r]] = r

\* What streams carry, and what that says about the handlers.
StreamsInv ==
  \A s \in Streams :
    /\ body[s].kind = "subgroup" => track[s] \in Roles /\ trackAlias[track[s]] \in Ids
    /\ hpc[s] \in {"read", "first", "write", "count"} \/ hsub[s] # NoSub
         => body[s].kind = "subgroup"
    /\ hpc[s] = "first" => hsub[s] \in Roles
    /\ hpc[s] = "write" => hsub[s] = "media"

\* Requests and aliases exist only for tracks the bootstrap has reached.
StartedInv ==
  /\ \A i \in Ids : byRequest[i] # NoSub => Started(byRequest[i])
  /\ \A r \in Roles : request[r] # NoId \/ trackAlias[r] # NoId => Started(r)

\* A request ID leads to the one subscription it was allocated for.
RequestInv ==
  /\ \A i \in Ids : byRequest[i] # NoSub => requestID[byRequest[i]] = i /\ i < nextID
  /\ \A r \in Roles : requestID[r] # NoId => Started(r) /\ byRequest[requestID[r]] = r
  /\ \A r \in Roles : request[r] # NoId => request[r] = requestID[r]
  /\ main \in {"dial", "newSink", "sendSetup", "waitSetup", "newSub", "count"} => requestID[cur] = NoId

\* The relay's aliases are distinct, and a SUBSCRIBE_OK announces one.
AliasInv ==
  /\ \A r \in Roles : trackAlias[r] # NoId => r \in replied
  /\ \A r, q \in Roles : trackAlias[r] = trackAlias[q] /\ trackAlias[r] # NoId => r = q
  /\ \A r \in Roles : \A i \in DOMAIN reply[r] : reply[r][i] = "ok" => trackAlias[r] \in Ids

\* The alias map agrees with the relay, and the bootstrap moves on only once bound.
BindingInv ==
  /\ \A a \in Ids : byAlias[a] # NoSub => trackAlias[byAlias[a]] = a
  /\ \A r \in Roles : reader[r] = "bound" \/ okCh[r] = "ok" => Bound(r)
  /\ main \in {"waitObj", "use", "loop"} => Bound(cur)
  /\ cur # "catalog" => Bound("catalog")
  /\ cur = "media" => Bound("init")
  /\ main = "loop" => cur = "media"
  /\ main \in {"waitObj", "use"} => cur # "media"

\* With track_alias = request_id both maps lead to a stream's own track.
ConventionInv ==
  MatchAlias =>
    /\ \A r \in Roles : trackAlias[r] # NoId => trackAlias[r] = request[r]
    /\ BoundToOwnTrack

\* Payloads for init come from the init track for as long as init is waited for.
DeliveryInv ==
  /\ \A s \in Streams :
       /\ hsub[s] = "init"  => cur = "media" \/ (cur = "init" /\ track[s] = "init")
       /\ hsub[s] = "media" => cur = "media" /\ track[s] = "media"
  /\ firstObjCh["init"] # NoPayload =>
       cur = "media" \/ (cur = "init" /\ firstObjCh["init"].track = "init")
  /\ main = "use" => held # NoPayload
  /\ main = "use" /\ cur = "init" => held.track = "init"

\* p was read before whatever its handler reads or writes next.
Behind(p) ==
  /\ p.n <= hpos[p.stream]
  /\ hpc[p.stream] = "write" => p.n < hpos[p.stream]

\* The output starts with the init segment and lags behind the handlers.
OutputInv ==
  /\ output = <<>> <=> cur # "media"
  /\ \A i \in DOMAIN output : Behind(output[i])
  /\ \A r \in Roles : firstObjCh[r] # NoPayload => Behind(firstObjCh[r])
  /\ held # NoPayload => Behind(held)

(***************************************************************************)
(* A goroutine that sends has an error to send; "context canceled" and the *)
(* status 0 it leads to come from the cancelled context only.              *)
(***************************************************************************)
ErrorInv ==
  /\ \A k \in Acceptors : acc[k] = "send" => accErr[k] # NoErr
  /\ \A s \in Streams : hpc[s] = "send" => herr[s] # NoErr
  /\ \A i \in DOMAIN errCh : errCh[i] = "cancelled" => ctxDone
  /\ \A k \in Acceptors : accErr[k] = "cancelled" => ctxDone
  /\ \A s \in Streams : herr[s] # "cancelled"
  /\ result \in {"nil", "cancelled"} => ctxDone

(***************************************************************************)
(* The conjunction is inductive: it holds initially and every step of the  *)
(* session preserves it (all of run.go and subscriptions.go that touches   *)
(* the registry, the channels and the sink).                               *)
(***************************************************************************)
SessionInv ==
  /\ TypeOK /\ StreamsInv /\ StartedInv /\ RequestInv /\ AliasInv /\ BindingInv
  /\ ConventionInv /\ DeliveryInv /\ OutputInv /\ ErrorInv

(***************************************************************************)
(* The inductive invariant behind NoMediaLost: with track_alias =          *)
(* request_id whatever a media stream's handler has read is in the output, *)
(* but for the object it is about to write (handleSubgroupStream,          *)
(* deliverSubgroupObject).                                                 *)
(***************************************************************************)
MediaInv ==
  \A s \in Streams :
    /\ hpc[s] \in {"none", "type"} => hpos[s] = 0
    /\ hpc[s] = "first" => hsub[s] # "media"
    /\ MatchAlias /\ track[s] = "media" /\ hpc[s] \in {"read", "write", "count"} =>
         \A i \in PayloadsOf(s) :
           i <= hpos[s] /\ ~(hpc[s] = "write" /\ i = hpos[s]) => Played(s, i)

(***************************************************************************)
(* The inductive invariant behind the torn payloads of PlaybackSpec and    *)
(* FailsForCause: a write that fails is its handler's last, or that of the *)
(* main goroutine and so the last of all; a goroutine fails once, so that  *)
(* a queued error that ends Run is still known where it came from          *)
(* (writePayload, handleUniStream, the accept loops).                      *)
(***************************************************************************)
Leaving == {"closeSink", "reap", "shut", "exited"}
Over    == {"send", "done"}

TornInv ==
  \A t \in torn :
    \/ t.of.track = "init" /\ cur = "init" /\ main \in Leaving
    \/ t.of.track = "media" /\ cur = "media" /\ (hpc[t.of.stream] \in Over \/ main = "exited")

CauseInv ==
  /\ main \in {"dial", "newSink"} => \A k \in Acceptors : acc[k] = "none"
  /\ main \notin Leaving => result = "none"
  /\ \A s \in Streams : hpc[s] \notin Over => herr[s] = NoErr
  /\ \A k \in Acceptors : acc[k] \notin Over => accErr[k] = NoErr
  /\ (\E i \in DOMAIN errCh : errCh[i] = "other") => Cause

EndInv == TornInv /\ CauseInv

\* Both invariants together.
RunInv == SessionInv /\ EndInv
=============================================================================

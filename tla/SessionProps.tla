---------------------------- MODULE SessionProps ----------------------------
(***************************************************************************)
(* What a session promises.                                                *)
(***************************************************************************)
EXTENDS Session, FiniteSets

P == INSTANCE Playback WITH output <- output, torn <- torn

(***************************************************************************)
(* The output is an init segment followed by media objects, each stream's  *)
(* in order and without repetition, whatever aliases the relay picks and   *)
(* however SUBSCRIBE_OK and data overtake each other; where a write failed *)
(* or was cut off, nothing of its stream follows, although other handlers  *)
(* go on (bootstrapFromCatalog, lookupDelivery, deliverSubgroupObject,     *)
(* writePayload).                                                          *)
(***************************************************************************)
PlaybackSpec == P!Spec

-----------------------------------------------------------------------------
(***************************************************************************)
(* A handler that has looked its stream's alias up delivers to the         *)
(* subscription of the track the stream carries (handleSubgroupStream).    *)
(* Needs track_alias = request_id.                                         *)
(***************************************************************************)
Resolved(s) == body[s].kind = "subgroup" /\ hpc[s] \in {"read", "first", "write", "count"}

BoundToOwnTrack == \A s \in Streams : Resolved(s) => hsub[s] = track[s]

(***************************************************************************)
(* A weaker form, which the code claims for every relay: the header binds  *)
(* a stream to its track by the alias of SUBSCRIBE_OK (run.go, Explain of  *)
(* SUBGROUP_HEADER).  Data may find no subscription, never another one.    *)
(***************************************************************************)
NeverMisbound == \A s \in Streams : Resolved(s) => hsub[s] \in {track[s], NoSub}

(***************************************************************************)
(* Once Run is in its receive loop no alias is pending any more: a stream  *)
(* resolved from then on belongs to the subscription it resolves to,       *)
(* whatever aliases the relay picks (waitSubscribeOK, bindAlias).          *)
(***************************************************************************)
LoopBindsRight ==
  [][\A s \in Streams :
       main = "loop" /\ hpc[s] = "type" /\ hpc'[s] = "read" => hsub'[s] = track[s]]_vars

(***************************************************************************)
(* With track_alias = request_id no media object that was read is missing  *)
(* from the output while its handler goes on (register before SUBSCRIBE,   *)
(* lookupDelivery's fallback, writePayload's error return).                *)
(***************************************************************************)
Played(s, i) == \E j \in DOMAIN output : output[j].stream = s /\ output[j].n = i

PayloadsOf(s) == {i \in DOMAIN body[s].items : body[s].items[i] = "payload"}

NoMediaLost ==
  \A s \in Streams :
    track[s] = "media" /\ hpc[s] = "read" =>
      \A i \in PayloadsOf(s) : i <= hpos[s] => Played(s, i)

(***************************************************************************)
(* The summary never reports bytes that were not written, and lags only by *)
(* the goroutines between writePayload and the counter: handlers, and the  *)
(* main goroutine after the init segment.                                  *)
(***************************************************************************)
InitCounting == IF main = "count" THEN 1 ELSE 0

BytesAccounted ==
  result # "panic" =>
    bytesWritten + InitCounting + Cardinality({s \in Streams : hpc[s] = "count"}) = Len(output)

(***************************************************************************)
(* The process exits with status 0 only after the user cancelled: a        *)
(* rejected subscription, a timeout, a broken stream or a lost connection  *)
(* is never reported as success (errCh, Run, main).                        *)
(***************************************************************************)
ExitZeroOnlyIfCancelled ==
  main = "exited" /\ result \in {"nil", "cancelled"} => ctxDone

(***************************************************************************)
(* Run fails in its receive loop only because a goroutine met an error     *)
(* that is no stream reset, however many resets have passed through errCh  *)
(* before or wait in it (handleUniStream, errors.As in Run).               *)
(***************************************************************************)
Cause == \/ \E s \in Streams : herr[s] = "other"
         \/ \E k \in Acceptors : accErr[k] = "other"

FailsForCause == [][main = "loop" /\ result' = "error" => Cause]_vars

-----------------------------------------------------------------------------
(***************************************************************************)
(* Liveness, under FairSpec.  What has to be followed by something here    *)
(* stays true until it is (a cancelled context stays cancelled, a handler  *)
(* waits once only), so each []<>(F => G) says F ~> G.                     *)
(***************************************************************************)
Bootstrapping == main \notin {"loop", "exited"}

(***************************************************************************)
(* The bootstrap ends, in the receive loop or with Run's return, even if   *)
(* the relay never answers (the timers of Run and bootstrapFromCatalog).   *)
(***************************************************************************)
BootstrapEnds == []<>(~Bootstrapping)

(***************************************************************************)
(* Cancelling the context ends the process, without waiting for a timer    *)
(* (the ctx.Done cases of every select) and with the command reaped, also  *)
(* if the relay grants no credit for request streams, and if nobody reads  *)
(* the output while media is delivered.  What does not listen to the       *)
(* context is the opening of the control stream and the write of the init  *)
(* segment, to stdout or to a pipe that outlives the shell that is killed; *)
(* a command that is one process gives its pipe up (sendClientSetup,       *)
(* sendSubscribeMessage, writePayload, exec.CommandContext).               *)
(***************************************************************************)
Deaf ==
  \/ main = "sendSetup" /\ "uni" \in stalled
  \/ /\ main = "use" /\ cur = "init" /\ "output" \in stalled
     /\ CommandSink => child = "left"

CancelStopsUnlessDeaf == []<>(ctxDone => main = "exited" \/ Deaf)

(***************************************************************************)
(* A lost connection ends the process (accept loops, errCh, receive loop). *)
(***************************************************************************)
LossStops == []<>(conn = "lost" => main = "exited")

(***************************************************************************)
(* A handler waiting to report an error gets rid of it, also when errCh is *)
(* full while Run is still bootstrapping.                                  *)
(***************************************************************************)
ErrorsReported == \A s \in Streams : []<>(hpc[s] # "send" \/ main = "exited")

(***************************************************************************)
(* With track_alias = request_id every object of a media stream reaches    *)
(* the output, unless the stream fails or the session ends first.          *)
(***************************************************************************)
MediaPlayed ==
  \A s \in Streams :
    []<>(track[s] = "media" => \/ \A i \in PayloadsOf(s) : Played(s, i)
                               \/ herr[s] # NoErr \/ conn # "up" \/ main = "exited")
=============================================================================

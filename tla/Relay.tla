------------------------------- MODULE Relay --------------------------------
(***************************************************************************)
(* The relay, as the subscriber sees it (external: not in this             *)
(* repository).  It answers each SUBSCRIBE with messages on that request's *)
(* own stream and opens unidirectional streams, whose content the          *)
(* subscriber reads at its own pace: QUIC orders bytes within a stream and *)
(* nothing across streams, so data may be handled before the SUBSCRIBE_OK  *)
(* that announces its alias.                                               *)
(*                                                                         *)
(* The content of a stream is chosen when it opens.  Whether bytes are     *)
(* late or merely unread makes no difference to a reader that blocks.      *)
(***************************************************************************)
EXTENDS Registry, Sequences

CONSTANTS
  Streams,      \* unidirectional streams the relay may open
  Bodies,       \* what a stream may carry: [kind, items, end]
  Replies,      \* what a request stream may carry: sequences of message names
  MatchAlias    \* TRUE: track_alias = request_id, as moq-rs does

Kinds    == {"control", "subgroup", "headless", "unhandled"}
Items    == {"setup", "badsetup", "cutsetup", "otherctl", "payload", "status"}
Ends     == {"fin", "reset", "bad", "huge", "open"}
Messages == {"ok", "error", "bad", "other", "end"}
NoBody   == [kind |-> "none", items |-> <<>>, end |-> "open"]

ASSUME RelayAssumption ==
  /\ Bodies \subseteq [kind : Kinds, items : Seq(Items), end : Ends]
  /\ \A b \in Bodies : b.end = "huge" => b.kind = "subgroup"
  /\ Replies \subseteq Seq(Messages)
  /\ MatchAlias \in BOOLEAN

VARIABLES
  request,     \* role -> request ID of the SUBSCRIBE the relay received, or NoId
  trackAlias,  \* role -> alias the relay assigned to the track, or NoId
  replied,     \* roles whose SUBSCRIBE the relay has answered
  reply,       \* role -> messages on the request stream not yet read
  track,       \* stream -> role of the track it carries, or NoSub
  body         \* stream -> its content, NoBody while unopened

relayVars == <<request, trackAlias, replied, reply, track, body>>

RelayTypeOK ==
  /\ request \in [Roles -> Ids \cup {NoId}]
  /\ trackAlias \in [Roles -> Ids \cup {NoId}]
  /\ replied \subseteq Roles
  /\ reply \in [Roles -> Seq(Messages)]
  /\ track \in [Streams -> Roles \cup {NoSub}]
  /\ body \in [Streams -> Bodies \cup {NoBody}]

RelayInit ==
  /\ request = [r \in Roles |-> NoId]
  /\ trackAlias = [r \in Roles |-> NoId]
  /\ replied = {}
  /\ reply = [r \in Roles |-> <<>>]
  /\ track = [s \in Streams |-> NoSub]
  /\ body = [s \in Streams |-> NoBody]

\* An alias names one track for the whole session.
FreshAlias(r, a) ==
  /\ \A q \in Roles : trackAlias[q] # a
  /\ MatchAlias => a = request[r]

\* The relay accepts the subscription: it fixes an alias and sends SUBSCRIBE_OK.
RelayAccepts(r) ==
  /\ request[r] # NoId /\ r \notin replied
  /\ \E a \in Ids, m \in Replies :
       /\ \E i \in DOMAIN m : m[i] = "ok"
       /\ FreshAlias(r, a)
       /\ trackAlias' = [trackAlias EXCEPT ![r] = a]
       /\ reply' = [reply EXCEPT ![r] = m]
  /\ replied' = replied \cup {r}
  /\ UNCHANGED <<request, track, body>>

\* The relay answers without accepting: an error, something unreadable, or nothing.
RelayDeclines(r) ==
  /\ request[r] # NoId /\ r \notin replied
  /\ \E m \in Replies :
       /\ \A i \in DOMAIN m : m[i] # "ok"
       /\ reply' = [reply EXCEPT ![r] = m]
  /\ replied' = replied \cup {r}
  /\ UNCHANGED <<request, trackAlias, track, body>>

\* A subgroup stream of an accepted track.
RelayOpensData(s, r) ==
  /\ body[s] = NoBody /\ trackAlias[r] # NoId
  /\ \E b \in Bodies : b.kind = "subgroup" /\ body' = [body EXCEPT ![s] = b]
  /\ track' = [track EXCEPT ![s] = r]
  /\ UNCHANGED <<request, trackAlias, replied, reply>>

\* A control stream, a stream the client does not handle, or a cut-off header.
RelayOpensOther(s) ==
  /\ body[s] = NoBody
  /\ \E b \in Bodies : b.kind # "subgroup" /\ body' = [body EXCEPT ![s] = b]
  /\ UNCHANGED <<request, trackAlias, replied, reply, track>>
=============================================================================

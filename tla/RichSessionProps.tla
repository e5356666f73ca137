-------------------------- MODULE RichSessionProps ---------------------------
(***************************************************************************)
(* What the page of --rich-log promises.                                   *)
(***************************************************************************)
EXTENDS RichSession

\* The bootstrap has got beyond the SUBSCRIBE_OK of r.
Accepted(r) ==
  \/ main \in {"waitObj", "use", "loop"} /\ r = cur
  \/ r = "catalog" /\ cur # "catalog"
  \/ r = "init" /\ cur = "media"

(***************************************************************************)
(* Whatever the bootstrap knows of the relay's answers is on the page      *)
(* already, so a page always explains how far the session got and why a    *)
(* subscription was rejected (readRequestStream adds before it binds and   *)
(* notifies, dispatchControlMessage before it closes peerSetupSeen).       *)
(***************************************************************************)
AnswersRecorded ==
  /\ \A r \in Roles :
       /\ okCh[r] = "ok" \/ Accepted(r) => Recorded(Event("SUBSCRIBE_OK", r))
       /\ okCh[r] = "err" => Recorded(Event("REQUEST_ERROR", r))
  /\ peerSetupSeen => \E s \in Streams : Recorded(Event("SETUP", s))

(***************************************************************************)
(* "It is written to the output pipe before any media fragment": the page  *)
(* shows INIT SEGMENT WRITTEN above the header, and so above the objects,  *)
(* of every stream resolved to media, whatever aliases the relay picks     *)
(* (bootstrapFromCatalog, lookupDelivery).                                 *)
(***************************************************************************)
InitWritten == Event("INIT SEGMENT WRITTEN", "nil")
HeaderOf(s) == Event("SUBGROUP_HEADER", s)

InitAboveMedia == \A s \in Streams : hsub[s] = "media" => Precedes(InitWritten, HeaderOf(s))

(***************************************************************************)
(* The inductive invariant behind it: the media track is registered only   *)
(* after the main goroutine has added the event, for it adds before it     *)
(* goes on, and a stream's header is added after its lookup                *)
(* (bootstrapFromCatalog, handleSubgroupStream).                           *)
(***************************************************************************)
EventNames ==
  {"CONNECTED", "SETUP sent", "SETUP", "GOAWAY", "SUBSCRIBE", "SUBSCRIBE_OK", "REQUEST_ERROR",
   "CATALOG PARSED", "INIT SEGMENT WRITTEN", "SUBGROUP_HEADER", "OBJECTS", "nothing", "row"}

Events == [name : EventNames, about : Streams \cup Roles \cup {"main", "nil"}]

RecorderTypeOK ==
  /\ events \in Seq(Events) /\ rows \in [Streams -> Seq(Nat)]
  /\ owed \in [{"main"} \cup Streams -> Events] /\ noted \in [Roles \cup Streams -> BOOLEAN]

PageInv ==
  /\ cur = "media" => \/ Recorded(InitWritten) \/ owed["main"] = InitWritten
                      \/ main \in {"count", "exited"}
  /\ requestID["media"] # NoId => Recorded(InitWritten)
  /\ trackAlias["media"] # NoId => requestID["media"] # NoId
  /\ \A s \in Streams :
       /\ hsub[s] = "media" => Recorded(InitWritten)
       /\ hpc[s] \in {"none", "type"} => ~Recorded(HeaderOf(s)) /\ owed[s] # HeaderOf(s)
       /\ \A g \in {"main"} \cup Streams : owed[g] = HeaderOf(s) => g = s
  /\ InitAboveMedia

(***************************************************************************)
(* A media stream's table lists what was written to the output, in that    *)
(* order; it lacks the object being delivered at most: both ascend, and    *)
(* hold the same objects (handleSubgroupStream, AddObject).                *)
(***************************************************************************)
Table(s) == IF hpc[s] = "count" \/ owed[s] = Row THEN Append(rows[s], hpos[s]) ELSE rows[s]

\* Where s is in the output.
Places(s, out) == {i \in DOMAIN out : out[i].stream = s}

Lists(table, s, out) ==
  /\ \A i, j \in DOMAIN table : i < j => table[i] < table[j]
  /\ \A i, j \in Places(s, out) : i < j => out[i].n < out[j].n
  /\ \A i \in DOMAIN table : \E j \in Places(s, out) : out[j].n = table[i]
  /\ \A j \in Places(s, out) : \E i \in DOMAIN table : table[i] = out[j].n

TablesMatchOutput == \A s \in Streams : hsub[s] = "media" => Lists(Table(s), s, output)

(***************************************************************************)
(* The inductive invariant behind it: a stream has neither rows nor        *)
(* objects before its lookup, the init segment's stream is not a media     *)
(* stream, and a row is owed only between two objects                      *)
(* (handleSubgroupStream, deliverSubgroupObject).                          *)
(***************************************************************************)
Begun(s) == hpc[s] \notin {"none", "type"}

TablesInv ==
  /\ \A s \in Streams :
       /\ ~Begun(s) => rows[s] = <<>>
       /\ owed[s] = Row => hpc[s] = "read"
       /\ hpc[s] = "first" => hsub[s] # "media"
  /\ \A i \in DOMAIN output : Begun(output[i].stream)
  /\ \A r \in Roles : firstObjCh[r] # NoPayload => Begun(firstObjCh[r].stream)
  /\ held # NoPayload => Begun(held.stream)
  /\ TablesMatchOutput

(***************************************************************************)
(* The inductive invariant behind AnswersRecorded: an event noted is that  *)
(* of the message at hand, which nobody else takes, and it is recorded     *)
(* (readRequestStream, dispatchControlMessage).                            *)
(***************************************************************************)
ReaderNotes(r) ==
  /\ noted[r] => /\ reader[r] = "read" /\ reply[r] # <<>> /\ IsAnswer(r)
                 /\ Recorded(AnswerEvent(r))
  /\ reader[r] = "bound" => Recorded(Event("SUBSCRIBE_OK", r))
  /\ r \notin replied => reply[r] = <<>>

HandlerNotes(s) ==
  noted[s] => hpc[s] = "control" /\ HasItem(s) /\ Item(s) = "setup" /\ Recorded(Event("SETUP", s))

AnswersInv ==
  /\ \A r \in Roles : ReaderNotes(r)
  /\ \A s \in Streams : HandlerNotes(s)
  /\ AnswersRecorded

\* The three together.
RecorderInv == RecorderTypeOK /\ TablesInv /\ AnswersInv

(***************************************************************************)
(* "Every message exchanged, in order" (html.go, page header): the answer  *)
(* to a SUBSCRIBE comes after it (readRequestStream, sendSubscribeMessage).*)
(***************************************************************************)
AnswersBelowRequests ==
  \A r \in Roles : \A answer \in {"SUBSCRIBE_OK", "REQUEST_ERROR"} :
    Precedes(Event("SUBSCRIBE", r), Event(answer, r))
=============================================================================

---------------------------- MODULE RichSession ------------------------------
(***************************************************************************)
(* A session with --rich-log: every goroutine of Session also adds events  *)
(* to the recorder.  An addition is a step of its own, for it takes the    *)
(* recorder's mutex: the code adds some events before the shared access    *)
(* they are about and some after it, and other goroutines may come between.*)
(*                                                                         *)
(* WriteHTML is the last deferred call of Run, after the connection is     *)
(* closed.  Nothing can be added then that could not have been added just  *)
(* before, so the page is what the recorder holds when the process exits.  *)
(***************************************************************************)
EXTENDS SessionProps, RichLog

\* Goroutines are named by these.
ASSUME RichAssumption == "main" \notin Streams /\ Roles \cap Streams = {}

VARIABLES
  noted,   \* the goroutine has added the event of the message it is working on
  owed     \* what the goroutine adds next: an event, a row, or nothing

richVars == <<recorderVars, noted, owed>>
allVars  == <<vars, richVars>>

Nothing == Event("nothing", "nil")
Row     == Event("row", "nil")

RichInit ==
  /\ Init /\ RecorderInit(Streams)
  /\ noted = [g \in Roles \cup Streams |-> FALSE]
  /\ owed = [g \in {"main"} \cup Streams |-> Nothing]

\* Faulty variant: the main goroutine goes on while its event is being added.
FreeAtOnce(g) == g = "main" \/ owed[g] = Nothing

Free(g) == owed[g] = Nothing

Owe(g, ev) == owed' = [owed EXCEPT ![g] = ev] /\ UNCHANGED <<recorderVars, noted>>

-----------------------------------------------------------------------------
(***************************************************************************)
(* Events added after what they report: the main goroutine's, and the      *)
(* header and the objects of a subgroup stream.                            *)
(***************************************************************************)
MainEvent ==
  CASE main = "dial" /\ main' = "newSink"        -> Event("CONNECTED", "nil")
    [] main = "sendSetup" /\ main' = "waitSetup" -> Event("SETUP sent", "nil")
    [] main = "sendSub" /\ main' = "waitOK"      -> Event("SUBSCRIBE", cur)
    [] main = "use" /\ main' = "newSub"          -> Event("CATALOG PARSED", "nil")
    [] main = "count"                            -> Event("INIT SEGMENT WRITTEN", "nil")
    [] OTHER -> Nothing

RichMain == Free("main") /\ MainStep /\ Owe("main", MainEvent)

\* deliverSubgroupObject is called for it.
IsDelivered(s) == HasItem(s) /\ Item(s) = "payload" /\ hsub[s] # NoSub

\* Faulty variant: the row is added before the object is delivered.
HandlerEventEarly(s) ==
  CASE hpc[s] = "type" /\ hpc'[s] = "read" -> Event("SUBGROUP_HEADER", s)
    [] hpc[s] = "read" /\ hpc'[s] \in {"read", "first", "write"} /\ IsDelivered(s) -> Row
    [] OTHER -> Nothing

\* A row follows every delivery that returns nil, also one that dropped the object.
HandlerEvent(s) ==
  CASE hpc[s] = "type" /\ hpc'[s] = "read" -> Event("SUBGROUP_HEADER", s)
    [] hpc[s] = "read" /\ hpc'[s] = "read" /\ IsDelivered(s) -> Row
    [] hpc[s] \in {"first", "count"} -> Row
    [] OTHER -> Nothing

RichHandler(s) ==
  /\ Free(s) /\ ~noted[s]
  /\ \/ HandleUniStream(s) \/ ReadObject(s) \/ DeliverFirst(s) \/ DeliverMedia(s) \/ CountBytes(s)
     \/ ReadFails(s) \/ ReadPanics(s) \/ SendStreamError(s)
  /\ Owe(s, HandlerEvent(s))

AddOwed(g) ==
  /\ owed[g] # Nothing
  /\ IF owed[g] = Row THEN AddObject(g, hpos[g]) ELSE Add(owed[g])
  /\ owed' = [owed EXCEPT ![g] = Nothing]
  /\ UNCHANGED <<vars, noted>>

-----------------------------------------------------------------------------
(***************************************************************************)
(* Events added before what they report is acted upon: the answers to a    *)
(* SUBSCRIBE and the relay's SETUP.                                        *)
(***************************************************************************)
Note(g, ev) ==
  /\ ~noted[g]
  /\ Add(ev)
  /\ noted' = [noted EXCEPT ![g] = TRUE]
  /\ UNCHANGED <<vars, owed>>

\* Faulty variant: the event may wait.
NotedLater(g, needed) == TRUE

\* The event, if the message has one, is recorded.
Noted(g, needed) == noted[g] = needed

ActOn(g) == noted' = [noted EXCEPT ![g] = FALSE] /\ UNCHANGED <<recorderVars, owed>>

AnswerEvent(r) == Event(IF Head(reply[r]) = "ok" THEN "SUBSCRIBE_OK" ELSE "REQUEST_ERROR", r)
IsAnswer(r)    == Head(reply[r]) \in {"ok", "error"}

RichReader(r) ==
  \/ reader[r] = "read" /\ reply[r] # <<>> /\ IsAnswer(r) /\ Note(r, AnswerEvent(r))
  \/ ReadMessage(r) /\ Noted(r, IsAnswer(r)) /\ ActOn(r)
  \/ (NotifyOK(r) \/ (ReaderEnds(r) /\ ~noted[r])) /\ UNCHANGED richVars

RichControl(s) ==
  \/ hpc[s] = "control" /\ HasItem(s) /\ Item(s) = "setup" /\ Note(s, Event("SETUP", s))
  \/ /\ DispatchControlMessage(s)
     /\ \/ Item(s) = "setup" /\ noted[s] /\ ActOn(s)
        \/ Item(s) # "setup" /\ UNCHANGED richVars
        \/ Item(s) = "otherctl" /\ Add(Event("GOAWAY", s)) /\ UNCHANGED <<noted, owed>>

-----------------------------------------------------------------------------
RichAlive ==
  \/ RichMain \/ AddOwed("main")
  \/ \E r \in Roles : RichReader(r)
  \/ \E s \in Streams : RichHandler(s) \/ RichControl(s) \/ AddOwed(s)
  \/ /\ \/ \E k \in Acceptors : AcceptorStep(k)
        \/ \E s \in Streams : AcceptUniStream(s)
        \/ Cancel \/ ConnLost \/ Stall \/ RelayStep \/ ChildStep
     /\ UNCHANGED richVars

RichNext == (main # "exited" /\ RichAlive) \/ (Terminated /\ UNCHANGED richVars)

RichSpec == RichInit /\ [][RichNext]_allVars
=============================================================================

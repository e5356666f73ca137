------------------------------ MODULE RichLog --------------------------------
(***************************************************************************)
(* The recorder behind --rich-log (internal/richlog): events in the order  *)
(* in which goroutines got hold of its mutex, and one table of objects per *)
(* subgroup stream, which stands in the list where its first object was    *)
(* added.  WriteHTML renders both; times, fields and layout are left out.  *)
(***************************************************************************)
EXTENDS Naturals, Sequences

CONSTANT Kept   \* names of the events an instance keeps; the others leave no trace

VARIABLES
  events,   \* Recorder.events: [name, about]
  rows      \* Recorder.groups: stream -> positions of the objects in its table

recorderVars == <<events, rows>>

Event(name, about) == [name |-> name, about |-> about]

RecorderInit(streams) ==
  /\ events = <<>>
  /\ rows = [s \in streams |-> <<>>]

With(ev) == IF ev.name \in Kept THEN Append(events, ev) ELSE events

Add(ev) == events' = With(ev) /\ UNCHANGED rows

\* A stream carries one subgroup, so the key "stream ID / group ID" is the stream.
AddObject(s, n) ==
  /\ rows' = [rows EXCEPT ![s] = Append(@, n)]
  /\ events' = IF rows[s] = <<>> THEN With(Event("OBJECTS", s)) ELSE events

Recorded(ev) == \E i \in DOMAIN events : events[i] = ev

\* a is on the page, and above every b.
Precedes(a, b) ==
  \A j \in DOMAIN events : events[j] = b => \E i \in 1..j : events[i] = a
=============================================================================

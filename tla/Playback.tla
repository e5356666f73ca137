------------------------------ MODULE Playback ------------------------------
(***************************************************************************)
(* What a player on the other end of the output relies on: one init        *)
(* segment, then only media objects, and the objects of one subgroup       *)
(* stream in the order in which they were sent, none twice.  Of a payload  *)
(* whose write fails a part may come out; it is the last of its stream,    *)
(* and the last of all if it is the init segment.                          *)
(*                                                                         *)
(* A payload carries where it came from: the stream, its position there    *)
(* and the track the relay sent it for.                                    *)
(***************************************************************************)
EXTENDS Naturals, Sequences

VARIABLES
  output,   \* the whole payloads
  torn      \* the parts: [after, of], behind how many whole payloads, of which

vars == <<output, torn>>

Init == output = <<>> /\ torn = {}

\* p may come next.
DueInit(p) == output = <<>> /\ torn = {} /\ p.track = "init"

DueMedia(p) ==
  /\ output # <<>>
  /\ p.track = "media"
  /\ \A i \in DOMAIN output : output[i].stream = p.stream => output[i].n < p.n
  /\ \A t \in torn : t.of.stream # p.stream

Due(p) == DueInit(p) \/ DueMedia(p)

\* The payload a step appends.
Appended == output'[Len(output) + 1]

Write ==
  /\ Len(output') = Len(output) + 1 /\ output' = Append(output, Appended)
  /\ Due(Appended)
  /\ UNCHANGED torn

Tear ==
  /\ \E t \in torn' : torn' = torn \cup {t} /\ t.after = Len(output) /\ Due(t.of)
  /\ UNCHANGED output

Next == Write \/ Tear

Spec == Init /\ [][Next]_vars
=============================================================================

----------------------------- MODULE StreamView -----------------------------
(***************************************************************************)
(* A unidirectional stream as the rest of a session may think of it: a     *)
(* header, then whole items in the order in which they were sent, then an  *)
(* end.  Module Session is written against this view.                      *)
(***************************************************************************)
EXTENDS Naturals, Sequences

VARIABLES
  items,    \* what the publisher sends
  opened,   \* the header has been read
  taken,    \* the items read
  end       \* "open"; or how it ended: "fin", "bad", "reset" or "panic"

vars == <<items, opened, taken, end>>

Init == opened = FALSE /\ taken = <<>> /\ end = "open"

Missing == ~opened \/ Len(taken) < Len(items)

Open == ~opened /\ opened' = TRUE /\ UNCHANGED <<taken, end>>

Take ==
  /\ opened /\ Len(taken) < Len(items)
  /\ taken' = Append(taken, items[Len(taken) + 1])
  /\ UNCHANGED <<opened, end>>

\* A stream that lacks nothing is never a broken one, and nothing but an item makes a panic.
End ==
  /\ \/ end' \in {"fin", "reset"}
     \/ Missing /\ end' = "bad"
     \/ Missing /\ opened /\ end' = "panic"
  /\ UNCHANGED <<opened, taken>>

Next == end = "open" /\ UNCHANGED items /\ (Open \/ Take \/ End)

Spec == Init /\ [][Next]_vars
=============================================================================

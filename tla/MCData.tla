------------------------------- MODULE MCData --------------------------------
(***************************************************************************)
(* Small instances of everything a session decodes, encodes or chooses by: *)
(* the bytes of a message, the texts of a SUBSCRIBE or of a SETUP, a       *)
(* catalog.  They do not depend on each other, so one of the four grows in *)
(* a behaviour and the others stay as they are at first.                   *)
(***************************************************************************)
EXTENDS Messages, Requests, Catalog

\* One byte of every kind: a small integer, even and odd; two bytes; the longest form.
SampleBytes == {0, 1, 5, 7}

vars == <<bytes, textVars, catalogVars>>

Init == BytesInit /\ TextsInit /\ CatalogInit

NoSubscribe == namespace = <<>> /\ trackName = <<>>
NoCatalog   == tracks = <<>> /\ ~json /\ version = 0

Next ==
  \/ TextsInit /\ NoCatalog /\ Arrive /\ UNCHANGED <<textVars, catalogVars>>
  \/ BytesInit /\ NoCatalog /\ WriteText /\ (path' = <<>> \/ NoSubscribe')
     /\ UNCHANGED <<bytes, catalogVars>>
  \/ BytesInit /\ TextsInit /\ Describe /\ UNCHANGED <<bytes, textVars>>

Spec == Init /\ [][Next]_vars
=============================================================================

------------------------------ MODULE MCStats --------------------------------
(***************************************************************************)
(* Small instances of Stats for TLC.                                       *)
(***************************************************************************)
EXTENDS Stats, TLC

StreamSymmetry == Permutations(Streams)

Object1 == [gap |-> FALSE, status |-> FALSE]
Gap     == [gap |-> TRUE, status |-> FALSE]
Status  == [gap |-> FALSE, status |-> TRUE]

SomeContents ==
  {[track |-> "init", objects |-> <<Object1>>],
   [track |-> "media", objects |-> <<Gap, Object1>>],
   [track |-> "media", objects |-> <<Status, Object1>>],
   [track |-> "unmapped", objects |-> <<Object1>>]}
=============================================================================

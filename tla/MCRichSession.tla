--------------------------- MODULE MCRichSession -----------------------------
(***************************************************************************)
(* Small instances of RichSession for TLC, with the contents of MCSession. *)
(***************************************************************************)
EXTENDS RichSessionProps, MCSession

\* Data, and control streams with SETUP.
RichBodies == PairBodies \cup {Stream("control", <<"setup">>, "open")}

AnswerReplies == {<<"ok">>, <<"other", "error">>}
=============================================================================

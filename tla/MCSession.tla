----------------------------- MODULE MCSession ------------------------------
(***************************************************************************)
(* Small instances of Session for TLC.                                     *)
(***************************************************************************)
EXTENDS SessionInv, TLC

StreamSymmetry == Permutations(Streams)

Stream(kind, items, end) == [kind |-> kind, items |-> items, end |-> end]

\* Data that always parses: two objects around a status object.
CleanBodies == {Stream("subgroup", <<"payload", "status", "payload">>, "open")}

\* Two objects per stream.
PairBodies == {Stream("subgroup", <<"payload", "payload">>, "open")}

\* Every kind of stream and every ending.
FaultyBodies == {Stream("control", <<"setup", "badsetup">>, "open"),
                 Stream("control", <<"otherctl", "cutsetup">>, "fin"),
                 Stream("headless", <<>>, "bad"),
                 Stream("unhandled", <<>>, "open"),
                 Stream("subgroup", <<"payload", "status">>, "reset"),
                 Stream("subgroup", <<"payload">>, "bad"),
                 Stream("subgroup", <<"payload">>, "huge")}

\* One object, after which the stream breaks off.
ResetBodies == {Stream("subgroup", <<"payload">>, "reset")}

\* One object on a stream that stays open.
OneBodies == {Stream("subgroup", <<"payload">>, "open")}

OkReplies == {<<"ok">>}

FewReplies == {<<"ok", "end">>, <<"error">>, <<"bad">>, <<"end">>}

\* An answer that comes late and is taken back, and one that does not decode.
OddReplies == {<<"other", "ok", "error">>, <<"bad">>}
=============================================================================

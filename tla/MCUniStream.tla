---------------------------- MODULE MCUniStream -----------------------------
(***************************************************************************)
(* Small instances of UniStream for TLC.                                   *)
(***************************************************************************)
EXTENDS UniStreamProps

\* Status and payload objects, with and without extensions, reads of one byte and of more.
SomeObjects(t) ==
  [id : 0..MaxID, ext : IF ExtBit(t) THEN {0, 2} ELSE {0}, len : {0, 2}]
  \cup [id : {0}, ext : IF ExtBit(t) THEN {1} ELSE {0}, len : {1}]
  \cup [id : {0}, ext : IF ExtBit(t) THEN {0, MaxMake + 1} ELSE {0}, len : {MaxMake + 1}]

\* Every subgroup type, with up to two objects in any order of IDs.
Subgroups ==
  UNION {{[type |-> t, items |-> i] : i \in UNION {[1..n -> SomeObjects(t)] : n \in 0..2}}
         : t \in SubgroupTypes}

\* Three objects, for the types that differ in layout.
Runs ==
  UNION {{[type |-> t, items |-> [i \in 1..3 |-> [id |-> ids[i], ext |-> 0, len |-> i % 2]]]
          : ids \in [1..3 -> 0..MaxID]} : t \in {16, 29}}

Message(m, n) == [msg |-> m, len |-> n]

Controls ==
  {[type |-> SetupType, items |-> <<first>> \o more] :
     first \in {Message("setup", 2), Message("setup", 0), Message("badsetup", 1), Message("cutsetup", 2)},
     more \in {<<>>, <<Message("goaway", 0), Message("setup", 1)>>, <<Message("other", 2)>>}}

Others == {[type |-> t, items |-> <<>>] : t \in {FetchType, 15, 22, 23, 30}}

AllContents == Subgroups \cup Runs \cup Controls \cup Others
=============================================================================

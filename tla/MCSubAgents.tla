---------------------------- MODULE MCSubAgents ----------------------------
(* Small instances of SubAgents. *)
EXTENDS SubAgents

CONSTANTS assistant, ops, x, y, z

Alone == {assistant}
Two == {assistant, ops}

\* The assistant spawns in every way, ops with the managing tool only.
AllAndOne == [p \in Two |-> IF p = assistant THEN AllKinds ELSE {"manage"}]
BothTools == [p \in Alone |-> {"manage", "tool"}]
OneTool == [p \in Alone |-> {"manage"}]

\* The assistant answers two messages at a time, ops one.
TwoTurns == [p \in Two |-> IF p = assistant THEN 2 ELSE 1]
OneTurn == [p \in Alone |-> 1]

Providers == {x, y, z, Blank}
\* One dispatch target with a fallback.
OneTarget == {[primary |-> x, fallbacks |-> <<y>>]}
\* Targets with blank, repeated and too many names.
SomeTargets ==
    {[primary |-> x, fallbacks |-> <<x, Blank, y>>], [primary |-> Blank, fallbacks |-> <<x, y, z>>]}
=============================================================================

------------------------------ MODULE MCTaskDag ------------------------------
EXTENDS TaskDag

\* What plan_goal uses when the planner's answer holds no task.
E(id, agent, deps) == [id |-> id, agent |-> agent, deps |-> deps]
MCFallback == <<E("T1", "planner", {}), E("T2", "coder", {"T1"}), E("T3", "tester", {"T2"})>>

\* Two tasks of one agent side by side, and one that waits for the first of them only.
Fork == <<E("T1", "coder", {}), E("T2", "coder", {}), E("T3", "coder", {"T1"})>>
\* Plans that are not graphs: nothing, no id, a repeated id, cycles, unknown ids.
Odd ==
    {<< >>,
     <<E("", "coder", {}), E("T2", "coder", {"T1"})>>,
     <<E("T1", "coder", {"T2"}), E("T2", "coder", {}), E("T1", "tester", {})>>,
     <<E("T1", "coder", {"T1"}), E("T2", "coder", {"T3"}), E("T3", "coder", {"T2"})>>,
     <<E("T1", "coder", {"T2"}), E("T2", "coder", {"T4"}), E("T3", "coder", {"T2", "T1"})>>}
MCReplies == {Fork} \cup Odd
\* Both failure modes, with reviews and without.
MCConfigs == [mode : {"FailFast", "ContinueOnFailure"}, retries : {0, 1}]
Reviewed == [mode : {"ContinueOnFailure"}, retries : {1}]
JustFork == {Fork}
=============================================================================

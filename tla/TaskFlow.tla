------------------------------ MODULE TaskFlow ------------------------------
(***************************************************************************)
(* What the multi-agent orchestrator promises of a plan, without waves,    *)
(* dispatches, reviews or memory: a task starts once, after everything it  *)
(* needs is done, and the orchestration ends only when nothing runs and    *)
(* nothing more may start.                                                 *)
(***************************************************************************)
EXTENDS Integers, FiniteSets

CONSTANT Ids  \* names of tasks

VARIABLES
    strict,  \* TRUE: nothing starts after a task failed
    needs,   \* task |-> the tasks of the plan it waits for
    stage,   \* task |-> waiting, running, done or failed
    verdict  \* open, or the answer

vars == <<strict, needs, stage, verdict>>

Tasks == DOMAIN needs
Failures == {t \in Tasks : stage[t] = "failed"}
MayStart == {t \in Tasks : /\ stage[t] = "waiting"
                           /\ \A d \in needs[t] : stage[d] = "done"
                           /\ strict => Failures = {}}

Init == strict \in BOOLEAN /\ needs = << >> /\ stage = << >> /\ verdict = "open"

Plan ==
    /\ Tasks = {} /\ verdict = "open"
    /\ \E S \in (SUBSET Ids) \ {{}} : needs' \in [S -> SUBSET S]
    /\ stage' = [t \in DOMAIN needs' |-> "waiting"]
    /\ UNCHANGED <<strict, verdict>>

GiveUp == Tasks = {} /\ verdict = "open" /\ verdict' = "failure" /\ UNCHANGED <<strict, needs, stage>>

Start ==
    /\ verdict = "open"
    /\ \E S \in (SUBSET MayStart) \ {{}} :
           stage' = [t \in Tasks |-> IF t \in S THEN "running" ELSE stage[t]]
    /\ UNCHANGED <<strict, needs, verdict>>

Finish(t) ==
    /\ stage[t] = "running"
    /\ \E s \in {"done", "failed"} : stage' = [stage EXCEPT ![t] = s]
    /\ UNCHANGED <<strict, needs, verdict>>

End ==
    /\ verdict = "open" /\ Tasks # {}
    /\ \A t \in Tasks : stage[t] # "running"
    /\ MayStart = {}
    /\ verdict' = IF \A t \in Tasks : stage[t] = "done" THEN "success" ELSE "failure"
    /\ UNCHANGED <<strict, needs, stage>>

Next == Plan \/ GiveUp \/ Start \/ (\E t \in Tasks : Finish(t)) \/ End

Spec == Init /\ [][Next]_vars
=============================================================================

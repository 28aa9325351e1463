------------------------------ MODULE SopCallers ------------------------------
(***************************************************************************)
(* Who calls the SOP engine, and in which order.                           *)
(*                                                                         *)
(* ToolNext is the running program: sop_execute and the event dispatcher   *)
(* start runs, sop_advance reports steps, sop_approve approves.  Nothing   *)
(* outside the engine's tests calls cancel_run, check_approval_timeouts,   *)
(* advance_deterministic_step, resume_deterministic_run or, after the      *)
(* tools are built, reload.                                                *)
(*                                                                         *)
(* ProtocolNext is a caller that does what the returned SopRunAction asks  *)
(* for and nothing else, beside somebody who may poll the timeouts.        *)
(***************************************************************************)
EXTENDS SopEngine

ExecuteTool(s, written) == StartRun(s, written)
AdvanceTool(r, outcome) == AdvanceStep(r, outcome)
ApproveTool(r) == ApproveStep(r)

ToolNext ==
    \/ \E s \in SOPs, written \in WriteOutcomes : ExecuteTool(s, written)
    \/ \E r \in RunIds, outcome \in Outcomes : AdvanceTool(r, outcome)
    \/ \E r \in RunIds : ApproveTool(r)
    \/ Tick

ToolSpec == Init /\ [][ToolNext]_vars

-----------------------------------------------------------------------------
(* The caller follows the action it was given. *)

ObeyExecute(r, outcome) == reply[r] = "ExecuteStep" /\ AdvanceStep(r, outcome)
ObeyWait(r) == reply[r] = "WaitApproval" /\ ApproveStep(r)
ObeyDeterministic(r, written) ==
    reply[r] \in {"DeterministicStep", "CheckpointWait"} /\ AdvanceDeterministicStep(r, written)
\* The state file names the current checkpoint.
ObeyCheckpoint(p, written) ==
    /\ p.run \in active /\ reply[p.run] = "CheckpointWait" /\ p.last = run[p.run].step - 1
    /\ ResumeDeterministicRun(p, written)

ProtocolNext ==
    \/ \E s \in SOPs, written \in WriteOutcomes : StartRun(s, written)
    \/ \E r \in RunIds, outcome \in Outcomes : ObeyExecute(r, outcome)
    \/ \E r \in RunIds : ObeyWait(r)
    \/ \E r \in RunIds, written \in WriteOutcomes : ObeyDeterministic(r, written)
    \/ \E p \in persisted, written \in WriteOutcomes : ObeyCheckpoint(p, written)
    \/ \E r \in RunIds : CancelRun(r)
    \/ CheckApprovalTimeouts
    \/ Tick

(* Either of them, for good. *)
VARIABLE caller

callerVars == <<vars, caller>>

Obedient == caller = "obedient"

CallerNext ==
    /\ \/ caller = "tools" /\ ToolNext
       \/ Obedient /\ ProtocolNext
    /\ UNCHANGED caller

CallerSpec == Init /\ caller \in {"tools", "obedient"} /\ [][CallerNext]_callerVars

-----------------------------------------------------------------------------
(* A result reported for a step that needs approval was preceded by the approval  *)
(* of that step ("requires_confirmation enforces approval for that step").        *)
ApprovalBeforeExecution ==
    \A r \in RunIds : ~Deterministic(run[r].sop) =>
        \A i \in DOMAIN run[r].results :
            NeedsApproval(run[r].sop, i) => <<r, i>> \in granted

(* A caller that follows the actions passes no gate. *)
ObedientIsGated == Obedient => ApprovalBeforeExecution

(* Only a step that needs approval is ever approved: no approval, by the operator *)
(* or by a timeout, is spent on a step nobody asked about.                        *)
ApprovalsAreAskedFor ==
    Obedient => \A g \in granted : NeedsApproval(run[g[1]].sop, g[2])

(* A deterministic run at a checkpoint step is paused there ("Checkpoint steps    *)
(* pause for human approval").                                                    *)
CheckpointPauses ==
    Obedient => \A r \in active :
        Deterministic(run[r].sop) /\ IsCheckpoint(run[r].sop, run[r].step)
            => run[r].status = "PausedCheckpoint"

(* The record of a run that reported its steps in order. *)
InOrder(rec) ==
    LET n == Len(rec.results)
    IN  /\ \A i \in 1..n : rec.results[i].step = i
        /\ \A i \in 1..(n - 1) : rec.results[i].status = "done"
        /\ rec.status \in Live \cup {"Cancelled"} =>
             /\ rec.step = n + 1 /\ rec.step <= Total(rec.sop)
             /\ n > 0 => rec.results[n].status = "done"
        /\ rec.status = "Completed" =>
             n = Total(rec.sop) /\ n > 0 /\ rec.results[n].status = "done"
        /\ rec.status = "Failed" =>
             n > 0 /\ rec.results[n].status = "failed"

(* The steps of a run are reported in order, none twice and none left out, and the *)
(* run is at the step after the last one reported; a completed run reported every   *)
(* step and no failure, a failed one ends with its only failure.                    *)
StepsInOrder == \A r \in RunIds : InOrder(run[r])

(* A run whose caller was told to wait for approval is listed as waiting, with a   *)
(* timestamp, for as long as nothing else was returned for it: sop_status shows    *)
(* the operator every open gate.                                                   *)
GateIsVisible ==
    \A r \in active : reply[r] = "WaitApproval" =>
        run[r].status = "WaitingApproval" /\ run[r].waited # NotWaiting
=============================================================================

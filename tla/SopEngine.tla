------------------------------ MODULE SopEngine ------------------------------
(***************************************************************************)
(* The SOP (standard operating procedure) engine of the runtime:           *)
(* crates/zeroclaw-runtime/src/sop/engine.rs.  One engine sits behind one   *)
(* mutex, so every public method is one atomic action here.                 *)
(*                                                                          *)
(* Timestamps are modelled by ages: the code only ever asks whether "now    *)
(* minus a timestamp" has reached a threshold, so an age stops growing at   *)
(* its threshold and the clock needs no bound.                              *)
(***************************************************************************)
EXTENDS Integers, Sequences, FiniteSets

CONSTANTS
    SOPs,             \* the names of the SOP definitions
    Def,              \* the definition of each, see SopDefinition
    Reloadable,       \* the SOPs whose directory a reload may find missing
    MaxTotal,         \* config.max_concurrent_total
    ApprovalTimeout,  \* config.approval_timeout_secs, 0 = disabled
    MaxFinished,      \* config.max_finished_runs, 0 = unlimited
    WriteFaults,      \* may writing a checkpoint's state file fail?
    MaxRuns,          \* bound: how many runs are ever started
    MaxResults        \* bound: how many step results one run collects

Modes == {"auto", "supervised", "step_by_step", "priority_based", "deterministic"}
Priorities == {"low", "normal", "high", "critical"}
StepKinds == {"execute", "checkpoint"}
StepDefinition == [confirm : BOOLEAN, kind : StepKinds]
SopDefinition == [mode : Modes, priority : Priorities, steps : Seq(StepDefinition),
                  cooldown : Nat, maxConcurrent : Nat]

ASSUME SopAssumption ==
    /\ Def \in [SOPs -> SopDefinition]
    /\ Reloadable \subseteq SOPs
    /\ MaxTotal \in Nat /\ ApprovalTimeout \in Nat /\ MaxFinished \in Nat
    /\ WriteFaults \in BOOLEAN
    /\ MaxRuns \in Nat /\ MaxResults \in Nat

VARIABLES
    loaded,      \* engine.sops, by name
    run,         \* the SopRun of every run ever started, numbered by run_counter
    active,      \* the keys of active_runs
    finished,    \* finished_runs, oldest first
    persisted,   \* every DeterministicRunState ever written: a caller may hold an old one
    reply,       \* the SopRunAction last returned for a run, "error" if none was
    granted,     \* history: the <<run, step>> pairs approved, by operator or timeout
    lastDone     \* history: age of the last run that finished, per SOP, -1 = never

vars == <<loaded, run, active, finished, persisted, reply, granted, lastDone>>

RunIds == DOMAIN run
Terminal == {"Completed", "Failed", "Cancelled"}
Live == {"Running", "WaitingApproval", "PausedCheckpoint"}
\* A skipped step moves a run on exactly as a completed one does: both are "done".
Outcomes == {"done", "failed"}
Replies == {"ExecuteStep", "WaitApproval", "DeterministicStep", "CheckpointWait",
            "Completed", "Failed", "error"}

\* waited = -1 stands for waiting_since = None.
NotWaiting == -1
SopRun == [sop : SOPs, status : Terminal \cup Live, step : Nat \ {0},
           results : Seq([step : Nat, status : Outcomes]),
           waited : {NotWaiting} \cup 0..ApprovalTimeout, age : Nat]

Total(s) == Len(Def[s].steps)
Deterministic(s) == Def[s].mode = "deterministic"
Urgent(s) == Def[s].priority \in {"high", "critical"}
IsCheckpoint(s, n) == Def[s].steps[n].kind = "checkpoint"
Min2(a, b) == IF a < b THEN a ELSE b

-----------------------------------------------------------------------------
(* Execution mode resolution.  A deterministic SOP that reaches this path is  *)
(* treated as auto: the step's kind plays no part.                            *)

NeedsApproval(s, n) ==
    \/ Def[s].steps[n].confirm
    \/ Def[s].mode = "step_by_step"
    \/ Def[s].mode = "supervised" /\ n = 1
    \/ Def[s].mode = "priority_based" /\ ~Urgent(s) /\ n = 1

NewRun(s) == [sop |-> s, status |-> "Running", step |-> 1, results |-> << >>,
              waited |-> NotWaiting, age |-> 0]

\* Deviation: the timestamp is taken, the status is not changed.
Hold_TimerOnly(rec, status) == [rec EXCEPT !.waited = 0]

Hold(rec, status) == [rec EXCEPT !.status = status, !.waited = 0]

\* Moving to a step leaves status and waiting_since alone unless the step waits.
EnterStep(rec, n) ==
    LET moved == [rec EXCEPT !.step = n]
    IN  IF NeedsApproval(rec.sop, n) THEN Hold(moved, "WaitingApproval") ELSE moved

\* Deviation: approval is asked for before the first step only.
EnterReply_FirstOnly(s, n) ==
    IF NeedsApproval(s, n) /\ n = 1 THEN "WaitApproval" ELSE "ExecuteStep"

EnterReply(s, n) == IF NeedsApproval(s, n) THEN "WaitApproval" ELSE "ExecuteStep"

\* Deviation: a checkpoint is announced to the caller but the run is not paused.
EnterDetStep_NoPause(rec, n) == [rec EXCEPT !.step = n]

EnterDetStep(rec, n) ==
    LET moved == [rec EXCEPT !.step = n]
    IN  IF IsCheckpoint(rec.sop, n) THEN Hold(moved, "PausedCheckpoint") ELSE moved

EnterDetReply(s, n, written) ==
    IF ~IsCheckpoint(s, n) THEN "DeterministicStep"
    ELSE IF written THEN "CheckpointWait" ELSE "error"

\* The state file of a pause at step n names n - 1 as the last completed step.
Written(r, s, n, written) ==
    IF IsCheckpoint(s, n) /\ written THEN {[run |-> r, last |-> n - 1]} ELSE {}

WriteOutcomes == IF WriteFaults THEN BOOLEAN ELSE {TRUE}
-----------------------------------------------------------------------------
(* Limits on starting a run. *)

ActiveOf(s) == {r \in active : run[r].sop = s}

\* last_finished_run looks from the end of the list, which eviction shortens.
LastFinished(s) ==
    {r \in RunIds : \E i \in DOMAIN finished :
        /\ finished[i] = r /\ run[r].sop = s
        /\ \A j \in DOMAIN finished : j > i => run[finished[j]].sop # s}

\* Deviation: the oldest finished run is compared, not the latest.
CoolingDown_Oldest(s) ==
    \E i \in DOMAIN finished :
        /\ run[finished[i]].sop = s
        /\ \A j \in DOMAIN finished : j < i => run[finished[j]].sop # s
        /\ run[finished[i]].age < Def[s].cooldown

CoolingDown(s) == \E r \in LastFinished(s) : run[r].age < Def[s].cooldown

\* Deviation: each SOP's own limit is checked, the global one is not.
CanStart_NoGlobalLimit(s) ==
    /\ s \in loaded
    /\ Cardinality(ActiveOf(s)) < Def[s].maxConcurrent
    /\ ~CoolingDown(s)

CanStart(s) ==
    /\ s \in loaded
    /\ Cardinality(ActiveOf(s)) < Def[s].maxConcurrent
    /\ Cardinality(active) < MaxTotal
    /\ ~CoolingDown(s)

(* Leaving active_runs.  The list of finished runs keeps its newest members. *)

\* Deviation: nothing is evicted.
Kept_All(f) == f

Kept(f) == IF MaxFinished > 0 /\ Len(f) > MaxFinished
           THEN SubSeq(f, Len(f) - MaxFinished + 1, Len(f)) ELSE f

\* Deviation: the run is filed as finished but its slot is not given back.
FinishRun_KeepsSlot(r, rec, status) ==
    /\ active' = active
    /\ finished' = Kept(Append(finished, r))
    /\ run' = [run EXCEPT ![r] = [rec EXCEPT !.status = status, !.age = 0]]
    /\ lastDone' = [lastDone EXCEPT ![rec.sop] = 0]

FinishRun(r, rec, status) ==
    /\ active' = active \ {r}
    /\ finished' = Kept(Append(finished, r))
    /\ run' = [run EXCEPT ![r] = [rec EXCEPT !.status = status, !.age = 0]]
    /\ lastDone' = [lastDone EXCEPT ![rec.sop] = 0]

-----------------------------------------------------------------------------
Init ==
    /\ loaded = SOPs
    /\ run = << >>
    /\ active = {}
    /\ finished = << >>
    /\ persisted = {}
    /\ reply = << >>
    /\ granted = {}
    /\ lastDone = [s \in SOPs |-> -1]

(* start_run and start_deterministic_run.  A failed write of the state file is *)
(* reported as an error although the run is already in active_runs.            *)
StartRun(s, written) ==
    /\ CanStart(s) /\ Total(s) > 0 /\ Len(run) < MaxRuns
    /\ active' = active \cup {Len(run) + 1}
    /\ IF Deterministic(s)
       THEN /\ run' = Append(run, EnterDetStep(NewRun(s), 1))
            /\ reply' = Append(reply, EnterDetReply(s, 1, written))
            /\ persisted' = persisted \cup Written(Len(run) + 1, s, 1, written)
       ELSE /\ run' = Append(run, EnterStep(NewRun(s), 1))
            /\ reply' = Append(reply, EnterReply(s, 1))
            /\ UNCHANGED persisted
    /\ UNCHANGED <<loaded, finished, granted, lastDone>>

Recorded(r, outcome) ==
    [run[r] EXCEPT !.results = Append(@, [step |-> run[r].step, status |-> outcome])]

\* Deviation: the run is looked up with get_run, which finds finished runs too.
AdvanceStep_AnyRun(r, outcome) ==
    /\ r \in RunIds /\ run[r].sop \in loaded /\ Len(run[r].results) < MaxResults
    /\ run' = [run EXCEPT ![r] = Recorded(r, outcome)]
    /\ UNCHANGED <<loaded, active, finished, persisted, reply, granted, lastDone>>

(* advance_step, called with the current step's number as sop_advance does.  The *)
(* status of the run is not looked at.                                           *)
AdvanceStep(r, outcome) ==
    /\ r \in active /\ run[r].sop \in loaded /\ Len(run[r].results) < MaxResults
    /\ LET rec == Recorded(r, outcome)
           n == rec.step + 1
       IN  \/ /\ outcome = "failed"
              /\ FinishRun(r, rec, "Failed")
              /\ reply' = [reply EXCEPT ![r] = "Failed"]
           \/ /\ outcome # "failed" /\ n > Total(rec.sop)
              /\ FinishRun(r, rec, "Completed")
              /\ reply' = [reply EXCEPT ![r] = "Completed"]
           \/ /\ outcome # "failed" /\ n <= Total(rec.sop)
              /\ run' = [run EXCEPT ![r] = EnterStep(rec, n)]
              /\ reply' = [reply EXCEPT ![r] = EnterReply(rec.sop, n)]
              /\ UNCHANGED <<active, finished, lastDone>>
    /\ UNCHANGED <<loaded, persisted, granted>>

CancelRun(r) ==
    /\ r \in active
    /\ FinishRun(r, run[r], "Cancelled")
    /\ UNCHANGED <<loaded, persisted, reply, granted>>

Released(rec) == [rec EXCEPT !.status = "Running", !.waited = NotWaiting]

\* Deviation: the approval is booked on the step after the one that waits.
ApproveStep_NextStep(r) ==
    /\ r \in active /\ run[r].status = "WaitingApproval" /\ run[r].sop \in loaded
    /\ run' = [run EXCEPT ![r] = Released(@)]
    /\ reply' = [reply EXCEPT ![r] = "ExecuteStep"]
    /\ granted' = granted \cup {<<r, Min2(run[r].step + 1, Total(run[r].sop))>>}
    /\ UNCHANGED <<loaded, active, finished, persisted, lastDone>>

(* approve_step releases the run before it looks its SOP up: when the SOP is *)
(* gone the caller gets an error and the run is running all the same.        *)
ApproveStep(r) ==
    /\ r \in active /\ run[r].status = "WaitingApproval"
    /\ run' = [run EXCEPT ![r] = Released(@)]
    /\ IF run[r].sop \in loaded
       THEN /\ reply' = [reply EXCEPT ![r] = "ExecuteStep"]
            /\ granted' = granted \cup {<<r, run[r].step>>}
       ELSE /\ reply' = [reply EXCEPT ![r] = "error"]
            /\ UNCHANGED granted
    /\ UNCHANGED <<loaded, active, finished, persisted, lastDone>>

(* check_approval_timeouts approves every overdue run of an urgent SOP at once. *)
Overdue(r) ==
    /\ ApprovalTimeout > 0 /\ run[r].status = "WaitingApproval"
    /\ run[r].waited >= ApprovalTimeout
    /\ run[r].sop \in loaded /\ Urgent(run[r].sop)

CheckApprovalTimeouts ==
    LET due == {r \in active : Overdue(r)}
    IN  /\ due # {}
        /\ run' = [r \in RunIds |-> IF r \in due THEN Released(run[r]) ELSE run[r]]
        /\ reply' = [r \in RunIds |-> IF r \in due THEN "ExecuteStep" ELSE reply[r]]
        /\ granted' = granted \cup {<<r, run[r].step>> : r \in due}
        /\ UNCHANGED <<loaded, active, finished, persisted, lastDone>>

(* advance_deterministic_step; a paused run is advanced like any other and keeps *)
(* its status PausedCheckpoint.                                                  *)
AdvanceDeterministicStep(r, written) ==
    /\ r \in active /\ run[r].sop \in loaded /\ Len(run[r].results) < MaxResults
    /\ LET rec == Recorded(r, "done")
           n == rec.step + 1
       IN  \/ /\ n > Total(rec.sop)
              /\ FinishRun(r, rec, "Completed")
              /\ reply' = [reply EXCEPT ![r] = "Completed"]
              /\ UNCHANGED persisted
           \/ /\ n <= Total(rec.sop)
              /\ run' = [run EXCEPT ![r] = EnterDetStep(rec, n)]
              /\ reply' = [reply EXCEPT ![r] = EnterDetReply(rec.sop, n, written)]
              /\ persisted' = persisted \cup Written(r, rec.sop, n, written)
              /\ UNCHANGED <<active, finished, lastDone>>
    /\ UNCHANGED <<loaded, granted>>

\* Deviation: the run goes on from the last completed step, which it repeats.
ResumeDeterministicRun_Repeats(p, written) ==
    LET r == p.run
        n == IF p.last = 0 THEN 1 ELSE p.last
    IN  /\ r \in active /\ run[r].status = "PausedCheckpoint" /\ run[r].sop \in loaded
        /\ run' = [run EXCEPT ![r] = EnterDetStep(Released(@), n)]
        /\ reply' = [reply EXCEPT ![r] = EnterDetReply(run[r].sop, n, written)]
        /\ UNCHANGED <<loaded, active, finished, persisted, granted, lastDone>>

(* resume_deterministic_run, with any state the caller may have read.  The branch *)
(* that completes the run is never taken: a written state has last < total.       *)
ResumeDeterministicRun(p, written) ==
    LET r == p.run
        n == p.last + 1
    IN  /\ r \in active /\ run[r].status = "PausedCheckpoint" /\ run[r].sop \in loaded
        /\ run' = [run EXCEPT ![r] = EnterDetStep(Released(@), n)]
        /\ reply' = [reply EXCEPT ![r] = EnterDetReply(run[r].sop, n, written)]
        /\ persisted' = persisted \cup Written(r, run[r].sop, n, written)
        /\ UNCHANGED <<loaded, active, finished, granted, lastDone>>

(* reload: the directory of a SOP may be missing, or be back. *)
Reload ==
    /\ \E gone \in SUBSET Reloadable : loaded' = SOPs \ gone
    /\ UNCHANGED <<run, active, finished, persisted, reply, granted, lastDone>>

(* A second passes. *)
Tick ==
    /\ run' = [r \in RunIds |->
                 IF r \in active
                 THEN [run[r] EXCEPT !.waited = IF @ = NotWaiting THEN @
                                                ELSE Min2(@ + 1, ApprovalTimeout)]
                 ELSE [run[r] EXCEPT !.age = Min2(@ + 1, Def[run[r].sop].cooldown)]]
    /\ lastDone' = [s \in SOPs |-> IF lastDone[s] = -1 THEN -1
                                   ELSE Min2(lastDone[s] + 1, Def[s].cooldown)]
    /\ UNCHANGED <<loaded, active, finished, persisted, reply, granted>>

Next ==
    \/ \E s \in SOPs, written \in WriteOutcomes : StartRun(s, written)
    \/ \E r \in RunIds, outcome \in Outcomes : AdvanceStep(r, outcome)
    \/ \E r \in RunIds : CancelRun(r)
    \/ \E r \in RunIds : ApproveStep(r)
    \/ CheckApprovalTimeouts
    \/ \E r \in RunIds, written \in WriteOutcomes : AdvanceDeterministicStep(r, written)
    \/ \E p \in persisted, written \in WriteOutcomes : ResumeDeterministicRun(p, written)
    \/ Reload
    \/ Tick

Spec == Init /\ [][Next]_vars

-----------------------------------------------------------------------------
(* Properties of the engine under any sequence of calls. *)

(* Every variable has its type; lists of finished runs are bounded. *)
TypeOK ==
    /\ loaded \subseteq SOPs
    /\ run \in Seq(SopRun)
    /\ active \subseteq RunIds
    /\ finished \in Seq(RunIds)
    /\ MaxFinished > 0 => Len(finished) <= MaxFinished
    /\ persisted \subseteq [run : RunIds, last : Nat]
    /\ reply \in Seq(Replies) /\ Len(reply) = Len(run)
    /\ granted \subseteq RunIds \X (Nat \ {0})
    /\ lastDone \in [SOPs -> {-1} \cup Nat]

(* The number of runs in flight never exceeds the limit of their SOP or the     *)
(* global one (can_start), whatever mix of tools and event sources starts them. *)
ConcurrencyLimits ==
    /\ Cardinality(active) <= MaxTotal
    /\ \A s \in SOPs : Cardinality(ActiveOf(s)) <= Def[s].maxConcurrent

(* A run is in active_runs exactly while its status is not terminal, the finished *)
(* list holds terminal runs only and holds none twice: get_run finds one SopRun   *)
(* for an id, and no run both holds a slot and counts as the last finished one.   *)
RunsPartitioned ==
    /\ \A r \in RunIds : r \in active <=> run[r].status \in Live
    /\ \A i \in DOMAIN finished : finished[i] \notin active
    /\ \A i, j \in DOMAIN finished : finished[i] = finished[j] => i = j

(* Once out of active_runs a run stays out and its record is final: no late       *)
(* advance, approval, timeout or resume changes what it did.                      *)
FinishedIsFinal ==
    [][\A r \in RunIds \ active :
         /\ r \notin active'
         /\ run'[r].results = run[r].results /\ run'[r].status = run[r].status]_vars

(* can_start "respects cooldown": between the end of a SOP's run and the start of *)
(* its next one at least cooldown_secs pass.                                      *)
CooldownHonoured ==
    [][\A s \in SOPs :
         /\ Len(run') > Len(run) /\ run'[Len(run')].sop = s
         /\ lastDone[s] # -1
         => lastDone[s] >= Def[s].cooldown]_vars

=============================================================================

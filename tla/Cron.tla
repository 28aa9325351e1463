-------------------------------- MODULE Cron --------------------------------
(***************************************************************************)
(* The cron scheduler: crates/zeroclaw-runtime/src/cron/scheduler.rs, the  *)
(* job table it works from (store.rs) and the operations on that table     *)
(* (mod.rs and the cron tools).                                            *)
(*                                                                         *)
(* The daemon reads due jobs in batches and works through a batch from the *)
(* rows as it read them; meanwhile anyone may edit the table, and the      *)
(* daemon may crash.  A step is one statement or transaction of the        *)
(* database, or a run.  Time is a counter; polls come as often as they     *)
(* like.  Commands, outputs, delivery and the run history are left out but *)
(* for what of them decides the row: whether a run counts as a success,    *)
(* and whether its history could be written.                               *)
(***************************************************************************)
EXTENDS Integers, Sequences, FiniteSets

CONSTANTS
    JobIds,
    Orphans,        \* jobs no configured agent owns
    Schedules,      \* the schedules each job may have: [kind, times], see ScheduleShape
    Configs,        \* what [cron] may declare: functions from jobs to [schedule, enabled]
    CatchUp,        \* scheduler.catch_up_on_startup
    MaxTasks,       \* scheduler.max_tasks
    MaxConcurrent,  \* scheduler.max_concurrent
    MaxTime,        \* bound: how far time goes
    MaxFaults,      \* bound: crashes of the daemon, and its queries and writes that fail
    MaxEdits        \* bound: how often a row is edited

\* every n, at a time, or a cron expression with the times it names.
ScheduleShape(s) ==
    /\ s.kind \in {"every", "at", "cron"}
    /\ s.times \subseteq Nat /\ s.times # {}
    /\ s.kind \in {"every", "at"} => \E t \in s.times : s.times = {t}
    /\ s.kind = "every" => 0 \notin s.times

ASSUME CronAssumption ==
    /\ Orphans \subseteq JobIds /\ IsFiniteSet(JobIds)
    /\ \A j \in JobIds : \A s \in Schedules[j] : ScheduleShape(s)
    /\ \A c \in Configs : DOMAIN c \subseteq JobIds /\ \A j \in DOMAIN c :
          c[j].schedule \in Schedules[j] /\ c[j].enabled \in BOOLEAN
    /\ CatchUp \in BOOLEAN
    /\ MaxTasks \in Nat \ {0} /\ MaxConcurrent \in Nat \ {0}
    /\ MaxTime \in Nat /\ MaxFaults \in Nat /\ MaxEdits \in Nat

VARIABLES
    now,
    rows,       \* the table cron_jobs
    phase,      \* of the daemon: "down", "booting", "idle", "running"
    sync,       \* what a starting daemon declares, and the jobs it has still to synchronise
    work,       \* the batch: for each job in it the row as it was read, and its stage
    edit,       \* an update_job between its read and its write
    faults, edits,
    \* kept for the properties:
    bootAt,     \* when the daemon started
    caughtUp,   \* the catch-up has read what was missed, and no poll came since
    completed,  \* the due times of a job whose run has come to its end
    excused,    \* those of them that may be due again, see DoneIsDone
    disturbed   \* jobs edited across a run of theirs, or whose result could not be written

ghosts == <<bootAt, caughtUp, completed, excused, disturbed>>
vars == <<now, rows, phase, sync, work, edit, faults, edits, ghosts>>

Time == 0..MaxTime
Unused == [state |-> "unused"]
Gone == [state |-> "gone"]
NoWork == [stage |-> "none"]
Stages == {"queued", "running", "ok", "failed"}
NoEdit == [job |-> "none"]
NoSync == [left |-> {}]

The(s) == CHOOSE t \in s.times : TRUE
Later(s, from) == {t \in s.times : t > from}
HasNext(s, from) == s.kind = "cron" => Later(s, from) # {}

\* next_run_for_schedule.
NextRun(s, from) ==
    CASE s.kind = "every" -> from + The(s)
      [] s.kind = "at" -> The(s)
      [] OTHER -> CHOOSE t \in Later(s, from) : \A u \in Later(s, from) : t <= u

NewRow(s, from) ==
    [state |-> "live", schedule |-> s, enabled |-> TRUE, deleteAfter |-> s.kind = "at",
     next |-> NextRun(s, from), declared |-> FALSE]

Live(j) == rows[j].state = "live"
DueAt(j, t) == Live(j) /\ rows[j].enabled /\ rows[j].next <= t
Due(j) == DueAt(j, now)
InStage(stages) == {j \in JobIds : work[j].stage \in stages}
Active(j) == work[j] # NoWork

Init ==
    /\ now = 0 /\ faults = 0 /\ edits = 0
    /\ rows = [j \in JobIds |-> Unused]
    /\ phase = "down" /\ sync = NoSync /\ work = [j \in JobIds |-> NoWork]
    /\ edit = NoEdit
    /\ bootAt = 0 /\ caughtUp = FALSE
    /\ completed = [j \in JobIds |-> {}] /\ excused = completed /\ disturbed = {}

Tick ==
    /\ now < MaxTime /\ now' = now + 1
    /\ UNCHANGED <<rows, phase, sync, work, edit, faults, edits, ghosts>>

\* A row is written that makes the job due at a time it was not due at just before.
PutBack(j, row) ==
    excused' = [excused EXCEPT ![j] = @ \cup
        {t \in {row.next} : row.enabled /\ t <= now /\ ~(Live(j) /\ rows[j].enabled /\ rows[j].next = t)}]

-----------------------------------------------------------------------------
(* The daemon.                                                                      *)

\* The due rows a query returns, the oldest first up to its limit.
OldestDue(limit) ==
    LET due == {j \in JobIds : Due(j)} IN
    {D \in SUBSET due :
        /\ Cardinality(D) = (IF Cardinality(due) < limit THEN Cardinality(due) ELSE limit)
        /\ \A j \in D, k \in due \ D : rows[j].next <= rows[k].next}

\* Deviation: the batch ends at the first job without an owner.
Accepted_UpToOrphan(jobs) ==
    {j \in jobs \ Orphans : \A k \in jobs \cap Orphans : rows[j].next < rows[k].next}

\* Jobs without an owner are skipped, and nothing is written about them.
Accepted(jobs) == jobs \ Orphans

\* process_due_jobs
Enqueue(jobs) ==
    /\ work' = [j \in JobIds |-> IF j \in Accepted(jobs) THEN [stage |-> "queued", row |-> rows[j]]
                                 ELSE NoWork]
    /\ phase' = IF Accepted(jobs) = {} THEN "idle" ELSE "running"

\* Deviation: the catch-up is limited like a poll.
MissedJobs_Limited == OldestDue(MaxTasks)

MissedJobs == {{j \in JobIds : Due(j)}}

\* Deviation: a changed schedule keeps the old due time.
Synced_KeepsTime(row, decl) ==
    [row EXCEPT !.schedule = decl.schedule, !.enabled = decl.enabled,
                !.deleteAfter = decl.schedule.kind = "at", !.declared = TRUE]

\* What a declaration makes of a row; the clock of the whole synchronisation is read once.
Synced(row, decl) ==
    [row EXCEPT !.schedule = decl.schedule, !.enabled = decl.enabled,
                !.deleteAfter = decl.schedule.kind = "at", !.declared = TRUE,
                !.next = IF row.schedule # decl.schedule THEN NextRun(decl.schedule, bootAt) ELSE @]

Syncing(c, left) == IF left = {} THEN NoSync ELSE [config |-> c, left |-> left]

Start(c) ==
    /\ phase = "down" /\ phase' = "booting"
    /\ sync' = Syncing(c, DOMAIN c \cup {j \in JobIds : Live(j) /\ rows[j].declared})
    /\ bootAt' = now /\ caughtUp' = FALSE
    /\ UNCHANGED <<now, rows, work, edit, faults, edits, completed, excused, disturbed>>

\* The jobs no longer declared go first; then the declarations, in the order of a hash map.
Turn == IF sync.left \subseteq DOMAIN sync.config THEN sync.left ELSE sync.left \ DOMAIN sync.config

\* next_run_for_schedule fails, and with it the rest of the synchronisation.
NoNextTime(j) ==
    /\ j \in DOMAIN sync.config /\ ~HasNext(sync.config[j].schedule, bootAt)
    /\ IF Live(j) THEN rows[j].schedule # sync.config[j].schedule ELSE j \notin Orphans

\* sync_declarative_jobs: one statement for each job, and no transaction around them.
SyncJob(j) ==
    /\ sync # NoSync /\ j \in Turn /\ ~NoNextTime(j)
    /\ sync' = Syncing(sync.config, sync.left \ {j})
    /\ IF j \notin DOMAIN sync.config
       THEN rows' = [rows EXCEPT ![j] = IF Live(j) THEN Gone ELSE @] /\ UNCHANGED excused
       ELSE IF ~Live(j) /\ j \in Orphans
       THEN UNCHANGED <<rows, excused>>
       ELSE \E row \in {Synced(IF Live(j) THEN rows[j] ELSE NewRow(sync.config[j].schedule, bootAt), sync.config[j])} :
                rows' = [rows EXCEPT ![j] = row] /\ PutBack(j, row)
    /\ UNCHANGED <<now, phase, work, edit, faults, edits, bootAt, caughtUp, completed, disturbed>>

\* A synchronisation that fails half way is a warning in the log; the scheduler goes on.
SyncFails ==
    /\ sync # NoSync /\ sync' = NoSync
    /\ \/ (\E j \in Turn : NoNextTime(j)) /\ UNCHANGED faults
       \/ faults < MaxFaults /\ faults' = faults + 1
    /\ UNCHANGED <<now, rows, phase, work, edit, edits, ghosts>>

\* catch_up_overdue_jobs; when its query fails, what was missed is left to the polls.
CatchUpJobs ==
    /\ phase = "booting" /\ sync = NoSync
    /\ \/ /\ CatchUp /\ \E jobs \in MissedJobs : Enqueue(jobs)
          /\ caughtUp' = TRUE /\ UNCHANGED faults
       \/ /\ IF CatchUp THEN faults < MaxFaults /\ faults' = faults + 1 ELSE UNCHANGED faults
          /\ phase' = "idle" /\ UNCHANGED <<work, caughtUp>>
    /\ UNCHANGED <<now, rows, sync, edit, edits, bootAt, completed, excused, disturbed>>

Poll ==
    /\ phase = "idle"
    /\ \E jobs \in OldestDue(MaxTasks) : Enqueue(jobs)
    /\ caughtUp' = FALSE
    /\ UNCHANGED <<now, rows, sync, edit, faults, edits, bootAt, completed, excused, disturbed>>

InFlight == InStage({"running", "ok", "failed"})

\* Deviation: one run too many.
SlotFree_OffByOne == Cardinality(InFlight) <= MaxConcurrent

SlotFree == Cardinality(InFlight) < MaxConcurrent

\* buffer_unordered(max_concurrent): the batch is started in the order of the query.
StartJob(j) ==
    /\ work[j].stage = "queued" /\ SlotFree
    /\ \A k \in InStage({"queued"}) : work[j].row.next <= work[k].row.next
    /\ work' = [work EXCEPT ![j].stage = "running"]
    /\ UNCHANGED <<now, rows, phase, sync, edit, faults, edits, ghosts>>

\* execute_job_with_retry and the delivery of its output.  The run of this due time has
\* come to its end, and whatever excused an earlier one is settled.
Finish(j) ==
    /\ work[j].stage = "running"
    /\ \E result \in {"ok", "failed"} : work' = [work EXCEPT ![j].stage = result]
    /\ completed' = [completed EXCEPT ![j] = @ \cup {work[j].row.next}]
    /\ excused' = [excused EXCEPT ![j] = @ \ {work[j].row.next}]
    /\ UNCHANGED <<now, rows, phase, sync, edit, faults, edits, bootAt, caughtUp, disturbed>>

CompletionAction(row, result) ==
    IF row.schedule.kind # "at" THEN "reschedule"
    ELSE IF row.deleteAfter /\ result = "ok" THEN "delete" ELSE "disable"

\* Deviation: what could not be deleted is rescheduled.
Fallback_Reschedule(action) == IF action = "delete" THEN "reschedule" ELSE action

Fallback(action) == IF action = "delete" THEN "disable" ELSE action

\* apply_run_completion_state, by the schedule of the row as it was read.
Applies(j, row, action) ==
    Live(j) /\ (action = "reschedule" => HasNext(row.schedule, now))

Completed(j, row, action) ==
    CASE action = "reschedule" -> [rows[j] EXCEPT !.next = NextRun(row.schedule, now)]
      [] action = "disable" -> [rows[j] EXCEPT !.enabled = FALSE]
      [] OTHER -> Gone

\* persist_job_result: history and row in one transaction, or the row alone.
Persist(j) ==
    /\ work[j].stage \in {"ok", "failed"}
    /\ LET row == work[j].row
           action == CompletionAction(row, work[j].stage)
           written == {a \in {action, Fallback(action)} : Applies(j, row, a)}
       IN  \/ \E a \in written :
                 /\ rows' = [rows EXCEPT ![j] = Completed(j, row, a)]
                 /\ UNCHANGED <<faults, excused, disturbed>>
           \/ /\ IF written = {} THEN UNCHANGED faults
                 ELSE faults < MaxFaults /\ faults' = faults + 1
              /\ UNCHANGED rows
              /\ excused' = [excused EXCEPT ![j] = @ \cup {row.next}]
              /\ disturbed' = disturbed \cup {j}
    /\ work' = [work EXCEPT ![j] = NoWork]
    /\ phase' = IF InStage(Stages) = {j} THEN "idle" ELSE "running"
    /\ UNCHANGED <<now, sync, edit, edits, bootAt, caughtUp, completed>>

Crash ==
    /\ phase # "down" /\ faults < MaxFaults /\ faults' = faults + 1
    /\ phase' = "down" /\ sync' = NoSync /\ work' = [j \in JobIds |-> NoWork]
    /\ excused' = [j \in JobIds |->
          IF work[j].stage \in {"ok", "failed"} THEN excused[j] \cup {work[j].row.next} ELSE excused[j]]
    /\ UNCHANGED <<now, rows, edit, edits, bootAt, caughtUp, completed, disturbed>>

-----------------------------------------------------------------------------
(* The table's other users: command line, gateway, tools.                           *)

\* validate_schedule
Valid(s) == IF s.kind = "at" THEN The(s) > now ELSE HasNext(s, now)

\* Every added job gets an id of its own.
AddJob(j) ==
    /\ rows[j] = Unused /\ \A c \in Configs : j \notin DOMAIN c
    /\ \E s \in Schedules[j] : Valid(s) /\ rows' = [rows EXCEPT ![j] = NewRow(s, now)]
    /\ UNCHANGED <<now, phase, sync, work, edit, faults, edits, ghosts>>

RemoveJob(j) ==
    /\ Live(j) /\ rows' = [rows EXCEPT ![j] = Gone]
    /\ UNCHANGED <<now, phase, sync, work, edit, faults, edits, ghosts>>

\* update_job reads the row, changes its copy, and writes all of it back.
ReadForEdit(j) ==
    /\ edit = NoEdit /\ Live(j)
    /\ edits < MaxEdits /\ edits' = edits + 1
    /\ edit' = [job |-> j, row |-> rows[j]]
    /\ UNCHANGED <<now, rows, phase, sync, work, faults, ghosts>>

\* pause_job and resume_job
Enabling(row) == {[row EXCEPT !.enabled = b] : b \in BOOLEAN}

Rescheduling(j, row) ==
    {[row EXCEPT !.schedule = s, !.next = NextRun(s, now)] : s \in {x \in Schedules[j] : Valid(x)}}

WriteEdit ==
    /\ edit # NoEdit /\ edit' = NoEdit
    /\ LET j == edit.job IN
       IF ~Live(j) THEN UNCHANGED <<rows, excused, disturbed>>
       ELSE /\ \E row \in Enabling(edit.row) \cup Rescheduling(j, edit.row) :
                  rows' = [rows EXCEPT ![j] = row] /\ PutBack(j, row)
            /\ disturbed' = IF Active(j) \/ caughtUp THEN disturbed \cup {j} ELSE disturbed
    /\ UNCHANGED <<now, phase, sync, work, faults, edits, bootAt, caughtUp, completed>>

Run(j) == StartJob(j) \/ Finish(j) \/ Persist(j)
Users == WriteEdit \/ \E j \in JobIds : AddJob(j) \/ RemoveJob(j) \/ ReadForEdit(j)
Daemon ==
    (\E c \in Configs : Start(c)) \/ (\E j \in JobIds : SyncJob(j)) \/ SyncFails \/ CatchUpJobs \/ Poll

Next == Tick \/ Daemon \/ Crash \/ Users \/ \E j \in JobIds : Run(j)

Spec == Init /\ [][Next]_vars

-----------------------------------------------------------------------------
(* Properties.                                                                      *)

RowShape(j, row) ==
    \/ row \in {Unused, Gone}
    \/ /\ row.state = "live" /\ row.schedule \in Schedules[j]
       /\ row.enabled \in BOOLEAN /\ row.deleteAfter \in BOOLEAN /\ row.declared \in BOOLEAN
       /\ row.next \in Nat

(* Every variable stays in its type; there is work exactly while the daemon is running *)
(* a batch, and never more of it at once than max_concurrent.                          *)
TypeOK ==
    /\ now \in Time /\ faults \in 0..MaxFaults /\ edits \in 0..MaxEdits /\ bootAt \in Time /\ caughtUp \in BOOLEAN
    /\ sync = NoSync \/ (phase = "booting" /\ sync.config \in Configs /\ sync.left \subseteq JobIds /\ sync.left # {})
    /\ \A j \in JobIds : RowShape(j, rows[j])
    /\ \A j \in JobIds : work[j] = NoWork \/ (work[j].stage \in Stages /\ RowShape(j, work[j].row))
    /\ phase \in {"down", "booting", "idle", "running"}
    /\ phase = "running" <=> InStage(Stages) # {}
    /\ Cardinality(InFlight) <= MaxConcurrent
    /\ completed \in [JobIds -> SUBSET Nat] /\ excused \in [JobIds -> SUBSET Nat] /\ disturbed \subseteq JobIds

(* A due time whose run has come to its end is due again only until its result is        *)
(* written, through failures of the history, crashes and restarts; or if it is excused:   *)
(* the result was never written (a crash came first, every write failed, or the schedule  *)
(* names no later time), or somebody else has since made the row due at that time again   *)
(* (an edit wrote back the row it had read, a resumed job, a one-shot declared anew).     *)
DoneIsDone ==
    \A j \in JobIds :
        Live(j) /\ rows[j].enabled /\ rows[j].next \in completed[j] \ excused[j]
            => work[j].stage \in {"ok", "failed"}

Fits(row) == row.schedule.kind # "every" => row.next \in row.schedule.times

(* A job is due at a time its schedule names.                                           *)
DueTimesFit == \A j \in JobIds \ disturbed : Live(j) => Fits(rows[j])

(* "every missed job fires once": when the daemon is through with its catch-up, nothing *)
(* that was due when it started is due still.                                           *)
CatchUpMissesNone ==
    caughtUp /\ phase = "idle" => \A j \in JobIds \ (disturbed \cup Orphans) : ~DueAt(j, bootAt)

-----------------------------------------------------------------------------
(* Liveness: the daemon is started again after a crash, polls, and runs end.            *)

FairSpec ==
    /\ Spec
    /\ WF_vars(Daemon) /\ \A j \in JobIds : WF_vars(Run(j))

\* Rows that stay due whatever the daemon does fill the polls.
Crowded ==
    Cardinality({j \in JobIds : Due(j) /\ (j \in Orphans \/ ~HasNext(rows[j].schedule, now))}) >= MaxTasks

(* A due job is taken up, unless it is paused, removed or put off first.                *)
DueJobsRun ==
    \A j \in JobIds \ Orphans :
        Due(j) ~> (~Due(j) \/ Active(j) \/ Crowded)

(* catch_up_on_startup: "Disable to wait for the next scheduled occurrence instead."    *)
MissedJobsWait ==
    ~CatchUp => \A j \in JobIds : work[j] # NoWork => work[j].row.next >= bootAt
=============================================================================

------------------------------- MODULE TaskDag -------------------------------
(***************************************************************************)
(* Multi-agent orchestration of one goal: plan_goal and execute_dag        *)
(* (crates/zeroclaw-runtime/src/orchestrate/mod.rs), the task graph        *)
(* (planning/mod.rs), the reviewer-led repair loop (reflection/mod.rs) and *)
(* the core memory the tasks' agents rewrite (planning/core_memory.rs).    *)
(*                                                                         *)
(* execute_dag runs the ready tasks of the graph as one wave: all are      *)
(* marked Running, their futures are polled together, and nothing else     *)
(* starts until all of them have answered.  A step is what one future does *)
(* between two awaits.  The dispatches themselves are module SubAgents.    *)
(***************************************************************************)
EXTENDS Integers, Sequences, FiniteSets

CONSTANTS
    Ids,         \* the task ids a planner may name
    BlankId,     \* the empty id
    Agents,      \* the agent aliases of the task types
    Blocks,      \* labels of core memory blocks
    Replies,     \* what the planner may answer, as sequences of entries
    Fallback,    \* the three entries used when a reply has no task
    Configs,     \* the OrchestrationConfigs of this instance: [mode, retries]
    CoreMemory,  \* TRUE: with_planner_core_memory was called
    MaxFaults    \* bound: how often the core memory file fails to be read or written whole

Entries == [id : Ids \cup {BlankId}, agent : Agents, deps : SUBSET Ids]

ASSUME TaskDagAssumption ==
    /\ BlankId \notin Ids
    /\ Replies \subseteq Seq(Entries)
    /\ Fallback \in Seq(Entries) /\ Fallback # << >>
    /\ \A i \in DOMAIN Fallback : Fallback[i].id # BlankId
    /\ Configs \subseteq [mode : {"FailFast", "ContinueOnFailure"}, retries : Nat]
    /\ CoreMemory \in BOOLEAN
    /\ MaxFaults \in Nat

VARIABLES
    config,     \* the OrchestrationConfig of this orchestration
    phase,      \* where run_goal is
    task,       \* TaskDag.tasks: id |-> [agent, deps, status]
    job,        \* id |-> what the task's future holds
    wave,       \* the tasks whose futures are joined
    results,    \* task_results: id |-> status
    success,    \* OrchestrationResult.success
    published,  \* keys of the shared artifact memory
    store,      \* the core memory file: agent |-> block |-> who wrote the value
    faults      \* history: how often that file failed

vars == <<config, phase, task, job, wave, results, success, published, store, faults>>

FailFast == config.mode = "FailFast"
MaxRetries == config.retries
Known == DOMAIN task
Statuses == {"Pending", "Ready", "Running", "Completed", "Failed"}
Over == {"Completed", "Failed"}
\* The value of a block nobody has updated: blank, as no task writes it.
Default == BlankId
FreshMemory == [b \in Blocks |-> Default]
\* What is read from a file that is missing, or cannot be read or parsed: no entry, and
\* defaults for every agent.  A file torn by a write is such a file.
NoStore == [a \in Agents |-> FreshMemory]

-----------------------------------------------------------------------------
(* plan_goal: entries without an id are skipped, a repeated id overwrites. *)

NewTask(e) == [agent |-> e.agent, deps |-> e.deps,
               status |-> IF e.deps = {} THEN "Ready" ELSE "Pending"]

LastEntry(entries, id) ==
    entries[CHOOSE i \in DOMAIN entries :
               /\ entries[i].id = id
               /\ \A j \in DOMAIN entries : entries[j].id = id => j <= i]

\* Deviation: an entry without an id is planned.
NamedIds_WithBlank(entries) == {entries[i].id : i \in DOMAIN entries}

NamedIds(entries) == {entries[i].id : i \in DOMAIN entries} \ {BlankId}

DagOf(entries) == [t \in NamedIds(entries) |-> NewTask(LastEntry(entries, t))]

IdleJob == [at |-> "idle", executions |-> 0, retries |-> 0, answered |-> FALSE,
            updates |-> {}, memory |-> FreshMemory, misread |-> FALSE, seen |-> {}]

-----------------------------------------------------------------------------
(* The graph. *)

\* Deviation: a dependency that failed counts as met.
DependenciesMet_Over(g, t) == \A d \in g[t].deps \cap DOMAIN g : g[d].status \in Over

\* Unknown dependencies count as met.
DependenciesMet(g, t) == \A d \in g[t].deps \cap DOMAIN g : g[d].status = "Completed"

GetReadyTasks(g) ==
    {t \in DOMAIN g : \/ g[t].status = "Ready"
                      \/ g[t].status = "Pending" /\ DependenciesMet(g, t)}

IsComplete(g) == \A t \in DOMAIN g : g[t].status = "Completed"
HasFailures(g) == \E t \in DOMAIN g : g[t].status = "Failed"

\* A completed task unlocks every pending task that waits for nothing else.
UpdateStatus(g, t, new) ==
    LET h == [g EXCEPT ![t].status = new]
    IN  IF new # "Completed" THEN h
        ELSE [u \in DOMAIN h |->
                 IF h[u].status = "Pending" /\ DependenciesMet(h, u)
                 THEN [h[u] EXCEPT !.status = "Ready"] ELSE h[u]]

-----------------------------------------------------------------------------
Init ==
    /\ config \in Configs
    /\ phase = "planning"
    /\ task = << >> /\ job = << >>
    /\ wave = {}
    /\ results = << >> /\ success = FALSE
    /\ published = {}
    /\ store = NoStore /\ faults = 0

PlanFails ==
    /\ phase = "planning"
    /\ phase' = "failed"
    /\ UNCHANGED <<config, task, job, wave, results, success, published, store, faults>>

PlanGoal(reply) ==
    /\ phase = "planning"
    /\ phase' = "picking"
    /\ task' = DagOf(IF NamedIds(reply) = {} THEN Fallback ELSE reply)
    /\ job' = [t \in DOMAIN task' |-> IdleJob]
    /\ UNCHANGED <<config, wave, results, success, published, store, faults>>

Fault == faults < MaxFaults /\ faults' = faults + 1

LoadMemory(t, misread) == IF t \in misread THEN FreshMemory ELSE store[task[t].agent]

\* Every ready task is marked and its agent's memory loaded before the first of
\* their futures is polled.  The file is read once for each task.
StartWave ==
    LET ready == GetReadyTasks(task) IN
    /\ phase = "picking" /\ ready # {}
    /\ phase' = "wave" /\ wave' = ready
    /\ task' = [t \in Known |-> IF t \in ready THEN [task[t] EXCEPT !.status = "Running"]
                                ELSE task[t]]
    /\ \E misread \in SUBSET ready :
          /\ \/ misread = {} /\ UNCHANGED faults
             \/ misread # {} /\ CoreMemory /\ MaxRetries > 0 /\ Fault
          /\ job' = [t \in Known |-> IF t \in ready
                                     THEN [job[t] EXCEPT !.at = "queued",
                                                         !.memory = LoadMemory(t, misread),
                                                         !.misread = t \in misread]
                                     ELSE job[t]]
    /\ UNCHANGED <<config, results, success, published, store>>

\* Nothing is ready: complete, failed or stalled.
Finish ==
    /\ phase = "picking" /\ GetReadyTasks(task) = {}
    /\ phase' = "done"
    /\ success' = (IsComplete(task) /\ ~HasFailures(task))
    /\ UNCHANGED <<config, task, job, wave, results, published, store, faults>>

-----------------------------------------------------------------------------
(* The future of a task. *)

\* The first poll: the keys of the shared memory go into the prompt.  An image in it
\* is analysed by one more dispatch, which changes nothing when it fails.
Begin(t) ==
    /\ job[t].at = "queued"
    /\ job' = [job EXCEPT ![t].at = "executing", ![t].seen = published]
    /\ UNCHANGED <<config, phase, task, wave, results, success, published, store, faults>>

\* parse_and_apply_memory_updates on the memory loaded before the wave, then
\* save_memory: the file is read, the agent's whole memory put in, and all of it
\* written back in place.
\* Deviation: an agent's memory is loaded once and for all.
SavedMemory_FromDefault(t) ==
    [b \in Blocks |-> IF b \in job[t].updates THEN t ELSE Default]

SavedMemory(t) ==
    [b \in Blocks |-> IF b \in job[t].updates THEN t ELSE job[t].memory[b]]

SaveMemory(t, file) == [file EXCEPT ![task[t].agent] = SavedMemory(t)]

\* A file that cannot be read is replaced by one with this agent alone; a write may fail
\* with the file as it was, which is logged, or torn.
ApplyMemoryUpdates(t) ==
    \/ UNCHANGED <<store, faults>>
    \/ /\ CoreMemory /\ job[t].updates # {}
       /\ \/ store' = SaveMemory(t, store) /\ UNCHANGED faults
          \/ store' \in {SaveMemory(t, NoStore), NoStore} /\ Fault

\* The end of the future, without an await in between.
\* Deviation: the output is kept in the graph alone.
Succeed_NotPublished(t) ==
    /\ published' = published
    /\ task' = UpdateStatus(task, t, "Completed")

Succeed(t) ==
    /\ published' = published \cup {t}
    /\ task' = UpdateStatus(task, t, "Completed")

\* Deviation: a failed task is ready again for the next wave.
Fail_Requeue(t) ==
    /\ job' = [job EXCEPT ![t].at = "settled"]
    /\ task' = UpdateStatus(task, t, "Ready")
    /\ UNCHANGED published

Fail(t) ==
    /\ job' = [job EXCEPT ![t].at = "settled"]
    /\ task' = UpdateStatus(task, t, "Failed")
    /\ UNCHANGED published

\* The agent answers; updates are the blocks its output rewrites.
Answer(t, updates) ==
    /\ job[t].at = "executing"
    /\ job' = [job EXCEPT ![t].at = IF MaxRetries = 0 THEN "settled" ELSE "reviewing",
                          ![t].executions = @ + 1,
                          ![t].answered = TRUE, ![t].updates = updates]
    /\ IF MaxRetries = 0 THEN Succeed(t) ELSE UNCHANGED <<task, published>>
    /\ UNCHANGED <<config, phase, wave, results, success, store, faults>>

\* A dispatch to the agent or to the reviewer fails: run_self_repair returns the error.
DispatchFails(t) ==
    /\ job[t].at \in {"executing", "reviewing"}
    /\ Fail(t)
    /\ UNCHANGED <<config, phase, wave, results, success, store, faults>>

Accept(t) ==
    /\ job' = [job EXCEPT ![t].at = "settled"]
    /\ ApplyMemoryUpdates(t)
    /\ Succeed(t)
    /\ UNCHANGED <<config, phase, wave, results, success>>

Approve(t) == job[t].at = "reviewing" /\ Accept(t)

\* Deviation: the retry is compared before it is counted.
OutOfRetries_Late(t) == job[t].retries > MaxRetries

OutOfRetries(t) == job[t].retries + 1 > MaxRetries

\* The last output is accepted; any other is repaired.
Reject(t) ==
    /\ job[t].at = "reviewing"
    /\ \/ OutOfRetries(t) /\ Accept(t)
       \/ /\ ~OutOfRetries(t)
          /\ job' = [job EXCEPT ![t].at = "executing", ![t].retries = @ + 1]
          /\ UNCHANGED <<config, phase, task, wave, results, success, published, store, faults>>

-----------------------------------------------------------------------------
FailedOf(S) == {t \in S : task[t].status = "Failed"}

Record(S) ==
    results' = [t \in DOMAIN results \cup S |->
                   IF t \in S THEN task[t].status ELSE results[t]]

\* Deviation: the wave goes on although a task failed.
Triggered_Never(S) == FALSE

\* Deviation: every failure stops the run, whatever the mode.
Triggered_Always(S) == FailedOf(S) # {}

Triggered(S) == FailFast /\ FailedOf(S) # {}

\* join_all has every result.  They are recorded in the order of the wave, which is a
\* hash map's; fail-fast returns at the first failed one and drops those after it.
JoinWave ==
    /\ phase = "wave" /\ \A t \in wave : job[t].at = "settled"
    /\ wave' = {}
    /\ IF Triggered(wave)
       THEN /\ phase' = "done"
            /\ \E f \in FailedOf(wave), before \in SUBSET (wave \ FailedOf(wave)) :
                  Record(before \cup {f})
       ELSE phase' = "picking" /\ Record(wave)
    /\ UNCHANGED <<config, task, job, success, published, store, faults>>

TaskStep(t) ==
    \/ Begin(t) \/ DispatchFails(t) \/ Approve(t) \/ Reject(t)
    \/ \E updates \in SUBSET Blocks : Answer(t, updates)

ExecuteDag == StartWave \/ Finish \/ JoinWave \/ \E t \in Known : TaskStep(t)

Returned == phase \in {"done", "failed"} /\ UNCHANGED vars

Next ==
    \/ PlanFails
    \/ \E reply \in Replies : PlanGoal(reply)
    \/ ExecuteDag
    \/ Returned

\* Every dispatch ends, at the latest when its time is up (SubAgents), and the loop of
\* execute_dag then goes on.
Spec == Init /\ [][Next]_vars /\ WF_vars(ExecuteDag)

-----------------------------------------------------------------------------
(* Properties. *)

\* Every variable has its type.
TypeOK ==
    /\ config \in Configs
    /\ phase \in {"planning", "picking", "wave", "done", "failed"}
    /\ Known \subseteq Ids /\ DOMAIN job = Known /\ wave \subseteq Known
    /\ task \in [Known -> [agent : Agents, deps : SUBSET Ids, status : Statuses]]
    /\ job \in [Known -> [at : {"idle", "queued", "executing", "reviewing", "settled"},
                          executions : Nat, retries : Nat, answered : BOOLEAN,
                          updates : SUBSET Blocks,
                          memory : [Blocks -> Ids \cup {Default}],
                          misread : BOOLEAN, seen : SUBSET Ids]]
    /\ DOMAIN results \subseteq Known /\ results \in [DOMAIN results -> Over]
    /\ success \in BOOLEAN
    /\ published \subseteq Known
    /\ store \in [Agents -> [Blocks -> Ids \cup {Default}]]
    /\ faults \in 0..MaxFaults

Dependencies(t) == task[t].deps \cap Known

\* A task that runs, or ran, has all the dependencies the plan knows completed, however
\* the waves fall and whichever tasks fail (get_ready_tasks and the cascade of
\* update_status).
RunsAfterDependencies ==
    \A t \in Known : task[t].status \in {"Running"} \cup Over =>
        \A d \in Dependencies(t) : task[d].status = "Completed"

\* When a task's prompt is put together the artifacts of all its dependencies have been
\* published (execute_dag publishes before it updates the graph).
SeesDependencies ==
    \A t \in Known : job[t].at \notin {"idle", "queued"} => Dependencies(t) \subseteq job[t].seen

\* A task's agent is dispatched to at most once more than the retries allow, over all
\* the waves (run_self_repair, and no task in two waves).
RepairsBounded == \A t \in Known : job[t].executions <= MaxRetries + 1

\* What is returned agrees with the graph: success means every task completed, a result
\* is that of a task which ended, and in continue mode every task that started has one.
ResultsHonest ==
    phase = "done" =>
        /\ success <=> \A t \in Known : task[t].status = "Completed"
        /\ \A t \in DOMAIN results : results[t] = task[t].status
        /\ ~FailFast => DOMAIN results = {t \in Known : job[t].at # "idle"}
        /\ success => DOMAIN results = Known

\* A value in the core memory file is lost only to a save of its own agent whose output
\* rewrites the block, which was written in the same wave, or whose task could not read
\* the file when its wave began; or when the file fails during the save, which may lose
\* the entries of every agent.  What an earlier wave wrote survives anything else.
EarlierWavesKept ==
    [][\A a \in Agents, b \in Blocks : store[a][b] # Default /\ store'[a][b] # store[a][b] =>
           \/ faults' # faults
           \/ \E t \in wave :
                 /\ task[t].agent = a
                 /\ b \in job[t].updates \/ store[a][b] \in wave \/ job[t].misread]_vars

\* The orchestration of any plan returns, of a cyclic one too.
Terminates == phase = "picking" ~> phase = "done"

StageOf(status) ==
    CASE status \in {"Pending", "Ready"} -> "waiting" [] status = "Running" -> "running"
      [] status = "Completed" -> "done" [] status = "Failed" -> "failed"

Flow == INSTANCE TaskFlow WITH
    strict <- FailFast,
    needs <- [t \in Known |-> Dependencies(t)],
    stage <- [t \in Known |-> StageOf(task[t].status)],
    verdict <- IF phase \in {"planning", "picking", "wave"} THEN "open"
               ELSE IF success THEN "success" ELSE "failure"

\* execute_dag implements TaskFlow: waves and repairs are steps of it or stutters.
ImplementsFlow == Flow!Spec

(* What the code says of itself and does not do. *)

\* reflection/mod.rs:350: "Next load from disk will pick up the changes": a saved update
\* is on disk until the same block is updated again.
UpdatesKept ==
    [][\A a \in Agents, b \in Blocks : store'[a][b] # store[a][b] => store'[a][b] # Default]_vars
=============================================================================

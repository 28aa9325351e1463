# A verification project for openz-agent

TLA+ modules that model the parts of the ZeroClaw runtime in which order, concurrency,
failure or a bound decide whether the program is right; TLC configurations that check them
on small instances; and proofs, checked by TLAPS, that hold for every value of the constants.

`PROJECT.json` lists components, runs, findings, hazards and theorems and maps every
definition to the lines it stands for. This file explains them.

## 1. The system

openz-agent is an autonomous agent runtime in Rust: a workspace of crates around
`zeroclaw-runtime`, with a command line and daemon on top. Messages arrive on channels, through the gateway,
from a schedule or from the command line; the agent loop answers each with the help of a
model provider and of tools; some tools start further agents or long-running procedures.

### Inventory

| Component | Where | State it keeps | Operations | What is hard about it |
|---|---|---|---|---|
| SOP engine | `runtime/src/sop/engine.rs`, `types.rs` | loaded procedures, active runs, a bounded list of finished runs, state files of deterministic runs | start, advance, approve, cancel, approval timeouts, deterministic advance, checkpoint, resume, reload | approval gates that any caller may try to pass, slots taken and returned on different paths, a cooldown measured from an evicting list, state files read back later |
| SOP callers | `runtime/src/sop/dispatch.rs`, `audit.rs`, `metrics.rs`, `runtime/src/tools/sop_*.rs` | audit records, metric windows, cron cache | dispatch of events, agent tools, cron check, audit writes | matching, starting and auditing are under three separate locks |
| Sub-agents | `runtime/src/subagent/`, `tools/spawn_subagent.rs`, `tools/subagent_manage.rs`, `agent/auto_dispatch.rs` | process-wide registry of handles, a process-wide counter | spawn (four ways), list, status, stop, set_model, monitor, dispatch with fallbacks | two gates over the same runs, racing terminal states, futures that are dropped, tokens that nothing observes |
| Multi-agent orchestrator | `runtime/src/orchestrate/`, `planning/`, `reflection/` | task graph, results, shared artifacts, core memory file | plan, run waves of tasks, review and repair, update memory | waves over a changing graph, partial failure in two modes, memory read before and written after an await |
| Cron | `runtime/src/cron/` | job table in SQLite, run history | add, update, remove, sync of declared jobs, catch-up, due jobs, run with retries, reschedule or retire | a crash or an edit between a run and the write of its result, a history that cannot be written, rows that fill every poll |
| Cost tracking | `config/src/cost/tracker.rs`, `runtime/src/agent/cost.rs` | usage file, cached daily and monthly sums | check budget, record usage, summaries | check and record are apart, caches roll over with the date |
| Agent loop | `runtime/src/agent/` | history, loop detector, tool results | one turn: call the model, run tools, prune and compress | parallel tools, cancellation, limits on iterations |
| Channels | `channels/src/orchestrator/`, one module per channel | in-flight task per sender, permits, conversation histories, flags of new sessions | receive, debounce, dispatch, interrupt, `/stop`, `/new`, answer, roll back, compact | a newer message against a running turn, a bounded number of workers, wakeups, a history kept twice |
| Gateway | `gateway/src/` | idempotency keys, rate windows, pairing, nodes | webhook, web socket, pairing, configuration | replay and rate windows under a clock, concurrent pairing |
| Providers | `providers/src/reliable.rs` and one module per service | cooldowns, key rotation | chat with retries and fallbacks | nested retry loops, rate limits |
| Memory | `memory/src/` | SQLite and vector stores | store, recall, forget, hygiene | mostly database calls |
| Infrastructure | `infra/src/` | stored sessions, debounce windows, stall clocks | append, remove last, load, debounce, watch | the abort of a timer against its firing |
| Approval, trust, security | `runtime/src/approval/`, `trust/`, `security/` | session allowlist, trust scores, audit chain, emergency stop, pairing | ask, decide, record, verify | a hash chain across restarts, codes used once |
| Configuration | `config/src/` | the schema and its migrations | load, migrate, save | size; no concurrency of its own |
| Daemon, heartbeat, hooks, routines, skills | `runtime/src/daemon/` and beside it | supervisors, heartbeat metrics, registries | supervise, tick, run hooks | restart with backoff |
| Tools, log, plugins, parser, macros, TUI, MCP bridge | the crates of those names | little | wrappers of external services, formatting | I/O and text |
| Hardware, robot kit, firmware | those crates | device handles | serial and GPIO calls | external devices |
| Apps, web, extensions, packaging | `apps/`, `web/`, `plugins/`, `xtask/`, `scripts/` | user interface state | views, installers | outside the runtime |

How they interact: the agent loop calls tools by name; `spawn_subagent`, `subagent_manage`
and the `sop_*` tools share process-wide state with it (a registry, a counter, one engine
behind a mutex). The orchestrator uses the sub-agent dispatcher for each of its tasks, so a
task of a task graph is a handle of the registry while it runs. The MQTT channel passes
events to the SOP dispatcher. The daemon starts channels, gateway, scheduler and heartbeat.
The channels share one stream of messages, one semaphore and one debouncer; a worker's turn
goes through the agent loop, and its session store is read again at the next start. The
scheduler shares only the job table with the command line, the gateway and the cron tools.

### What makes each modelled component correct

- **SOP engine**: a run holds a slot exactly while it is live; limits and cooldown hold; a
  gated step is approved before it is reported; a checkpoint pauses; steps are reported once
  and in order; a finished run is final.
- **Sub-agents**: the first terminal status wins; a status is never seen before its result;
  the registry lists exactly what is in flight; the loops a parent runs keep the bound of its gate;
  a dispatch tries every provider once and leaves the registry in the end.
- **Orchestrator**: a task starts after all its dependencies completed and sees their
  artifacts; nothing starts after a failure in fail-fast mode; what is returned agrees with
  the graph; repairs are bounded; what earlier waves remembered survives as long as the memory
  file can be read and written; every plan ends.
- **Channels**: permits are conserved; a live turn of an interrupting channel can be reached
  by `/stop` and by the next message, and turns of one sender do not overlap; no text is lost
  or answered twice; what a restart would load agrees with what memory still has; `/new` leaves
  nothing behind; every message is dealt with.
- **Cron**: a due time that has had its run is not due again, unless the run's result was never
  written or somebody put the due time back; due times are ones the schedule
  names; the catch-up leaves nothing behind; a due job is taken up.

## 2. Modules

| Module | What it is |
|---|---|
| `SopEngine` | the engine, one action per public method (they run under one mutex) |
| `SopCallers` | who calls it: the program's own tools, or a caller that obeys the returned actions |
| `SopEngineProofs` | invariants of the engine, the cooldown, the order of steps under the tools' calls, proved |
| `SopCallersProofs` | what either caller may rely on: gates, checkpoints, order, proved |
| `SubAgents` | registry, counter, the four ways to spawn, finalisation, stop, set_model, monitor |
| `SubAgentsProofs` | the control plane's types and invariants, its gate and its attempt chains, proved |
| `TaskDag` | plan_goal, execute_dag, the repair loop, core memory |
| `TaskFlow` | the abstract promise of the orchestrator; `TaskDag` implements it |
| `TaskDagProofs` | the orchestrator's invariants, the core memory, the refinement and the end of its work, proved |
| `ChannelDispatch` | the dispatch loop, the debouncer with its timers, the workers |
| `ChannelHistory` | the same workers with what they do to a conversation in memory and in the store; implements `ChannelDispatch` |
| `ChannelDispatchProofs`, `ChannelHistoryProofs` | the dispatcher's invariants; the implementation, the promise of `/new` and that of a restart, proved |
| `Cron` | the job table, its users, the scheduler, crashes and restarts |
| `CronProofs` | the scheduler's invariants, proved |
| `InductionFacts` | induction and recursion along a sequence, stated of sets and functions, for the proofs |
| `MCSopEngine`, `MCSopCallers`, `MCSubAgents`, `MCTaskDag`, `MCChannels`, `MCCron` | instances for TLC |

### SopEngine and SopCallers

`run` is the `SopRun` of every run ever started, numbered as `run_counter` numbers them;
`active` and `finished` are the keys of `active_runs` and the list `finished_runs`. A method
is one action because every caller holds the engine's mutex. Timestamps are ages that stop
at the threshold the code compares them with, so the clock is unbounded in effect and finite
in the model. `persisted` is every state file ever written: resuming takes the state as an
argument and a caller may hold an old one. `reply` is the last `SopRunAction` of a run.
`granted` and `lastDone` are history variables; no guard reads them.

`Next` calls the engine in any order. `SopCallers` adds a variable `caller`, which never
changes: with "tools", `ToolNext` makes the calls the program makes; with "obedient",
`ProtocolNext` follows the actions the engine returns, beside somebody who may poll the
approval timeouts. So each property says of whom it holds: of any calls (`SopEngine`), of the
program as it is, or, with the premise `Obedient`, of a well-behaved caller. Nothing in the
program polls the timeouts, so no fairness is assumed of the poll and nothing is claimed of how
long an urgent run waits.

`Reload` takes a procedure away or puts it back. What a procedure says (`Def`) is a constant: a
reload with edited definitions (engine.rs:41-53) is not modelled. Trigger matching,
step text and the savings counter of deterministic runs are left out.

### SubAgents

`sub` is every run ever begun; `registered` are the registry's keys; `counter` is
`ACTIVE_SUBAGENTS`; `swapping` are handles a `set_model` call holds and has not yet
marked. A step is what happens between two locks or awaits: gate, registration, the mark
`Running`, answer, result, status and removal are separate, and other runs, stops and the
monitor come in between. The `Cancelled` of a `set_model` that comes between registration and mark
is overwritten by the mark, as the code has it. `set_model` looks a handle up in one step; its mark
of the old run and the gate of the new one are a second, as no await lies between them.

`Tasks` says how many turns a parent has at a time. The calls of one turn are polled by one
task, which does not yield between a gate and the start of the loop; another turn of the same
parent does not wait for it. So as many of a parent's runs as it has turns can be past the gate
and not yet seen by it, and `GateHolds` counts what the gate is for, the loops
that run for a parent that spawns through the registry alone, up to `Cap + Tasks[p] - 1`: the cap itself where turns come one at a time, one more for each further
turn. A loop that `set_model` has given up is not counted: it goes on beside its successor, as
the token it was to be stopped with never reaches it. `Drops` says whether a caller's future may be
dropped, which is what cancelling a turn does.

### TaskDag and TaskFlow

`config` is the `OrchestrationConfig` of the orchestration, its failure mode and retries,
chosen at the start and kept, so that one run checks all of them. `task` is
`TaskDag.tasks`; `job` is what the future of a task holds between its awaits: its
position, its executions and retries, the last output's memory updates, the core memory it
was given and the artifacts it saw. A wave marks all ready tasks and loads their memory in
one step, as no await lies in between; then every future goes its own way; `JoinWave` is the
loop over the joined results. A wave comes from a hash map, so the order in which fail-fast
meets the first failure is arbitrary: it returns that result and any subset of the completed
ones. A planner's reply is a sequence of entries; what does not parse is a reply without
entries. `store` is the memory file: for each block, which task wrote it, as the property
needs no more, or `NoStore` where the file cannot be read. `LoadMemory` is `load_memory`: a file
that is missing, unreadable or torn gives the defaults (`misread` in the job). `SaveMemory` is
`save_memory`: where the file cannot be read it writes a store that knows this agent only, and a
failing `std::fs::write` may leave the old file or a torn one. `faults` counts such failures, up to
`MaxFaults`. `EarlierWavesKept` names what it excepts: a save during which the file fails, or
one by a task whose wave could not read the file when it began. The core memory and the shared
artifacts are options of the library's builder
(`with_planner_core_memory`, `with_shared_memory`) that the command line does not set.

`TaskFlow` has tasks that wait, run, are done or failed, a verdict, and a flag `strict`
(fail-fast: nothing starts after a failure), and nothing else. Waves, repairs, memory and
the planner are absent from it: each is a step of the flow or a stutter.

### ChannelDispatch and ChannelHistory

`task` is the stream of messages with what became of each: `phase` says which await of
`run_message_dispatch_loop`, of the debouncer or of `dispatch_worker` it has reached, `prev`
the predecessor it replaced in `in_flight_by_sender`, `cancelled` and `done` the token and the
completion flag of its `InFlightSenderTaskState`, `timer` its debounce task, `parts` the
messages its text was joined from. `inFlight` is the map, `permits` the semaphore, `entry` the
debouncer's map. The loop receives in order and stops while it waits for a permit
(`holding`); everything else is a task of its own, so a step is what happens between two locks
or awaits. `InFlightTaskCompletion` is finer: the look at the flag (`Load`), the subscription
(`Subscribe`) and `mark_done` are separate steps, as they are atomic operations of two threads.
`AfterAbort` is what `JoinHandle::abort` promises on a runtime with several threads: a timer
that is being polled at that moment still takes the lock and fires (`Fire`), and sends what the
key's window holds by then. A place is what the code derives from a message's origin; the
streams to consider are a constant, so any interleaving of places is an instance.

`ChannelHistory` refines the worker's body: `opening` and `answering` become the writes to
`conversation_histories` (`hist`), the session store (`stored`) and `pending_new_sessions`
(`fresh`). `append_sender_turn` writes the store and then memory, two steps with other workers
in between. A turn is its role and the messages its text is made of, -i being the answer to i.
Turns of tools, the shortening of long texts and compaction's summaries are left out; a write
to the store succeeds.

The memory of an agent is an LRU of `MaxSenders` (`MAX_CONVERSATION_SENDERS`) conversations:
`cached` are its keys, and an entry for a new one pushes another out of a full memory (`Evictions`).
Which of them was used least recently is left open. `evicted` remembers the conversations pushed
out since they last began anew. `Hydrated` is the set of what `start_channels` may put into memory for
a conversation: the newest `MaxLoaded` turns of the store (`Loaded`) and, where the last of them is
a user's, the marker that closes it (`Closure`); or nothing, where no agent owns the channel, the
budget of sessions is spent, or another session pushes it out. `RestartSeesMemory` says that what is
loaded agrees with memory from the end, and that where memory holds nothing nothing is loaded, but
for evicted senders, whose conversation a restart does bring back. It is claimed of conversations
in which turns do not overlap (`Serial`): of others it is false (section 3).

### Cron

`rows` is the table, `work` the batch of `process_due_jobs`: for each job the row as it was
read and how far its run is. Polls, runs and results are steps of their own, and the users of
the table act in between; `update_job` reads the row (`ReadForEdit`) and writes all of it
(`WriteEdit`). A schedule is `every` n, `at` a time, or a `cron` expression, given by the times
it names. `Persist` is the transaction with its fallback: history and row together, or the row
alone, or, when even that fails or the expression has no next time, nothing. Jobs
whose agent is not configured (`Orphans`) are read and skipped, as the code has it.

A crash loses the batch. `Start` begins the synchronisation of the declared jobs; each job is a
step (`SyncJob`, its SELECT and its UPDATE or INSERT in one), first the removals, then the
declarations in any order, as no transaction surrounds them. A statement that fails, or a schedule
without a next time, ends the synchronisation half way (`SyncFails`): the code warns
(scheduler.rs:112) and the scheduler goes on. A catch-up whose query fails leaves the missed jobs to
the polls. The removal of undeclared jobs for an empty configuration is a single DELETE in the code
and goes one by one in the model, which allows more.

`completed` remembers the due times of a job whose run and delivery have ended, written or not.
`excused` are those of them that may be due again, for one of three reasons: the run's result was never
written (a crash came first, both writes failed, or the schedule names no later time); an edit
or a resume wrote back a row it had read before; or a declared one-shot was inserted anew. The
next end of a run at that time takes the excuse back. `DoneIsDone` is claimed of every job and every other
due time. `disturbed` are jobs edited across a run of theirs or during the catch-up, or whose result
could not be written; `DueTimesFit` and `CatchUpMissesNone` are not claimed of them.

## 3. Runs

Deadlock is checked in every run except those of `SubAgents`, where everything may have
returned and the bound on runs is reached, of the channels, where the stream comes to its end,
and of `Cron`, where time does.

| Run | Instance | What it shows |
|---|---|---|
| `sop_engine` | 3 procedures (step by step, urgent, deterministic with checkpoints), one of them reloadable, 2 runs, a list of 1 finished run, state files that may fail to be written | under any sequence of calls: types, a run is in exactly one of the two tables as its status says, a finished run is final |
| `sop_callers` | the same procedures with two steps and fewer choices, 3 runs, nothing evicted, both callers | the obedient caller passes no gate, approves only what asked and pauses at checkpoints; of both callers: steps in order, open gates visible, limits and cooldown |
| `sub_agents` | 2 runs of any of the four kinds, a parent with one turn at a time and one with two, drops, swaps, targets with blank, repeated and too many providers, 2 attempts | counter, the running loops of a parent within its gate's bound, first terminal status, result before status, registry against runs in flight, attempt chain; a dispatch leaves the registry |
| `task_dag` | a fork of one agent with a task after one branch, the fallback plan, and five odd plans (none, cycle, unknown and own dependency, repeated and blank ids), both failure modes with 0 and 1 retries, 2 blocks of core memory, one failure of the memory file | order, artifacts, results, repairs, memory across waves, the refinement, and that every orchestration ends |
| `channels` | streams of 3 messages in an interrupting chat (turns, `/new`, `/stop`), in a chat with a debounce window, in a room without interruption, in a chat and a room that push each other out of a memory of one sender, and across a stranger, the console and a chat; 2 permits, histories of 4 turns compacted to 2, a restart that loads 3 | permits, reach of `/stop`, one turn at a time, each text once, `/new` empties both copies, a restart sees what memory has, every message ends |
| `cron` | 3 jobs (two of them declared, enabled or not, in one of three configurations, one without an owner) with `at`, `every` and `cron` schedules, time up to 2, batches of 2, one run at a time, one edit, one fault: a crash, or a failing query, write or synchronisation | what has run is not due again, due times fit, the catch-up is complete, due jobs are run |

The bounds. Two runs of a procedure are enough for a slot to be contended, a third to be
refused or to meet a cooldown, and a list of one finished run evicts at the second. The
approval timeout is 2 in `sop_engine`, so that a poll may find a run waiting and not yet
overdue, and 1 in `sop_callers`. A cap of one sub-agent is full with the first run and
knocked on by the second, of the same turn or of another one. The fork gives a failure beside a
task whose dependents could go on and two waves of one agent, the chains three waves and a task with
two dependencies; two blocks let a save carry one update and revert another, and one failure of the
file tears it or makes a wave misread it. A step list has at most three steps,
so a gate or a checkpoint comes first, in the middle and last. Three messages give a chain of
interruptions with a middle, a window that a late timer splits, a `/new` or `/stop` between two
turns, and one message more than there are permits; a history of four turns is reached by the
third answer and compacted; a restart that loads three turns reads less than memory has, and after
a compaction more; a memory of one sender is full with the first. Two time steps take a job from
missed to due, run and due again around a crash, a restart with another configuration and an edit; three jobs are more than a
poll takes, which is what the catch-up must not be. The proofs of section 4 do not
depend on any of these bounds.

### Fairness

- `TimedSpec` (`DispatchLeaves`): an attempt ends, since a `tokio::time::timeout` bounds it, and
  the code after it runs unless the future was dropped. Nothing is assumed of the other kinds,
  whose loops have no bound of their own.
- `TaskDag!Spec` (`Terminates`): some step of `execute_dag` is taken as long as one can be; it is one
  task, and a dispatch ends at the latest when its time is up.
- `FairHistSpec` (`EveryMessageEnds`): the loop and the timers are polled, a worker makes its
  steps, and a turn ends because `channel_message_timeout_secs` bounds it. That bound is around the
  tool loop only: the reply-intent check before it (mod.rs:3500) and the compressor (mod.rs:3475) ask
  a provider outside of it, and that they end is assumed of the providers' own timeouts. What a lost wakeup
  holds up is stated as an exception, and `channel_wakeup` shows that it happens.
- `FairSpec` of `Cron` (`DueJobsRun`): the daemon is started again after a crash, its interval
  ticks, and runs end. A shell job has a limit of 120 seconds; that an agent's job ends is
  assumed of the agent loop, and the scheduler is indeed blocked by one that does not.

### Where the code does not do what it says

Each of these runs checks one sentence of the repository and finds it violated; the finding
in `PROJECT.json` quotes the sentence.

| Run | What happens |
|---|---|
| `sop_tool_gate` | `sop_advance` reports a step that says `requires_confirmation`, of a run that waits for its approval, without one |
| `sub_cap` | the two spawning tools together pass the cap that is called unified |
| `sub_stop` | a stopped run completes |
| `dag_memory` | concurrent saves of one agent's memory lose an update |
| `channel_wakeup` | a message that interrupts another may wait for ever: `mark_done` notifies between the successor's look at the flag and its subscription |
| `cron_catch_up` | with the catch-up switched off, the first poll runs the missed jobs all the same |

Others met while modelling, which the modules show as the code has them (paths under
`crates/zeroclaw-runtime/src/`):

- `sop/engine.rs:797`: evicting a finished run forgets the cooldown it stands for; that is
  why `CooldownHonoured` is checked where nothing is evicted.
- `sop/engine.rs:573`: resuming from a checkpoint's state enters the same checkpoint again.
- `sop/engine.rs:620`: a deterministic start whose state file cannot be written reports an
  error and keeps its slot.
- `sop/engine.rs:209`: `sop_advance` also goes through the checkpoints of a deterministic run.
- `sop/dispatch.rs:227`: nothing in the program polls approval timeouts, although the comment at
  :204 says "approval timeout polling in the scheduler handles progression"; a headless run, an urgent
  one too, waits until somebody approves it. Hence no liveness property of approvals.
- `tools/spawn_subagent.rs:299`: a dropped caller leaves its handle listed as running; hence
  the exception in `InFlightOnly`.
- `tools/subagent_manage.rs:370`: `set_status(Running)` after the registration overwrites the
  `Cancelled` of a `set_model` that came in between, and the run counts again.
- `tools/subagent_manage.rs`: a loop that `set_model` replaces goes on running beside its
  successor; hence `GateHolds` does not count it.
- `subagent/orchestrator.rs:392`: the monitor cancels an overdue run's token and leaves the
  run as it is.
- `agent/auto_dispatch.rs:626`: an empty answer is a completed run without output; hence the
  exception in `ResultBeforeStatus`.
- `subagent/orchestrator.rs:249`: a limit of one attempt gives two, as the length is looked at
  after the first fallback, where the comment at :230 says "up to `max_attempts - 1` entries from
  `model_fallbacks`" and `with_max_attempts` (:133) allows a one; hence the limit of two in the
  runs and the premise of `ChainsAreRight`.
- `orchestrate/mod.rs:626`: fail-fast drops the results of tasks that completed in the same wave.
- `orchestrate/mod.rs:415`: the orchestration returns with the dependents of a failed task
  neither completed nor failed.
- `planning/core_memory.rs:162-210`: a memory file that cannot be read is taken for an empty one, and
  the next save keeps one agent of it; the file is not replaced atomically. Hence the exceptions in
  `EarlierWavesKept`.
- `reflection/mod.rs:262`: an error of the reviewer discards the answer it was to review.
- `orchestrate/mod.rs:92`: `task_timeout` is never read.

In the channels (paths under `crates/`), besides:

- `zeroclaw-channels/src/orchestrator/mod.rs:500`: the scope of an interruption lacks the alias
  that the key of the history has; two accounts of a channel interrupt each other's senders.
- `zeroclaw-channels/src/orchestrator/mod.rs:4520`: where messages do not interrupt, the map
  lists the last one only, and `/stop` reaches none of the others; hence the premise of
  `StopReaches`.
- `zeroclaw-channels/src/orchestrator/mod.rs:4634`: `/stop` takes the entry out of the map, so
  the next message does not wait for the stopped turn; hence the exception in `OneAtATime`.
- `zeroclaw-channels/src/orchestrator/mod.rs:456`: a worker that missed its wakeup keeps its permit.
- `zeroclaw-infra/src/debounce.rs:73`: `/new` inside a window is joined with its neighbours and
  is a command, and swallows the rest, only if it comes first (`IsNew`).
- `zeroclaw-channels/src/orchestrator/mod.rs:1239`: a compaction is not written to the store, so
  a restart may read turns that memory had given up. The other way round, memory joins turns out of
  place into one (`Normalized`) where the store keeps each, so that memory may reach farther back than
  the newest turns a restart loads. `RestartSeesMemory` therefore compares the words of both from
  the end, as far back as both go.

- `zeroclaw-channels/src/orchestrator/mod.rs:1328`: a sender pushed out of memory begins from nothing
  there while the store keeps the conversation, and a restart brings it back; hence `evicted` in
  `RestartSeesMemory`.
- `zeroclaw-channels/src/orchestrator/mod.rs:1446`: where messages do not interrupt, two of one sender
  may run side by side. The second stores its turn, then the first fails and rolls back:
  memory's last turn is its own and is removed, but `remove_last` takes the second's turn out of the
  store. The turn of the failed request stays there and is loaded at the next start, against the comment
  at :1444, "so it doesn't resurface after a daemon restart (fixes #3674)". Hence the premise `Serial` of
  `RestartSeesMemory`.

In the scheduler (paths under `crates/zeroclaw-runtime/src/cron/`):

- `store.rs:358`: an edit begun before a run and written after it puts the old due time back.
- `store.rs:1188`: a run's result is applied by the schedule as it was read, over one that was edited
  since; hence `disturbed` in `DueTimesFit`.
- `scheduler.rs:400`: a crash after a run and its delivery and before the write of its result runs
  the job again at the next start; hence `excused` in `DoneIsDone`.
- `store.rs:958`: a declared one-shot job that deleted itself is inserted again at the next start, and
  runs again; hence `excused`.
- `scheduler.rs:112`: a synchronisation that fails half way is a warning; the scheduler works on with the
  rows as they are. `scheduler.rs:202`: so is a catch-up whose query fails.
- `scheduler.rs:333`: jobs without an owner stay due, and enough of them fill every poll;
  hence `Crowded` in `DueJobsRun`.

## 4. Proofs

Eight modules hold theorems; all are checked to the last leaf. No theorem rests on an
assumption other than the named `ASSUME` of its module, which states only what the types of
the configuration say. `PROJECT.json` lists the results a reader should know of.

Induction is done with sets, as the library's induction theorems take a predicate for a
parameter: `WFMin` says that a non-empty set has a minimal element of a well-founded relation, and
`InductionFacts` derives from it that a set of naturals that contains the base and is closed
under the step contains them all (`UpTo`), the same for the sequences over a set
(`AllSequences`), and that a function defined by recursion along a sequence exists and satisfies
its equations (`RunExists`, `RunsAgree`). With these, what `AttemptProviders`, `Normalized` and
`Words` compute is proved for every input, and not only checked on small ones.

**SOP engine** (`SopEngineProofs`, `SopCallersProofs`). Every action has one of three effects on runs and slots:
it starts a run, rewrites a live one or finishes one (`Starts`, `Rewrites`, `Finishes`);
`StepEffect` proves this once, and the invariants are proved of the effects.
`RunsPartitioned` is not inductive without the types; with them, `active` is the set of live
runs and `finished` holds no id twice. The limits need that `can_start` counts exactly the
runs that are active. For `StepsInOrder`, under the calls the tools make, results and status
of one run are related by `InOrder`, which each effect keeps. `CooldownKept` needs that the
latest entry of a SOP in `finished_runs` is as old as the end of its last run
(`LatestIsLast`); the premise `MaxFinished = 0` is there because eviction takes that entry away,
and the cooldown with it. The gates are proved in `SopCallersProofs` of both callers at once:
`CallersInv` says of each run (`Fine`) how its last reply, its status, its step, the steps
reported and the approvals agree, and a step changes one run.

**Sub-agents** (`SubAgentsProofs`). A step changes each run by a step of its own life or not
at all (`LifeStep`), and the record of one run keeps `RunOK`, which relates its phase to its
status, result and answer: `FirstTerminalWins` and `ResultBeforeStatus` follow. `Follows`
says how registry and counter move with the phases. For `CounterCounts` the set of runs
that hold a slot gains or loses one element exactly when the counter does, which is the
cardinality of a finite set with one element more or less. `GateHolds` counts the runs that
claim a place from the gate on (`Using`), whether the registry lists them or not. When one more is
admitted, those the registry lists as active are fewer than the cap, and those between gate and
start (`Entering`) are fewer than the parent's turns, as the turn that admits one is at the gate
itself (`Busy`); no step after the gate adds to the union. `TypeOK` needs that an
attempt is always one its chain has (`Tries`): `AttemptFails` looks at the chain's length, which
depends on the target and never changes (`OriginStays`). `ChainIsRight` is about what
`AttemptProviders` computes: along the fallbacks, the chain holds exactly the names met
so far that are neither blank nor repeated, in their order, until it is full (`Chains`), and
`Rank` counts the firsts up to a place, which gives the place in the chain. The theorem has
the premise `MaxAttempts > 1`, since the code breaks the promise at one (section 3). What the
chain is for every limit says `ChainFits`, from which the theorem follows: the same with the
limit replaced by `Limit`, which is two where the code's is one and the primary is not blank. By
`EveryProviderOnce` a dispatch walks that chain one by one and fails only at its end.

**Orchestrator** (`TaskDagProofs`). The steps are reduced to five effects (`Works`, `Ends`,
`StartWave`, `Finish`, `JoinWave`); `Inv` is the types, an `Order` part and an `Outcome` part.
`RunsAfterDependencies` needs that a completed task is never touched again, hence that only
tasks of the wave are running and that they are the only ones a step changes; a new task
that is marked ready from the start has no dependency at all. `RepairsBounded` needs the exact
relation of executions to retries at each position of a future (`CountsOK`). `EarlierWavesKept` needs `MemoryOK`: the
tasks of a wave that share an agent and could read the file loaded the same memory, the others have the
defaults, and every block of a file that can be read holds what they loaded, a default, or what one of
the wave wrote. That a repeated id
has a last entry is a lemma on least elements of sets of numbers. `Refines` follows step by
step from the invariant: a wave is a `Start`, the end of a future a `Finish`, the return an
`End`, the rest stutters. `WorkDwindles` is the part of `Terminates` that is a matter of
safety: `WorkLeft` is what the tasks may still need (a start, a first poll, the executions and
repairs the retries leave, an end, a join), a finite set, and each step of `execute_dag` makes it
smaller or returns. That some step is possible until it returns, and is taken, is left to TLC.

**Channels** (`ChannelDispatchProofs`, `ChannelHistoryProofs`). `DispatchInv` joins four
arguments. Permits: each step moves at most one message into or out of the set that holds
one, and the cardinality follows. Map: `Owners` and `Listed` say which message an entry may
name, from which `StopReaches` follows. `OneAtATime` is not inductive: a worker may pass its
predecessor only when that one is done, and the predecessor had its own. `Chained(r)` says
that the registered workers of a scope form a chain in the order r of their registration, each
beginning where the one before it has ended; r is guessed in the invariant (`\E r`) and extended
by `Register`. Texts: `TextInv` says that each text is in one window or one worker's parts, that
only a pending message owns a window, and that parts are increasing and end with their owner, which
is what a late timer preserves. `HistoryImplementsDispatch` maps each step of `HistSpec` to a step of
`Spec` or a stutter, as its writes happen inside the phases `opening` and `answering`; with it,
every invariant of the dispatcher is one of the detailed module, and `NewSessionStaysEmpty`
uses `OneAtATime` for it: between `/new` and the next turn nobody else writes.
`RestartIsFaithful` relates the two copies of a conversation through all writes. At rest
(`Kept`), the words of memory are the end of the words of the whole store (`Agrees`);
between the two halves of an append the store is one turn ahead
(`Half`), and while a turn is being answered both end with its question (`Asked`), which is what
a roll-back takes away from both. That `Normalized`, `Newest` and the appends keep an end of the
words rests on lemmas by induction along the sequence of turns. These relations carry the
key and the evicted set: a conversation that another pushes out has lost words of memory and none of
the store (`Lessened`), which each of them survives (`StaysTrue`), and what they say of an
empty memory they say of those not evicted only. What a restart loads is
another end of the store's words, and of two ends of one sequence one is an end of the other. The
attempt to prove it showed an earlier form of the property false, which asked that the loaded
turns reach at least as far as memory: the limit of a restart was missing from the model.

**Cron** (`CronProofs`). `CronInv` has a part for the daemon, one for the edit in progress, the
slots, and `JobInv` for each job. `DoneIsDone` needs that completed times are not in the future
(`completed[j] \subseteq 0..now`) while every reschedule, edit or new row names a time after now
(`NextFacts`, with the least element of a set of numbers) or is one that `PutBack` excuses. While a
batch holds a job, its row is due at the time it was read with, or at one that is excused or not
completed (`Settled`), so `Finish` completes no other time than the row's; and from then on only
`Persist` and `Crash` take the job out of the batch: the one writes another row or excuses, the other
excuses. `CatchUpIsComplete` follows from: whatever was due at the start is in the
batch until its result is written.

**Only model-checked**: liveness under fairness (`DispatchLeaves`, `Terminates`,
 `EveryMessageEnds`, `DueJobsRun`), which is out of the prover's reach (of `Terminates`, `WorkDwindles` proves that
there are no endless executions), and the sentences that the code does not keep, whose runs expect a violation. Every invariant
and every action property that a passing run checks is a theorem.

## 5. Plan

Done in order of weight: the engine whose gates stand between an agent and its actions, the
sub-agent control plane, the orchestrator on top of it, the dispatch of channel messages with
their histories, the scheduler. Next, in this order:

1. `SopDispatch`: match, start and audit under three locks; the cron cache; the metrics
   windows. Composes with `SopEngine`.
2. `CostTracker`: budget check against record, cached sums at the turn of a period.
3. `ReliableProvider`: retries, fallbacks and key rotation; `Approval`, the emergency stop,
   pairing codes and the audit chain of `security/`; the heartbeat and supervisors of the daemon.
4. An abstract run lifecycle that `SopEngine` and `SubAgents` both implement.

## 6. Not modelled

The agent loop's prompt construction, parsing and pruning are text; the channels' own clients, tools and
providers are wrappers of external services except where the plan names them; the
configuration schema is data; hardware, applications, web, installers and packaging lie outside the
runtime's logic. `PROJECT.json` gives the reason for each component.

Of the modelled components: in the SOP engine, a reload with edited definitions. In the
channels, the order in which an LRU ages, drafts, typing indicators, routing commands, the
turns of tools, the shortening of long texts and failing writes to the store; a panic of a
worker, as release builds abort. In the scheduler, `cron_run` on demand, which runs beside the
batch without a claim on the row, the run history and delivery but for their failures, the time of a
run, and a `delete_after_run` other than the default.

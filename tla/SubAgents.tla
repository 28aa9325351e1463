------------------------------ MODULE SubAgents ------------------------------
(***************************************************************************)
(* Sub-agent runs and the process-wide registry that lists them:           *)
(* crates/zeroclaw-runtime/src/subagent/registry.rs and orchestrator.rs,   *)
(* and the callers that create runs:                                       *)
(*   tool      tools/spawn_subagent.rs, gated by a process-wide counter    *)
(*   manage    tools/subagent_manage.rs, gated by the registry             *)
(*   auto      agent/auto_dispatch.rs, gated by the registry               *)
(*   dispatch  the orchestrator's dispatcher, not gated, with fallbacks    *)
(*                                                                         *)
(* A step is what happens between two locks or awaits: a handle is in the  *)
(* registry, for everybody to see, before it is marked Running.            *)
(***************************************************************************)
EXTENDS Integers, Sequences, FiniteSets

CONSTANTS
    Parents,      \* aliases of the agents that spawn
    Kinds,        \* for each of them, the ways it can spawn
    Names,        \* of providers
    Blank,        \* the empty one
    Targets,      \* configurations of dispatch targets: [primary, fallbacks]
    MaxAttempts,  \* SubAgentDispatcher.max_attempts
    Cap,          \* 2: the limit of both gates
    Tasks,        \* for each parent, how many tasks (turns) its calls come from
    Drops,        \* TRUE: a caller's future may be dropped
    Swaps,        \* TRUE: set_model is called
    MaxRuns       \* bound: how many runs are ever begun

AllKinds == {"tool", "manage", "auto", "dispatch"}

ASSUME SubAgentsAssumption ==
    /\ Kinds \in [Parents -> SUBSET AllKinds]
    /\ Blank \in Names /\ Targets \subseteq [primary : Names, fallbacks : Seq(Names)]
    /\ MaxAttempts \in Nat \ {0} /\ Cap \in Nat /\ MaxRuns \in Nat
    /\ Tasks \in [Parents -> Nat \ {0}] /\ Drops \in BOOLEAN /\ Swaps \in BOOLEAN

VARIABLES
    sub,         \* every run ever begun, in order
    registered,  \* the keys of the registry
    counter,     \* ACTIVE_SUBAGENTS
    swapping     \* handles a set_model call holds and has not marked yet

vars == <<sub, registered, counter, swapping>>

SubIds == DOMAIN sub
TerminalStatuses == {"Completed", "Failed", "Cancelled"}
Statuses == {"Pending", "Running"} \cup TerminalStatuses
\* Where the task that owns the run is.
Phases == {"admitted",  \* past its gate, not registered
           "counted",   \* the tool has raised the counter
           "registered", \* in the registry, not marked Running
           "running",   \* awaiting the agent loop
           "ended",     \* the loop has answered
           "recorded",  \* output or error stored in the handle
           "settled",   \* status set
           "returned", "refused", "dropped"}
Answers == {"none", "ok", "empty", "err"}

-----------------------------------------------------------------------------
(* attempt_providers: the primary, then the fallbacks that are neither blank nor  *)
(* repeated; the length is looked at after a fallback was taken.                  *)

\* Deviation: a repeated provider is tried again.
Skipped_BlankOnly(chain, name) == name = Blank

Skipped(chain, name) == name = Blank \/ \E i \in DOMAIN chain : chain[i] = name

AttemptProviders(target) ==
    LET first == IF target.primary = Blank THEN << >> ELSE <<target.primary>>
        chain[k \in 0..Len(target.fallbacks)] ==
            IF k = 0 THEN first
            ELSE LET c == chain[k - 1]
                     full == Len(c) > Len(first) /\ Len(c) >= MaxAttempts
                 IN  IF full \/ Skipped(c, target.fallbacks[k]) THEN c
                     ELSE Append(c, target.fallbacks[k])
    IN  chain[Len(target.fallbacks)]

-----------------------------------------------------------------------------
NoTarget == [primary |-> Blank, fallbacks |-> << >>]

NewSub(kind, p, phase, target) ==
    [kind |-> kind, parent |-> p, phase |-> phase,
     status |-> "Pending",
     token |-> FALSE, overdue |-> FALSE, output |-> FALSE, error |-> FALSE,
     target |-> target, at |-> 1, answer |-> "none"]

Chain(i) == AttemptProviders(sub[i].target)

Active(i) == i \in registered /\ sub[i].status \notin TerminalStatuses
ActiveFor(p) == {i \in SubIds : Active(i) /\ sub[i].parent = p}

\* set_status keeps the first terminal status.
\* Deviation: the last writer wins.
SetStatus_Last(old, new) == new

SetStatus(old, new) ==
    IF old \in TerminalStatuses /\ new \in TerminalStatuses THEN old ELSE new

Begin(new) == Len(sub) < MaxRuns /\ sub' = Append(sub, new)
Move(i, phase) == sub' = [sub EXCEPT ![i].phase = phase]

\* The calls of one turn are polled by one task, which does not yield between a gate
\* and the start of the loop, nor within set_model: so many tasks are there at most.
Between == {"admitted", "counted", "registered"}
Entering(p) == {i \in SubIds : sub[i].parent = p /\ sub[i].phase \in Between}
Swapping(p) == {i \in swapping : sub[i].parent = p}
MayCall(p) == Cardinality(Entering(p)) + Cardinality(Swapping(p)) < Tasks[p]

-----------------------------------------------------------------------------
Init ==
    /\ sub = << >>
    /\ registered = {}
    /\ counter = 0
    /\ swapping = {}

\* Deviation: the gate lets one run too many in.
RegistryGate_OffByOne(p) == Cardinality(ActiveFor(p)) <= Cap

RegistryGate(p) == Cardinality(ActiveFor(p)) < Cap

(* subagent_manage spawn and auto-dispatch: the gate, later the registration. *)
AdmitByRegistry(kind, p) ==
    /\ kind \in {"manage", "auto"} /\ MayCall(p) /\ RegistryGate(p)
    /\ Begin(NewSub(kind, p, "admitted", NoTarget))
    /\ UNCHANGED <<registered, counter, swapping>>

(* spawn_subagent: the counter is read, and raised in a second step. *)
AdmitByCounter(p) ==
    /\ MayCall(p) /\ counter < Cap
    /\ Begin(NewSub("tool", p, "admitted", NoTarget))
    /\ UNCHANGED <<registered, counter, swapping>>

RaiseCounter(i) ==
    /\ sub[i].kind = "tool" /\ sub[i].phase = "admitted"
    /\ Move(i, "counted")
    /\ counter' = counter + 1
    /\ UNCHANGED <<registered, swapping>>

\* Deviation: an early return leaves the counter raised.
GiveBack_OnReturn(i, phase) ==
    counter' = IF sub[i].kind = "tool" /\ phase = "returned" THEN counter - 1 ELSE counter

\* ActiveGuard gives the slot back on every way out.
GiveBack(i, phase) ==
    counter' = IF sub[i].kind = "tool" /\ sub[i].phase # "admitted" THEN counter - 1 ELSE counter

(* Depth, risk profile, prompt or target alias rule the call out. *)
Refuse(i) ==
    /\ \/ sub[i].phase = "counted"
       \/ sub[i].kind \in {"manage", "auto"} /\ sub[i].phase = "admitted"
    /\ GiveBack(i, "refused")
    /\ Move(i, "refused")
    /\ UNCHANGED <<registered, swapping>>

Register(i) ==
    /\ \/ sub[i].phase = "counted"
       \/ sub[i].kind \in {"manage", "auto"} /\ sub[i].phase = "admitted"
    /\ Move(i, "registered")
    /\ registered' = registered \cup {i}
    /\ UNCHANGED <<counter, swapping>>

(* set_status(Running), which replaces whatever status it finds, and the loop starts. *)
StartLoop(i) ==
    /\ sub[i].phase = "registered"
    /\ sub' = [sub EXCEPT ![i].phase = "running", ![i].status = SetStatus(@, "Running")]
    /\ UNCHANGED <<registered, counter, swapping>>

(* SubAgentDispatcher::dispatch up to the registration. *)
Dispatch(p, target) ==
    /\ MayCall(p) /\ AttemptProviders(target) # << >>
    /\ Begin(NewSub("dispatch", p, "registered", target))
    /\ registered' = registered \cup {Len(sub) + 1}
    /\ UNCHANGED <<counter, swapping>>

\* Deviation: the attempts are counted past the end of the chain.
NextAttempt_Past(i) == sub' = [sub EXCEPT ![i].at = @ + 2]

NextAttempt(i) == sub' = [sub EXCEPT ![i].at = @ + 1]

(* An attempt fails or times out and the next provider is tried. *)
AttemptFails(i) ==
    /\ sub[i].kind = "dispatch" /\ sub[i].phase = "running"
    /\ sub[i].at < Len(Chain(i))
    /\ NextAttempt(i)
    /\ UNCHANGED <<registered, counter, swapping>>

(* The agent loop answers.  It was never given the handle's token. *)
LoopEnds(i, answer) ==
    /\ sub[i].phase = "running"
    /\ answer = "empty" => sub[i].kind = "auto"
    /\ answer = "err" /\ sub[i].kind = "dispatch" => sub[i].at = Len(Chain(i))
    /\ sub' = [sub EXCEPT ![i].phase = "ended", ![i].answer = answer]
    /\ UNCHANGED <<registered, counter, swapping>>

(* Finalisation: the result, then the status, then the registry. *)
RecordResult(i) ==
    /\ sub[i].phase = "ended"
    /\ sub' = [sub EXCEPT ![i].phase = "recorded",
                          ![i].output = @ \/ sub[i].answer = "ok",
                          ![i].error = @ \/ sub[i].answer = "err"]
    /\ UNCHANGED <<registered, counter, swapping>>

\* Deviation: the status is set before the result.
SetFinalStatus_Early(i) ==
    /\ sub[i].phase \in {"ended", "recorded"}
    /\ sub' = [sub EXCEPT ![i].phase = IF @ = "recorded" THEN "settled" ELSE @,
                          ![i].status = SetStatus(@, IF sub[i].answer = "err" THEN "Failed"
                                                     ELSE "Completed")]
    /\ UNCHANGED <<registered, counter, swapping>>

SetFinalStatus(i) ==
    /\ sub[i].phase = "recorded"
    /\ sub' = [sub EXCEPT ![i].phase = "settled",
                          ![i].status = SetStatus(@, IF sub[i].answer = "err" THEN "Failed"
                                                     ELSE "Completed")]
    /\ UNCHANGED <<registered, counter, swapping>>

\* Deviation: a failed run stays in the registry.
Deregister_Success(i) ==
    /\ sub[i].phase = "settled"
    /\ registered' = IF sub[i].answer = "err" THEN registered ELSE registered \ {i}
    /\ GiveBack(i, "returned")
    /\ Move(i, "returned")
    /\ UNCHANGED swapping

Deregister(i) ==
    /\ sub[i].phase = "settled"
    /\ registered' = registered \ {i}
    /\ GiveBack(i, "returned")
    /\ Move(i, "returned")
    /\ UNCHANGED swapping

(* The future that awaits the loop is dropped: the loop stops with it and nothing *)
(* after the await is run.                                                         *)
Drop(i) ==
    /\ Drops /\ sub[i].phase = "running"
    /\ GiveBack(i, "dropped")
    /\ Move(i, "dropped")
    /\ UNCHANGED <<registered, swapping>>

-----------------------------------------------------------------------------
(* stop, by the tool or by the dispatcher, for a handle of the caller's own. *)
Stop(i) ==
    /\ i \in registered /\ ~sub[i].token
    /\ sub' = [sub EXCEPT ![i].token = TRUE]
    /\ UNCHANGED <<registered, counter, swapping>>

(* set_model: look the handle up and cancel it, then mark it and spawn again. *)
SetModelLookup(i) ==
    /\ Swaps /\ i \in registered /\ i \notin swapping /\ MayCall(sub[i].parent)
    /\ sub' = [sub EXCEPT ![i].token = TRUE]
    /\ swapping' = swapping \cup {i}
    /\ UNCHANGED <<registered, counter>>

SetModelMark(i) ==
    LET marked == [sub EXCEPT ![i].status = SetStatus(@, "Cancelled")]
        p == sub[i].parent
        inUse == {j \in ActiveFor(p) : j # i \/ marked[i].status \notin TerminalStatuses}
        respawns == Cardinality(inUse) < Cap /\ Len(sub) < MaxRuns
    IN  /\ i \in swapping
        /\ sub' = IF respawns THEN Append(marked, NewSub("manage", p, "admitted", NoTarget)) ELSE marked
        /\ swapping' = swapping \ {i}
        /\ UNCHANGED <<registered, counter>>

(* A run outlasts the time its alias is given.  One attempt cannot: it has the *)
(* same limit.                                                                 *)
Overrun(i) ==
    /\ sub[i].phase = "running" /\ ~sub[i].overdue
    /\ sub[i].kind = "dispatch" => sub[i].at > 1
    /\ sub' = [sub EXCEPT ![i].overdue = TRUE]
    /\ UNCHANGED <<registered, counter, swapping>>

(* tick_monitor cancels every overdue run of its parent. *)
MonitorTick(p) ==
    LET late == {i \in ActiveFor(p) : sub[i].overdue /\ ~sub[i].token}
    IN  /\ late # {}
        /\ sub' = [i \in SubIds |-> IF i \in late THEN [sub[i] EXCEPT !.token = TRUE] ELSE sub[i]]
        /\ UNCHANGED <<registered, counter, swapping>>

Finalise(i) == RecordResult(i) \/ SetFinalStatus(i) \/ Deregister(i)

Next ==
    \/ \E p \in Parents :
        \/ \E kind \in Kinds[p] : AdmitByRegistry(kind, p)
        \/ "tool" \in Kinds[p] /\ AdmitByCounter(p)
        \/ \E target \in Targets : "dispatch" \in Kinds[p] /\ Dispatch(p, target)
        \/ MonitorTick(p)
    \/ \E i \in SubIds :
        \/ RaiseCounter(i)
        \/ Refuse(i)
        \/ Register(i)
        \/ StartLoop(i)
        \/ AttemptFails(i)
        \/ \E answer \in Answers \ {"none"} : LoopEnds(i, answer)
        \/ Finalise(i)
        \/ Drop(i)
        \/ Stop(i)
        \/ SetModelLookup(i)
        \/ SetModelMark(i)
        \/ Overrun(i)

Spec == Init /\ [][Next]_vars

\* A provider attempt is bounded by a timeout, and the code after an await runs.
TimedSpec ==
    /\ Spec
    /\ \A i \in 1..MaxRuns :
        /\ WF_vars(i \in SubIds /\ (StartLoop(i) \/ Finalise(i)))
        /\ WF_vars(i \in SubIds /\ sub[i].kind = "dispatch"
                     /\ (AttemptFails(i) \/ \E answer \in {"ok", "err"} : LoopEnds(i, answer)))

-----------------------------------------------------------------------------
(* Every variable has its type. *)
TypeOK ==
    /\ \A i \in SubIds :
        /\ sub[i].kind \in AllKinds /\ sub[i].parent \in Parents
        /\ sub[i].phase \in Phases /\ sub[i].status \in Statuses
        /\ sub[i].answer \in Answers /\ sub[i].at \in Nat \ {0}
        /\ sub[i].kind = "dispatch" => sub[i].at <= Len(Chain(i))
    /\ registered \subseteq SubIds /\ swapping \subseteq SubIds
    /\ counter \in Nat

(* The counter of the legacy gate counts the tool's calls between the gate and    *)
(* their end, whichever way they end: ActiveGuard is dropped on every path.       *)
CounterCounts ==
    counter = Cardinality({i \in SubIds : /\ sub[i].kind = "tool"
                                          /\ sub[i].phase \notin {"admitted", "returned", "refused", "dropped"}})

(* "Cancellation racing completion keeps whichever won": once the loop is started, a *)
(* handle's terminal status never changes, whoever of loop and set_model comes       *)
(* second.  (A set_model that cancels a handle before its caller marks it Running is *)
(* undone by that mark.)                                                             *)
FirstTerminalWins ==
    [][\A i \in SubIds : sub[i].status \in TerminalStatuses /\ sub[i].phase # "registered"
                           => sub'[i].status = sub[i].status]_vars

(* A reader that sees a run Completed or Failed by its own loop finds its output or *)
(* error there; a run cancelled by set_model may hold either or none.               *)
ResultBeforeStatus ==
    \A i \in SubIds :
        /\ sub[i].status = "Completed" /\ sub[i].answer # "empty" => sub[i].output
        /\ sub[i].status = "Failed" => sub[i].error /\ ~sub[i].output

(* The registry lists every run in flight and nothing else, but for the runs whose  *)
(* caller's future was dropped: what list, status, stop and the gate work from.     *)
InFlightOnly ==
    /\ \A i \in registered :
          sub[i].phase \in {"registered", "running", "ended", "recorded", "settled", "dropped"}
    /\ \A i \in SubIds : sub[i].phase = "running" => i \in registered

(* While a parent spawns through the registry alone, the agent loops that run for it *)
(* stay within the gate, but for what other turns of the parent let in between a gate *)
(* and its registration: one loop for every further turn, and no more however long   *)
(* they all go on.  A loop that set_model has given up is not counted: it runs on    *)
(* beside its successor.                                                             *)
GateHolds ==
    \A p \in Parents :
        (\A i \in SubIds : sub[i].parent = p => sub[i].kind \in {"manage", "auto"})
            => Cardinality({i \in SubIds : /\ sub[i].parent = p /\ sub[i].phase = "running"
                                          /\ sub[i].status # "Cancelled"}) <= Cap + Tasks[p] - 1

(* "the cap is genuinely unified": however a parent spawns, no more than Cap of its *)
(* sub-agents run.                                                                  *)
CapUnified ==
    \A p \in Parents : Cardinality({i \in SubIds : sub[i].parent = p /\ sub[i].phase = "running"}) <= Cap

(* "the token is cancelled and the run aborts cooperatively": a run that was stopped *)
(* while its loop was running does not complete.                                     *)
StopAborts ==
    [][\A i \in SubIds : sub[i].token /\ sub[i].phase = "running" /\ sub'[i].phase = "ended"
                           => sub'[i].answer # "ok"]_vars

(* A dispatch leaves the registry again, whatever its providers do, unless its own   *)
(* future was dropped.                                                               *)
DispatchLeaves ==
    \A i \in 1..MaxRuns :
        (i \in registered /\ sub[i].kind = "dispatch")
            ~> (i \notin registered \/ sub[i].phase = "dropped")

(* The attempt chain of a dispatch: the configured providers in their order, each     *)
(* where it is first named, as many as max_attempts allows.                           *)
ChainIsRight ==
    \A i \in SubIds :
        LET chain == Chain(i)
            named == <<sub[i].target.primary>> \o sub[i].target.fallbacks
            First(j) == named[j] # Blank /\ \A k \in 1..(j - 1) : named[k] # named[j]
            before(j) == Cardinality({k \in 1..j : First(k)})
        IN  /\ Len(chain) <= MaxAttempts
            /\ \A j \in DOMAIN named : First(j) /\ before(j) <= MaxAttempts =>
                  /\ before(j) \in DOMAIN chain
                  /\ chain[before(j)] = named[j]
            /\ Len(chain) <= before(Len(named))
=============================================================================

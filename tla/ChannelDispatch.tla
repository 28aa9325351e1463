--------------------------- MODULE ChannelDispatch ---------------------------
(***************************************************************************)
(* How inbound channel messages become turns:                              *)
(* run_message_dispatch_loop and dispatch_worker of                        *)
(* crates/zeroclaw-channels/src/orchestrator/mod.rs, with the debouncer of *)
(* crates/zeroclaw-infra/src/debounce.rs.                                  *)
(*                                                                         *)
(* One loop reads messages in their order, debounces or admits them under  *)
(* a semaphore and spawns a worker for each; workers, debounce timers and  *)
(* the loop then run at their own pace.  A step is what happens between    *)
(* two locks or awaits, or, where two threads may meet, between two        *)
(* atomic operations.  A message is its position in the stream; where it   *)
(* comes from decides every key and switch the code derives from it.       *)
(***************************************************************************)
EXTENDS Integers, Sequences, FiniteSets

CONSTANTS
    Places,       \* [scope, key, cli, owned, interrupts, debounced]: see PlaceShape
    Scripts,      \* the streams of messages considered: sequences of [place, kind]
    MaxMessages,  \* bound: the length of a stream
    MaxInFlight   \* max_in_flight_messages: permits of the semaphore

Scopes == {p.scope : p \in Places}   \* interruption_scope_key
Keys == {p.key : p \in Places}       \* conversation_history_key
Kinds == {"talk", "new", "stop"}     \* what the text asks for: a turn, /new, /stop
Messages == [place : Places, kind : Kinds]

\* What the code asks of a message's origin: the console, an agent that owns it, the
\* channel's interrupt_on_new_message, and a debounce window of the owner.
PlaceShape(p) ==
    /\ p.cli \in BOOLEAN /\ p.owned \in BOOLEAN
    /\ p.interrupts \in BOOLEAN /\ p.debounced \in BOOLEAN
    /\ p.cli => ~p.interrupts

ASSUME ChannelAssumption ==
    /\ \A p \in Places : PlaceShape(p)
    /\ \A p, q \in Places : p.scope = q.scope => p.interrupts = q.interrupts  \* one channel
    /\ \A s \in Scripts : s \in Seq(Messages) /\ Len(s) <= MaxMessages
    /\ MaxMessages \in Nat
    /\ MaxInFlight \in Nat \ {0}

VARIABLES
    task,      \* every message of the stream and what became of it
    taken,     \* how many the loop has received
    holding,   \* the message the loop waits with for a permit, or 0
    permits,   \* permits left in the semaphore
    inFlight,  \* in_flight_by_sender: the task registered for each scope, or 0
    entry      \* the debouncer's entries: [parts, owner], owner 0 where there is none

vars == <<task, taken, holding, permits, inFlight, entry>>

Ids == DOMAIN task
Scope(i) == task[i].place.scope
Key(i) == task[i].place.key
Interrupts(i) == task[i].place.interrupts

Phases == {
    "queued",      \* not received yet
    "dropped",     \* no agent owns it
    "handled",     \* a /stop
    "pending",     \* its debounce window is open
    "superseded",  \* its text is part of a later message
    "ready",       \* window over, waiting for a permit
    "held",        \* the loop waits for a permit
    "spawned",     \* has a permit; not registered
    "loading",     \* registered, has cancelled its predecessor, reads its done flag
    "subscribing", \* read FALSE, about to wait
    "waiting",     \* waits to be notified
    "starting", "opening", "answering",  \* process_channel_message
    "leaving",     \* about to unregister
    "removed",     \* about to mark itself done
    "ended"}
Ended == {"dropped", "handled", "superseded", "ended"}
Working == {"opening", "answering"}
Registered == {"loading", "subscribing", "waiting", "starting"} \cup Working \cup {"leaving"}
HoldsPermit == Registered \cup {"spawned", "removed"}
Timers == {"none", "asleep", "firing"}

NoEntry == [parts |-> << >>, owner |-> 0]

NewTask(m) ==
    [place |-> m.place, kind |-> m.kind, phase |-> "queued", prev |-> 0, cancelled |-> FALSE,
     done |-> FALSE, timer |-> "none", parts |-> << >>]

Init ==
    /\ \E script \in Scripts : task = [i \in DOMAIN script |-> NewTask(script[i])]
    /\ taken = 0 /\ holding = 0
    /\ permits = MaxInFlight
    /\ inFlight = [s \in Scopes |-> 0]
    /\ entry = [k \in Keys |-> NoEntry]

At(i, phase) == i \in Ids /\ task[i].phase = phase
Move(i, phase) == task' = [task EXCEPT ![i].phase = phase]

-----------------------------------------------------------------------------
(* The loop.  It receives only when it holds no message.                            *)

Receives(i) == At(i, "queued") /\ holding = 0 /\ i = taken + 1 /\ taken' = i

IsStop(i) == task[i].kind = "stop" /\ ~task[i].place.cli

DropUnowned(i) ==
    /\ Receives(i) /\ ~task[i].place.owned
    /\ Move(i, "dropped")
    /\ UNCHANGED <<holding, permits, inFlight, entry>>

\* Takes the registered task of the scope out of the map and cancels it.
StopCommand(i) ==
    /\ Receives(i) /\ task[i].place.owned /\ IsStop(i)
    /\ task' = [j \in Ids |->
          IF j = i THEN [task[i] EXCEPT !.phase = "handled"]
          ELSE IF j = inFlight[Scope(i)] THEN [task[j] EXCEPT !.cancelled = TRUE]
          ELSE task[j]]
    /\ inFlight' = [inFlight EXCEPT ![Scope(i)] = 0]
    /\ UNCHANGED <<holding, permits, entry>>

GoesOn(i) == Receives(i) /\ task[i].place.owned /\ ~IsStop(i)

\* Deviation: the texts of the window so far are forgotten.
Joined_Last(e, i) == [parts |-> <<i>>, owner |-> i]

\* Deviation: the new message's receiver never becomes the entry's.
Joined_OldOwner(e, i) ==
    [parts |-> Append(e.parts, i), owner |-> IF e.owner = 0 THEN i ELSE e.owner]

Joined(e, i) == [parts |-> Append(e.parts, i), owner |-> i]

\* What abort leaves of a timer: one that runs at this moment may still take the lock.
AfterAbort(timer) == IF timer = "firing" THEN {"none", "firing"} ELSE {"none"}

\* MessageDebouncer::debounce and the task that waits for its outcome.  The receiver of the
\* entry's former owner is dropped, and its task returns.
Debounce(i) ==
    /\ GoesOn(i) /\ ~task[i].place.cli /\ task[i].place.debounced
    /\ LET o == entry[Key(i)].owner IN
       IF o = 0 THEN task' = [task EXCEPT ![i].phase = "pending", ![i].timer = "asleep"]
       ELSE \E left \in AfterAbort(task[o].timer) :
              task' = [task EXCEPT ![i].phase = "pending", ![i].timer = "asleep",
                                   ![o].phase = "superseded", ![o].timer = left]
    /\ entry' = [entry EXCEPT ![Key(i)] = Joined(entry[Key(i)], i)]
    /\ UNCHANGED <<holding, permits, inFlight>>

Hold(i) ==
    /\ GoesOn(i) /\ (task[i].place.cli \/ ~task[i].place.debounced)
    /\ task' = [task EXCEPT ![i].phase = "held", ![i].parts = <<i>>]
    /\ holding' = i
    /\ UNCHANGED <<permits, inFlight, entry>>

AdmitHeld(i) ==
    /\ At(i, "held") /\ permits > 0
    /\ Move(i, "spawned")
    /\ permits' = permits - 1
    /\ holding' = 0
    /\ UNCHANGED <<taken, inFlight, entry>>

Loop(i) == DropUnowned(i) \/ StopCommand(i) \/ Debounce(i) \/ Hold(i) \/ AdmitHeld(i)

-----------------------------------------------------------------------------
(* The debounce timers.                                                             *)

Elapse(i) ==
    /\ i \in Ids /\ task[i].timer = "asleep"
    /\ task' = [task EXCEPT ![i].timer = "firing"]
    /\ UNCHANGED <<taken, holding, permits, inFlight, entry>>

Cleared(k) == [entry EXCEPT ![k] = NoEntry]

\* fire_debounced: it sends whatever the key's entry holds by now to whoever owns it.
Fire(i) ==
    /\ i \in Ids /\ task[i].timer = "firing"
    /\ LET e == entry[Key(i)] IN
       IF e.owner = 0 THEN task' = [task EXCEPT ![i].timer = "none"] /\ UNCHANGED entry
       ELSE /\ task' = [j \in Ids |->
                 [task[j] EXCEPT
                     !.timer = IF j = i THEN "none" ELSE @,
                     !.phase = IF j = e.owner THEN "ready" ELSE @,
                     !.parts = IF j = e.owner THEN e.parts ELSE @]]
            /\ entry' = Cleared(Key(i))
    /\ UNCHANGED <<taken, holding, permits, inFlight>>

Timer(i) == Elapse(i) \/ Fire(i)

-----------------------------------------------------------------------------
(* A worker: dispatch_worker.                                                       *)

AdmitReady(i) ==
    /\ At(i, "ready") /\ permits > 0
    /\ Move(i, "spawned")
    /\ permits' = permits - 1
    /\ UNCHANGED <<taken, holding, inFlight, entry>>

\* Deviation: the predecessor is cancelled and not waited for.
AfterRegistering_NoWait(i, previous) == "starting"

AfterRegistering(i, previous) ==
    IF Interrupts(i) /\ previous # 0 THEN "loading" ELSE "starting"

\* Registers in place of the scope's task, and interrupts that one.
Register(i) ==
    /\ At(i, "spawned") /\ ~task[i].place.cli
    /\ LET previous == inFlight[Scope(i)] IN
       task' = [j \in Ids |->
          IF j = i THEN [task[i] EXCEPT !.prev = previous, !.phase = AfterRegistering(i, previous)]
          ELSE IF Interrupts(i) /\ j = previous THEN [task[j] EXCEPT !.cancelled = TRUE]
          ELSE task[j]]
    /\ inFlight' = [inFlight EXCEPT ![Scope(i)] = i]
    /\ UNCHANGED <<taken, holding, permits, entry>>

StartConsole(i) ==
    /\ At(i, "spawned") /\ task[i].place.cli
    /\ Move(i, "starting")
    /\ UNCHANGED <<taken, holding, permits, inFlight, entry>>

\* InFlightTaskCompletion::wait looks at the flag first and subscribes afterwards.
Load(i) ==
    /\ At(i, "loading")
    /\ Move(i, IF task[task[i].prev].done THEN "starting" ELSE "subscribing")
    /\ UNCHANGED <<taken, holding, permits, inFlight, entry>>

Subscribe(i) ==
    /\ At(i, "subscribing")
    /\ Move(i, "waiting")
    /\ UNCHANGED <<taken, holding, permits, inFlight, entry>>

\* process_channel_message returns at once when it was cancelled by then.
Start(i) ==
    /\ At(i, "starting")
    /\ Move(i, IF task[i].cancelled THEN "leaving" ELSE "opening")
    /\ UNCHANGED <<taken, holding, permits, inFlight, entry>>

\* Texts of one window are joined before they are read: the first one decides.
IsNew(i) == task[task[i].parts[1]].kind = "new"

\* A hook or a guard drops the message, it is a command, or no provider comes up.
Skip(i) ==
    /\ At(i, "opening")
    /\ Move(i, "leaving")
    /\ UNCHANGED <<taken, holding, permits, inFlight, entry>>

\* The turn enters the history, and the agent loop starts.
Open(i) ==
    /\ At(i, "opening") /\ ~IsNew(i)
    /\ Move(i, "answering")
    /\ UNCHANGED <<taken, holding, permits, inFlight, entry>>

\* The loop ends: an answer, an error, a timeout, or the token.
Answer(i) ==
    /\ At(i, "answering")
    /\ Move(i, "leaving")
    /\ UNCHANGED <<taken, holding, permits, inFlight, entry>>

\* Deviation: the scope's entry is removed whoever owns it.
Unregistered_Any(i) == [inFlight EXCEPT ![Scope(i)] = 0]

Unregistered(i) ==
    IF inFlight[Scope(i)] = i THEN [inFlight EXCEPT ![Scope(i)] = 0] ELSE inFlight

Leave(i) ==
    /\ At(i, "leaving")
    /\ Move(i, "removed")
    /\ inFlight' = Unregistered(i)
    /\ UNCHANGED <<taken, holding, permits, entry>>

\* Deviation: the permit is given back by turns that were not interrupted.
GivenBack_IfCalm(i) == IF task[i].cancelled THEN permits ELSE permits + 1

\* Deviation: added by hand to what the drop gives back.
GivenBack_Twice(i) == permits + 2

GivenBack(i) == permits + 1

\* mark_done wakes whoever is waiting at this moment; the permit goes with the worker.
MarkDone(i) ==
    /\ At(i, "removed")
    /\ task' = [j \in Ids |->
          IF j = i THEN [task[i] EXCEPT !.phase = "ended", !.done = TRUE]
          ELSE IF task[j].phase = "waiting" /\ task[j].prev = i
               THEN [task[j] EXCEPT !.phase = "starting"] ELSE task[j]]
    /\ permits' = GivenBack(i)
    /\ UNCHANGED <<taken, holding, inFlight, entry>>

Body(i) == Skip(i) \/ Open(i) \/ Answer(i)
Around(i) ==
    \/ AdmitReady(i) \/ Register(i) \/ StartConsole(i) \/ Load(i) \/ Subscribe(i)
    \/ Start(i) \/ Leave(i) \/ MarkDone(i)

Next == \E i \in Ids : Loop(i) \/ Timer(i) \/ Around(i) \/ Body(i)

Spec == Init /\ [][Next]_vars

-----------------------------------------------------------------------------
(* Properties.                                                                      *)

TaskShape(t) ==
    /\ t.place \in Places /\ t.kind \in Kinds /\ t.phase \in Phases
    /\ t.prev \in Nat /\ t.cancelled \in BOOLEAN /\ t.done \in BOOLEAN
    /\ t.timer \in Timers /\ t.parts \in Seq(Nat)

(* Every variable stays in its type; the map and the debouncer name tasks that exist. *)
TypeOK ==
    /\ Ids = 1..Len(task) /\ \A i \in Ids : TaskShape(task[i])
    /\ taken \in 0..Len(task) /\ holding \in 0..Len(task)
    /\ permits \in 0..MaxInFlight
    /\ inFlight \in [Scopes -> 0..Len(task)]
    /\ \A k \in Keys : entry[k].owner \in 0..Len(task) /\ entry[k].parts \in Seq(Nat)

(* No permit leaks and none is given back twice: as many are out as there are workers. *)
PermitsConserved ==
    permits + Cardinality({i \in Ids : task[i].phase \in HoldsPermit}) = MaxInFlight

(* On a channel that interrupts, a turn that is registered and that nobody has          *)
(* cancelled is the one the map lists: /stop and the next message can reach it.         *)
StopReaches ==
    \A i \in Ids : Interrupts(i) /\ task[i].phase \in Registered /\ ~task[i].cancelled
                       => inFlight[Scope(i)] = i

Stopped(s) == \E i \in Ids : task[i].phase = "handled" /\ Scope(i) = s

(* On a channel that interrupts, no two turns of a scope are under way at once, unless  *)
(* a /stop took one out of the map.                                                     *)
OneAtATime ==
    \A i, j \in Ids :
        /\ Interrupts(i) /\ Scope(i) = Scope(j) /\ ~Stopped(Scope(i))
        /\ task[i].phase \in Working /\ task[j].phase \in Working
        => i = j

Texts(parts) == {parts[n] : n \in DOMAIN parts}
Carriers(i) == {j \in Ids : i \in Texts(task[j].parts)}
Windows(i) == {k \in Keys : i \in Texts(entry[k].parts)}

(* Every text the loop passed on is in exactly one place, a window or a worker, however *)
(* timers and messages race; a worker's texts are in the order of their arrival.        *)
EachTextOnce ==
    /\ \A i \in Ids : task[i].phase \notin {"queued", "dropped", "handled"}
           => Cardinality(Carriers(i)) + Cardinality(Windows(i)) = 1
    /\ \A j \in Ids : \A m, n \in DOMAIN task[j].parts :
           m < n => task[j].parts[m] < task[j].parts[n]

-----------------------------------------------------------------------------
(* Liveness.  The tasks are polled when they can move, a sleep ends, and a turn ends    *)
(* because its time is limited.                                                         *)

FairSpec ==
    /\ Spec
    /\ \A i \in 1..MaxMessages : WF_vars(Loop(i)) /\ WF_vars(Timer(i)) /\ WF_vars(Around(i) \/ Body(i))

\* A worker that subscribed after its predecessor had notified: nobody wakes it.
Stalled(i) == i \in Ids /\ task[i].phase = "waiting" /\ task[task[i].prev].done

(* Every message of the stream is dealt with in the end; the one thing that can keep it *)
(* from it is a wakeup lost between the look at the flag and the subscription.          *)
EveryMessageEnds ==
    \A i \in 1..MaxMessages : <>(i \in Ids => task[i].phase \in Ended \/ \E j \in Ids : Stalled(j))

(* "cancels the in-flight request and starts a fresh response": a message that has      *)
(* interrupted another is answered, unless it is cancelled itself.                      *)
FreshResponse ==
    \A i \in 1..MaxMessages : At(i, "loading") ~> (i \in Ids /\ (task[i].cancelled \/ task[i].phase \in Working))

=============================================================================

---------------------------- MODULE TaskDagProofs ----------------------------
(***************************************************************************)
(* Theorems about TaskDag for every set of plans, agents and limits: the   *)
(* order of tasks, the artifacts they see, the results, that TaskDag       *)
(* implements TaskFlow, and that its work runs out.                        *)
(***************************************************************************)
EXTENDS TaskDag, TLAPS, SequenceTheorems, FiniteSetTheorems, InductionFacts

(* The entry a repeated id ends up with is one of the reply's. *)
LEMMA LastEntryIsOne ==
    ASSUME NEW entries \in Seq(Entries), NEW id \in NamedIds(entries)
    PROVE  LastEntry(entries, id) \in Entries /\ LastEntry(entries, id).id = id
<1> DEFINE at == {i \in DOMAIN entries : entries[i].id = id}
           back == {Len(entries) - i : i \in at}
           IsLast(i) == entries[i].id = id /\ \A j \in DOMAIN entries : entries[j].id = id => j <= i
<1>1. Len(entries) \in Nat /\ DOMAIN entries = 1..Len(entries)
    OBVIOUS
<1>2. at # {} /\ at \subseteq 1..Len(entries)
    BY <1>1 DEF NamedIds
<1>3. PICK b \in back : \A c \in back : b <= c
    <2>1. back \subseteq Nat /\ back # {}
        BY <1>1, <1>2
    <2> HIDE DEF back
    <2> QED
        BY <2>1, LeastOf
<1>4. PICK i \in at : b = Len(entries) - i
    BY <1>3
<1>5. ASSUME NEW j \in at PROVE j <= i
    <2>1. Len(entries) - j \in back
        OBVIOUS
    <2>2. Len(entries) - i <= Len(entries) - j
        BY <2>1, <1>3, <1>4
    <2> QED
        BY <2>2, <1>1, <1>2
<1>6. i \in DOMAIN entries /\ IsLast(i)
    BY <1>4, <1>5
<1> DEFINE last == CHOOSE k \in DOMAIN entries : IsLast(k)
<1>7. last \in DOMAIN entries /\ IsLast(last)
    <2> HIDE DEF IsLast
    <2> QED
        BY <1>6
<1>8. LastEntry(entries, id) = entries[last]
    BY DEF LastEntry
<1> HIDE DEF last
<1> QED
    BY <1>1, <1>7, <1>8

-----------------------------------------------------------------------------
(* What a step does. *)

TaskRecord == [agent : Agents, deps : SUBSET Ids, status : Statuses]
JobRecord == [at : {"idle", "queued", "executing", "reviewing", "settled"},
              executions : Nat, retries : Nat, answered : BOOLEAN, updates : SUBSET Blocks,
              memory : [Blocks -> Ids \cup {Default}], misread : BOOLEAN, seen : SUBSET Ids]
InFlight == {"queued", "executing", "reviewing"}

\* A future moves on without ending.
Works(t) ==
    /\ job[t].at \in InFlight
    /\ \E j \in JobRecord :
          /\ j.at \in {"executing", "reviewing"}
          /\ j.seen = IF job[t].at = "queued" THEN published ELSE job[t].seen
          /\ job' = [job EXCEPT ![t] = j]
    /\ UNCHANGED <<config, phase, task, wave, results, success, published>>

\* A future ends.
Ends(t, new) ==
    /\ job[t].at \in {"executing", "reviewing"}
    /\ \E j \in JobRecord :
          /\ j.at = "settled" /\ j.seen = job[t].seen
          /\ job' = [job EXCEPT ![t] = j]
    /\ task' = UpdateStatus(task, t, new)
    /\ published' = IF new = "Completed" THEN published \cup {t} ELSE published
    /\ UNCHANGED <<config, phase, wave, results, success>>

LEMMA JobMoves ==
    ASSUME TypeOK, NEW t \in Known, NEW j \in JobRecord, job' = [job EXCEPT ![t] = j]
    PROVE  job' \in [Known -> JobRecord]
BY DEF TypeOK, JobRecord

LEMMA UpdateStatusFacts ==
    ASSUME NEW K, NEW g \in [K -> TaskRecord], NEW t \in K, NEW new \in Statuses
    PROVE  /\ UpdateStatus(g, t, new) \in [K -> TaskRecord]
           /\ UpdateStatus(g, t, new)[t].status = new
           /\ \A x \in K : UpdateStatus(g, t, new)[x].deps = g[x].deps
           /\ \A x \in K \ {t} :
                 \/ UpdateStatus(g, t, new)[x].status = g[x].status
                 \/ /\ g[x].status = "Pending" /\ UpdateStatus(g, t, new)[x].status = "Ready"
                    /\ new = "Completed"
                    /\ \A d \in g[x].deps \cap K : d = t \/ g[d].status = "Completed"
<1> DEFINE h == [g EXCEPT ![t].status = new]
           Unlocked(x) == h[x].status = "Pending" /\ DependenciesMet(h, x)
           u == [x \in K |-> IF Unlocked(x) THEN [h[x] EXCEPT !.status = "Ready"] ELSE h[x]]
<1>1. /\ h \in [K -> TaskRecord] /\ DOMAIN h = K
      /\ \A x \in K : h[x].deps = g[x].deps
      /\ h[t].status = new
      /\ \A x \in K \ {t} : h[x] = g[x]
    BY DEF TaskRecord
<1>2. UpdateStatus(g, t, new) = IF new = "Completed" THEN u ELSE h
    BY <1>1 DEF UpdateStatus
<1>3. CASE new # "Completed"
    <2> HIDE DEF h
    <2> QED
        BY <1>1, <1>2, <1>3
<1>4. CASE new = "Completed"
    <2>1. "Ready" \in Statuses
        BY DEF Statuses
    <2>2. ASSUME NEW x \in K
          PROVE  /\ u[x] \in TaskRecord /\ u[x].deps = h[x].deps
                 /\ u[x].status = IF Unlocked(x) THEN "Ready" ELSE h[x].status
        <3> HIDE DEF h, Unlocked
        <3> QED
            BY <1>1, <2>1 DEF TaskRecord
    <2>3. ASSUME NEW x \in K, Unlocked(x)
          PROVE  \A d \in g[x].deps \cap K : d = t \/ g[d].status = "Completed"
        <3>1. \A d \in h[x].deps \cap K : h[d].status = "Completed"
            <4> HIDE DEF h
            <4> QED
                BY <2>3, <1>1 DEF DependenciesMet
        <3> HIDE DEF h
        <3> QED
            BY <3>1, <1>1
    <2>4. u[t].status = new
        <3>1. ~ Unlocked(t)
            BY <1>1, <1>4
        <3> HIDE DEF h, u, Unlocked
        <3> QED
            BY <2>2, <3>1, <1>1
    <2>5. u \in [K -> TaskRecord]
        <3> HIDE DEF h, Unlocked
        <3> QED
            BY <2>2
    <2>6. ASSUME NEW x \in K \ {t}
          PROVE  \/ u[x].status = g[x].status
                 \/ /\ g[x].status = "Pending" /\ u[x].status = "Ready"
                    /\ \A d \in g[x].deps \cap K : d = t \/ g[d].status = "Completed"
        <3>1. CASE Unlocked(x)
            <4>1. h[x].status = "Pending"
                BY <3>1
            <4> HIDE DEF h, u, Unlocked
            <4> QED
                BY <3>1, <4>1, <2>2, <2>3, <1>1
        <3>2. CASE ~ Unlocked(x)
            <4> HIDE DEF h, u, Unlocked
            <4> QED
                BY <3>2, <2>2, <1>1
        <3> QED
            BY <3>1, <3>2
    <2> HIDE DEF h, u, Unlocked
    <2> QED
        BY <1>1, <1>2, <1>4, <2>2, <2>4, <2>5, <2>6
<1> QED
    BY <1>3, <1>4

LEMMA TypedRecords ==
    ASSUME TypeOK
    PROVE  /\ Known \subseteq Ids /\ DOMAIN job = Known /\ DOMAIN task = Known
           /\ task \in [Known -> TaskRecord] /\ job \in [Known -> JobRecord]
BY DEF TypeOK, TaskRecord, JobRecord, Known

\* Fields of a job rewritten one by one make a record again.
LEMMA BeginWorks ==
    ASSUME TypeOK, NEW t \in Known, Begin(t)
    PROVE  Works(t)
<1> DEFINE j == [job[t] EXCEPT !.at = "executing", !.seen = published]
<1>1. job[t] \in JobRecord /\ published \subseteq Ids /\ job \in [Known -> JobRecord]
    BY TypedRecords DEF TypeOK
<1>2. /\ j \in JobRecord /\ j.at = "executing" /\ j.seen = published
      /\ job[t].at = "queued"
    BY <1>1 DEF JobRecord, Begin
<1>3. job' = [job EXCEPT ![t] = j]
    BY <1>1 DEF Begin
<1> HIDE DEF j
<1> QED
    BY <1>2, <1>3 DEF Works, InFlight, Begin

LEMMA AnswerEffect ==
    ASSUME TypeOK, NEW t \in Known, NEW updates \in SUBSET Blocks, Answer(t, updates)
    PROVE  Works(t) \/ Ends(t, "Completed")
<1> DEFINE at == IF MaxRetries = 0 THEN "settled" ELSE "reviewing"
           count == job[t].executions + 1
           j == [job[t] EXCEPT !.at = at, !.executions = count,
                               !.answered = TRUE, !.updates = updates]
<1>1. job[t] \in JobRecord /\ job \in [Known -> JobRecord] /\ job[t].at = "executing"
    BY TypedRecords DEF Answer
<1>0. count \in Nat
    BY <1>1 DEF JobRecord
<1>2. at \in {"settled", "reviewing"} /\ (MaxRetries = 0 <=> at = "settled")
    OBVIOUS
<1>3. job' = [job EXCEPT ![t] = j]
    BY <1>1 DEF Answer
<1>4. j \in JobRecord /\ j.at = at /\ j.seen = job[t].seen
    <2> HIDE DEF at, count
    <2> QED
        BY <1>0, <1>1, <1>2 DEF JobRecord
<1>5. CASE MaxRetries = 0
    <2>1. Succeed(t)
        BY <1>5 DEF Answer
    <2> HIDE DEF j, at
    <2> QED
        BY <1>1, <1>2, <1>3, <1>4, <1>5, <2>1 DEF Ends, Succeed, Answer
<1>6. CASE MaxRetries # 0
    <2> HIDE DEF j, at
    <2> QED
        BY <1>1, <1>2, <1>3, <1>4, <1>6 DEF Works, InFlight, Answer
<1> QED
    BY <1>5, <1>6

LEMMA SettledJob ==
    ASSUME TypeOK, NEW t \in Known, job' = [job EXCEPT ![t].at = "settled"]
    PROVE  \E j \in JobRecord :
               /\ j.at = "settled" /\ j.seen = job[t].seen
               /\ job' = [job EXCEPT ![t] = j]
<1> DEFINE j == [job[t] EXCEPT !.at = "settled"]
<1>1. job[t] \in JobRecord /\ job \in [Known -> JobRecord]
    BY TypedRecords
<1>2. j \in JobRecord /\ j.at = "settled" /\ j.seen = job[t].seen
    BY <1>1 DEF JobRecord
<1>3. job' = [job EXCEPT ![t] = j]
    BY <1>1
<1> HIDE DEF j
<1> QED
    BY <1>2, <1>3

LEMMA FailsEffect ==
    ASSUME TypeOK, NEW t \in Known, DispatchFails(t)
    PROVE  Ends(t, "Failed")
<1>1. /\ job[t].at \in {"executing", "reviewing"} /\ job' = [job EXCEPT ![t].at = "settled"]
      /\ task' = UpdateStatus(task, t, "Failed")
      /\ UNCHANGED <<config, phase, wave, results, success, published>>
    BY DEF DispatchFails, Fail
<1> QED
    BY <1>1, SettledJob DEF Ends

LEMMA AcceptEffect ==
    ASSUME TypeOK, NEW t \in Known, job[t].at = "reviewing", Accept(t)
    PROVE  Ends(t, "Completed")
<1>1. job' = [job EXCEPT ![t].at = "settled"]
    BY DEF Accept
<1>2. UNCHANGED <<config, phase, wave, results, success>> /\ Succeed(t)
    BY DEF Accept
<1> QED
    BY <1>1, <1>2, SettledJob DEF Ends, Succeed

LEMMA RejectEffect ==
    ASSUME TypeOK, NEW t \in Known, Reject(t)
    PROVE  Works(t) \/ Ends(t, "Completed")
<1>1. CASE Accept(t)
    BY <1>1, AcceptEffect DEF Reject
<1>2. CASE ~ Accept(t)
    <2> DEFINE count == job[t].retries + 1
               j == [job[t] EXCEPT !.at = "executing", !.retries = count]
    <2>1. job[t] \in JobRecord /\ job \in [Known -> JobRecord] /\ job[t].at = "reviewing"
        BY TypedRecords DEF Reject
    <2>0. count \in Nat
        BY <2>1 DEF JobRecord
    <2>2. j \in JobRecord /\ j.at = "executing" /\ j.seen = job[t].seen
        <3> HIDE DEF count
        <3> QED
            BY <2>0, <2>1 DEF JobRecord
    <2>3. job' = [job EXCEPT ![t] = j]
        BY <2>1, <1>2 DEF Reject
    <2>4. UNCHANGED <<config, phase, task, wave, results, success, published>>
        BY <1>2 DEF Reject
    <2> HIDE DEF j
    <2> QED
        BY <2>1, <2>2, <2>3, <2>4 DEF Works, InFlight
<1> QED
    BY <1>1, <1>2

LEMMA TaskStepEffect ==
    ASSUME TypeOK, NEW t \in Known, TaskStep(t)
    PROVE  Works(t) \/ \E new \in Over : Ends(t, new)
<1>1. "Completed" \in Over /\ "Failed" \in Over
    BY DEF Over
<1>2. CASE Begin(t)
    BY <1>2, BeginWorks
<1>3. CASE DispatchFails(t)
    BY <1>1, <1>3, FailsEffect
<1>4. CASE Approve(t)
    BY <1>1, <1>4, AcceptEffect DEF Approve
<1>5. CASE Reject(t)
    BY <1>1, <1>5, RejectEffect
<1>6. CASE \E updates \in SUBSET Blocks : Answer(t, updates)
    BY <1>1, <1>6, AnswerEffect
<1> QED
    BY <1>2, <1>3, <1>4, <1>5, <1>6 DEF TaskStep

LEMMA StepEffect ==
    ASSUME TypeOK, [Next]_vars
    PROVE  \/ PlanFails \/ \E reply \in Replies : PlanGoal(reply)
           \/ StartWave \/ Finish \/ JoinWave
           \/ \E t \in Known : Works(t) \/ \E new \in Over : Ends(t, new)
           \/ UNCHANGED vars
<1>1. CASE \E t \in Known : TaskStep(t)
    BY <1>1, TaskStepEffect
<1> QED
    BY <1>1 DEF Next, ExecuteDag, Returned

-----------------------------------------------------------------------------
(* The inductive invariant. *)

StatusOf(t) == task[t].status

\* A future is in flight exactly while its task is Running, and then it is in the wave.
JobsMatch ==
    \A t \in Known :
        /\ job[t].at = "idle" <=> StatusOf(t) \in {"Pending", "Ready"}
        /\ job[t].at \in InFlight <=> StatusOf(t) = "Running"
        /\ StatusOf(t) = "Running" => t \in wave
        /\ t \in wave => job[t].at # "idle"

PhaseOK ==
    /\ phase # "wave" => wave = {}
    /\ phase \in {"planning", "failed"} <=> Known = {}

\* Only a pending task may wait for something.
ReadyMeansMet ==
    \A t \in Known : StatusOf(t) # "Pending" =>
        \A d \in Dependencies(t) : StatusOf(d) = "Completed"

PublishedOK == \A t \in Known : StatusOf(t) = "Completed" => t \in published

\* The results are those of the waves joined so far.
ResultsOK ==
    /\ \A t \in DOMAIN results : StatusOf(t) \in Over /\ results[t] = StatusOf(t)
    /\ \A t \in Known : StatusOf(t) \in Over =>
          \/ t \in DOMAIN results
          \/ phase = "wave" /\ t \in wave
          \/ phase = "done" /\ FailFast /\ \E f \in Known : StatusOf(f) = "Failed"

\* A failure seen by a join ends a fail-fast orchestration.
StopOK ==
    FailFast => \A t \in Known : StatusOf(t) = "Failed" =>
        \/ phase = "done"
        \/ phase = "wave" /\ t \in wave

SuccessOK == success <=> phase = "done" /\ \A t \in Known : StatusOf(t) = "Completed"

Order == JobsMatch /\ PhaseOK /\ ReadyMeansMet /\ PublishedOK /\ SeesDependencies
Outcome == ResultsOK /\ StopOK /\ SuccessOK
Inv == TypeOK /\ Order /\ Outcome

LEMMA SettledIsOver ==
    ASSUME TypeOK, JobsMatch, NEW t \in Known
    PROVE  /\ StatusOf(t) \in Statuses
           /\ job[t].at = "settled" <=> StatusOf(t) \in Over
<1>1. task[t] \in TaskRecord /\ job[t] \in JobRecord
    BY TypedRecords
<1>2. StatusOf(t) \in Statuses /\ job[t].at \in {"idle", "queued", "executing", "reviewing", "settled"}
    BY <1>1 DEF StatusOf, TaskRecord, JobRecord
<1>3. /\ job[t].at = "idle" <=> StatusOf(t) \in {"Pending", "Ready"}
      /\ job[t].at \in InFlight <=> StatusOf(t) = "Running"
    BY DEF JobsMatch
<1> QED
    BY <1>2, <1>3 DEF Statuses, Over, InFlight

StoreType ==
    /\ store \in [Agents -> [Blocks -> Ids \cup {Default}]]
    /\ faults \in 0..MaxFaults

(* The conjuncts of the types that are not about tasks and jobs. *)
LEMMA TypesFromParts ==
    ASSUME config \in Configs, phase \in {"planning", "picking", "wave", "done", "failed"},
           Known \subseteq Ids, DOMAIN job = Known, wave \subseteq Known,
           task \in [Known -> TaskRecord], job \in [Known -> JobRecord],
           DOMAIN results \subseteq Known, results \in [DOMAIN results -> Over],
           success \in BOOLEAN, published \subseteq Known,
           StoreType
    PROVE  TypeOK
BY DEF TypeOK, TaskRecord, JobRecord, StoreType

LEMMA StoreTyped ==
    ASSUME TypeOK, [Next]_vars
    PROVE  StoreType'
<1>0. StoreType
    BY DEF TypeOK, StoreType
<1>1. MaxFaults \in Nat /\ (Fault => faults' \in 0..MaxFaults)
    BY <1>0, TaskDagAssumption DEF Fault, StoreType
<1>2. ASSUME NEW t \in Known, ApplyMemoryUpdates(t)
      PROVE  StoreType'
    <2>1. job[t] \in JobRecord /\ t \in Ids
        BY TypedRecords
    <2>2. job[t].memory \in [Blocks -> Ids \cup {Default}]
        BY <2>1 DEF JobRecord
    <2>3. SavedMemory(t) \in [Blocks -> Ids \cup {Default}]
        BY <2>1, <2>2 DEF SavedMemory
    <2>4. NoStore \in [Agents -> [Blocks -> Ids \cup {Default}]]
        BY DEF NoStore, FreshMemory
    <2>5. /\ SaveMemory(t, store) \in [Agents -> [Blocks -> Ids \cup {Default}]]
          /\ SaveMemory(t, NoStore) \in [Agents -> [Blocks -> Ids \cup {Default}]]
        BY <1>0, <2>3, <2>4 DEF SaveMemory, StoreType
    <2> QED
        BY <1>0, <1>1, <1>2, <2>4, <2>5 DEF ApplyMemoryUpdates, StoreType
<1>3. ASSUME NEW t \in Known, TaskStep(t)
      PROVE  StoreType'
    BY <1>0, <1>2, <1>3 DEF TaskStep, Begin, DispatchFails, Approve, Reject, Answer, Accept, StoreType
<1>4. CASE \E t \in Known : TaskStep(t)
    BY <1>3, <1>4
<1>5. CASE StartWave
    BY <1>0, <1>1, <1>5 DEF StartWave, StoreType
<1>6. CASE ~ StartWave /\ ~ \E t \in Known : TaskStep(t)
    BY <1>0, <1>6 DEF Next, ExecuteDag, Returned, PlanFails, PlanGoal, Finish, JoinWave, vars, StoreType
<1> QED
    BY <1>4, <1>5, <1>6

-----------------------------------------------------------------------------
(* The invariant is established and kept, effect by effect. *)

LEMMA InitInv == Init => Inv
<1> SUFFICES ASSUME Init PROVE Inv
    OBVIOUS
<1>1. /\ config \in Configs /\ phase = "planning" /\ task = << >> /\ job = << >>
      /\ wave = {} /\ results = << >> /\ success = FALSE /\ published = {}
      /\ store = NoStore /\ faults = 0
    BY DEF Init
<1>2. Known = {} /\ DOMAIN job = {} /\ DOMAIN results = {}
    BY <1>1 DEF Known
<1>3. StoreType
    BY <1>1, TaskDagAssumption DEF NoStore, FreshMemory, StoreType
<1>4. task \in [Known -> TaskRecord] /\ job \in [Known -> JobRecord] /\ results \in [DOMAIN results -> Over]
    BY <1>1, <1>2
<1>5. TypeOK
    BY <1>1, <1>2, <1>3, <1>4, TypesFromParts
<1>6. Order
    BY <1>1, <1>2 DEF Order, JobsMatch, PhaseOK, ReadyMeansMet, PublishedOK, SeesDependencies
<1>7. Outcome
    BY <1>1, <1>2 DEF Outcome, ResultsOK, StopOK, SuccessOK
<1> QED
    BY <1>5, <1>6, <1>7 DEF Inv

\* A task's job is moved on by its own future: what the other tasks keep.
LEMMA WorksFacts ==
    ASSUME TypeOK, NEW t \in Known, Works(t)
    PROVE  /\ Known' = Known /\ job' \in [Known -> JobRecord]
           /\ \A x \in Known \ {t} : job'[x] = job[x]
           /\ job'[t].at \in {"executing", "reviewing"}
           /\ job'[t].seen = IF job[t].at = "queued" THEN published ELSE job[t].seen
           /\ \A x \in Known : StatusOf(x)' = StatusOf(x) /\ Dependencies(x)' = Dependencies(x)
<1>1. PICK j \in JobRecord :
          /\ j.at \in {"executing", "reviewing"}
          /\ j.seen = IF job[t].at = "queued" THEN published ELSE job[t].seen
          /\ job' = [job EXCEPT ![t] = j]
    BY DEF Works
<1>2. task' = task
    BY DEF Works
<1>3. job \in [Known -> JobRecord]
    BY TypedRecords
<1> QED
    BY <1>1, <1>2, <1>3, JobMoves DEF Known, StatusOf, Dependencies

LEMMA EndsFacts ==
    ASSUME TypeOK, NEW t \in Known, NEW new \in Over, Ends(t, new)
    PROVE  /\ Known' = Known /\ job' \in [Known -> JobRecord] /\ task' \in [Known -> TaskRecord]
           /\ \A x \in Known \ {t} : job'[x] = job[x]
           /\ job'[t].at = "settled" /\ job'[t].seen = job[t].seen
           /\ StatusOf(t)' = new
           /\ \A x \in Known : Dependencies(x)' = Dependencies(x)
           /\ \A x \in Known \ {t} :
                 \/ StatusOf(x)' = StatusOf(x)
                 \/ /\ StatusOf(x) = "Pending" /\ StatusOf(x)' = "Ready" /\ new = "Completed"
                    /\ \A d \in Dependencies(x) : d = t \/ StatusOf(d) = "Completed"
<1>1. PICK j \in JobRecord :
          /\ j.at = "settled" /\ j.seen = job[t].seen
          /\ job' = [job EXCEPT ![t] = j]
    BY DEF Ends
<1>2. task' = UpdateStatus(task, t, new)
    BY DEF Ends
<1>3. job \in [Known -> JobRecord] /\ task \in [Known -> TaskRecord]
    BY TypedRecords
<1>4. new \in Statuses
    BY DEF Over, Statuses
<1>5. /\ task' \in [Known -> TaskRecord]
      /\ task'[t].status = new
      /\ \A x \in Known : task'[x].deps = task[x].deps
      /\ \A x \in Known \ {t} :
            \/ task'[x].status = task[x].status
            \/ /\ task[x].status = "Pending" /\ task'[x].status = "Ready"
               /\ new = "Completed"
               /\ \A d \in task[x].deps \cap Known : d = t \/ task[d].status = "Completed"
    BY <1>2, <1>3, <1>4, UpdateStatusFacts
<1>6. Known' = Known
    BY <1>5 DEF Known
<1>7. job' \in [Known -> JobRecord] /\ (\A x \in Known \ {t} : job'[x] = job[x]) /\ job'[t] = j
    BY <1>1, <1>3, JobMoves
<1> QED
    BY <1>1, <1>5, <1>6, <1>7 DEF StatusOf, Dependencies

LEMMA WorksKeeps ==
    ASSUME Inv, NEW t \in Known, Works(t), StoreType'
    PROVE  Inv'
<1>0. TypeOK /\ Order /\ Outcome
    BY DEF Inv
<1>1. /\ Known' = Known /\ job' \in [Known -> JobRecord]
      /\ \A x \in Known \ {t} : job'[x] = job[x]
      /\ job'[t].at \in {"executing", "reviewing"}
      /\ job'[t].seen = IF job[t].at = "queued" THEN published ELSE job[t].seen
      /\ \A x \in Known : StatusOf(x)' = StatusOf(x) /\ Dependencies(x)' = Dependencies(x)
    BY <1>0, WorksFacts
<1>2. /\ job[t].at \in InFlight
      /\ UNCHANGED <<config, phase, task, wave, results, success, published>>
    BY DEF Works
<1>3. StatusOf(t) = "Running" /\ t \in wave
    BY <1>0, <1>2 DEF Order, JobsMatch
<1>4. TypeOK'
    <2>1. task \in [Known -> TaskRecord]
        BY <1>0, TypedRecords
    <2> QED
        BY <1>0, <1>1, <1>2, <2>1 DEF TypeOK, TaskRecord, JobRecord, StoreType
<1>5. JobsMatch'
    <2> SUFFICES ASSUME NEW x \in Known
                 PROVE  /\ job'[x].at = "idle" <=> StatusOf(x) \in {"Pending", "Ready"}
                        /\ job'[x].at \in InFlight <=> StatusOf(x) = "Running"
                        /\ StatusOf(x) = "Running" => x \in wave
                        /\ x \in wave => job'[x].at # "idle"
        BY <1>1, <1>2 DEF JobsMatch
    <2>1. CASE x = t
        BY <1>1, <1>3, <2>1 DEF InFlight
    <2>2. CASE x # t
        BY <1>0, <1>1, <2>2 DEF Order, JobsMatch
    <2> QED
        BY <2>1, <2>2
<1>6. PhaseOK' /\ ReadyMeansMet' /\ PublishedOK'
    BY <1>0, <1>1, <1>2 DEF Order, PhaseOK, ReadyMeansMet, PublishedOK, Dependencies
<1>7. SeesDependencies'
    <2> SUFFICES ASSUME NEW x \in Known, job'[x].at \notin {"idle", "queued"}
                 PROVE  Dependencies(x) \subseteq job'[x].seen
        BY <1>1 DEF SeesDependencies
    <2>1. CASE x = t /\ job[t].at = "queued"
        <3>1. \A d \in Dependencies(t) : StatusOf(d) = "Completed" /\ d \in Known
            BY <1>0, <1>3 DEF Order, ReadyMeansMet, Dependencies
        <3> QED
            BY <1>0, <1>1, <2>1, <3>1 DEF Order, PublishedOK
    <2>2. CASE x = t /\ job[t].at # "queued"
        BY <1>0, <1>1, <1>2, <2>2 DEF Order, SeesDependencies, InFlight
    <2>3. CASE x # t
        BY <1>0, <1>1, <2>3 DEF Order, SeesDependencies
    <2> QED
        BY <2>1, <2>2, <2>3
<1>8. Outcome'
    BY <1>0, <1>1, <1>2 DEF Outcome, ResultsOK, StopOK, SuccessOK, FailFast, StatusOf
<1> QED
    BY <1>4, <1>5, <1>6, <1>7, <1>8 DEF Inv, Order

LEMMA EndsKeeps ==
    ASSUME Inv, NEW t \in Known, NEW new \in Over, Ends(t, new), StoreType'
    PROVE  Inv'
<1>0. TypeOK /\ Order /\ Outcome /\ new \in {"Completed", "Failed"}
    BY DEF Inv, Over
<1>1. /\ Known' = Known /\ job' \in [Known -> JobRecord] /\ task' \in [Known -> TaskRecord]
      /\ \A x \in Known \ {t} : job'[x] = job[x]
      /\ job'[t].at = "settled" /\ job'[t].seen = job[t].seen
      /\ StatusOf(t)' = new
      /\ \A x \in Known : Dependencies(x)' = Dependencies(x)
    BY <1>0, EndsFacts
<1>2. \A x \in Known \ {t} :
          \/ StatusOf(x)' = StatusOf(x)
          \/ /\ StatusOf(x) = "Pending" /\ StatusOf(x)' = "Ready" /\ new = "Completed"
             /\ \A d \in Dependencies(x) : d = t \/ StatusOf(d) = "Completed"
    BY <1>0, EndsFacts
<1>3. /\ job[t].at \in {"executing", "reviewing"}
      /\ UNCHANGED <<config, phase, wave, results, success>>
      /\ published' = IF new = "Completed" THEN published \cup {t} ELSE published
    BY DEF Ends
<1>4. StatusOf(t) = "Running" /\ t \in wave /\ phase = "wave"
    BY <1>0, <1>3 DEF Order, JobsMatch, InFlight, PhaseOK
<1>5. \A x \in Known \ {t} :
          \/ StatusOf(x)' = StatusOf(x)
          \/ StatusOf(x) = "Pending" /\ StatusOf(x)' = "Ready"
    BY <1>2
<1>6. TypeOK'
    BY <1>0, <1>1, <1>3 DEF TypeOK, TaskRecord, JobRecord, StoreType
<1>7. JobsMatch'
    <2> SUFFICES ASSUME NEW x \in Known
                 PROVE  /\ job'[x].at = "idle" <=> StatusOf(x)' \in {"Pending", "Ready"}
                        /\ job'[x].at \in InFlight <=> StatusOf(x)' = "Running"
                        /\ StatusOf(x)' = "Running" => x \in wave
                        /\ x \in wave => job'[x].at # "idle"
        BY <1>1, <1>3 DEF JobsMatch
    <2>1. CASE x = t
        BY <1>0, <1>1, <2>1 DEF InFlight
    <2>2. CASE x # t
        BY <1>0, <1>1, <1>5, <2>2 DEF Order, JobsMatch
    <2> QED
        BY <2>1, <2>2
<1>8. PhaseOK'
    BY <1>0, <1>1, <1>3 DEF Order, PhaseOK
<1>9. ReadyMeansMet'
    <2> SUFFICES ASSUME NEW x \in Known, StatusOf(x)' # "Pending", NEW d \in Dependencies(x)
                 PROVE  StatusOf(d)' = "Completed"
        BY <1>1 DEF ReadyMeansMet
    <2>1. d \in Known
        BY DEF Dependencies
    <2>2. CASE StatusOf(x) = "Pending"
        <3>1. new = "Completed" /\ (d = t \/ StatusOf(d) = "Completed")
            BY <1>2, <1>4, <2>2
        <3> QED
            BY <1>1, <1>5, <2>1, <3>1
    <2>3. CASE StatusOf(x) # "Pending"
        <3>1. StatusOf(d) = "Completed"
            BY <1>0, <2>3 DEF Order, ReadyMeansMet
        <3> QED
            BY <1>4, <1>5, <2>1, <3>1
    <2> QED
        BY <2>2, <2>3
<1>10. PublishedOK'
    <2> SUFFICES ASSUME NEW x \in Known, StatusOf(x)' = "Completed" PROVE x \in published'
        BY <1>1 DEF PublishedOK
    <2>1. CASE x = t
        BY <1>1, <1>3, <2>1
    <2>2. CASE x # t
        BY <1>0, <1>3, <1>5, <2>2 DEF Order, PublishedOK
    <2> QED
        BY <2>1, <2>2
<1>11. SeesDependencies'
    <2> SUFFICES ASSUME NEW x \in Known, job'[x].at \notin {"idle", "queued"}
                 PROVE  Dependencies(x) \subseteq job'[x].seen
        BY <1>1 DEF SeesDependencies
    <2> QED
        BY <1>0, <1>1, <1>3 DEF Order, SeesDependencies
<1>12. ResultsOK'
    <2>1. ASSUME NEW x \in DOMAIN results PROVE x # t /\ x \in Known /\ StatusOf(x)' = StatusOf(x)
        <3>1. x \in Known /\ StatusOf(x) \in {"Completed", "Failed"}
            BY <1>0 DEF Outcome, ResultsOK, TypeOK, Over
        <3> QED
            BY <1>4, <1>5, <3>1
    <2>2. \A x \in DOMAIN results : StatusOf(x)' \in Over /\ results[x] = StatusOf(x)'
        BY <1>0, <2>1 DEF Outcome, ResultsOK
    <2>3. ASSUME NEW x \in Known, StatusOf(x)' \in Over
          PROVE  x \in DOMAIN results \/ (phase = "wave" /\ x \in wave)
        <3>1. CASE x = t
            BY <1>4, <3>1
        <3>2. CASE x # t
            <4>1. StatusOf(x) \in Over
                BY <1>5, <2>3, <3>2 DEF Over
            <4> QED
                BY <1>0, <1>4, <4>1 DEF Outcome, ResultsOK
        <3> QED
            BY <3>1, <3>2
    <2> QED
        BY <1>1, <1>3, <2>2, <2>3 DEF ResultsOK
<1>13. StopOK'
    <2> SUFFICES ASSUME FailFast, NEW x \in Known, StatusOf(x)' = "Failed"
                 PROVE  x \in wave
        BY <1>1, <1>3, <1>4 DEF StopOK, FailFast
    <2>1. CASE x = t
        BY <1>4, <2>1
    <2>2. CASE x # t
        BY <1>0, <1>4, <1>5, <2>2 DEF Outcome, StopOK
    <2> QED
        BY <2>1, <2>2
<1>14. SuccessOK'
    BY <1>0, <1>3, <1>4 DEF Outcome, SuccessOK
<1> QED
    BY <1>6, <1>7, <1>8, <1>9, <1>10, <1>11, <1>12, <1>13, <1>14 DEF Inv, Order, Outcome

LEMMA StartWaveFacts ==
    ASSUME TypeOK, ReadyMeansMet, StartWave
    PROVE  LET ready == GetReadyTasks(task) IN
           /\ phase = "picking" /\ phase' = "wave"
           /\ ready # {} /\ ready \subseteq Known /\ wave' = ready
           /\ Known' = Known /\ job' \in [Known -> JobRecord] /\ task' \in [Known -> TaskRecord]
           /\ \A x \in Known : Dependencies(x)' = Dependencies(x) /\ job'[x].seen = job[x].seen
           /\ \A x \in Known \ ready : job'[x] = job[x] /\ StatusOf(x)' = StatusOf(x)
           /\ \A x \in ready :
                 /\ job'[x].at = "queued" /\ StatusOf(x)' = "Running"
                 /\ StatusOf(x) \in {"Ready", "Pending"}
                 /\ \A d \in Dependencies(x) : StatusOf(d) = "Completed"
<1> DEFINE ready == GetReadyTasks(task)
<1>p. PICK misread \in SUBSET ready :
          job' = [x \in Known |-> IF x \in ready
                                 THEN [job[x] EXCEPT !.at = "queued",
                                                     !.memory = LoadMemory(x, misread),
                                                     !.misread = x \in misread]
                                 ELSE job[x]]
    BY DEF StartWave
<1> DEFINE begun(x) == [task[x] EXCEPT !.status = "Running"]
           loaded(x) == LoadMemory(x, misread)
           mis(x) == x \in misread
           queued(x) == [job[x] EXCEPT !.at = "queued", !.memory = loaded(x), !.misread = mis(x)]
<1>0. /\ task \in [Known -> TaskRecord] /\ job \in [Known -> JobRecord]
      /\ store \in [Agents -> [Blocks -> Ids \cup {Default}]]
    BY TypedRecords DEF TypeOK
<1>1. /\ phase = "picking" /\ phase' = "wave" /\ ready # {} /\ wave' = ready
      /\ task' = [x \in Known |-> IF x \in ready THEN begun(x) ELSE task[x]]
      /\ job' = [x \in Known |-> IF x \in ready THEN queued(x) ELSE job[x]]
    BY <1>p DEF StartWave
<1>2. ASSUME NEW x \in Known
      PROVE  /\ begun(x) \in TaskRecord
             /\ begun(x).status = "Running" /\ begun(x).deps = task[x].deps
    BY <1>0 DEF TaskRecord, Statuses
<1>3. ASSUME NEW x \in Known
      PROVE  /\ queued(x) \in JobRecord
             /\ queued(x).at = "queued" /\ queued(x).seen = job[x].seen
    <2>1. task[x].agent \in Agents /\ job[x] \in JobRecord
        BY <1>0 DEF TaskRecord
    <2>2. loaded(x) \in [Blocks -> Ids \cup {Default}] /\ mis(x) \in BOOLEAN
        BY <1>0, <2>1 DEF LoadMemory, FreshMemory
    <2> HIDE DEF loaded, mis
    <2> QED
        BY <2>1, <2>2 DEF JobRecord
<1>4. ready \subseteq Known
    BY DEF GetReadyTasks, Known
<1>5. ASSUME NEW x \in ready
      PROVE  /\ StatusOf(x) \in {"Ready", "Pending"}
             /\ \A d \in Dependencies(x) : StatusOf(d) = "Completed"
    <2>1. CASE StatusOf(x) = "Ready"
        BY <1>4, <2>1 DEF ReadyMeansMet
    <2>2. CASE StatusOf(x) # "Ready"
        BY <2>2 DEF GetReadyTasks, DependenciesMet, Dependencies, StatusOf, Known
    <2> QED
        BY <2>1, <2>2
<1> HIDE DEF ready, begun, queued, loaded, mis
<1>6. /\ task' \in [Known -> TaskRecord] /\ job' \in [Known -> JobRecord]
      /\ \A x \in Known \ ready : task'[x] = task[x] /\ job'[x] = job[x]
      /\ \A x \in ready : task'[x] = begun(x) /\ job'[x] = queued(x)
    BY <1>0, <1>1, <1>2, <1>3, <1>4
<1>7. Known' = Known
    BY <1>6 DEF Known
<1>8. \A x \in Known : Dependencies(x)' = Dependencies(x) /\ job'[x].seen = job[x].seen
    BY <1>2, <1>3, <1>4, <1>6, <1>7 DEF Dependencies
<1>9. \A x \in Known \ ready : StatusOf(x)' = StatusOf(x)
    BY <1>6 DEF StatusOf
<1>10. \A x \in ready : job'[x].at = "queued" /\ StatusOf(x)' = "Running"
    BY <1>2, <1>3, <1>4, <1>6 DEF StatusOf
<1> QED
    BY <1>1, <1>4, <1>5, <1>6, <1>7, <1>8, <1>9, <1>10 DEF ready

LEMMA StartWaveKeeps ==
    ASSUME Inv, StartWave
    PROVE  Inv'
<1> DEFINE ready == GetReadyTasks(task)
<1>0. TypeOK /\ Order /\ Outcome /\ ReadyMeansMet /\ JobsMatch
    BY DEF Inv, Order
<1>1. /\ phase = "picking" /\ phase' = "wave"
      /\ ready # {} /\ ready \subseteq Known /\ wave' = ready
      /\ Known' = Known /\ job' \in [Known -> JobRecord] /\ task' \in [Known -> TaskRecord]
      /\ \A x \in Known : Dependencies(x)' = Dependencies(x) /\ job'[x].seen = job[x].seen
      /\ \A x \in Known \ ready : job'[x] = job[x] /\ StatusOf(x)' = StatusOf(x)
      /\ \A x \in ready : /\ job'[x].at = "queued" /\ StatusOf(x)' = "Running"
                          /\ StatusOf(x) \in {"Ready", "Pending"}
                          /\ \A d \in Dependencies(x) : StatusOf(d) = "Completed"
    BY <1>0, StartWaveFacts
<1>2. UNCHANGED <<config, results, success, published>> /\ StoreType'
    BY <1>0, StoreTyped DEF StartWave, Next, ExecuteDag
<1>3. wave = {} /\ \A x \in Known : StatusOf(x) # "Running"
    BY <1>0, <1>1 DEF Order, PhaseOK, JobsMatch
<1>4. \A d \in Known : StatusOf(d) = "Completed" => StatusOf(d)' = "Completed"
    BY <1>1
<1> HIDE DEF ready
<1>5. TypeOK'
    BY <1>0, <1>1, <1>2 DEF TypeOK, TaskRecord, JobRecord, StoreType
<1>6. JobsMatch'
    <2> SUFFICES ASSUME NEW x \in Known
                 PROVE  /\ job'[x].at = "idle" <=> StatusOf(x)' \in {"Pending", "Ready"}
                        /\ job'[x].at \in InFlight <=> StatusOf(x)' = "Running"
                        /\ StatusOf(x)' = "Running" => x \in ready
                        /\ x \in ready => job'[x].at # "idle"
        BY <1>1 DEF JobsMatch
    <2>1. CASE x \in ready
        BY <1>1, <2>1 DEF InFlight
    <2>2. CASE x \notin ready
        BY <1>0, <1>1, <1>3, <2>2 DEF JobsMatch
    <2> QED
        BY <2>1, <2>2
<1>7. PhaseOK'
    BY <1>0, <1>1 DEF Order, PhaseOK
<1>8. ReadyMeansMet'
    <2> SUFFICES ASSUME NEW x \in Known, StatusOf(x)' # "Pending", NEW d \in Dependencies(x)
                 PROVE  StatusOf(d)' = "Completed"
        BY <1>1 DEF ReadyMeansMet
    <2>1. StatusOf(d) = "Completed" /\ d \in Known
        BY <1>0, <1>1 DEF ReadyMeansMet, Dependencies
    <2> QED
        BY <1>4, <2>1
<1>9. PublishedOK'
    BY <1>0, <1>1, <1>2 DEF Order, PublishedOK
<1>10. SeesDependencies'
    <2> SUFFICES ASSUME NEW x \in Known, job'[x].at \notin {"idle", "queued"}
                 PROVE  Dependencies(x) \subseteq job'[x].seen
        BY <1>1 DEF SeesDependencies
    <2>1. job'[x] = job[x]
        BY <1>1
    <2> QED
        BY <1>0, <2>1 DEF Order, SeesDependencies
<1>11. ResultsOK'
    <2>1. \A x \in DOMAIN results : StatusOf(x)' = StatusOf(x) /\ StatusOf(x) \in Over
        BY <1>0, <1>1 DEF Outcome, ResultsOK, TypeOK, Over
    <2>2. \A x \in Known : StatusOf(x)' \in Over => x \in DOMAIN results
        BY <1>0, <1>1 DEF Outcome, ResultsOK, Over
    <2> QED
        BY <1>0, <1>1, <1>2, <2>1, <2>2 DEF Outcome, ResultsOK
<1>12. StopOK'
    BY <1>0, <1>1, <1>2 DEF Outcome, StopOK, FailFast
<1>13. SuccessOK'
    BY <1>0, <1>1, <1>2 DEF Outcome, SuccessOK
<1> QED
    BY <1>5, <1>6, <1>7, <1>8, <1>9, <1>10, <1>11, <1>12, <1>13 DEF Inv, Order, Outcome

LEMMA FinishKeeps ==
    ASSUME Inv, Finish
    PROVE  Inv'
<1>0. TypeOK /\ Order /\ Outcome
    BY DEF Inv
<1>1. /\ phase = "picking" /\ phase' = "done"
      /\ success' = (IsComplete(task) /\ ~HasFailures(task))
      /\ UNCHANGED <<config, task, job, wave, results, published, store, faults>>
    BY DEF Finish
<1>2. IsComplete(task) /\ ~HasFailures(task) <=> \A x \in Known : StatusOf(x) = "Completed"
    BY DEF IsComplete, HasFailures, Known, StatusOf
<1>3. TypeOK'
    BY <1>0, <1>1 DEF TypeOK, Known
<1>4. Order'
    BY <1>0, <1>1 DEF Order, JobsMatch, PhaseOK, ReadyMeansMet, PublishedOK, SeesDependencies,
                      Known, StatusOf, Dependencies
<1>5. ResultsOK' /\ StopOK'
    BY <1>0, <1>1 DEF Outcome, ResultsOK, StopOK, Known, StatusOf, FailFast
<1>6. SuccessOK'
    BY <1>1, <1>2 DEF SuccessOK, Known, StatusOf
<1> QED
    BY <1>3, <1>4, <1>5, <1>6 DEF Inv, Outcome

LEMMA JoinWaveKeeps ==
    ASSUME Inv, JoinWave
    PROVE  Inv'
<1>0. TypeOK /\ Order /\ Outcome /\ JobsMatch
    BY DEF Inv, Order
<1>1. /\ phase = "wave" /\ wave' = {} /\ \A x \in wave : job[x].at = "settled"
      /\ UNCHANGED <<config, task, job, success, published, store, faults>>
    BY DEF JoinWave
<1>2. wave \subseteq Known /\ \A x \in wave : StatusOf(x) \in Over
    BY <1>0, <1>1, SettledIsOver DEF TypeOK
<1>3. PICK S \in SUBSET wave :
          /\ Record(S)
          /\ \/ phase' = "picking" /\ S = wave /\ ~ Triggered(wave)
             \/ phase' = "done" /\ FailFast /\ \E f \in Known : StatusOf(f) = "Failed"
    <2>1. CASE Triggered(wave)
        <3>1. phase' = "done" /\ FailFast
            BY <2>1 DEF JoinWave, Triggered
        <3>2. PICK f \in FailedOf(wave), before \in SUBSET (wave \ FailedOf(wave)) : Record(before \cup {f})
            BY <2>1 DEF JoinWave
        <3>3. f \in wave /\ StatusOf(f) = "Failed"
            BY <3>2 DEF FailedOf, StatusOf
        <3> QED
            BY <1>2, <3>1, <3>2, <3>3
    <2>2. CASE ~ Triggered(wave)
        BY <2>2 DEF JoinWave
    <2> QED
        BY <2>1, <2>2
<1>4. /\ DOMAIN results' = DOMAIN results \cup S
      /\ \A x \in DOMAIN results' : results'[x] = IF x \in S THEN StatusOf(x) ELSE results[x]
    BY <1>3 DEF Record, StatusOf
<1>5. \A x \in Known : StatusOf(x) # "Running"
    BY <1>0, <1>2 DEF JobsMatch, Over
<1>6. TypeOK'
    <2>1. results' \in [DOMAIN results' -> Over] /\ DOMAIN results' \subseteq Known
        <3>1. \A x \in DOMAIN results' : results'[x] \in Over
            BY <1>0, <1>2, <1>4 DEF TypeOK
        <3>2. results' = [x \in DOMAIN results' |-> results'[x]]
            BY <1>3 DEF Record
        <3> QED
            BY <1>0, <1>2, <1>4, <3>1, <3>2 DEF TypeOK
    <2> QED
        BY <1>0, <1>1, <1>3, <2>1 DEF TypeOK, Known
<1>7. JobsMatch'
    BY <1>0, <1>1, <1>5 DEF JobsMatch, Known, StatusOf
<1>8. PhaseOK'
    BY <1>0, <1>1, <1>3 DEF Order, PhaseOK, Known
<1>9. (ReadyMeansMet /\ PublishedOK /\ SeesDependencies)'
    BY <1>0, <1>1 DEF Order, ReadyMeansMet, PublishedOK, SeesDependencies, Known, StatusOf, Dependencies
<1>10. ResultsOK'
    <2>1. \A x \in DOMAIN results' : StatusOf(x) \in Over /\ results'[x] = StatusOf(x)
        BY <1>0, <1>2, <1>4 DEF Outcome, ResultsOK
    <2>2. ASSUME NEW x \in Known, StatusOf(x) \in Over
          PROVE  \/ x \in DOMAIN results'
                 \/ phase' = "done" /\ FailFast /\ \E f \in Known : StatusOf(f) = "Failed"
        <3>1. x \in DOMAIN results \/ x \in wave
            BY <1>0, <1>1, <2>2 DEF Outcome, ResultsOK
        <3> QED
            BY <1>3, <1>4, <3>1
    <2> QED
        BY <1>1, <2>1, <2>2 DEF ResultsOK, Known, StatusOf, FailFast
<1>11. StopOK'
    <2>1. ASSUME FailFast, NEW x \in Known, StatusOf(x) = "Failed" PROVE phase' = "done"
        <3>1. x \in wave
            BY <1>0, <1>1, <2>1 DEF Outcome, StopOK
        <3>2. Triggered(wave)
            BY <2>1, <3>1 DEF Triggered, FailedOf, StatusOf
        <3> QED
            BY <1>3, <3>2
    <2> QED
        BY <1>1, <2>1 DEF StopOK, Known, StatusOf, FailFast
<1>12. SuccessOK'
    <2>1. ~ success
        BY <1>0, <1>1 DEF Outcome, SuccessOK
    <2> QED
        BY <1>1, <1>3, <2>1 DEF SuccessOK, Known, StatusOf
<1> QED
    BY <1>6, <1>7, <1>8, <1>9, <1>10, <1>11, <1>12 DEF Inv, Order, Outcome

\* What plan_goal makes of a reply or of the fallback.
LEMMA DagFacts ==
    ASSUME NEW entries \in Seq(Entries), NEW t \in NamedIds(entries)
    PROVE  /\ t \in Ids /\ DagOf(entries)[t] \in TaskRecord
           /\ DagOf(entries)[t].status \in {"Ready", "Pending"}
           /\ DagOf(entries)[t].status = "Ready" => DagOf(entries)[t].deps = {}
<1> DEFINE e == LastEntry(entries, t)
<1>1. e \in Entries /\ e.id = t
    BY LastEntryIsOne
<1>2. t # BlankId
    BY DEF NamedIds
<1>3. t \in Ids
    BY <1>1, <1>2 DEF Entries
<1>4. DagOf(entries)[t] = NewTask(e)
    BY DEF DagOf
<1> HIDE DEF e
<1> QED
    BY <1>1, <1>3, <1>4 DEF NewTask, Entries, TaskRecord, Statuses

LEMMA PlanGoalKeeps ==
    ASSUME Inv, NEW reply \in Replies, PlanGoal(reply)
    PROVE  Inv'
<1> DEFINE entries == IF NamedIds(reply) = {} THEN Fallback ELSE reply
<1>0. TypeOK /\ Order /\ Outcome
    BY DEF Inv
<1>1. /\ phase = "planning" /\ phase' = "picking"
      /\ task' = DagOf(entries) /\ job' = [x \in DOMAIN task' |-> IdleJob]
      /\ UNCHANGED <<config, wave, results, success, published, store, faults>>
    BY DEF PlanGoal
<1>2. entries \in Seq(Entries)
    BY TaskDagAssumption
<1>3. NamedIds(entries) # {}
    <2>1. CASE NamedIds(reply) = {}
        <3>1. Len(Fallback) > 0 /\ 1 \in DOMAIN Fallback
            BY TaskDagAssumption, EmptySeq
        <3>2. Fallback[1].id # BlankId
            BY <3>1, TaskDagAssumption
        <3> QED
            BY <2>1, <3>1, <3>2 DEF NamedIds
    <2>2. CASE NamedIds(reply) # {}
        BY <2>2
    <2> QED
        BY <2>1, <2>2
<1> HIDE DEF entries
<1>4. Known' = NamedIds(entries)
    BY <1>1 DEF Known, DagOf
<1>5. \A x \in Known' : /\ x \in Ids /\ task'[x] \in TaskRecord
                        /\ StatusOf(x)' \in {"Ready", "Pending"}
                        /\ StatusOf(x)' = "Ready" => task'[x].deps = {}
    BY <1>1, <1>2, <1>4, DagFacts DEF StatusOf
<1>6. Known = {} /\ wave = {} /\ DOMAIN results = {} /\ published = {}
    BY <1>0, <1>1 DEF Order, PhaseOK, TypeOK
<1>7. IdleJob \in JobRecord /\ IdleJob.at = "idle"
    BY DEF IdleJob, JobRecord, FreshMemory
<1>8. \A x \in Known' : job'[x] = IdleJob
    BY <1>1 DEF Known
<1>9. task' \in [Known' -> TaskRecord] /\ job' \in [Known' -> JobRecord]
    <2>1. task' = [x \in Known' |-> task'[x]]
        BY <1>1 DEF Known, DagOf
    <2> QED
        BY <1>1, <1>5, <1>7, <2>1 DEF Known
<1>10. TypeOK'
    BY <1>0, <1>1, <1>5, <1>6, <1>9 DEF TypeOK, TaskRecord, JobRecord
<1>11. JobsMatch'
    <2> SUFFICES ASSUME NEW x \in Known'
                 PROVE  /\ job'[x].at = "idle" <=> StatusOf(x)' \in {"Pending", "Ready"}
                        /\ job'[x].at \in InFlight <=> StatusOf(x)' = "Running"
                        /\ StatusOf(x)' = "Running" => x \in wave'
                        /\ x \in wave' => job'[x].at # "idle"
        BY DEF JobsMatch
    <2> QED
        BY <1>1, <1>5, <1>6, <1>7, <1>8 DEF InFlight
<1>12. PhaseOK'
    BY <1>1, <1>3, <1>4, <1>6 DEF PhaseOK
<1>13. ReadyMeansMet' /\ PublishedOK'
    BY <1>5 DEF ReadyMeansMet, PublishedOK, Dependencies
<1>14. SeesDependencies'
    BY <1>7, <1>8 DEF SeesDependencies
<1>15. ResultsOK' /\ StopOK'
    BY <1>1, <1>5, <1>6 DEF ResultsOK, StopOK, Over
<1>16. SuccessOK'
    BY <1>0, <1>1 DEF Outcome, SuccessOK
<1> QED
    BY <1>10, <1>11, <1>12, <1>13, <1>14, <1>15, <1>16 DEF Inv, Order, Outcome

LEMMA PlanFailsKeeps ==
    ASSUME Inv, PlanFails
    PROVE  Inv'
<1>0. TypeOK /\ Order /\ Outcome
    BY DEF Inv
<1>1. /\ phase = "planning" /\ phase' = "failed"
      /\ UNCHANGED <<config, task, job, wave, results, success, published, store, faults>>
    BY DEF PlanFails
<1>2. Known = {} /\ Known' = {}
    BY <1>0, <1>1 DEF Order, PhaseOK, Known
<1>3. TypeOK'
    BY <1>0, <1>1 DEF TypeOK, Known
<1>4. Order'
    BY <1>0, <1>1, <1>2 DEF Order, JobsMatch, PhaseOK, ReadyMeansMet, PublishedOK, SeesDependencies
<1>5. ResultsOK' /\ StopOK'
    BY <1>0, <1>1, <1>2 DEF Outcome, ResultsOK, StopOK, TypeOK
<1>6. SuccessOK'
    BY <1>0, <1>1 DEF Outcome, SuccessOK
<1> QED
    BY <1>3, <1>4, <1>5, <1>6 DEF Inv, Outcome

LEMMA StutterKeeps == ASSUME Inv, UNCHANGED vars PROVE Inv'
BY DEF Inv, Order, Outcome, TypeOK, JobsMatch, PhaseOK, ReadyMeansMet, PublishedOK,
       SeesDependencies, ResultsOK, StopOK, SuccessOK, Known, StatusOf, Dependencies, FailFast, vars

LEMMA NextInv == Inv /\ [Next]_vars => Inv'
<1> SUFFICES ASSUME Inv, [Next]_vars PROVE Inv'
    OBVIOUS
<1>1. TypeOK
    BY DEF Inv
<1>2. StoreType'
    BY <1>1, StoreTyped DEF StoreType
<1>3. CASE \E reply \in Replies : PlanGoal(reply)
    BY <1>3, PlanGoalKeeps
<1>4. CASE \E t \in Known : Works(t) \/ \E new \in Over : Ends(t, new)
    BY <1>2, <1>4, WorksKeeps, EndsKeeps
<1>5. CASE PlanFails \/ StartWave \/ Finish \/ JoinWave \/ UNCHANGED vars
    BY <1>5, PlanFailsKeeps, StartWaveKeeps, FinishKeeps, JoinWaveKeeps, StutterKeeps
<1> QED
    BY <1>1, <1>3, <1>4, <1>5, StepEffect

(* Every state of every orchestration, whatever the plan, satisfies the invariant. *)
THEOREM Invariant == Spec => []Inv
BY InitInv, NextInv, PTL DEF Spec

(* Every variable of TaskDag keeps its type (execute_dag). *)
THEOREM TypeCorrect == Spec => []TypeOK
<1>1. Inv => TypeOK
    BY DEF Inv
<1> QED
    BY <1>1, Invariant, PTL

(* No task runs or ends before the tasks it depends on completed, for every plan, cyclic *)
(* and ill-formed ones included (get_ready_tasks, update_status).                        *)
THEOREM DependenciesFirst == Spec => []RunsAfterDependencies
<1>1. Inv => RunsAfterDependencies
    BY DEF Inv, Order, ReadyMeansMet, RunsAfterDependencies, Over, StatusOf
<1> QED
    BY <1>1, Invariant, PTL

(* The prompt of every task is put together from the artifacts of all its dependencies. *)
THEOREM ArtifactsSeen == Spec => []SeesDependencies
<1>1. Inv => SeesDependencies
    BY DEF Inv, Order
<1> QED
    BY <1>1, Invariant, PTL

(* What execute_dag returns agrees with the graph, in both failure modes. *)
THEOREM HonestResults == Spec => []ResultsHonest
<1>1. ASSUME Inv, phase = "done"
      PROVE  /\ success <=> \A t \in Known : task[t].status = "Completed"
             /\ \A t \in DOMAIN results : results[t] = task[t].status
             /\ ~FailFast => DOMAIN results = {t \in Known : job[t].at # "idle"}
             /\ success => DOMAIN results = Known
    <2>0. TypeOK /\ Order /\ ResultsOK /\ SuccessOK /\ JobsMatch
        BY <1>1 DEF Inv, Order, Outcome
    <2>1. DOMAIN results \subseteq Known
        BY <2>0 DEF TypeOK
    <2>2. \A t \in Known : StatusOf(t) # "Running"
        BY <2>0, <1>1 DEF Order, JobsMatch, PhaseOK
    <2>3. \A t \in Known : job[t].at # "idle" <=> StatusOf(t) \in Over
        BY <2>0, <2>2, SettledIsOver DEF JobsMatch, Statuses, Over
    <2>4. ~FailFast => DOMAIN results = {t \in Known : job[t].at # "idle"}
        BY <2>0, <2>1, <2>3, <1>1 DEF ResultsOK
    <2>5. success => DOMAIN results = Known
        BY <2>0, <2>1, <1>1 DEF ResultsOK, SuccessOK, Over
    <2> QED
        BY <2>0, <2>4, <2>5, <1>1 DEF ResultsOK, SuccessOK, StatusOf
<1>2. Inv => ResultsHonest
    BY <1>1 DEF ResultsHonest
<1> QED
    BY <1>2, Invariant, PTL

-----------------------------------------------------------------------------
(* Executions and retries of a task. *)

CountsOK ==
    \A t \in Known :
        /\ job[t].at \in {"idle", "queued"} => job[t].executions = 0 /\ job[t].retries = 0
        /\ job[t].at = "executing" =>
              job[t].executions = job[t].retries /\ job[t].retries <= MaxRetries
        /\ job[t].at = "reviewing" =>
              job[t].executions = job[t].retries + 1 /\ job[t].retries <= MaxRetries
        /\ job[t].executions <= MaxRetries + 1

LEMMA RetriesTyped == ASSUME TypeOK PROVE MaxRetries \in Nat
BY TaskDagAssumption DEF TypeOK, MaxRetries

LEMMA TaskStepCounts ==
    ASSUME TypeOK, JobsMatch, CountsOK, NEW t \in Known, TaskStep(t)
    PROVE  CountsOK'
<1>0. job \in [Known -> JobRecord] /\ job[t] \in JobRecord /\ MaxRetries \in Nat
    BY TypedRecords, RetriesTyped
<1>1. job[t].executions \in Nat /\ job[t].retries \in Nat
    BY <1>0 DEF JobRecord
<1>2. Works(t) \/ \E new \in Over : Ends(t, new)
    BY TaskStepEffect
<1>3. Known' = Known /\ (\A x \in Known \ {t} : job'[x] = job[x]) /\ config' = config
    BY <1>2, WorksFacts, EndsFacts DEF Works, Ends
<1>4. /\ job'[t].at \in {"idle", "queued"} => job'[t].executions = 0 /\ job'[t].retries = 0
      /\ job'[t].at = "executing" =>
            job'[t].executions = job'[t].retries /\ job'[t].retries <= MaxRetries
      /\ job'[t].at = "reviewing" =>
            job'[t].executions = job'[t].retries + 1 /\ job'[t].retries <= MaxRetries
      /\ job'[t].executions <= MaxRetries + 1
    <2>0. /\ job[t].at \in {"idle", "queued"} => job[t].executions = 0 /\ job[t].retries = 0
          /\ job[t].at = "executing" =>
                job[t].executions = job[t].retries /\ job[t].retries <= MaxRetries
          /\ job[t].at = "reviewing" =>
                job[t].executions = job[t].retries + 1 /\ job[t].retries <= MaxRetries
          /\ job[t].executions <= MaxRetries + 1
        BY DEF CountsOK
    <2>1. CASE Begin(t)
        <3>1. /\ job[t].at = "queued" /\ job'[t].at = "executing"
              /\ job'[t].executions = job[t].executions /\ job'[t].retries = job[t].retries
            BY <1>0, <2>1 DEF Begin, JobRecord
        <3> QED
            BY <1>0, <1>1, <2>0, <3>1
    <2>2. CASE job' = [job EXCEPT ![t].at = "settled"]
        <3>1. /\ job'[t].at = "settled" /\ job'[t].executions = job[t].executions
            BY <1>0, <2>2 DEF JobRecord
        <3> QED
            BY <2>0, <3>1
    <2>3. CASE Reject(t) /\ ~ (job' = [job EXCEPT ![t].at = "settled"])
        <3>1. /\ job[t].at = "reviewing" /\ ~OutOfRetries(t)
              /\ job' = [job EXCEPT ![t].at = "executing", ![t].retries = @ + 1]
            BY <2>3 DEF Reject, Accept
        <3>2. /\ job'[t].at = "executing" /\ job'[t].executions = job[t].executions
              /\ job'[t].retries = job[t].retries + 1
            BY <1>0, <3>1 DEF JobRecord
        <3>3. job[t].retries + 1 <= MaxRetries
            BY <1>0, <1>1, <3>1 DEF OutOfRetries
        <3> QED
            BY <1>0, <1>1, <2>0, <3>1, <3>2, <3>3
    <2>4. ASSUME NEW updates \in SUBSET Blocks, Answer(t, updates)
          PROVE  /\ job[t].at = "executing" /\ job'[t].at \in {"settled", "reviewing"}
                 /\ job'[t].executions = job[t].executions + 1
                 /\ job'[t].retries = job[t].retries
        BY <1>0, <2>4 DEF Answer, JobRecord
    <2>5. CASE \E updates \in SUBSET Blocks : Answer(t, updates)
        BY <1>0, <1>1, <2>0, <2>4, <2>5
    <2> QED
        BY <2>1, <2>2, <2>3, <2>5 DEF TaskStep, DispatchFails, Fail, Approve, Accept
<1> QED
    <2>1. MaxRetries' = MaxRetries
        BY <1>3 DEF MaxRetries
    <2> SUFFICES ASSUME NEW x \in Known
                 PROVE  /\ job'[x].at \in {"idle", "queued"} => job'[x].executions = 0 /\ job'[x].retries = 0
                        /\ job'[x].at = "executing" =>
                              job'[x].executions = job'[x].retries /\ job'[x].retries <= MaxRetries
                        /\ job'[x].at = "reviewing" =>
                              job'[x].executions = job'[x].retries + 1 /\ job'[x].retries <= MaxRetries
                        /\ job'[x].executions <= MaxRetries + 1
        BY <1>3, <2>1 DEF CountsOK
    <2>2. CASE x = t
        BY <1>4, <2>2
    <2>3. CASE x # t
        BY <1>3, <2>3 DEF CountsOK
    <2> QED
        BY <2>2, <2>3

LEMMA CountsKept == Inv /\ CountsOK /\ [Next]_vars => CountsOK'
<1> SUFFICES ASSUME Inv, CountsOK, [Next]_vars PROVE CountsOK'
    OBVIOUS
<1>0. TypeOK /\ JobsMatch /\ ReadyMeansMet /\ MaxRetries \in Nat
    BY RetriesTyped DEF Inv, Order
<1>1. CASE \E t \in Known : TaskStep(t)
    BY <1>0, <1>1, TaskStepCounts
<1>2. CASE StartWave
    <2> DEFINE ready == GetReadyTasks(task)
    <2>p. PICK misread \in SUBSET ready :
              job' = [x \in Known |-> IF x \in ready
                                     THEN [job[x] EXCEPT !.at = "queued",
                                                         !.memory = LoadMemory(x, misread),
                                                         !.misread = x \in misread]
                                     ELSE job[x]]
        BY <1>2 DEF StartWave
    <2> DEFINE queued(x) == [job[x] EXCEPT !.at = "queued", !.memory = LoadMemory(x, misread),
                                           !.misread = x \in misread]
    <2>1. /\ Known' = Known /\ ready \subseteq Known /\ config' = config
          /\ \A x \in Known \ ready : job'[x] = job[x]
          /\ \A x \in ready : StatusOf(x) \in {"Ready", "Pending"}
        BY <1>0, <1>2, StartWaveFacts DEF StartWave
    <2>2. ASSUME NEW x \in ready
          PROVE  /\ job'[x].at = "queued" /\ job[x].at = "idle"
                 /\ job'[x].executions = job[x].executions
                 /\ job'[x].retries = job[x].retries
        <3>1. job[x].at = "idle" /\ job[x] \in JobRecord
            BY <1>0, <2>1, TypedRecords DEF JobsMatch
        <3>2. job'[x] = queued(x)
            BY <2>p, <2>1
        <3> QED
            BY <3>1, <3>2 DEF JobRecord
    <2>3. \A x \in Known : job[x].at = "idle" => job[x].executions = 0 /\ job[x].retries = 0
        BY DEF CountsOK
    <2> HIDE DEF ready
    <2> QED
        BY <1>0, <2>1, <2>2, <2>3 DEF CountsOK, MaxRetries
<1>3. CASE \E reply \in Replies : PlanGoal(reply)
    <2>1. \A x \in Known' : job'[x] = IdleJob
        BY <1>3 DEF PlanGoal, Known
    <2>2. MaxRetries' = MaxRetries
        BY <1>3 DEF PlanGoal, MaxRetries
    <2> QED
        BY <1>0, <2>1, <2>2 DEF CountsOK, IdleJob
<1>4. CASE PlanFails \/ Finish \/ JoinWave \/ UNCHANGED vars
    BY <1>4 DEF PlanFails, Finish, JoinWave, vars, CountsOK, Known, MaxRetries
<1> QED
    BY <1>1, <1>2, <1>3, <1>4 DEF Next, ExecuteDag, Returned

(* No task's agent is dispatched to more often than once plus the retries allowed *)
(* (run_self_repair, over all waves).                                             *)
THEOREM RepairsAreBounded == Spec => []RepairsBounded
<1>1. Init => CountsOK
    BY DEF Init, CountsOK, Known
<1>2. Inv /\ CountsOK /\ [Next]_vars => CountsOK'
    BY CountsKept
<1>3. CountsOK => RepairsBounded
    BY DEF CountsOK, RepairsBounded
<1> QED
    BY <1>1, <1>2, <1>3, Invariant, PTL DEF Spec

-----------------------------------------------------------------------------
(* Core memory.  All tasks of a wave that run on one agent and could read the file     *)
(* loaded the same memory when the wave began; what the file holds now is that, or from *)
(* the wave, or nothing.  A task that could not read it holds the defaults.             *)

MemoryOK ==
    \A t \in wave : \A b \in Blocks :
        IF job[t].misread THEN job[t].memory[b] = Default
        ELSE /\ \A u \in wave : task[u].agent = task[t].agent /\ ~job[u].misread
                                   => job[u].memory[b] = job[t].memory[b]
             /\ store[task[t].agent][b] \in {job[t].memory[b], Default} \cup wave

LEMMA AgentsStay ==
    ASSUME NEW K, NEW g \in [K -> TaskRecord], NEW t \in K, NEW new \in Statuses, NEW x \in K
    PROVE  UpdateStatus(g, t, new)[x].agent = g[x].agent
<1> DEFINE h == [g EXCEPT ![t].status = new]
           Unlocked(y) == h[y].status = "Pending" /\ DependenciesMet(h, y)
<1>1. DOMAIN h = K /\ h[x] \in TaskRecord /\ h[x].agent = g[x].agent
    BY DEF TaskRecord
<1>2. /\ new # "Completed" => UpdateStatus(g, t, new) = h
      /\ new = "Completed" =>
            UpdateStatus(g, t, new)[x] = IF Unlocked(x) THEN [h[x] EXCEPT !.status = "Ready"] ELSE h[x]
    BY <1>1 DEF UpdateStatus
<1> HIDE DEF h, Unlocked
<1>3. UpdateStatus(g, t, new)[x] = h[x]
      \/ UpdateStatus(g, t, new)[x] = [h[x] EXCEPT !.status = "Ready"]
    BY <1>2
<1>4. CASE UpdateStatus(g, t, new)[x] = h[x]
    BY <1>1, <1>4
<1>5. CASE UpdateStatus(g, t, new)[x] = [h[x] EXCEPT !.status = "Ready"]
    BY <1>1, <1>5 DEF TaskRecord
<1> QED
    BY <1>3, <1>4, <1>5

\* No step of a future touches what any future loaded.
LEMMA LoadedStays ==
    ASSUME TypeOK, NEW t \in Known, TaskStep(t), NEW x \in Known
    PROVE  job'[x].memory = job[x].memory /\ job'[x].misread = job[x].misread
<1>0. job \in [Known -> JobRecord] /\ job[x] \in JobRecord
    BY TypedRecords
<1>1. CASE Begin(t)
    BY <1>0, <1>1 DEF Begin, JobRecord
<1>2. CASE job' = [job EXCEPT ![t].at = "settled"]
    BY <1>0, <1>2 DEF JobRecord
<1>3. CASE job' = [job EXCEPT ![t].at = "executing", ![t].retries = @ + 1]
    BY <1>0, <1>3 DEF JobRecord
<1>4. ASSUME NEW updates \in SUBSET Blocks, Answer(t, updates)
      PROVE  job'[x].memory = job[x].memory /\ job'[x].misread = job[x].misread
    BY <1>0, <1>4 DEF Answer, JobRecord
<1> QED
    BY <1>1, <1>2, <1>3, <1>4 DEF TaskStep, DispatchFails, Fail, Approve, Reject, Accept

LEMMA TaskStepSaves ==
    ASSUME TypeOK, JobsMatch, NEW t \in Known, TaskStep(t)
    PROVE  /\ t \in wave /\ wave' = wave /\ Known' = Known
           /\ \A x \in Known : /\ task'[x].agent = task[x].agent
                               /\ job'[x].memory = job[x].memory
                               /\ job'[x].misread = job[x].misread
           /\ \/ store' = store
              \/ store' = SaveMemory(t, store)
              \/ store' \in {SaveMemory(t, NoStore), NoStore} /\ Fault
<1>0. task \in [Known -> TaskRecord]
    BY TypedRecords
<1>1. Works(t) \/ \E new \in Over : Ends(t, new)
    BY TaskStepEffect
<1>2. Known' = Known
    BY <1>1, WorksFacts, EndsFacts
<1>3. t \in wave /\ wave' = wave
    <2>1. job[t].at \in InFlight /\ wave' = wave
        BY <1>1 DEF Works, Ends, InFlight
    <2> QED
        BY <2>1 DEF JobsMatch
<1>4. ASSUME NEW x \in Known
      PROVE  task'[x].agent = task[x].agent
    <2>1. CASE Works(t)
        BY <2>1 DEF Works
    <2>2. ASSUME NEW new \in Over, Ends(t, new)
          PROVE  task'[x].agent = task[x].agent
        <3>1. task' = UpdateStatus(task, t, new) /\ new \in Statuses
            BY <2>2 DEF Ends, Over, Statuses
        <3> QED
            BY <1>0, <3>1, AgentsStay
    <2> QED
        BY <1>1, <2>1, <2>2
<1>5. \/ store' = store
      \/ store' = SaveMemory(t, store)
      \/ store' \in {SaveMemory(t, NoStore), NoStore} /\ Fault
    BY DEF TaskStep, Begin, DispatchFails, Approve, Reject, Answer, Accept, ApplyMemoryUpdates
<1> QED
    BY <1>2, <1>3, <1>4, <1>5, LoadedStays

\* What a save writes into a block.
LEMMA SaveFacts ==
    ASSUME TypeOK, JobsMatch, NEW t \in Known, TaskStep(t), NEW a \in Agents, NEW b \in Blocks,
           store'[a][b] # store[a][b]
    PROVE  \/ /\ a = task[t].agent
              /\ store'[a][b] = IF b \in job[t].updates THEN t ELSE job[t].memory[b]
           \/ store'[a][b] = Default /\ Fault
<1>1. store \in [Agents -> [Blocks -> Ids \cup {Default}]]
    BY DEF TypeOK
<1>2. NoStore \in [Agents -> [Blocks -> {Default}]]
    BY DEF NoStore, FreshMemory
<1>3. CASE store' = SaveMemory(t, store)
    <2>1. a = task[t].agent /\ store'[a] = SavedMemory(t)
        BY <1>1, <1>3 DEF SaveMemory
    <2> QED
        BY <2>1 DEF SavedMemory
<1>4. CASE store' = SaveMemory(t, NoStore) /\ Fault
    <2>1. CASE a = task[t].agent
        <3>1. store'[a] = SavedMemory(t)
            BY <1>2, <1>4, <2>1 DEF SaveMemory
        <3> QED
            BY <2>1, <3>1 DEF SavedMemory
    <2>2. CASE a # task[t].agent
        BY <1>2, <1>4, <2>2 DEF SaveMemory
    <2> QED
        BY <2>1, <2>2
<1>5. CASE store' = NoStore /\ Fault
    BY <1>2, <1>5
<1> QED
    BY <1>3, <1>4, <1>5, TaskStepSaves

LEMMA MemoryStep ==
    ASSUME Inv, MemoryOK, [Next]_vars
    PROVE  MemoryOK'
<1>0. TypeOK /\ JobsMatch /\ wave \subseteq Known
    BY DEF Inv, Order, TypeOK
<1>1. ASSUME NEW s \in Known, TaskStep(s)
      PROVE  MemoryOK'
    <2>0. /\ s \in wave /\ wave' = wave
          /\ \A x \in wave : /\ task'[x].agent = task[x].agent
                             /\ job'[x].memory = job[x].memory
                             /\ job'[x].misread = job[x].misread
        BY <1>0, <1>1, TaskStepSaves
    <2>1. ASSUME NEW t \in wave, NEW b \in Blocks, ~job[t].misread
          PROVE  store'[task[t].agent][b] \in {job[t].memory[b], Default} \cup wave
        <3>1. task[t].agent \in Agents
            BY <1>0 DEF TypeOK
        <3>2. CASE store'[task[t].agent][b] = store[task[t].agent][b]
            BY <2>1, <3>2 DEF MemoryOK
        <3>3. CASE store'[task[t].agent][b] # store[task[t].agent][b]
            <4>1. \/ /\ task[t].agent = task[s].agent
                     /\ store'[task[t].agent][b] = IF b \in job[s].updates THEN s ELSE job[s].memory[b]
                  \/ store'[task[t].agent][b] = Default
                BY <1>0, <1>1, <3>1, <3>3, SaveFacts
            <4>2. task[t].agent = task[s].agent => job[s].memory[b] \in {job[t].memory[b], Default}
                BY <2>0, <2>1 DEF MemoryOK
            <4> QED
                BY <2>0, <4>1, <4>2
        <3> QED
            BY <3>2, <3>3
    <2>2. ASSUME NEW t \in wave, NEW b \in Blocks
          PROVE  IF job[t].misread THEN job[t].memory[b] = Default
                 ELSE \A u \in wave : task[u].agent = task[t].agent /\ ~job[u].misread
                                         => job[u].memory[b] = job[t].memory[b]
        BY DEF MemoryOK
    <2> QED
        BY <2>0, <2>1, <2>2 DEF MemoryOK
<1>2. CASE StartWave
    <2> DEFINE ready == GetReadyTasks(task)
    <2>p. PICK misread \in SUBSET ready :
              job' = [x \in Known |-> IF x \in ready
                                     THEN [job[x] EXCEPT !.at = "queued",
                                                         !.memory = LoadMemory(x, misread),
                                                         !.misread = x \in misread]
                                     ELSE job[x]]
        BY <1>2 DEF StartWave
    <2>1. ready \subseteq Known /\ wave' = ready /\ store' = store
        BY <1>2 DEF StartWave, GetReadyTasks, Known
    <2>2. ASSUME NEW t \in ready
          PROVE  /\ task'[t].agent = task[t].agent
                 /\ job'[t].misread <=> t \in misread
                 /\ job'[t].memory = IF t \in misread THEN FreshMemory ELSE store[task[t].agent]
        <3>1. task[t] \in TaskRecord /\ job[t] \in JobRecord
            BY <1>0, <2>1, TypedRecords
        <3>2. task'[t] = [task[t] EXCEPT !.status = "Running"]
            BY <1>2, <2>1 DEF StartWave
        <3>3. job'[t] = [job[t] EXCEPT !.at = "queued", !.memory = LoadMemory(t, misread),
                                       !.misread = t \in misread]
            BY <2>p, <2>1
        <3>4. task'[t].agent = task[t].agent
            BY <3>1, <3>2 DEF TaskRecord
        <3>5. job'[t].memory = LoadMemory(t, misread) /\ job'[t].misread = (t \in misread)
            BY <3>1, <3>3 DEF JobRecord
        <3> QED
            BY <3>4, <3>5 DEF LoadMemory
    <2>3. \A b \in Blocks : FreshMemory[b] = Default
        BY DEF FreshMemory
    <2> HIDE DEF ready
    <2> QED
        BY <2>1, <2>2, <2>3 DEF MemoryOK
<1>3. CASE PlanFails \/ (\E reply \in Replies : PlanGoal(reply)) \/ Finish
    <2>1. wave' = wave /\ (phase = "planning" \/ phase = "picking")
        BY <1>3 DEF PlanFails, PlanGoal, Finish
    <2>2. wave = {}
        BY <2>1 DEF Inv, Order, PhaseOK
    <2> QED
        BY <2>1, <2>2 DEF MemoryOK
<1>4. CASE JoinWave
    BY <1>4 DEF JoinWave, MemoryOK
<1>5. CASE UNCHANGED vars
    BY <1>5 DEF vars, MemoryOK
<1> QED
    BY <1>1, <1>2, <1>3, <1>4, <1>5 DEF Next, ExecuteDag, Returned

(* Unless the core memory file fails during a save or failed when the wave of the saving *)
(* task began, a save loses nothing an earlier wave wrote to a block it does not rewrite: *)
(* tasks of one agent that run together may overwrite each other's values, and only those *)
(* (parse_and_apply_memory_updates on the memory loaded before the wave, and save_memory).*)
THEOREM EarlierWavesAreKept == Spec => EarlierWavesKept
<1>1. Init => MemoryOK
    BY DEF Init, MemoryOK
<1>2. Inv /\ MemoryOK /\ [Next]_vars => MemoryOK'
    BY MemoryStep
<1>3. ASSUME Inv, MemoryOK, [Next]_vars
      PROVE  [\A a \in Agents, b \in Blocks : store[a][b] # Default /\ store'[a][b] # store[a][b] =>
                 \/ faults' # faults
                 \/ \E t \in wave :
                       /\ task[t].agent = a
                       /\ b \in job[t].updates \/ store[a][b] \in wave \/ job[t].misread]_vars
    <2>0. TypeOK /\ JobsMatch
        BY <1>3 DEF Inv, Order
    <2> SUFFICES ASSUME NEW a \in Agents, NEW b \in Blocks,
                        store[a][b] # Default, store'[a][b] # store[a][b], faults' = faults
                 PROVE  \E t \in wave :
                           /\ task[t].agent = a
                           /\ b \in job[t].updates \/ store[a][b] \in wave \/ job[t].misread
        OBVIOUS
    <2>1. PICK t \in Known : TaskStep(t)
        BY <1>3 DEF Next, ExecuteDag, Returned, PlanFails, PlanGoal, StartWave, Finish, JoinWave, vars
    <2>2. ~ Fault
        BY <2>0 DEF Fault, TypeOK
    <2>3. /\ t \in wave /\ a = task[t].agent
          /\ store'[a][b] = IF b \in job[t].updates THEN t ELSE job[t].memory[b]
        BY <2>0, <2>1, <2>2, TaskStepSaves, SaveFacts
    <2>4. b \notin job[t].updates /\ ~job[t].misread => store[a][b] \in wave
        BY <1>3, <2>3 DEF MemoryOK
    <2> QED
        BY <2>3, <2>4
<1> QED
    BY <1>1, <1>2, <1>3, Invariant, PTL DEF Spec, EarlierWavesKept

-----------------------------------------------------------------------------
(* TaskDag implements TaskFlow. *)

NeedsMap == [t \in Known |-> Dependencies(t)]
StageMap == [t \in Known |-> StageOf(task[t].status)]
VerdictMap == IF phase \in {"planning", "picking", "wave"} THEN "open"
              ELSE IF success THEN "success" ELSE "failure"

LEMMA StageOfStatus ==
    /\ StageOf("Pending") = "waiting" /\ StageOf("Ready") = "waiting"
    /\ StageOf("Running") = "running" /\ StageOf("Completed") = "done"
    /\ StageOf("Failed") = "failed"
BY DEF StageOf

LEMMA FlowInit == Init => Flow!Init
<1> SUFFICES ASSUME Init PROVE Flow!Init
    OBVIOUS
<1>1. Known = {} /\ phase = "planning"
    BY DEF Init, Known
<1>2. NeedsMap = << >> /\ StageMap = << >> /\ VerdictMap = "open"
    BY <1>1 DEF NeedsMap, StageMap, VerdictMap
<1> QED
    BY <1>2 DEF Flow!Init, NeedsMap, StageMap, VerdictMap, FailFast

LEMMA PlanIsFlow ==
    ASSUME Inv, Inv', NEW reply \in Replies, PlanGoal(reply)
    PROVE  Flow!Plan
<1>1. Known = {} /\ Known' # {} /\ Known' \subseteq Ids
    BY DEF Inv, Order, PhaseOK, PlanGoal, TypeOK
<1>2. \A t \in Known' : StatusOf(t)' \in {"Pending", "Ready"}
    <2>1. \A t \in Known' : job'[t].at = "idle"
        BY DEF PlanGoal, Known, IdleJob
    <2> QED
        BY <2>1 DEF Inv, Order, JobsMatch
<1>3. VerdictMap = "open" /\ VerdictMap' = "open" /\ FailFast' = FailFast
    BY DEF PlanGoal, VerdictMap, FailFast
<1>4. DOMAIN NeedsMap = {} /\ DOMAIN NeedsMap' = Known'
    BY <1>1 DEF NeedsMap
<1>5. NeedsMap' \in [Known' -> SUBSET Known']
    BY DEF NeedsMap, Dependencies
<1>6. StageMap' = [t \in Known' |-> "waiting"]
    BY <1>2, StageOfStatus DEF StageMap, StatusOf
<1> QED
    BY <1>1, <1>3, <1>4, <1>5, <1>6 DEF Flow!Plan, Flow!Tasks, NeedsMap, StageMap, VerdictMap

LEMMA GiveUpIsFlow ==
    ASSUME Inv, PlanFails
    PROVE  Flow!GiveUp
<1>1. Known = {} /\ success = FALSE /\ phase = "planning"
    BY DEF Inv, Order, PhaseOK, PlanFails, Outcome, SuccessOK, TypeOK
<1>2. VerdictMap = "open" /\ VerdictMap' = "failure"
    BY <1>1 DEF PlanFails, VerdictMap
<1>3. NeedsMap' = NeedsMap /\ StageMap' = StageMap /\ FailFast' = FailFast
    BY DEF PlanFails, NeedsMap, StageMap, Known, Dependencies, FailFast
<1>4. DOMAIN NeedsMap = {}
    BY <1>1 DEF NeedsMap
<1> QED
    BY <1>2, <1>3, <1>4 DEF Flow!GiveUp, Flow!Tasks, NeedsMap, StageMap, VerdictMap

\* The instance's variables under their names here.
LEMMA MayStartIs ==
    ASSUME TypeOK
    PROVE  Flow!MayStart = {t \in Known :
               /\ StatusOf(t) \in {"Pending", "Ready"}
               /\ \A d \in Dependencies(t) : StatusOf(d) = "Completed"
               /\ FailFast => \A f \in Known : StatusOf(f) # "Failed"}
<1>1. \A t \in Known : StatusOf(t) \in Statuses
    BY TypedRecords DEF TaskRecord, StatusOf
<1>2. \A t \in Known : /\ StageMap[t] = "waiting" <=> StatusOf(t) \in {"Pending", "Ready"}
                       /\ StageMap[t] = "done" <=> StatusOf(t) = "Completed"
                       /\ StageMap[t] = "failed" <=> StatusOf(t) = "Failed"
    BY <1>1, StageOfStatus DEF StageMap, StatusOf, Statuses
<1>3. DOMAIN NeedsMap = Known /\ \A t \in Known : NeedsMap[t] = Dependencies(t)
    BY DEF NeedsMap
<1>4. \A t \in Known : Dependencies(t) \subseteq Known
    BY DEF Dependencies
<1>5. Flow!Failures = {t \in Known : StatusOf(t) = "Failed"}
    <2>1. Flow!Failures = {t \in DOMAIN NeedsMap : StageMap[t] = "failed"}
        BY DEF Flow!Failures, Flow!Tasks, NeedsMap, StageMap
    <2> QED
        BY <1>2, <1>3, <2>1
<1>6. Flow!MayStart = {t \in DOMAIN NeedsMap :
          /\ StageMap[t] = "waiting" /\ \A d \in NeedsMap[t] : StageMap[d] = "done"
          /\ FailFast => Flow!Failures = {}}
    BY DEF Flow!MayStart, Flow!Tasks, NeedsMap, StageMap
<1> HIDE DEF Flow!Failures
<1> QED
    BY <1>2, <1>3, <1>4, <1>5, <1>6

LEMMA StartIsFlow ==
    ASSUME Inv, StartWave
    PROVE  Flow!Start
<1> DEFINE ready == GetReadyTasks(task)
<1>0. TypeOK /\ ReadyMeansMet /\ StopOK /\ PhaseOK
    BY DEF Inv, Order, Outcome
<1>1. /\ phase = "picking" /\ phase' = "wave"
      /\ ready # {} /\ ready \subseteq Known /\ Known' = Known
      /\ \A x \in Known : Dependencies(x)' = Dependencies(x)
      /\ \A x \in Known \ ready : StatusOf(x)' = StatusOf(x)
      /\ \A x \in ready : /\ StatusOf(x)' = "Running" /\ StatusOf(x) \in {"Ready", "Pending"}
                          /\ \A d \in Dependencies(x) : StatusOf(d) = "Completed"
    BY <1>0, StartWaveFacts
<1>2. config' = config
    BY DEF StartWave
<1> HIDE DEF ready
<1>3. FailFast => \A f \in Known : StatusOf(f) # "Failed"
    BY <1>0, <1>1 DEF StopOK
<1>4. ready \in (SUBSET Flow!MayStart) \ {{}}
    <2>1. \A x \in ready : x \in Flow!MayStart
        BY <1>0, <1>1, <1>3, MayStartIs
    <2> QED
        BY <1>1, <2>1
<1>5. NeedsMap' = NeedsMap /\ DOMAIN NeedsMap = Known
    BY <1>1 DEF NeedsMap
<1>6. StageMap' = [t \in Known |-> IF t \in ready THEN "running" ELSE StageMap[t]]
    BY <1>1, StageOfStatus DEF StageMap, StatusOf
<1>7. VerdictMap = "open" /\ VerdictMap' = "open" /\ FailFast' = FailFast
    BY <1>1, <1>2 DEF VerdictMap, FailFast
<1> QED
    <2>1. Flow!Start <=> /\ VerdictMap = "open"
                         /\ \E S \in (SUBSET Flow!MayStart) \ {{}} :
                               StageMap' = [t \in DOMAIN NeedsMap |-> IF t \in S THEN "running" ELSE StageMap[t]]
                         /\ UNCHANGED <<FailFast, NeedsMap, VerdictMap>>
        BY DEF Flow!Start, Flow!Tasks, NeedsMap, StageMap, VerdictMap
    <2> QED
        BY <1>4, <1>5, <1>6, <1>7, <2>1

LEMMA WorksIsFlow ==
    ASSUME Inv, NEW t \in Known, Works(t)
    PROVE  UNCHANGED Flow!vars
BY DEF Works, Flow!vars, Known, Dependencies, FailFast

LEMMA EndsIsFlow ==
    ASSUME Inv, NEW t \in Known, NEW new \in Over, Ends(t, new)
    PROVE  Flow!Finish(t)
<1>0. TypeOK /\ JobsMatch
    BY DEF Inv, Order
<1>1. /\ Known' = Known /\ StatusOf(t)' = new
      /\ \A x \in Known : Dependencies(x)' = Dependencies(x)
      /\ \A x \in Known \ {t} : \/ StatusOf(x)' = StatusOf(x)
                                \/ StatusOf(x) = "Pending" /\ StatusOf(x)' = "Ready"
    BY <1>0, EndsFacts
<1>2. StatusOf(t) = "Running" /\ UNCHANGED <<config, phase, success>>
    BY <1>0 DEF Ends, JobsMatch, InFlight
<1>3. NeedsMap' = NeedsMap
    BY <1>1 DEF NeedsMap
<1>4. StageMap[t] = "running"
    BY <1>2, StageOfStatus DEF StageMap, StatusOf
<1>5. StageMap' = [StageMap EXCEPT ![t] = StageOf(new)]
    BY <1>1, StageOfStatus DEF StageMap, StatusOf
<1>6. StageOf(new) \in {"done", "failed"}
    BY StageOfStatus DEF Over
<1>7. VerdictMap' = VerdictMap /\ FailFast' = FailFast
    BY <1>2 DEF VerdictMap, FailFast
<1>8. VerdictMap = "open"
    BY <1>0, <1>2 DEF Inv, Order, PhaseOK, JobsMatch, VerdictMap
<1> QED
    <2>1. Flow!Finish(t) <=> /\ StageMap[t] = "running"
                             /\ \E s \in {"done", "failed"} : StageMap' = [StageMap EXCEPT ![t] = s]
                             /\ UNCHANGED <<FailFast, NeedsMap, VerdictMap>>
        BY DEF Flow!Finish, NeedsMap, StageMap, VerdictMap
    <2> QED
        BY <1>3, <1>4, <1>5, <1>6, <1>7, <2>1

\* The end of an orchestration, at a join that saw a failure or when nothing is ready.
LEMMA EndIsFlow ==
    ASSUME Inv, Inv', phase \in {"picking", "wave"}, phase' = "done", UNCHANGED <<config, task>>,
           \A t \in Known : StatusOf(t) # "Running",
           Flow!MayStart = {}
    PROVE  Flow!End
<1>1. Known # {} /\ Known' = Known
    BY DEF Inv, Order, PhaseOK, Known
<1>2. success' <=> \A t \in Known : StatusOf(t) = "Completed"
    BY <1>1 DEF Inv, Outcome, SuccessOK, StatusOf
<1>3. DOMAIN NeedsMap = Known /\ NeedsMap' = NeedsMap /\ StageMap' = StageMap /\ FailFast' = FailFast
    BY <1>1 DEF NeedsMap, StageMap, Dependencies, FailFast
<1>4. \A t \in Known : StatusOf(t) \in Statuses
    BY TypedRecords DEF TaskRecord, StatusOf, Inv
<1>5. \A t \in Known : StageMap[t] # "running" /\ (StageMap[t] = "done" <=> StatusOf(t) = "Completed")
    BY <1>4, StageOfStatus DEF StageMap, StatusOf, Statuses
<1>6. VerdictMap = "open" /\ VerdictMap' = IF success' THEN "success" ELSE "failure"
    BY DEF VerdictMap
<1>7. VerdictMap' = IF \A t \in Known : StageMap[t] = "done" THEN "success" ELSE "failure"
    BY <1>2, <1>5, <1>6
<1> QED
    <2>1. Flow!End <=> /\ VerdictMap = "open" /\ DOMAIN NeedsMap # {}
                       /\ \A t \in DOMAIN NeedsMap : StageMap[t] # "running"
                       /\ Flow!MayStart = {}
                       /\ VerdictMap' = IF \A t \in DOMAIN NeedsMap : StageMap[t] = "done"
                                        THEN "success" ELSE "failure"
                       /\ UNCHANGED <<FailFast, NeedsMap, StageMap>>
        BY DEF Flow!End, Flow!Tasks, NeedsMap, StageMap, VerdictMap
    <2> QED
        BY <1>1, <1>3, <1>5, <1>6, <1>7, <2>1

LEMMA FinishIsFlow ==
    ASSUME Inv, Inv', Finish
    PROVE  Flow!End
<1>1. TypeOK /\ JobsMatch /\ PhaseOK
    BY DEF Inv, Order
<1>2. phase = "picking" /\ phase' = "done" /\ UNCHANGED <<config, task>> /\ GetReadyTasks(task) = {}
    BY DEF Finish
<1>3. \A t \in Known : StatusOf(t) # "Running"
    BY <1>1, <1>2 DEF JobsMatch, PhaseOK
<1>4. \A t \in Known : StatusOf(t) \in {"Pending", "Ready"} =>
          \E d \in Dependencies(t) : StatusOf(d) # "Completed"
    BY <1>2 DEF GetReadyTasks, DependenciesMet, Known, StatusOf, Dependencies
<1>5. Flow!MayStart = {}
    BY <1>1, <1>4, MayStartIs
<1> QED
    BY <1>2, <1>3, <1>5, EndIsFlow

LEMMA JoinIsFlow ==
    ASSUME Inv, Inv', JoinWave
    PROVE  Flow!End \/ UNCHANGED Flow!vars
<1>1. TypeOK /\ JobsMatch /\ PhaseOK
    BY DEF Inv, Order
<1>2. /\ phase = "wave" /\ UNCHANGED <<config, task, success>>
      /\ \A t \in wave : job[t].at = "settled"
    BY DEF JoinWave
<1>3. CASE Triggered(wave)
    <2>1. phase' = "done" /\ FailFast
        BY <1>3 DEF JoinWave, Triggered
    <2>2. PICK f \in wave : StatusOf(f) = "Failed"
        BY <1>3 DEF Triggered, FailedOf, StatusOf
    <2>3. f \in Known
        BY <1>1 DEF TypeOK
    <2>4. \A t \in Known : StatusOf(t) # "Running"
        <3>1. \A t \in wave : StatusOf(t) \in Over
            BY <1>1, <1>2, SettledIsOver DEF TypeOK
        <3> QED
            BY <1>1, <3>1 DEF JobsMatch, Over
    <2>5. Flow!MayStart = {}
        BY <1>1, <2>1, <2>2, <2>3, MayStartIs
    <2> QED
        BY <1>2, <2>1, <2>4, <2>5, EndIsFlow
<1>4. CASE ~ Triggered(wave)
    <2>1. phase' = "picking"
        BY <1>4 DEF JoinWave
    <2> QED
        BY <1>2, <2>1 DEF Flow!vars, Known, Dependencies, FailFast
<1> QED
    BY <1>3, <1>4

LEMMA FlowStep == Inv /\ Inv' /\ [Next]_vars => [Flow!Next]_(Flow!vars)
<1> SUFFICES ASSUME Inv, Inv', [Next]_vars PROVE [Flow!Next]_(Flow!vars)
    OBVIOUS
<1>1. TypeOK
    BY DEF Inv
<1>2. CASE PlanFails \/ \E reply \in Replies : PlanGoal(reply)
    BY <1>2, GiveUpIsFlow, PlanIsFlow DEF Flow!Next
<1>3. CASE StartWave \/ Finish \/ JoinWave
    BY <1>3, StartIsFlow, FinishIsFlow, JoinIsFlow DEF Flow!Next
<1>4. ASSUME NEW t \in Known, Works(t)
      PROVE  UNCHANGED Flow!vars
    BY <1>4, WorksIsFlow
<1>5. ASSUME NEW t \in Known, NEW new \in Over, Ends(t, new)
      PROVE  Flow!Next
    <2>1. t \in Flow!Tasks
        BY DEF Flow!Tasks
    <2> QED
        BY <1>5, <2>1, EndsIsFlow DEF Flow!Next
<1>6. CASE \E t \in Known : Works(t) \/ \E new \in Over : Ends(t, new)
    BY <1>4, <1>5, <1>6
<1>7. CASE UNCHANGED vars
    BY <1>7 DEF vars, Flow!vars, Known, Dependencies, FailFast
<1> QED
    BY <1>1, <1>2, <1>3, <1>6, <1>7, StepEffect

(* execute_dag, with its waves, repairs and failure modes, implements TaskFlow. *)
THEOREM Refines == Spec => ImplementsFlow
<1>1. Init => Flow!Init
    BY FlowInit
<1>2. Inv /\ Inv' /\ [Next]_vars => [Flow!Next]_(Flow!vars)
    BY FlowStep
<1> QED
    BY <1>1, <1>2, Invariant, PTL DEF Spec, ImplementsFlow, Flow!Spec

-----------------------------------------------------------------------------
(* Why an orchestration cannot go on for ever: the work that is left of its tasks. *)

Work == {"start", "poll", "execute", "repair", "end", "join"}

\* What the task t may still need: the n-th execution and the n-th repair, and once each
\* of the other steps of its future.
Needs(t, what, n) ==
    \/ what = "start" /\ job[t].at = "idle"
    \/ what = "poll" /\ job[t].at \in {"idle", "queued"}
    \/ what = "execute" /\ job[t].at # "settled" /\ job[t].executions < n
    \/ what = "repair" /\ job[t].at # "settled" /\ job[t].retries < n
    \/ what = "end" /\ job[t].at # "settled"
    \/ what = "join" /\ (job[t].at # "settled" \/ t \in wave)

WorkLeft == {w \in Known \X (Work \X (0..(MaxRetries + 1))) : Needs(w[1], w[2][1], w[2][2])}

\* A step takes something away and adds nothing; an orchestration under way only makes
\* such steps, until it returns.
LessIsLeft == WorkLeft' \subseteq WorkLeft /\ WorkLeft' # WorkLeft
Dwindles == phase \in {"picking", "wave"} => phase' = "done" \/ LessIsLeft

\* Nothing is needed that was not needed before, and something no more.
LEMMA LeftBy ==
    ASSUME Known' = Known, MaxRetries' = MaxRetries, MaxRetries \in Nat,
           NEW t \in Known, NEW what \in Work, NEW n \in 0..(MaxRetries + 1),
           Needs(t, what, n), ~Needs(t, what, n)',
           \A x \in Known, w \in Work, m \in 0..(MaxRetries + 1) : Needs(x, w, m)' => Needs(x, w, m)
    PROVE  LessIsLeft
<1> DEFINE All == Known \X (Work \X (0..(MaxRetries + 1)))
           Wants(w) == Needs(w[1], w[2][1], w[2][2])
<1>1. /\ WorkLeft = {w \in All : Wants(w)}
      /\ WorkLeft' = {w \in All : Wants(w)'}
    BY DEF WorkLeft
<1>2. \A w \in All : Wants(w)' => Wants(w)
    OBVIOUS
<1>3. <<t, <<what, n>>>> \in All /\ Wants(<<t, <<what, n>>>>) /\ ~Wants(<<t, <<what, n>>>>)'
    OBVIOUS
<1> QED
    <2> HIDE DEF All, Wants
    <2> QED
        BY <1>1, <1>2, <1>3 DEF LessIsLeft

LEMMA WaveDwindles ==
    ASSUME Inv, CountsOK, StartWave
    PROVE  LessIsLeft
<1> DEFINE ready == GetReadyTasks(task)
<1>p. PICK misread \in SUBSET ready :
          job' = [x \in Known |-> IF x \in ready
                                 THEN [job[x] EXCEPT !.at = "queued",
                                                     !.memory = LoadMemory(x, misread),
                                                     !.misread = x \in misread]
                                 ELSE job[x]]
    BY DEF StartWave
<1> DEFINE queued(x) == [job[x] EXCEPT !.at = "queued", !.memory = LoadMemory(x, misread),
                                       !.misread = x \in misread]
<1>0. TypeOK /\ JobsMatch /\ ReadyMeansMet /\ PhaseOK /\ MaxRetries \in Nat
    BY RetriesTyped DEF Inv, Order
<1>1. /\ Known' = Known /\ ready \subseteq Known /\ ready # {} /\ wave' = ready /\ MaxRetries' = MaxRetries
      /\ \A x \in Known \ ready : job'[x] = job[x]
      /\ \A x \in ready : job'[x].at = "queued" /\ StatusOf(x) \in {"Ready", "Pending"}
    BY <1>0, StartWaveFacts DEF StartWave, MaxRetries
<1>2. wave = {}
    BY <1>0 DEF StartWave, PhaseOK
<1>3. ASSUME NEW x \in ready
      PROVE  /\ job[x].at = "idle" /\ job'[x].at = "queued"
             /\ job'[x].executions = job[x].executions /\ job'[x].retries = job[x].retries
    <2>1. job[x].at = "idle" /\ job[x] \in JobRecord
        BY <1>0, <1>1, TypedRecords DEF JobsMatch
    <2>2. job'[x] = queued(x)
        BY <1>p, <1>1
    <2> QED
        BY <2>1, <2>2 DEF JobRecord
<1>4. PICK t \in Known : t \in ready
    BY <1>1
<1> HIDE DEF ready, queued
<1>5. Needs(t, "start", 0) /\ ~Needs(t, "start", 0)'
    BY <1>3, <1>4 DEF Needs
<1>6. ASSUME NEW x \in Known, NEW w \in Work, NEW m \in 0..(MaxRetries + 1), Needs(x, w, m)'
      PROVE  Needs(x, w, m)
    <2>1. CASE x \in ready
        BY <1>3, <1>6, <2>1 DEF Needs
    <2>2. CASE x \notin ready
        BY <1>1, <1>6, <2>2 DEF Needs
    <2> QED
        BY <2>1, <2>2
<1> QED
    BY <1>0, <1>1, <1>4, <1>5, <1>6, LeftBy DEF Work

LEMMA JoinDwindles ==
    ASSUME Inv, JoinWave, wave # {}
    PROVE  LessIsLeft
<1>1. /\ UNCHANGED <<config, task, job>> /\ wave' = {} /\ wave \subseteq Known
      /\ \A x \in wave : job[x].at = "settled"
    BY DEF JoinWave, Inv, TypeOK
<1>2. Known' = Known /\ MaxRetries' = MaxRetries /\ MaxRetries \in Nat
    BY <1>1, RetriesTyped DEF Known, MaxRetries, Inv
<1>3. PICK t \in Known : t \in wave
    BY <1>1
<1>4. Needs(t, "join", 0) /\ ~Needs(t, "join", 0)'
    BY <1>1, <1>3 DEF Needs
<1>5. \A x \in Known, w \in Work, m \in 0..(MaxRetries + 1) : Needs(x, w, m)' => Needs(x, w, m)
    BY <1>1 DEF Needs
<1> QED
    BY <1>2, <1>4, <1>5, LeftBy DEF Work

LEMMA TaskDwindles ==
    ASSUME Inv, CountsOK, NEW t \in Known, TaskStep(t)
    PROVE  LessIsLeft
<1>0. TypeOK /\ job \in [Known -> JobRecord] /\ job[t] \in JobRecord /\ MaxRetries \in Nat
    BY TypedRecords, RetriesTyped DEF Inv
<1>1. job[t].executions \in Nat /\ job[t].retries \in Nat
    BY <1>0 DEF JobRecord
<1>2. Works(t) \/ \E new \in Over : Ends(t, new)
    BY <1>0, TaskStepEffect
<1>3. /\ Known' = Known /\ (\A x \in Known \ {t} : job'[x] = job[x]) /\ wave' = wave
      /\ MaxRetries' = MaxRetries /\ job[t].at \in InFlight
    BY <1>0, <1>2, WorksFacts, EndsFacts DEF Works, Ends, MaxRetries, InFlight
<1>4. \E what \in Work, n \in 0..(MaxRetries + 1) :
          /\ Needs(t, what, n) /\ ~Needs(t, what, n)'
          /\ job[t].at # "settled" /\ job'[t].at \notin {"idle", "queued"}
          /\ job'[t].at # "settled" =>
                /\ job'[t].executions \in Nat /\ job'[t].executions >= job[t].executions
                /\ job'[t].retries \in Nat /\ job'[t].retries >= job[t].retries
    <2>1. CASE Begin(t)
        <3>1. /\ job[t].at = "queued" /\ job'[t].at = "executing"
              /\ job'[t].executions = job[t].executions /\ job'[t].retries = job[t].retries
            BY <1>0, <2>1 DEF Begin, JobRecord
        <3>2. Needs(t, "poll", 0) /\ ~Needs(t, "poll", 0)'
            BY <3>1 DEF Needs
        <3> QED
            BY <1>0, <1>1, <3>1, <3>2 DEF Work
    <2>2. CASE job[t].at # "settled" /\ job'[t].at = "settled"
        <3>1. Needs(t, "end", 0) /\ ~Needs(t, "end", 0)'
            BY <2>2 DEF Needs
        <3> QED
            BY <1>0, <2>2, <3>1 DEF Work
    <2>3. CASE Reject(t) /\ job'[t].at # "settled"
        <3>1. ~ (job' = [job EXCEPT ![t].at = "settled"])
            BY <1>0, <2>3 DEF JobRecord
        <3>2. /\ job[t].at = "reviewing" /\ ~OutOfRetries(t)
              /\ job' = [job EXCEPT ![t].at = "executing", ![t].retries = @ + 1]
            BY <2>3, <3>1 DEF Reject, Accept
        <3>3. /\ job'[t].at = "executing" /\ job'[t].executions = job[t].executions
              /\ job'[t].retries = job[t].retries + 1
            BY <1>0, <3>2 DEF JobRecord
        <3>4. PICK n \in 0..(MaxRetries + 1) : n = job[t].retries + 1
            BY <1>0, <1>1, <3>2 DEF OutOfRetries
        <3>5. Needs(t, "repair", n) /\ ~Needs(t, "repair", n)'
            BY <1>1, <3>2, <3>3, <3>4 DEF Needs
        <3>6. /\ job[t].at # "settled" /\ job'[t].at \notin {"idle", "queued"}
              /\ job'[t].executions \in Nat /\ job'[t].executions >= job[t].executions
              /\ job'[t].retries \in Nat /\ job'[t].retries >= job[t].retries
            BY <1>1, <3>2, <3>3
        <3>7. "repair" \in Work
            BY DEF Work
        <3> QED
            BY <3>5, <3>6, <3>7
    <2>4. CASE (\E updates \in SUBSET Blocks : Answer(t, updates)) /\ job'[t].at # "settled"
        <3>1. PICK updates \in SUBSET Blocks : Answer(t, updates)
            BY <2>4
        <3>2. /\ job[t].at = "executing" /\ job'[t].at = "reviewing"
              /\ job'[t].executions = job[t].executions + 1
              /\ job'[t].retries = job[t].retries
            BY <1>0, <2>4, <3>1 DEF Answer, JobRecord
        <3>3. PICK n \in 0..(MaxRetries + 1) : n = job[t].executions + 1
            BY <1>0, <1>1, <3>2 DEF CountsOK
        <3>4. Needs(t, "execute", n) /\ ~Needs(t, "execute", n)'
            BY <1>1, <3>2, <3>3 DEF Needs
        <3> QED
            BY <1>1, <3>2, <3>3, <3>4 DEF Work
    <2>5. job[t].at # "settled"
        BY <1>3 DEF InFlight
    <2>6. job' = [job EXCEPT ![t].at = "settled"] => job'[t].at = "settled"
        BY <1>0 DEF JobRecord
    <2> QED
        BY <2>1, <2>2, <2>3, <2>4, <2>5, <2>6 DEF TaskStep, DispatchFails, Fail, Approve, Accept
<1>5. ASSUME NEW x \in Known, NEW w \in Work, NEW m \in 0..(MaxRetries + 1), Needs(x, w, m)'
      PROVE  Needs(x, w, m)
    <2>1. CASE x = t
        BY <1>1, <1>4, <1>5, <2>1 DEF Needs
    <2>2. CASE x # t
        BY <1>3, <1>5, <2>2 DEF Needs
    <2> QED
        BY <2>1, <2>2
<1> QED
    BY <1>0, <1>3, <1>4, <1>5, LeftBy

LEMMA WorkIsFinite ==
    ASSUME IsFiniteSet(Known), MaxRetries \in Nat
    PROVE  IsFiniteSet(WorkLeft)
<1>1. IsFiniteSet(0..(MaxRetries + 1))
    BY FS_Interval
<1>2. IsFiniteSet({"start"} \cup {"poll"} \cup {"execute"} \cup {"repair"} \cup {"end"} \cup {"join"})
    BY FS_Singleton, FS_Union
<1>3. IsFiniteSet(Work)
    <2>1. Work = {"start"} \cup {"poll"} \cup {"execute"} \cup {"repair"} \cup {"end"} \cup {"join"}
        BY DEF Work
    <2> QED
        BY <1>2, <2>1
<1> QED
    BY <1>1, <1>3, FS_Product, FS_Subset DEF WorkLeft

\* A plan has finitely many entries, so a graph has finitely many tasks.
Bounded == IsFiniteSet(Known) /\ (phase = "wave" => wave # {})

LEMMA PlanIsFinite == ASSUME NEW entries \in Seq(Entries) PROVE IsFiniteSet(NamedIds(entries))
<1> DEFINE ids == {entries[i].id : i \in DOMAIN entries}
           f == [i \in DOMAIN entries |-> entries[i].id]
<1>1. IsFiniteSet(DOMAIN entries)
    BY FS_Interval
<1>2. f \in Surjection(DOMAIN entries, ids)
    BY DEF Surjection
<1>3. IsFiniteSet(ids)
    <2> HIDE DEF f, ids
    <2> QED
        BY <1>1, <1>2, FS_Surjection
<1> QED
    BY <1>3, FS_Subset DEF NamedIds

LEMMA BoundedKept == Inv /\ Bounded /\ [Next]_vars => Bounded'
<1> SUFFICES ASSUME Inv, Bounded, [Next]_vars PROVE Bounded'
    OBVIOUS
<1>0. TypeOK /\ ReadyMeansMet
    BY DEF Inv, Order
<1>1. CASE \E t \in Known : TaskStep(t)
    <2>1. PICK t \in Known : Works(t) \/ \E new \in Over : Ends(t, new)
        BY <1>0, <1>1, TaskStepEffect
    <2> QED
        BY <1>0, <2>1, WorksFacts, EndsFacts DEF Works, Ends, Bounded
<1>2. CASE StartWave
    BY <1>0, <1>2, StartWaveFacts DEF Bounded
<1>3. CASE Finish \/ JoinWave \/ PlanFails \/ UNCHANGED vars
    BY <1>3 DEF Finish, JoinWave, PlanFails, vars, Bounded, Known
<1>4. ASSUME NEW reply \in Replies, PlanGoal(reply)
      PROVE  Bounded'
    <2> DEFINE entries == IF NamedIds(reply) = {} THEN Fallback ELSE reply
    <2>1. entries \in Seq(Entries)
        BY TaskDagAssumption
    <2>2. Known' = NamedIds(entries) /\ phase' = "picking"
        BY <1>4 DEF PlanGoal, DagOf, Known
    <2> HIDE DEF entries
    <2> QED
        BY <2>1, <2>2, PlanIsFinite DEF Bounded
<1> QED
    BY <1>1, <1>2, <1>3, <1>4 DEF Next, ExecuteDag, Returned

(* execute_dag cannot go on for ever, whatever the plan, the failures and the order of    *)
(* the futures: the work that is left is finite, and every step of an orchestration under *)
(* way takes something away from it and adds nothing, or returns.                         *)
THEOREM WorkDwindles ==
    Spec => /\ []IsFiniteSet(WorkLeft)
            /\ [][Dwindles]_vars
<1>1. Init => Bounded /\ CountsOK
    BY FS_EmptySet DEF Init, Bounded, CountsOK, Known
<1>2. Inv /\ Bounded /\ CountsOK /\ [Next]_vars => Bounded' /\ CountsOK'
    BY BoundedKept, CountsKept
<1>3. Inv /\ Bounded => IsFiniteSet(WorkLeft)
    BY WorkIsFinite, RetriesTyped DEF Bounded, Inv
<1>4. Inv /\ Bounded /\ CountsOK /\ [Next]_vars => [Dwindles]_vars
    <2> SUFFICES ASSUME Inv, Bounded, CountsOK, Next, phase \in {"picking", "wave"}, vars' # vars
                 PROVE  phase' = "done" \/ LessIsLeft
        BY DEF Dwindles
    <2>1. CASE \E t \in Known : TaskStep(t)
        BY <2>1, TaskDwindles
    <2>2. CASE StartWave
        BY <2>2, WaveDwindles
    <2>3. CASE JoinWave
        BY <2>3, JoinDwindles DEF Bounded, JoinWave
    <2>4. CASE Finish
        BY <2>4 DEF Finish
    <2> QED
        BY <2>1, <2>2, <2>3, <2>4 DEF Next, ExecuteDag, Returned, PlanFails, PlanGoal
<1> QED
    BY <1>1, <1>2, <1>3, <1>4, Invariant, PTL DEF Spec

=============================================================================

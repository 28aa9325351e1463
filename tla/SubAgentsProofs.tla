--------------------------- MODULE SubAgentsProofs ---------------------------
(***************************************************************************)
(* Theorems about SubAgents for every number of runs, parents and limits:  *)
(* types, terminal statuses, results, the registry, the counter, the gate  *)
(* and the chain of attempts.                                              *)
(***************************************************************************)
EXTENDS SubAgents, TLAPS, FiniteSetTheorems, SequenceTheorems, InductionFacts

SubRecord ==
    [kind : AllKinds, parent : Parents, phase : Phases, status : Statuses,
     token : BOOLEAN, overdue : BOOLEAN, output : BOOLEAN, error : BOOLEAN,
     target : Targets \cup {NoTarget}, at : Nat, answer : Answers]

Listed == {"registered", "running", "ended", "recorded", "settled", "dropped"}
Early == {"admitted", "counted", "refused"}
Recorded == {"recorded", "settled", "returned"}

-----------------------------------------------------------------------------
(* The life of one run: what a step of anybody may do to its record. *)

SameButPhase(o, n) ==
    n.kind = o.kind /\ n.status = o.status /\ n.output = o.output /\ n.error = o.error

Admitted(o, n) == \* the gate passed: the counter raised, or refused after all
    /\ SameButPhase(o, n) /\ n.answer = o.answer
    /\ \/ o.kind = "tool" /\ o.phase = "admitted" /\ n.phase = "counted"
       \/ o.kind # "tool" /\ o.phase = "admitted" /\ n.phase = "refused"
       \/ o.phase = "counted" /\ n.phase = "refused"

Registered(o, n) ==
    /\ SameButPhase(o, n) /\ n.answer = o.answer
    /\ \/ o.phase = "counted"
       \/ o.kind # "tool" /\ o.phase = "admitted"
    /\ n.phase = "registered"

Started(o, n) == \* marked Running, whatever set_model made of it meanwhile
    /\ n.kind = o.kind /\ n.output = o.output /\ n.error = o.error /\ n.answer = o.answer
    /\ o.phase = "registered" /\ n.phase = "running" /\ n.status = "Running"

Ended(o, n) ==
    /\ SameButPhase(o, n)
    /\ o.phase = "running"
    /\ \/ n.phase = "ended" /\ n.answer # "none"
       \/ n.phase = "dropped" /\ n.answer = o.answer

Finalised(o, n) ==
    /\ n.kind = o.kind /\ n.answer = o.answer
    /\ \/ /\ o.phase = "ended" /\ n.phase = "recorded" /\ n.status = o.status
          /\ n.output = (o.output \/ o.answer = "ok")
          /\ n.error = (o.error \/ o.answer = "err")
       \/ /\ o.phase = "recorded" /\ n.phase = "settled"
          /\ n.output = o.output /\ n.error = o.error
          /\ n.status = SetStatus(o.status, IF o.answer = "err" THEN "Failed" ELSE "Completed")
       \/ /\ SameButPhase(o, n)
          /\ o.phase = "settled" /\ n.phase = "returned"

Touched(o, n) == \* another party stops, times, retries or marks it
    /\ n.kind = o.kind /\ n.phase = o.phase /\ n.answer = o.answer
    /\ n.output = o.output /\ n.error = o.error
    /\ \/ n.status = o.status
       \/ n.status = SetStatus(o.status, "Cancelled") /\ o.phase \notin Early

LifeStep(o, n) ==
    \/ Admitted(o, n) \/ Registered(o, n) \/ Started(o, n) \/ Ended(o, n)
    \/ Finalised(o, n) \/ Touched(o, n)

RunOK(rec) ==
    /\ rec.phase \in {"admitted", "counted"} => rec.status = "Pending"
    /\ rec.phase = "counted" => rec.kind = "tool"
    /\ rec.status \in {"Completed", "Failed"} => rec.phase \in {"settled", "returned"}
    /\ rec.phase \notin Recorded => rec.output = FALSE /\ rec.error = FALSE
    /\ rec.phase \in Recorded =>
          /\ rec.output = (rec.answer = "ok")
          /\ rec.error = (rec.answer = "err")
    /\ rec.phase \in Recorded \cup {"ended"} => rec.answer # "none"
    /\ rec.status = "Completed" => rec.answer # "err"
    /\ rec.status = "Failed" => rec.answer = "err"

\* A run keeps its history straight whatever happens to it.
LEMMA LifeKeepsRunOK ==
    ASSUME NEW o \in SubRecord, NEW n \in SubRecord, RunOK(o), LifeStep(o, n)
    PROVE  RunOK(n)
<1>0. o.status \in Statuses /\ o.phase \in Phases /\ n.phase \in Phases /\ o.answer \in Answers
    BY DEF SubRecord
<1>1. CASE Admitted(o, n)
    BY <1>1 DEF Admitted, SameButPhase, RunOK, Recorded
<1>2. CASE Registered(o, n)
    BY <1>2 DEF Registered, SameButPhase, RunOK, Recorded
<1>6. CASE Started(o, n)
    BY <1>6 DEF Started, RunOK, Recorded
<1>3. CASE Ended(o, n)
    BY <1>3 DEF Ended, SameButPhase, RunOK, Recorded
<1>4. CASE Finalised(o, n)
    <2>1. CASE o.phase = "ended"
        BY <1>4, <2>1 DEF Finalised, SameButPhase, RunOK, Recorded
    <2>2. CASE o.phase = "recorded"
        BY <1>0, <1>4, <2>2 DEF Finalised, SameButPhase, RunOK, Recorded, SetStatus,
                                TerminalStatuses, Statuses, Answers
    <2>3. CASE o.phase = "settled"
        BY <1>4, <2>3 DEF Finalised, SameButPhase, RunOK, Recorded
    <2> QED
        BY <1>4, <2>1, <2>2, <2>3 DEF Finalised
<1>5. CASE Touched(o, n)
    BY <1>0, <1>5 DEF Touched, RunOK, Recorded, SetStatus, TerminalStatuses, Statuses, Early
<1> QED
    BY <1>1, <1>2, <1>3, <1>4, <1>5, <1>6 DEF LifeStep

\* A terminal status is never replaced once the loop is started.
LEMMA LifeKeepsTerminal ==
    ASSUME NEW o \in SubRecord, NEW n \in SubRecord, RunOK(o), LifeStep(o, n),
           o.status \in TerminalStatuses, o.phase # "registered"
    PROVE  n.status = o.status
BY DEF LifeStep, Admitted, Registered, Started, Ended, Finalised, Touched, SameButPhase, RunOK,
       SetStatus, TerminalStatuses

-----------------------------------------------------------------------------
(* Every step is a step of the life of each run, and may begin a run. *)

Lives ==
    /\ sub' \in Seq(SubRecord) /\ SubIds \subseteq SubIds'
    /\ \A j \in SubIds : LifeStep(sub[j], sub'[j])

Begins(j) == RunOK(sub'[j]) /\ sub'[j].phase \in {"admitted", "registered"}

LEMMA Stays == ASSUME NEW o \in SubRecord PROVE LifeStep(o, o)
BY DEF LifeStep, Touched

LEMMA OneLives ==
    ASSUME sub \in Seq(SubRecord), NEW i \in SubIds, NEW n \in SubRecord,
           LifeStep(sub[i], n), sub' = [sub EXCEPT ![i] = n]
    PROVE  Lives /\ SubIds' = SubIds /\ sub'[i] = n /\ \A j \in SubIds \ {i} : sub'[j] = sub[j]
<1>1. sub' \in Seq(SubRecord) /\ SubIds' = SubIds
    BY DEF SubIds
<1>2. sub'[i] = n /\ \A j \in SubIds \ {i} : sub'[j] = sub[j]
    BY DEF SubIds
<1>3. \A j \in SubIds : sub[j] \in SubRecord
    BY DEF SubIds
<1> QED
    BY <1>1, <1>2, <1>3, Stays DEF Lives

\* A new run: what the gates admit and what the dispatcher begins.
LEMMA NewSubOK ==
    ASSUME NEW kind \in AllKinds, NEW p \in Parents, NEW phase \in {"admitted", "registered"},
           NEW target \in Targets \cup {NoTarget}
    PROVE  /\ NewSub(kind, p, phase, target) \in SubRecord
           /\ RunOK(NewSub(kind, p, phase, target))
           /\ NewSub(kind, p, phase, target).phase = phase
           /\ NewSub(kind, p, phase, target).kind = kind
BY DEF NewSub, SubRecord, Phases, Statuses, TerminalStatuses, Answers, RunOK, Recorded

LEMMA AppendLives ==
    ASSUME sub \in Seq(SubRecord), NEW n \in SubRecord, sub' = Append(sub, n)
    PROVE  /\ Lives /\ SubIds' = SubIds \cup {Len(sub) + 1} /\ Len(sub) + 1 \notin SubIds
           /\ sub'[Len(sub) + 1] = n /\ \A j \in SubIds : sub'[j] = sub[j]
<1>1. /\ sub' \in Seq(SubRecord) /\ Len(sub) \in Nat /\ Len(sub') = Len(sub) + 1
      /\ sub'[Len(sub) + 1] = n /\ \A j \in 1..Len(sub) : sub'[j] = sub[j]
    BY AppendProperties
<1>2. SubIds = 1..Len(sub) /\ SubIds' = 1..Len(sub')
    BY <1>1 DEF SubIds
<1>3. \A j \in SubIds : sub[j] \in SubRecord
    BY <1>2
<1> QED
    BY <1>1, <1>2, <1>3, Stays DEF Lives

-----------------------------------------------------------------------------
(* The steps of one run, each as the new record of that run. *)

Becomes(i, n) == n \in SubRecord /\ LifeStep(sub[i], n) /\ sub' = [sub EXCEPT ![i] = n]

\* The record of a run that only changes its phase.
LEMMA MoveFacts ==
    ASSUME sub \in Seq(SubRecord), NEW i \in SubIds, NEW phase \in Phases, Move(i, phase)
    PROVE  \E n \in SubRecord :
              /\ sub' = [sub EXCEPT ![i] = n]
              /\ n.phase = phase /\ n.answer = sub[i].answer /\ SameButPhase(sub[i], n)
<1> DEFINE n == [sub[i] EXCEPT !.phase = phase]
<1>1. sub[i] \in SubRecord
    BY DEF SubIds
<1>2. n \in SubRecord /\ n.phase = phase /\ n.answer = sub[i].answer /\ SameButPhase(sub[i], n)
    BY <1>1 DEF SubRecord, SameButPhase
<1>3. sub' = [sub EXCEPT ![i] = n]
    BY DEF Move
<1> HIDE DEF n
<1> QED
    BY <1>2, <1>3

LEMMA MovesLive ==
    ASSUME sub \in Seq(SubRecord), NEW i \in SubIds,
           RaiseCounter(i) \/ Refuse(i) \/ Register(i) \/ Deregister(i) \/ Drop(i)
    PROVE  \E n : Becomes(i, n)
<1>1. {"counted", "refused", "registered", "returned", "dropped"} \subseteq Phases
    BY DEF Phases
<1>2. CASE RaiseCounter(i)
    BY <1>1, <1>2, MoveFacts DEF RaiseCounter, Becomes, LifeStep, Admitted
<1>3. CASE Refuse(i)
    <2>1. /\ Move(i, "refused")
          /\ sub[i].phase = "counted" \/ (sub[i].kind # "tool" /\ sub[i].phase = "admitted")
        BY <1>3 DEF Refuse
    <2> QED
        BY <1>1, <2>1, MoveFacts DEF Becomes, LifeStep, Admitted
<1>4. CASE Deregister(i)
    BY <1>1, <1>4, MoveFacts DEF Deregister, Becomes, LifeStep, Finalised, SameButPhase
<1>5. CASE Drop(i)
    BY <1>1, <1>5, MoveFacts DEF Drop, Becomes, LifeStep, Ended
<1>6. CASE Register(i)
    <2>1. /\ Move(i, "registered")
          /\ sub[i].phase = "counted" \/ (sub[i].kind # "tool" /\ sub[i].phase = "admitted")
        BY <1>6 DEF Register
    <2> QED
        BY <1>1, <2>1, MoveFacts DEF Becomes, LifeStep, Registered
<1> QED
    BY <1>2, <1>3, <1>4, <1>5, <1>6

LEMMA StartLives ==
    ASSUME sub \in Seq(SubRecord), NEW i \in SubIds, StartLoop(i)
    PROVE  \E n : Becomes(i, n) /\ n.phase = "running" /\ sub[i].phase = "registered"
<1> DEFINE status == SetStatus(sub[i].status, "Running")
           n == [sub[i] EXCEPT !.phase = "running", !.status = status]
<1>0. status = "Running"
    BY DEF SetStatus, TerminalStatuses
<1> HIDE DEF status
<1>1. sub[i] \in SubRecord
    BY DEF SubIds
<1>2. n \in SubRecord /\ n.phase = "running"
    BY <1>0, <1>1 DEF SubRecord, Phases, Statuses
<1>3. Started(sub[i], n)
    BY <1>0, <1>1 DEF StartLoop, Started, SubRecord
<1>4. sub' = [sub EXCEPT ![i] = n] /\ sub[i].phase = "registered"
    BY DEF StartLoop, status
<1> HIDE DEF n
<1> QED
    BY <1>2, <1>3, <1>4 DEF Becomes, LifeStep

LEMMA TouchesLive ==
    ASSUME sub \in Seq(SubRecord), NEW i \in SubIds,
           AttemptFails(i) \/ Stop(i) \/ SetModelLookup(i) \/ Overrun(i)
    PROVE  \E n : Becomes(i, n) /\ n.phase = sub[i].phase
<1>1. sub[i] \in SubRecord
    BY DEF SubIds
<1>2. CASE AttemptFails(i)
    <2> DEFINE next == sub[i].at + 1
               n == [sub[i] EXCEPT !.at = next]
    <2>1. next \in Nat
        BY <1>1 DEF SubRecord
    <2>2. sub' = [sub EXCEPT ![i] = n]
        BY <1>2 DEF AttemptFails, NextAttempt
    <2> HIDE DEF next
    <2>3. n \in SubRecord /\ Touched(sub[i], n) /\ n.phase = sub[i].phase
        BY <1>1, <2>1 DEF SubRecord, Touched
    <2> HIDE DEF n
    <2> QED
        BY <2>2, <2>3 DEF Becomes, LifeStep
<1>3. CASE sub' = [sub EXCEPT ![i].token = TRUE]
    <2> DEFINE n == [sub[i] EXCEPT !.token = TRUE]
    <2>1. n \in SubRecord /\ Touched(sub[i], n) /\ n.phase = sub[i].phase
        BY <1>1 DEF SubRecord, Touched
    <2>2. sub' = [sub EXCEPT ![i] = n]
        BY <1>3
    <2> HIDE DEF n
    <2> QED
        BY <2>1, <2>2 DEF Becomes, LifeStep
<1>4. CASE Overrun(i)
    <2> DEFINE n == [sub[i] EXCEPT !.overdue = TRUE]
    <2>1. n \in SubRecord /\ Touched(sub[i], n) /\ n.phase = sub[i].phase
        BY <1>1 DEF SubRecord, Touched
    <2>2. sub' = [sub EXCEPT ![i] = n]
        BY <1>4 DEF Overrun
    <2> HIDE DEF n
    <2> QED
        BY <2>1, <2>2 DEF Becomes, LifeStep
<1> QED
    BY <1>2, <1>3, <1>4 DEF Stop, SetModelLookup

LEMMA LoopEndsLives ==
    ASSUME sub \in Seq(SubRecord), NEW i \in SubIds, NEW answer \in Answers \ {"none"},
           LoopEnds(i, answer)
    PROVE  \E n : Becomes(i, n) /\ n.phase = "ended" /\ sub[i].phase = "running"
<1> DEFINE n == [sub[i] EXCEPT !.phase = "ended", !.answer = answer]
<1>1. sub[i] \in SubRecord
    BY DEF SubIds
<1>2. n \in SubRecord /\ n.phase = "ended"
    BY <1>1 DEF SubRecord, Phases
<1>3. Ended(sub[i], n)
    BY <1>1 DEF LoopEnds, Ended, SameButPhase, SubRecord
<1>4. sub' = [sub EXCEPT ![i] = n] /\ sub[i].phase = "running"
    BY DEF LoopEnds
<1> HIDE DEF n
<1> QED
    BY <1>2, <1>3, <1>4 DEF Becomes, LifeStep

LEMMA RecordLives ==
    ASSUME sub \in Seq(SubRecord), NEW i \in SubIds, RecordResult(i)
    PROVE  \E n : Becomes(i, n) /\ n.phase = "recorded"
<1> DEFINE output == sub[i].output \/ sub[i].answer = "ok"
           error == sub[i].error \/ sub[i].answer = "err"
           n == [sub[i] EXCEPT !.phase = "recorded", !.output = output, !.error = error]
<1>1. sub[i] \in SubRecord /\ output \in BOOLEAN /\ error \in BOOLEAN
    <2>1. sub[i] \in SubRecord
        BY DEF SubIds
    <2>2. output \in BOOLEAN
        OBVIOUS
    <2>3. error \in BOOLEAN
        OBVIOUS
    <2> QED
        BY <2>1, <2>2, <2>3
<1>2. sub' = [sub EXCEPT ![i] = n] /\ sub[i].phase = "ended"
    BY DEF RecordResult
<1>3. n.output = output /\ n.error = error
    BY <1>1 DEF SubRecord
<1> HIDE DEF output, error
<1>4. n \in SubRecord /\ n.phase = "recorded"
    BY <1>1 DEF SubRecord, Phases
<1>5. n.kind = sub[i].kind /\ n.answer = sub[i].answer /\ n.status = sub[i].status
    BY <1>1 DEF SubRecord
<1> HIDE DEF n
<1>6. Finalised(sub[i], n)
    BY <1>2, <1>3, <1>4, <1>5 DEF Finalised, output, error
<1> QED
    BY <1>2, <1>4, <1>6 DEF Becomes, LifeStep

LEMMA FinalStatusLives ==
    ASSUME sub \in Seq(SubRecord), NEW i \in SubIds, SetFinalStatus(i)
    PROVE  \E n : Becomes(i, n) /\ n.phase = "settled"
<1> DEFINE status == SetStatus(sub[i].status, IF sub[i].answer = "err" THEN "Failed" ELSE "Completed")
           n == [sub[i] EXCEPT !.phase = "settled", !.status = status]
<1>1. sub[i] \in SubRecord /\ status \in Statuses
    <2>1. sub[i] \in SubRecord
        BY DEF SubIds
    <2>2. sub[i].status \in Statuses
        BY <2>1 DEF SubRecord
    <2> QED
        BY <2>1, <2>2 DEF SetStatus, Statuses, TerminalStatuses
<1>2. sub' = [sub EXCEPT ![i] = n] /\ sub[i].phase = "recorded"
    BY DEF SetFinalStatus
<1> HIDE DEF status
<1>3. /\ n \in SubRecord /\ n.phase = "settled" /\ n.status = status
      /\ n.kind = sub[i].kind /\ n.answer = sub[i].answer
      /\ n.output = sub[i].output /\ n.error = sub[i].error
    BY <1>1 DEF SubRecord, Phases
<1> HIDE DEF n
<1>4. Finalised(sub[i], n)
    BY <1>2, <1>3 DEF Finalised, status
<1> QED
    BY <1>2, <1>3, <1>4 DEF Becomes, LifeStep

-----------------------------------------------------------------------------
(* The steps of several runs, and the whole next-state relation. *)

LEMMA MonitorLives ==
    ASSUME sub \in Seq(SubRecord), NEW p \in Parents, MonitorTick(p)
    PROVE  Lives /\ SubIds' = SubIds /\ \A j \in SubIds : sub'[j].phase = sub[j].phase
<1> DEFINE late == {i \in ActiveFor(p) : sub[i].overdue /\ ~sub[i].token}
           stopped(j) == [sub[j] EXCEPT !.token = TRUE]
<1>1. sub' = [j \in SubIds |-> IF j \in late THEN stopped(j) ELSE sub[j]]
    BY DEF MonitorTick
<1>2. ASSUME NEW j \in SubIds
      PROVE  /\ sub[j] \in SubRecord /\ stopped(j) \in SubRecord
             /\ Touched(sub[j], stopped(j)) /\ stopped(j).phase = sub[j].phase
    <2>1. sub[j] \in SubRecord
        BY DEF SubIds
    <2> QED
        BY <2>1 DEF SubRecord, Touched
<1> HIDE DEF late, stopped
<1>3. SubIds = 1..Len(sub) /\ Len(sub) \in Nat
    BY DEF SubIds
<1>4. sub' \in [1..Len(sub) -> SubRecord] /\ SubIds' = SubIds
    BY <1>1, <1>2, <1>3 DEF SubIds
<1>5. sub' \in Seq(SubRecord)
    BY <1>3, <1>4, IsASeq
<1>6. \A j \in SubIds : LifeStep(sub[j], sub'[j]) /\ sub'[j].phase = sub[j].phase
    BY <1>1, <1>2, Stays DEF LifeStep
<1> QED
    BY <1>4, <1>5, <1>6 DEF Lives

LEMMA MarkLives ==
    ASSUME sub \in Seq(SubRecord), NEW i \in SubIds, SetModelMark(i), sub[i].phase \notin Early
    PROVE  /\ Lives /\ \A j \in SubIds : sub'[j].phase = sub[j].phase /\ sub'[j].kind = sub[j].kind
           /\ \/ SubIds' = SubIds
              \/ /\ SubIds' = SubIds \cup {Len(sub) + 1} /\ Len(sub) + 1 \notin SubIds
                 /\ Begins(Len(sub) + 1) /\ sub'[Len(sub) + 1].phase = "admitted"
<1> DEFINE status == SetStatus(sub[i].status, "Cancelled")
           n == [sub[i] EXCEPT !.status = status]
           marked == [sub EXCEPT ![i] = n]
           new == NewSub("manage", sub[i].parent, "admitted", NoTarget)
<1>1. sub[i] \in SubRecord
    BY DEF SubIds
<1>2. status \in Statuses
    <2>1. sub[i].status \in Statuses
        BY <1>1 DEF SubRecord
    <2> QED
        BY <2>1 DEF SetStatus, Statuses, TerminalStatuses
<1>3. n \in SubRecord /\ n.phase = sub[i].phase /\ n.kind = sub[i].kind /\ Touched(sub[i], n)
    <2>1. /\ n \in SubRecord /\ n.phase = sub[i].phase /\ n.kind = sub[i].kind /\ n.status = status
          /\ n.output = sub[i].output /\ n.error = sub[i].error /\ n.answer = sub[i].answer
        <3> HIDE DEF status
        <3> QED
            BY <1>1, <1>2 DEF SubRecord
    <2> HIDE DEF n
    <2> QED
        BY <2>1 DEF Touched
<1>4. sub' = marked \/ sub' = Append(marked, new)
    BY DEF SetModelMark
<1> HIDE DEF n
<1>5. /\ marked \in Seq(SubRecord) /\ Len(marked) = Len(sub) /\ Len(sub) \in Nat
      /\ marked[i] = n /\ \A j \in SubIds \ {i} : marked[j] = sub[j]
    BY <1>3 DEF SubIds
<1>6. \A j \in SubIds : /\ LifeStep(sub[j], marked[j])
                        /\ marked[j].phase = sub[j].phase /\ marked[j].kind = sub[j].kind
    <2>1. \A j \in SubIds : sub[j] \in SubRecord
        BY DEF SubIds
    <2> HIDE DEF marked
    <2> QED
        BY <1>3, <1>5, <2>1, Stays DEF LifeStep
<1>7. SubIds = 1..Len(sub) /\ SubIds = 1..Len(marked)
    BY <1>5 DEF SubIds
<1> HIDE DEF marked
<1>8. CASE sub' = marked
    <2>1. SubIds' = SubIds
        BY <1>5, <1>7, <1>8 DEF SubIds
    <2> QED
        BY <1>5, <1>6, <1>8, <2>1 DEF Lives
<1>9. CASE sub' = Append(marked, new)
    <2>1. new \in SubRecord /\ RunOK(new) /\ new.phase = "admitted"
        <3>1. sub[i].parent \in Parents
            BY <1>1 DEF SubRecord
        <3>2. "manage" \in AllKinds
            BY DEF AllKinds
        <3> QED
            BY <3>1, <3>2, NewSubOK
    <2> HIDE DEF new
    <2>2. /\ sub' \in Seq(SubRecord) /\ Len(sub') = Len(marked) + 1
          /\ sub'[Len(marked) + 1] = new /\ \A j \in 1..Len(marked) : sub'[j] = marked[j]
        BY <1>5, <1>9, <2>1, AppendProperties
    <2>3. SubIds' = 1..(Len(sub) + 1)
        BY <1>5, <2>2 DEF SubIds
    <2>4. SubIds' = SubIds \cup {Len(sub) + 1} /\ Len(sub) + 1 \notin SubIds
        BY <1>5, <1>7, <2>3
    <2>5. Lives
        BY <1>6, <1>7, <2>2, <2>4 DEF Lives
    <2> QED
        BY <1>5, <1>6, <1>7, <2>1, <2>2, <2>4, <2>5 DEF Begins
<1> QED
    BY <1>4, <1>8, <1>9

LEMMA AdmitLives ==
    ASSUME sub \in Seq(SubRecord), NEW p \in Parents,
           \/ \E kind \in Kinds[p] : AdmitByRegistry(kind, p)
           \/ AdmitByCounter(p)
    PROVE  /\ Lives /\ SubIds' = SubIds \cup {Len(sub) + 1} /\ Len(sub) + 1 \notin SubIds
           /\ \A j \in SubIds : sub'[j] = sub[j]
           /\ Begins(Len(sub) + 1) /\ sub'[Len(sub) + 1].phase = "admitted"
           /\ UNCHANGED <<registered, counter, swapping>>
<1>1. PICK kind \in AllKinds : /\ sub' = Append(sub, NewSub(kind, p, "admitted", NoTarget))
                               /\ UNCHANGED <<registered, counter, swapping>>
    BY DEF AdmitByRegistry, AdmitByCounter, Begin, AllKinds
<1> DEFINE n == NewSub(kind, p, "admitted", NoTarget)
<1>2. n \in SubRecord /\ RunOK(n) /\ n.phase = "admitted"
    BY NewSubOK
<1> HIDE DEF n
<1> QED
    BY <1>1, <1>2, AppendLives DEF Begins, n

LEMMA DispatchLives ==
    ASSUME sub \in Seq(SubRecord), NEW p \in Parents, NEW target \in Targets, Dispatch(p, target)
    PROVE  /\ Lives /\ SubIds' = SubIds \cup {Len(sub) + 1} /\ Len(sub) + 1 \notin SubIds
           /\ \A j \in SubIds : sub'[j] = sub[j]
           /\ Begins(Len(sub) + 1) /\ sub'[Len(sub) + 1].phase = "registered"
           /\ sub'[Len(sub) + 1].kind = "dispatch"
           /\ registered' = registered \cup {Len(sub) + 1} /\ UNCHANGED <<counter, swapping>>
<1> DEFINE n == NewSub("dispatch", p, "registered", target)
<1>1. /\ sub' = Append(sub, n)
      /\ registered' = registered \cup {Len(sub) + 1} /\ UNCHANGED <<counter, swapping>>
    BY DEF Dispatch, Begin
<1>2. n \in SubRecord /\ RunOK(n) /\ n.phase = "registered" /\ n.kind = "dispatch"
    BY NewSubOK DEF AllKinds
<1> HIDE DEF n
<1> QED
    BY <1>1, <1>2, AppendLives DEF Begins

-----------------------------------------------------------------------------
(* The registry and the counter follow the phases. *)

Base == sub \in Seq(SubRecord) /\ \A j \in SubIds : RunOK(sub[j])

Lists ==
    /\ registered \subseteq SubIds /\ swapping \subseteq SubIds
    /\ \A j \in SubIds : sub[j].phase \in Listed <=> j \in registered
    /\ \A j \in swapping : sub[j].phase \notin Early

HeldPhases == {"counted", "registered", "running", "ended", "recorded", "settled"}
Holds(rec) == rec.kind = "tool" /\ rec.phase \in HeldPhases
Holding == {j \in SubIds : Holds(sub[j])}
Slots == counter = Cardinality(Holding)

\* What one run's step does to registry, counter and pending swaps.
Follows(i, n) ==
    /\ Becomes(i, n)
    /\ \A j \in SubIds \ {i} : j \in registered' <=> j \in registered
    /\ registered' \subseteq SubIds
    /\ i \in registered' <=> n.phase \in Listed
    /\ counter' = IF Holds(n) THEN IF Holds(sub[i]) THEN counter ELSE counter + 1
                  ELSE IF Holds(sub[i]) THEN counter - 1 ELSE counter
    /\ swapping' \subseteq swapping \cup {i}
    /\ i \in swapping' => n.phase \notin Early

RunStep(i) ==
    \/ RaiseCounter(i) \/ Refuse(i) \/ Register(i) \/ StartLoop(i) \/ AttemptFails(i)
    \/ \E answer \in Answers \ {"none"} : LoopEnds(i, answer)
    \/ Finalise(i) \/ Drop(i) \/ Stop(i) \/ SetModelLookup(i) \/ Overrun(i)

\* Where a step leaves the registry and the counter alone, the run's phase neither
\* enters nor leaves the sets they follow.
LEMMA QuietFollows ==
    ASSUME Base, Lists, NEW i \in SubIds, NEW n, Becomes(i, n),
           n.phase \in Listed <=> sub[i].phase \in Listed,
           Holds(n) <=> Holds(sub[i]),
           sub[i].phase \notin Early => n.phase \notin Early,
           UNCHANGED <<registered, counter, swapping>>
    PROVE  Follows(i, n)
<1>1. \A j \in SubIds : sub[j].phase \in Listed <=> j \in registered
    BY DEF Lists
<1>2. \A j \in swapping : sub[j].phase \notin Early
    BY DEF Lists
<1> QED
    BY <1>1, <1>2 DEF Follows, Lists

LEMMA BecomesFacts ==
    ASSUME Base, NEW i \in SubIds, NEW n, Becomes(i, n)
    PROVE  /\ sub[i] \in SubRecord /\ n \in SubRecord /\ RunOK(sub[i]) /\ n.kind = sub[i].kind
           /\ sub'[i] = n
<1>1. sub[i] \in SubRecord /\ RunOK(sub[i]) /\ n \in SubRecord
    BY DEF Base, SubIds, Becomes
<1>2. n.kind = sub[i].kind
    BY DEF Becomes, LifeStep, Admitted, Registered, Started, Ended, Finalised, Touched, SameButPhase
<1>3. sub'[i] = n
    BY DEF Becomes, Base, SubIds
<1> QED
    BY <1>1, <1>2, <1>3

LEMMA RunStepFollows ==
    ASSUME Base, Lists, NEW i \in SubIds, RunStep(i)
    PROVE  \E n : Follows(i, n)
<1>0. /\ sub \in Seq(SubRecord) /\ sub[i] \in SubRecord /\ RunOK(sub[i])
      /\ sub[i].phase \in Listed <=> i \in registered
      /\ registered \subseteq SubIds /\ swapping \subseteq SubIds
      /\ i \in swapping => sub[i].phase \notin Early
    BY DEF Base, Lists, SubIds
<1>1. CASE RaiseCounter(i)
    <2>1. PICK n : Becomes(i, n)
        BY <1>0, <1>1, MovesLive
    <2>2. /\ sub[i].kind = "tool" /\ sub[i].phase = "admitted"
          /\ counter' = counter + 1 /\ UNCHANGED <<registered, swapping>>
          /\ sub'[i].phase = "counted"
        BY <1>0, <1>1 DEF RaiseCounter, Move, SubIds, SubRecord
    <2>3. n.phase = "counted" /\ n.kind = "tool"
        BY <2>1, <2>2, BecomesFacts
    <2> QED
        BY <1>0, <2>1, <2>2, <2>3 DEF Follows, Holds, HeldPhases, Listed, Early
<1>2. CASE Refuse(i)
    <2>1. PICK n : Becomes(i, n)
        BY <1>0, <1>2, MovesLive
    <2>2. /\ sub[i].phase = "counted" \/ (sub[i].kind # "tool" /\ sub[i].phase = "admitted")
          /\ counter' = IF sub[i].kind = "tool" /\ sub[i].phase # "admitted" THEN counter - 1 ELSE counter
          /\ UNCHANGED <<registered, swapping>>
          /\ sub'[i].phase = "refused"
        BY <1>0, <1>2 DEF Refuse, Move, GiveBack, SubIds, SubRecord
    <2>3. n.phase = "refused" /\ n.kind = sub[i].kind
        BY <2>1, <2>2, BecomesFacts
    <2>4. sub[i].phase = "counted" => sub[i].kind = "tool"
        BY <1>0 DEF RunOK
    <2> QED
        BY <1>0, <2>1, <2>2, <2>3, <2>4 DEF Follows, Holds, HeldPhases, Listed, Early
<1>3. CASE Register(i)
    <2>1. PICK n : Becomes(i, n)
        BY <1>0, <1>3, MovesLive
    <2>2. /\ sub[i].phase = "counted" \/ (sub[i].kind # "tool" /\ sub[i].phase = "admitted")
          /\ registered' = registered \cup {i} /\ UNCHANGED <<counter, swapping>>
          /\ sub'[i].phase = "registered"
        BY <1>0, <1>3 DEF Register, Move, SubIds, SubRecord
    <2>3. n.phase = "registered" /\ n.kind = sub[i].kind
        BY <2>1, <2>2, BecomesFacts
    <2>4. sub[i].phase = "counted" => sub[i].kind = "tool"
        BY <1>0 DEF RunOK
    <2> QED
        BY <1>0, <2>1, <2>2, <2>3, <2>4 DEF Follows, Holds, HeldPhases, Listed, Early
<1>4. CASE Deregister(i)
    <2>1. PICK n : Becomes(i, n)
        BY <1>0, <1>4, MovesLive
    <2>2. /\ sub[i].phase = "settled"
          /\ counter' = IF sub[i].kind = "tool" /\ sub[i].phase # "admitted" THEN counter - 1 ELSE counter
          /\ registered' = registered \ {i} /\ swapping' = swapping
          /\ sub'[i].phase = "returned"
        BY <1>0, <1>4 DEF Deregister, Move, GiveBack, SubIds, SubRecord
    <2>3. n.phase = "returned" /\ n.kind = sub[i].kind
        BY <2>1, <2>2, BecomesFacts
    <2> QED
        BY <1>0, <2>1, <2>2, <2>3 DEF Follows, Holds, HeldPhases, Listed, Early
<1>5. CASE Drop(i)
    <2>1. PICK n : Becomes(i, n)
        BY <1>0, <1>5, MovesLive
    <2>2. /\ sub[i].phase = "running"
          /\ counter' = IF sub[i].kind = "tool" /\ sub[i].phase # "admitted" THEN counter - 1 ELSE counter
          /\ UNCHANGED <<registered, swapping>>
          /\ sub'[i].phase = "dropped"
        BY <1>0, <1>5 DEF Drop, Move, GiveBack, SubIds, SubRecord
    <2>3. n.phase = "dropped" /\ n.kind = sub[i].kind
        BY <2>1, <2>2, BecomesFacts
    <2> QED
        BY <1>0, <2>1, <2>2, <2>3 DEF Follows, Holds, HeldPhases, Listed, Early
<1>6. CASE AttemptFails(i) \/ Stop(i) \/ Overrun(i)
    <2>1. PICK n : Becomes(i, n) /\ n.phase = sub[i].phase
        BY <1>0, <1>6, TouchesLive
    <2>2. UNCHANGED <<registered, counter, swapping>>
        BY <1>6 DEF AttemptFails, Stop, Overrun
    <2> QED
        BY <2>1, <2>2, BecomesFacts, QuietFollows DEF Holds
<1>7. CASE SetModelLookup(i)
    <2>1. PICK n : Becomes(i, n) /\ n.phase = sub[i].phase
        BY <1>0, <1>7, TouchesLive
    <2>2. i \in registered /\ swapping' = swapping \cup {i} /\ UNCHANGED <<registered, counter>>
        BY <1>7 DEF SetModelLookup
    <2>3. n.kind = sub[i].kind
        BY <2>1, BecomesFacts
    <2> QED
        BY <1>0, <2>1, <2>2, <2>3 DEF Follows, Holds, Listed, Early
<1>8. CASE \E answer \in Answers \ {"none"} : LoopEnds(i, answer)
    <2>1. PICK n : Becomes(i, n) /\ n.phase = "ended" /\ sub[i].phase = "running"
        BY <1>0, <1>8, LoopEndsLives
    <2>2. UNCHANGED <<registered, counter, swapping>>
        BY <1>8 DEF LoopEnds
    <2> QED
        BY <2>1, <2>2, BecomesFacts, QuietFollows DEF Holds, HeldPhases, Listed, Early
<1>9. CASE RecordResult(i)
    <2>1. PICK n : Becomes(i, n) /\ n.phase = "recorded"
        BY <1>0, <1>9, RecordLives
    <2>2. sub[i].phase = "ended" /\ UNCHANGED <<registered, counter, swapping>>
        BY <1>9 DEF RecordResult
    <2> QED
        BY <2>1, <2>2, BecomesFacts, QuietFollows DEF Holds, HeldPhases, Listed, Early
<1>10. CASE SetFinalStatus(i)
    <2>1. PICK n : Becomes(i, n) /\ n.phase = "settled"
        BY <1>0, <1>10, FinalStatusLives
    <2>2. sub[i].phase = "recorded" /\ UNCHANGED <<registered, counter, swapping>>
        BY <1>10 DEF SetFinalStatus
    <2> QED
        BY <2>1, <2>2, BecomesFacts, QuietFollows DEF Holds, HeldPhases, Listed, Early
<1>11. CASE StartLoop(i)
    <2>1. PICK n : Becomes(i, n) /\ n.phase = "running" /\ sub[i].phase = "registered"
        BY <1>0, <1>11, StartLives
    <2>2. UNCHANGED <<registered, counter, swapping>>
        BY <1>11 DEF StartLoop
    <2> QED
        BY <2>1, <2>2, BecomesFacts, QuietFollows DEF Holds, HeldPhases, Listed, Early
<1> QED
    BY <1>1, <1>2, <1>3, <1>4, <1>5, <1>6, <1>7, <1>8, <1>9, <1>10, <1>11 DEF RunStep, Finalise

-----------------------------------------------------------------------------
(* The invariant. *)

Inv == Base /\ Lists /\ Slots

\* The ids at hand are finitely many.
LEMMA HoldingFinite == ASSUME sub \in Seq(SubRecord) PROVE IsFiniteSet(Holding)
<1>1. IsFiniteSet(1..Len(sub)) /\ SubIds = 1..Len(sub)
    BY FS_Interval DEF SubIds
<1> QED
    BY <1>1, FS_Subset DEF Holding

\* Runs that live on and runs that begin are in order.
LEMMA LivesKeepBase ==
    ASSUME Base, Lives, \A j \in SubIds' \ SubIds : Begins(j)
    PROVE  Base'
<1>1. sub' \in Seq(SubRecord) /\ SubIds \subseteq SubIds'
    BY DEF Lives
<1>2. ASSUME NEW j \in SubIds' PROVE RunOK(sub'[j])
    <2>1. CASE j \in SubIds
        <3>1. sub[j] \in SubRecord /\ sub'[j] \in SubRecord
            BY <1>1, <2>1 DEF Base, SubIds
        <3> QED
            BY <2>1, <3>1, LifeKeepsRunOK DEF Base, Lives
    <2>2. CASE j \notin SubIds
        BY <2>2 DEF Begins
    <2> QED
        BY <2>1, <2>2
<1> QED
    BY <1>1, <1>2 DEF Base

LEMMA FollowsKeeps ==
    ASSUME Inv, NEW i \in SubIds, NEW n, Follows(i, n)
    PROVE  Inv' /\ Lives
<1>0. Base /\ Lists /\ Slots /\ sub \in Seq(SubRecord) /\ Becomes(i, n)
    BY DEF Inv, Base, Follows
<1>1. Lives /\ SubIds' = SubIds /\ sub'[i] = n /\ \A j \in SubIds \ {i} : sub'[j] = sub[j]
    BY <1>0, OneLives DEF Becomes
<1>2. Base'
    BY <1>0, <1>1, LivesKeepBase
<1>3. Lists'
    <2>1. registered' \subseteq SubIds /\ swapping' \subseteq SubIds
        BY <1>0 DEF Follows, Lists
    <2>2. ASSUME NEW j \in SubIds PROVE sub'[j].phase \in Listed <=> j \in registered'
        BY <1>0, <1>1 DEF Follows, Lists
    <2>3. ASSUME NEW j \in swapping' PROVE sub'[j].phase \notin Early
        BY <1>0, <1>1, <2>1 DEF Follows, Lists
    <2> QED
        BY <1>1, <2>1, <2>2, <2>3 DEF Lists
<1>4. Slots'
    <2>1. IsFiniteSet(Holding) /\ Cardinality(Holding) \in Nat
        BY <1>0, HoldingFinite, FS_CardinalityType
    <2>2. Holding' = {j \in SubIds : Holds(sub'[j])}
        BY <1>1 DEF Holding, Holds
    <2>3. i \in Holding <=> Holds(sub[i])
        BY DEF Holding
    <2>4. CASE Holds(n)
        <3>1. Holding' = Holding \cup {i}
            BY <1>1, <2>2, <2>4 DEF Holding
        <3>2. Cardinality(Holding') = IF i \in Holding THEN Cardinality(Holding) ELSE Cardinality(Holding) + 1
            BY <2>1, <3>1, FS_AddElement
        <3> QED
            BY <1>0, <2>3, <2>4, <3>2 DEF Slots, Follows
    <2>5. CASE ~ Holds(n)
        <3>1. Holding' = Holding \ {i}
            BY <1>1, <2>2, <2>5 DEF Holding
        <3>2. Cardinality(Holding') = IF i \in Holding THEN Cardinality(Holding) - 1 ELSE Cardinality(Holding)
            BY <2>1, <3>1, FS_RemoveElement
        <3> QED
            BY <1>0, <2>3, <2>5, <3>2 DEF Slots, Follows
    <2> QED
        BY <2>4, <2>5
<1> QED
    BY <1>1, <1>2, <1>3, <1>4 DEF Inv

\* A run begins, by a gate or by the dispatcher.
LEMMA BeginKeeps ==
    ASSUME Inv, Lives, NEW new, SubIds' = SubIds \cup {new}, new \notin SubIds, Begins(new),
           \A j \in SubIds : sub'[j].phase = sub[j].phase /\ sub'[j].kind = sub[j].kind,
           ~ Holds(sub'[new]),
           registered' = IF sub'[new].phase \in Listed THEN registered \cup {new} ELSE registered,
           swapping' \subseteq swapping, counter' = counter
    PROVE  Inv'
<1>0. Base /\ Lists /\ Slots
    BY DEF Inv
<1>1. Base'
    BY <1>0, LivesKeepBase
<1>2. Lists'
    BY <1>0 DEF Lists
<1>3. Slots'
    <2>1. Holding' = Holding
        BY DEF Holding, Holds
    <2> QED
        BY <1>0, <2>1 DEF Slots
<1> QED
    BY <1>1, <1>2, <1>3 DEF Inv

\* Nobody begins and no phase changes.
LEMMA SamePhasesKeep ==
    ASSUME Inv, Lives, SubIds' = SubIds,
           \A j \in SubIds : sub'[j].phase = sub[j].phase /\ sub'[j].kind = sub[j].kind,
           registered' = registered, swapping' \subseteq swapping, counter' = counter
    PROVE  Inv'
<1>0. Base /\ Lists /\ Slots
    BY DEF Inv
<1>1. Base'
    BY <1>0, LivesKeepBase
<1>2. Lists'
    BY <1>0 DEF Lists
<1>3. Holding' = Holding
    BY DEF Holding, Holds
<1> QED
    BY <1>0, <1>1, <1>2, <1>3 DEF Inv, Slots

LEMMA NextKeeps ==
    ASSUME Inv, [Next]_vars
    PROVE  Inv' /\ Lives
<1>0. Base /\ Lists /\ sub \in Seq(SubRecord)
    BY DEF Inv, Base
<1>1. CASE \E i \in SubIds : RunStep(i)
    <2>1. PICK i \in SubIds : RunStep(i)
        BY <1>1
    <2>2. PICK n : Follows(i, n)
        BY <1>0, <2>1, RunStepFollows
    <2> QED
        BY <2>2, FollowsKeeps
<1>2. ASSUME NEW p \in Parents, (\E kind \in Kinds[p] : AdmitByRegistry(kind, p)) \/ AdmitByCounter(p)
      PROVE  Inv' /\ Lives
    <2> DEFINE new == Len(sub) + 1
    <2>1. /\ Lives /\ SubIds' = SubIds \cup {new} /\ new \notin SubIds
          /\ \A j \in SubIds : sub'[j] = sub[j]
          /\ Begins(new) /\ sub'[new].phase = "admitted"
          /\ UNCHANGED <<registered, counter, swapping>>
        BY <1>0, <1>2, AdmitLives
    <2>2. sub'[new].phase \notin Listed /\ ~ Holds(sub'[new])
        BY <2>1 DEF Listed, Holds, HeldPhases
    <2> HIDE DEF new
    <2> QED
        BY <2>1, <2>2, BeginKeeps
<1>3. ASSUME NEW p \in Parents, NEW target \in Targets, Dispatch(p, target)
      PROVE  Inv' /\ Lives
    <2> DEFINE new == Len(sub) + 1
    <2>1. /\ Lives /\ SubIds' = SubIds \cup {new} /\ new \notin SubIds
          /\ \A j \in SubIds : sub'[j] = sub[j]
          /\ Begins(new) /\ sub'[new].phase = "registered" /\ sub'[new].kind = "dispatch"
          /\ registered' = registered \cup {new} /\ UNCHANGED <<counter, swapping>>
        BY <1>0, <1>3, DispatchLives
    <2>2. sub'[new].phase \in Listed /\ ~ Holds(sub'[new])
        BY <2>1 DEF Listed, Holds
    <2> HIDE DEF new
    <2> QED
        BY <2>1, <2>2, BeginKeeps
<1>4. ASSUME NEW p \in Parents, MonitorTick(p)
      PROVE  Inv' /\ Lives
    <2>1. Lives /\ SubIds' = SubIds /\ \A j \in SubIds : sub'[j].phase = sub[j].phase
        BY <1>0, <1>4, MonitorLives
    <2>2. \A j \in SubIds : sub'[j].kind = sub[j].kind
        BY <2>1 DEF Lives, LifeStep, Admitted, Registered, Started, Ended, Finalised, Touched, SameButPhase
    <2>3. UNCHANGED <<registered, counter, swapping>>
        BY <1>4 DEF MonitorTick
    <2> QED
        BY <2>1, <2>2, <2>3, SamePhasesKeep
<1>5. ASSUME NEW i \in SubIds, SetModelMark(i)
      PROVE  Inv' /\ Lives
    <2> DEFINE new == Len(sub) + 1
    <2>1. sub[i].phase \notin Early
        BY <1>0, <1>5 DEF SetModelMark, Lists
    <2>2. /\ Lives /\ \A j \in SubIds : sub'[j].phase = sub[j].phase /\ sub'[j].kind = sub[j].kind
          /\ \/ SubIds' = SubIds
             \/ /\ SubIds' = SubIds \cup {new} /\ new \notin SubIds
                /\ Begins(new) /\ sub'[new].phase = "admitted"
        BY <1>0, <1>5, <2>1, MarkLives
    <2>3. UNCHANGED <<registered, counter>> /\ swapping' \subseteq swapping
        BY <1>5 DEF SetModelMark
    <2> HIDE DEF new
    <2>4. CASE SubIds' = SubIds
        BY <2>2, <2>3, <2>4, SamePhasesKeep
    <2>5. CASE SubIds' # SubIds
        <3>1. sub'[new].phase \notin Listed /\ ~ Holds(sub'[new])
            BY <2>2, <2>5 DEF Listed, Holds, HeldPhases
        <3> QED
            BY <2>2, <2>3, <2>5, <3>1, BeginKeeps
    <2> QED
        BY <2>4, <2>5
<1>6. CASE UNCHANGED vars
    <2>1. Lives /\ SubIds' = SubIds
        <3>1. \A j \in SubIds : sub[j] \in SubRecord
            BY <1>0 DEF SubIds
        <3> QED
            BY <1>0, <1>6, <3>1, Stays DEF Lives, SubIds, vars
    <2> QED
        BY <1>6, <2>1, SamePhasesKeep DEF vars
<1> QED
    BY <1>1, <1>2, <1>3, <1>4, <1>5, <1>6 DEF Next, RunStep

LEMMA InitInv == Init => Inv
<1> SUFFICES ASSUME Init PROVE Inv
    OBVIOUS
<1>1. sub = << >> /\ SubIds = {} /\ registered = {} /\ swapping = {} /\ counter = 0
    BY DEF Init, SubIds
<1>2. Holding = {}
    BY <1>1 DEF Holding
<1> QED
    BY <1>1, <1>2, FS_EmptySet DEF Inv, Base, Lists, Slots

(* Runs, registry and counter agree in every reachable state, whoever spawns, stops, *)
(* swaps, drops or monitors.                                                          *)
THEOREM Invariant == Spec => []Inv
BY InitInv, NextKeeps, PTL DEF Spec

(* "Cancellation racing completion keeps whichever won": once the loop of a handle is  *)
(* started its terminal status is final, for any number of runs and racing parties     *)
(* (set_status).                                                                       *)
THEOREM TerminalIsFinal == Spec => FirstTerminalWins
<1>1. ASSUME Inv, [Next]_vars
      PROVE  \A i \in SubIds : sub[i].status \in TerminalStatuses /\ sub[i].phase # "registered"
                                  => sub'[i].status = sub[i].status
    <2>1. Lives
        BY <1>1, NextKeeps
    <2> SUFFICES ASSUME NEW i \in SubIds, sub[i].status \in TerminalStatuses,
                        sub[i].phase # "registered"
                 PROVE  sub'[i].status = sub[i].status
        OBVIOUS
    <2>2. sub[i] \in SubRecord /\ sub'[i] \in SubRecord /\ RunOK(sub[i]) /\ LifeStep(sub[i], sub'[i])
        BY <1>1, <2>1 DEF Inv, Base, Lives, SubIds
    <2> QED
        BY <2>2, LifeKeepsTerminal
<1> QED
    BY <1>1, Invariant, PTL DEF Spec, FirstTerminalWins

(* Who sees a run Completed or Failed finds its output or its error (the order of *)
(* set_output, set_error and set_status in every caller).                          *)
THEOREM ResultsAreThere == Spec => []ResultBeforeStatus
<1>1. Inv => ResultBeforeStatus
    <2> SUFFICES ASSUME Inv, NEW i \in SubIds
                 PROVE  /\ sub[i].status = "Completed" /\ sub[i].answer # "empty" => sub[i].output
                        /\ sub[i].status = "Failed" => sub[i].error /\ ~sub[i].output
        BY DEF ResultBeforeStatus
    <2>1. sub[i] \in SubRecord /\ RunOK(sub[i])
        BY DEF Inv, Base, SubIds
    <2>2. sub[i].answer \in Answers
        BY <2>1 DEF SubRecord
    <2> QED
        BY <2>1, <2>2 DEF RunOK, Recorded, Answers
<1> QED
    BY <1>1, Invariant, PTL

(* The registry lists the runs in flight, and those whose caller was dropped. *)
THEOREM RegistryIsInFlight == Spec => []InFlightOnly
<1>1. Inv => InFlightOnly
    BY DEF Inv, Lists, Listed, InFlightOnly
<1> QED
    BY <1>1, Invariant, PTL

(* ACTIVE_SUBAGENTS counts the tool's runs between their gate and their end. *)
THEOREM CounterIsRight == Spec => []CounterCounts
<1>1. Inv => CounterCounts
    <2> SUFFICES ASSUME Inv PROVE CounterCounts
        OBVIOUS
    <2>1. \A i \in SubIds : sub[i].phase \in Phases
        <3>1. \A i \in SubIds : sub[i] \in SubRecord
            BY DEF Inv, Base, SubIds
        <3> QED
            BY <3>1 DEF SubRecord
    <2>2. Holding = {i \in SubIds : /\ sub[i].kind = "tool"
                                    /\ sub[i].phase \notin {"admitted", "returned", "refused", "dropped"}}
        BY <2>1 DEF Holding, Holds, HeldPhases, Phases
    <2> QED
        BY <2>2 DEF Inv, Slots, CounterCounts
<1> QED
    BY <1>1, Invariant, PTL

-----------------------------------------------------------------------------
(* The gate of a parent that spawns through the registry alone.  A run claims a place *)
(* from its gate to the end of its loop: between the gate and the loop the registry   *)
(* need not show it, but it keeps a task of the parent busy.                          *)

Claims(rec) == rec.phase \in Between \/ (rec.phase \in Listed /\ rec.status \notin TerminalStatuses)
Using(p) == {j \in SubIds : sub[j].parent = p /\ Claims(sub[j])}
OnlyRegistry(p) == \A i \in SubIds : sub[i].parent = p => sub[i].kind \in {"manage", "auto"}

\* The tasks of a parent are as many as it is given.
Busy == \A p \in Parents : Cardinality(Entering(p)) + Cardinality(Swapping(p)) <= Tasks[p]
GateInv == \A p \in Parents : OnlyRegistry(p) => Cardinality(Using(p)) <= Cap + Tasks[p] - 1

\* Nothing but a gate gives a run its place.
LEMMA LifeClaimsNothing ==
    ASSUME NEW o \in SubRecord, NEW n \in SubRecord, LifeStep(o, n)
    PROVE  /\ Claims(n) => Claims(o)
           /\ n.phase \in Between => o.phase \in Between
<1> USE DEF Claims, Between, Listed
<1>1. CASE Admitted(o, n)
    BY <1>1 DEF Admitted
<1>2. CASE Registered(o, n)
    BY <1>2 DEF Registered
<1>3. CASE Started(o, n)
    BY <1>3 DEF Started
<1>4. CASE Ended(o, n)
    BY <1>4 DEF Ended, SameButPhase
<1>5. CASE Finalised(o, n)
    BY <1>5 DEF Finalised, SameButPhase, SetStatus, TerminalStatuses
<1>6. CASE Touched(o, n)
    BY <1>6 DEF Touched, SetStatus, TerminalStatuses
<1> QED
    BY <1>1, <1>2, <1>3, <1>4, <1>5, <1>6 DEF LifeStep

LEMMA ClaimsAreActive ==
    ASSUME Inv, NEW p, NEW j \in SubIds
    PROVE  /\ j \in ActiveFor(p) <=> /\ sub[j].parent = p /\ sub[j].phase \in Listed
                                     /\ sub[j].status \notin TerminalStatuses
           /\ j \in Using(p) => j \in Entering(p) \cup ActiveFor(p)
<1>1. sub[j].phase \in Listed <=> j \in registered
    BY DEF Inv, Lists
<1> QED
    BY <1>1 DEF ActiveFor, Active, Using, Claims, Entering

\* Whoever a run belongs to and whatever it tries, it stays so, but for the attempt it is at.
SameOrigin(o, n) == n.parent = o.parent /\ n.target = o.target
SameRun(o, n) == SameOrigin(o, n) /\ n.at = o.at /\ n.answer = o.answer

LEMMA OriginStays ==
    ASSUME Inv, [Next]_vars, NEW j \in SubIds
    PROVE  /\ SameOrigin(sub[j], sub'[j])
           /\ sub'[j].at # sub[j].at => AttemptFails(j) /\ sub'[j].at = sub[j].at + 1
           /\ sub'[j].answer # sub[j].answer =>
                 LoopEnds(j, sub'[j].answer) /\ sub'[j].at = sub[j].at
<1> USE DEF SameRun, SameOrigin
<1>0. sub \in Seq(SubRecord) /\ sub[j] \in SubRecord
    BY DEF Inv, Base, SubIds
<1>1. ASSUME NEW i \in SubIds, NEW phase, Move(i, phase)
      PROVE  SameRun(sub[j], sub'[j])
    BY <1>0, <1>1 DEF Move, SubIds, SubRecord
<1>2. ASSUME NEW i \in SubIds, RaiseCounter(i) \/ Refuse(i) \/ Register(i) \/ Deregister(i) \/ Drop(i)
      PROVE  SameRun(sub[j], sub'[j])
    BY <1>1, <1>2 DEF RaiseCounter, Refuse, Register, Deregister, Drop
<1>3. ASSUME NEW i \in SubIds, StartLoop(i) \/ RecordResult(i) \/ SetFinalStatus(i)
      PROVE  SameRun(sub[j], sub'[j])
    <2>1. CASE StartLoop(i)
        BY <1>0, <2>1 DEF StartLoop, SubIds, SubRecord
    <2>2. CASE RecordResult(i)
        BY <1>0, <2>2 DEF RecordResult, SubIds, SubRecord
    <2>3. CASE SetFinalStatus(i)
        BY <1>0, <2>3 DEF SetFinalStatus, SubIds, SubRecord
    <2> QED
        BY <1>3, <2>1, <2>2, <2>3
<1>4. ASSUME NEW i \in SubIds, Stop(i) \/ SetModelLookup(i) \/ Overrun(i)
      PROVE  SameRun(sub[j], sub'[j])
    BY <1>0, <1>4 DEF Stop, SetModelLookup, Overrun, SubIds, SubRecord
<1>5. ASSUME NEW i \in SubIds, NEW answer, LoopEnds(i, answer)
      PROVE  /\ SameOrigin(sub[j], sub'[j]) /\ sub'[j].at = sub[j].at
             /\ sub'[j].answer # sub[j].answer => i = j /\ sub'[j].answer = answer
    BY <1>0, <1>5 DEF LoopEnds, SubIds, SubRecord
<1>6. ASSUME NEW n, sub' = Append(sub, n)
      PROVE  SameRun(sub[j], sub'[j])
    BY <1>0, <1>6 DEF SubIds
<1>7. ASSUME NEW p \in Parents, MonitorTick(p)
      PROVE  SameRun(sub[j], sub'[j])
    <2>1. sub'[j] = sub[j] \/ sub'[j] = [sub[j] EXCEPT !.token = TRUE]
        BY <1>7 DEF MonitorTick
    <2> QED
        BY <1>0, <2>1 DEF SubRecord
<1>8. ASSUME NEW i \in SubIds, SetModelMark(i)
      PROVE  SameRun(sub[j], sub'[j])
    <2>1. PICK status : status = SetStatus(sub[i].status, "Cancelled")
        OBVIOUS
    <2>2. PICK marked : marked = [sub EXCEPT ![i].status = status]
        OBVIOUS
    <2>3. SameRun(sub[j], marked[j]) /\ DOMAIN marked = SubIds
        BY <1>0, <2>2 DEF SubIds, SubRecord
    <2>4. sub' = marked \/ sub' = Append(marked, NewSub("manage", sub[i].parent, "admitted", NoTarget))
        BY <1>8, <2>1, <2>2 DEF SetModelMark
    <2>5. SubIds = 1..Len(sub) /\ Len(sub) \in Nat /\ Len(marked) = Len(sub)
        BY <1>0, <2>2 DEF SubIds
    <2>6. sub'[j] = marked[j]
        BY <2>4, <2>5
    <2> QED
        BY <2>3, <2>6
<1>9. ASSUME NEW i \in SubIds, AttemptFails(i)
      PROVE  /\ SameOrigin(sub[j], sub'[j])
             /\ sub'[j].at # sub[j].at => i = j /\ sub'[j].at = sub[j].at + 1
             /\ sub'[j].answer = sub[j].answer
    BY <1>0, <1>9 DEF AttemptFails, NextAttempt, SubIds, SubRecord
<1>10. CASE UNCHANGED vars
    BY <1>10 DEF vars
<1>11. ASSUME SameRun(sub[j], sub'[j])
       PROVE  /\ SameOrigin(sub[j], sub'[j])
              /\ sub'[j].at = sub[j].at /\ sub'[j].answer = sub[j].answer
    BY <1>11
<1>12. CASE \E i \in SubIds : AttemptFails(i)
    BY <1>9, <1>12
<1>13. CASE \E i \in SubIds : \E answer \in Answers \ {"none"} : LoopEnds(i, answer)
    <2>1. PICK i \in SubIds, answer \in Answers \ {"none"} : LoopEnds(i, answer)
        BY <1>13
    <2> QED
        BY <1>5, <2>1
<1>14. CASE /\ Next /\ ~ \E i \in SubIds : AttemptFails(i)
            /\ ~ \E i \in SubIds : \E answer \in Answers \ {"none"} : LoopEnds(i, answer)
    <2> HIDE DEF SameRun, SameOrigin
    <2>1. SameRun(sub[j], sub'[j])
        BY <1>2, <1>3, <1>4, <1>6, <1>7, <1>8, <1>14
           DEF Next, Finalise, AdmitByRegistry, AdmitByCounter, Dispatch, Begin
    <2> QED
        BY <1>11, <2>1
<1> QED
    BY <1>10, <1>12, <1>13, <1>14

\* Who begins does so from a free task, or from the one that swaps a model, and found
\* a free place if it came by a registry gate.
Gated(new) ==
    /\ \/ MayCall(sub'[new].parent) /\ swapping' = swapping
       \/ \E i \in swapping : sub[i].parent = sub'[new].parent /\ swapping' = swapping \ {i}
    /\ sub'[new].kind \in {"manage", "auto"} =>
          Cardinality({j \in ActiveFor(sub'[new].parent) : sub'[j].status \notin TerminalStatuses}) < Cap

\* Who begins to swap a model does so from a free task.
NobodyBegins ==
    /\ SubIds' = SubIds
    /\ \/ swapping' \subseteq swapping
       \/ \E i \in SubIds : swapping' = swapping \cup {i} /\ MayCall(sub[i].parent)

LEMMA BeginsGated ==
    ASSUME Inv, [Next]_vars
    PROVE  NobodyBegins \/ (SubIds' = SubIds \cup {Len(sub) + 1} /\ Gated(Len(sub) + 1))
<1>0. Base /\ Lists /\ sub \in Seq(SubRecord) /\ SubIds = 1..Len(sub) /\ Len(sub) \in Nat
    BY DEF Inv, Base, SubIds
<1>1. ASSUME NEW p \in Parents, NEW kind \in Kinds[p], AdmitByRegistry(kind, p)
      PROVE  SubIds' = SubIds \cup {Len(sub) + 1} /\ Gated(Len(sub) + 1)
    <2>1. PICK n : n = NewSub(kind, p, "admitted", NoTarget)
        OBVIOUS
    <2>2. /\ sub' = Append(sub, n) /\ n.parent = p /\ MayCall(p) /\ Cardinality(ActiveFor(p)) < Cap
          /\ swapping' = swapping
        BY <1>1, <2>1 DEF AdmitByRegistry, RegistryGate, Begin, NewSub
    <2>3. /\ SubIds' = SubIds \cup {Len(sub) + 1} /\ sub'[Len(sub) + 1] = n
          /\ \A j \in SubIds : sub'[j] = sub[j]
        <3>1. (\E k \in Kinds[p] : AdmitByRegistry(k, p)) \/ AdmitByCounter(p)
            BY <1>1
        <3>2. SubIds' = SubIds \cup {Len(sub) + 1} /\ \A j \in SubIds : sub'[j] = sub[j]
            BY <1>0, <3>1, AdmitLives
        <3> QED
            BY <1>0, <2>2, <3>2
    <2>4. {j \in ActiveFor(p) : sub'[j].status \notin TerminalStatuses} = ActiveFor(p)
        BY <2>3 DEF ActiveFor, Active
    <2> QED
        BY <2>2, <2>3, <2>4 DEF Gated
<1>2. ASSUME NEW p \in Parents, AdmitByCounter(p)
      PROVE  SubIds' = SubIds \cup {Len(sub) + 1} /\ Gated(Len(sub) + 1)
    <2>1. SubIds' = SubIds \cup {Len(sub) + 1}
        BY <1>0, <1>2, AdmitLives
    <2>2. /\ sub'[Len(sub) + 1].kind = "tool" /\ sub'[Len(sub) + 1].parent = p
          /\ MayCall(p) /\ swapping' = swapping
        <3>1. PICK n : n = NewSub("tool", p, "admitted", NoTarget)
            OBVIOUS
        <3>2. sub' = Append(sub, n) /\ n.kind = "tool" /\ n.parent = p /\ MayCall(p) /\ swapping' = swapping
            BY <1>2, <3>1 DEF AdmitByCounter, Begin, NewSub
        <3> QED
            BY <1>0, <3>2
    <2> QED
        BY <2>1, <2>2 DEF Gated
<1>3. ASSUME NEW p \in Parents, NEW target \in Targets, Dispatch(p, target)
      PROVE  SubIds' = SubIds \cup {Len(sub) + 1} /\ Gated(Len(sub) + 1)
    <2>1. SubIds' = SubIds \cup {Len(sub) + 1} /\ swapping' = swapping
        BY <1>0, <1>3, DispatchLives
    <2>2. sub'[Len(sub) + 1].kind = "dispatch" /\ sub'[Len(sub) + 1].parent = p /\ MayCall(p)
        <3>1. PICK n : n = NewSub("dispatch", p, "registered", target)
            OBVIOUS
        <3>2. sub' = Append(sub, n) /\ n.kind = "dispatch" /\ n.parent = p /\ MayCall(p)
            BY <1>3, <3>1 DEF Dispatch, Begin, NewSub
        <3> QED
            BY <1>0, <3>2
    <2> QED
        BY <2>1, <2>2 DEF Gated
<1>4. ASSUME NEW p \in Parents, MonitorTick(p)
      PROVE  NobodyBegins
    <2>1. swapping' = swapping
        BY <1>4 DEF MonitorTick
    <2> QED
        BY <1>0, <1>4, <2>1, MonitorLives DEF NobodyBegins
<1>5. ASSUME NEW i \in SubIds, RunStep(i)
      PROVE  NobodyBegins
    <2>1. SubIds' = SubIds
        <3>1. PICK n : Follows(i, n)
            BY <1>0, <1>5, RunStepFollows
        <3> QED
            BY <1>0, <3>1, OneLives DEF Follows, Becomes
    <2>2. swapping' = swapping \/ (swapping' = swapping \cup {i} /\ MayCall(sub[i].parent))
        BY <1>5 DEF RunStep, RaiseCounter, Refuse, Register, StartLoop, AttemptFails, LoopEnds, Finalise,
                    RecordResult, SetFinalStatus, Deregister, Drop, Stop, SetModelLookup, Overrun
    <2> QED
        BY <2>1, <2>2 DEF NobodyBegins
<1>6. ASSUME NEW i \in SubIds, SetModelMark(i)
      PROVE  NobodyBegins \/ (SubIds' = SubIds \cup {Len(sub) + 1} /\ Gated(Len(sub) + 1))
    <2>1. PICK status : status = SetStatus(sub[i].status, "Cancelled")
        OBVIOUS
    <2>2. PICK marked : marked = [sub EXCEPT ![i].status = status]
        OBVIOUS
    <2>3. PICK p : p = sub[i].parent
        OBVIOUS
    <2>4. PICK n : n = NewSub("manage", p, "admitted", NoTarget)
        OBVIOUS
    <2>5. PICK inUse : inUse = {j \in ActiveFor(p) : j # i \/ marked[i].status \notin TerminalStatuses}
        OBVIOUS
    <2>6. /\ i \in swapping /\ swapping' = swapping \ {i}
          /\ sub' = IF Cardinality(inUse) < Cap /\ Len(sub) < MaxRuns THEN Append(marked, n) ELSE marked
        BY <1>6, <2>1, <2>2, <2>3, <2>4, <2>5 DEF SetModelMark
    <2>7. /\ marked[i].status = status /\ \A j \in SubIds \ {i} : marked[j] = sub[j]
          /\ DOMAIN marked = SubIds /\ Len(marked) = Len(sub)
        BY <1>0, <2>2 DEF SubIds, SubRecord
    <2>8. CASE sub' = marked
        BY <2>6, <2>7, <2>8 DEF SubIds, NobodyBegins
    <2>9. CASE sub' = Append(marked, n) /\ Cardinality(inUse) < Cap
        <3>1. /\ SubIds' = SubIds \cup {Len(sub) + 1} /\ sub'[Len(sub) + 1] = n
              /\ \A j \in SubIds : sub'[j] = marked[j]
            <4>1. DOMAIN sub' = 1..(Len(sub) + 1) /\ sub'[Len(sub) + 1] = n
                  /\ \A j \in SubIds : sub'[j] = marked[j]
                BY <1>0, <2>7, <2>9
            <4> QED
                BY <1>0, <4>1 DEF SubIds
        <3>2. {j \in ActiveFor(p) : sub'[j].status \notin TerminalStatuses} = inUse
            <4>1. \A j \in ActiveFor(p) : j \in SubIds /\ sub[j].status \notin TerminalStatuses
                BY DEF ActiveFor, Active
            <4> QED
                BY <2>5, <2>7, <3>1, <4>1
        <3>3. n.parent = p
            BY <2>4 DEF NewSub
        <3> QED
            BY <2>3, <2>6, <2>9, <3>1, <3>2, <3>3 DEF Gated
    <2> QED
        BY <2>6, <2>8, <2>9
<1>7. CASE UNCHANGED vars
    BY <1>7 DEF vars, SubIds, NobodyBegins
<1> QED
    BY <1>1, <1>2, <1>3, <1>4, <1>5, <1>6, <1>7 DEF Next, RunStep

\* What every step leaves of the runs, and of the tasks that are busy.
LEMMA StepFacts ==
    ASSUME Inv, [Next]_vars
    PROVE  /\ IsFiniteSet(SubIds) /\ IsFiniteSet(SubIds') /\ SubIds \subseteq SubIds'
           /\ \A j \in SubIds : /\ sub'[j].kind = sub[j].kind /\ sub'[j].parent = sub[j].parent
                                /\ Claims(sub'[j]) => Claims(sub[j])
                                /\ sub'[j].phase \in Between => sub[j].phase \in Between
           /\ swapping \subseteq SubIds
<1>1. Inv' /\ Lives
    BY NextKeeps
<1>2. sub \in Seq(SubRecord) /\ sub' \in Seq(SubRecord) /\ swapping \subseteq SubIds
    BY <1>1 DEF Inv, Base, Lists
<1>3. IsFiniteSet(SubIds) /\ IsFiniteSet(SubIds')
    <2>1. IsFiniteSet(1..Len(sub)) /\ IsFiniteSet(1..Len(sub'))
        BY <1>2, FS_Interval
    <2> QED
        BY <1>2, <2>1 DEF SubIds
<1>4. SubIds \subseteq SubIds'
    BY <1>1 DEF Lives
<1>5. ASSUME NEW j \in SubIds
      PROVE  /\ sub'[j].kind = sub[j].kind
             /\ Claims(sub'[j]) => Claims(sub[j])
             /\ sub'[j].phase \in Between => sub[j].phase \in Between
    <2>1. sub[j] \in SubRecord /\ sub'[j] \in SubRecord /\ LifeStep(sub[j], sub'[j])
        BY <1>1, <1>2 DEF Inv, Base, Lives, SubIds
    <2>2. sub'[j].kind = sub[j].kind
        BY <2>1 DEF LifeStep, Admitted, Registered, Started, Ended, Finalised, Touched, SameButPhase
    <2> QED
        BY <2>1, <2>2, LifeClaimsNothing
<1> QED
    BY <1>2, <1>3, <1>4, <1>5, OriginStays DEF SameOrigin

\* One more, one less: the sizes of sets that a step changes by one member.
LEMMA Sizes ==
    ASSUME NEW S, IsFiniteSet(S)
    PROVE  /\ Cardinality(S) \in Nat
           /\ \A T : T \subseteq S => IsFiniteSet(T) /\ Cardinality(T) \in Nat /\ Cardinality(T) <= Cardinality(S)
           /\ \A T, x : T \subseteq S \cup {x} =>
                 IsFiniteSet(T) /\ Cardinality(T) \in Nat /\ Cardinality(T) <= Cardinality(S) + 1
           /\ \A T, x : x \in S /\ T \subseteq S \ {x} => Cardinality(T) <= Cardinality(S) - 1
<1>1. Cardinality(S) \in Nat
    BY FS_CardinalityType
<1>2. ASSUME NEW T, T \subseteq S
      PROVE  IsFiniteSet(T) /\ Cardinality(T) \in Nat /\ Cardinality(T) <= Cardinality(S)
    BY <1>2, FS_Subset, FS_CardinalityType
<1>3. ASSUME NEW T, NEW x, T \subseteq S \cup {x}
      PROVE  IsFiniteSet(T) /\ Cardinality(T) \in Nat /\ Cardinality(T) <= Cardinality(S) + 1
    <2>1. /\ IsFiniteSet(S \cup {x})
          /\ Cardinality(S \cup {x}) = IF x \in S THEN Cardinality(S) ELSE Cardinality(S) + 1
        BY FS_AddElement
    <2>2. /\ IsFiniteSet(T) /\ Cardinality(T) \in Nat /\ Cardinality(T) <= Cardinality(S \cup {x})
        BY <1>3, <2>1, FS_Subset, FS_CardinalityType
    <2> QED
        BY <1>1, <2>1, <2>2
<1>4. ASSUME NEW T, NEW x \in S, T \subseteq S \ {x}
      PROVE  Cardinality(T) <= Cardinality(S) - 1
    <2>1. IsFiniteSet(S \ {x}) /\ Cardinality(S \ {x}) = Cardinality(S) - 1
        BY FS_RemoveElement
    <2> QED
        BY <1>4, <2>1, FS_Subset
<1> QED
    BY <1>1, <1>2, <1>3, <1>4

LEMMA BusyStep ==
    ASSUME Inv, Busy, [Next]_vars
    PROVE  Busy'
<1>0. /\ IsFiniteSet(SubIds) /\ SubIds \subseteq SubIds' /\ swapping \subseteq SubIds
      /\ \A j \in SubIds : /\ sub'[j].parent = sub[j].parent
                           /\ sub'[j].phase \in Between => sub[j].phase \in Between
    BY StepFacts
<1> SUFFICES ASSUME NEW p \in Parents
             PROVE  Cardinality(Entering(p)') + Cardinality(Swapping(p)') <= Tasks[p]
    BY DEF Busy
<1>1. PICK E, W, EE, WW : E = Entering(p) /\ W = Swapping(p) /\ EE = Entering(p)' /\ WW = Swapping(p)'
    OBVIOUS
<1>2. /\ IsFiniteSet(E) /\ IsFiniteSet(W) /\ Cardinality(E) + Cardinality(W) <= Tasks[p]
      /\ Tasks[p] \in Nat
    <2>1. E \subseteq SubIds /\ W \subseteq SubIds
        BY <1>0, <1>1 DEF Entering, Swapping
    <2> QED
        BY <1>0, <1>1, <2>1, FS_Subset, SubAgentsAssumption DEF Busy
<1>3. /\ Cardinality(E) \in Nat /\ Cardinality(W) \in Nat
      /\ EE \subseteq E => Cardinality(EE) \in Nat /\ Cardinality(EE) <= Cardinality(E)
      /\ WW \subseteq W => Cardinality(WW) \in Nat /\ Cardinality(WW) <= Cardinality(W)
      /\ \A x : EE \subseteq E \cup {x} => Cardinality(EE) \in Nat /\ Cardinality(EE) <= Cardinality(E) + 1
      /\ \A x : WW \subseteq W \cup {x} => Cardinality(WW) \in Nat /\ Cardinality(WW) <= Cardinality(W) + 1
      /\ \A x : x \in W /\ WW \subseteq W \ {x} => Cardinality(WW) <= Cardinality(W) - 1
    BY <1>2, Sizes
<1>4. \A j \in SubIds : j \in EE => j \in E
    BY <1>0, <1>1 DEF Entering
<1>5. \A j \in swapping : j \in WW => j \in W
    BY <1>0, <1>1 DEF Swapping
<1>6. MayCall(p) => Cardinality(E) + Cardinality(W) < Tasks[p]
    BY <1>1 DEF MayCall
<1>7. CASE NobodyBegins
    <2>1. EE \subseteq E
        BY <1>1, <1>4, <1>7 DEF NobodyBegins, Entering
    <2>2. CASE swapping' \subseteq swapping
        <3>1. WW \subseteq W
            BY <1>1, <1>5, <2>2 DEF Swapping
        <3> QED
            BY <1>1, <1>2, <1>3, <2>1, <3>1
    <2>3. ASSUME NEW i \in SubIds, swapping' = swapping \cup {i}, MayCall(sub[i].parent)
          PROVE  Cardinality(EE) + Cardinality(WW) <= Tasks[p]
        <3>1. CASE sub[i].parent = p
            <4>1. WW \subseteq W \cup {i}
                BY <1>1, <1>5, <2>3 DEF Swapping
            <4>2. Cardinality(WW) \in Nat /\ Cardinality(WW) <= Cardinality(W) + 1
                BY <1>3, <4>1
            <4>3. Cardinality(EE) \in Nat /\ Cardinality(EE) <= Cardinality(E)
                BY <1>3, <2>1
            <4>4. Cardinality(E) + Cardinality(W) < Tasks[p] /\ Cardinality(E) \in Nat /\ Cardinality(W) \in Nat
                BY <1>3, <1>6, <2>3, <3>1
            <4> QED
                BY <1>2, <4>2, <4>3, <4>4
        <3>2. CASE sub[i].parent # p
            <4>1. i \notin WW
                BY <1>0, <1>1, <3>2 DEF Swapping
            <4>2. WW \subseteq W
                BY <1>1, <1>5, <2>3, <4>1 DEF Swapping
            <4> QED
                BY <1>2, <1>3, <2>1, <4>2
        <3> QED
            BY <3>1, <3>2
    <2> QED
        BY <1>1, <1>7, <2>2, <2>3 DEF NobodyBegins
<1>8. ASSUME NEW new, SubIds' = SubIds \cup {new}, Gated(new)
      PROVE  Cardinality(EE) + Cardinality(WW) <= Tasks[p]
    <2>1. swapping' \subseteq swapping /\ WW \subseteq W
        BY <1>1, <1>5, <1>8 DEF Gated, Swapping
    <2>2. EE \subseteq E \cup {new}
        BY <1>1, <1>4, <1>8 DEF Entering
    <2>3. CASE sub'[new].parent # p
        <3>1. EE \subseteq E
            BY <1>1, <2>2, <2>3 DEF Entering
        <3> QED
            BY <1>2, <1>3, <2>1, <3>1
    <2>4. CASE sub'[new].parent = p /\ MayCall(p)
        <3>1. Cardinality(EE) \in Nat /\ Cardinality(EE) <= Cardinality(E) + 1
            BY <1>3, <2>2
        <3>2. Cardinality(WW) \in Nat /\ Cardinality(WW) <= Cardinality(W)
            BY <1>3, <2>1
        <3>3. Cardinality(E) + Cardinality(W) < Tasks[p] /\ Cardinality(E) \in Nat /\ Cardinality(W) \in Nat
            BY <1>3, <1>6, <2>4
        <3> QED
            BY <1>2, <3>1, <3>2, <3>3
    <2>5. ASSUME NEW i \in swapping, sub[i].parent = p, swapping' = swapping \ {i}
          PROVE  Cardinality(EE) + Cardinality(WW) <= Tasks[p]
        <3>1. i \in W /\ WW \subseteq W \ {i}
            BY <1>1, <1>5, <2>5 DEF Swapping
        <3> QED
            BY <1>2, <1>3, <2>1, <2>2, <3>1
    <2> QED
        BY <1>8, <2>3, <2>4, <2>5 DEF Gated
<1> QED
    BY <1>1, <1>7, <1>8, BeginsGated

LEMMA GateStep ==
    ASSUME Inv, Busy, GateInv, [Next]_vars
    PROVE  GateInv'
<1>0. /\ IsFiniteSet(SubIds) /\ SubIds \subseteq SubIds' /\ swapping \subseteq SubIds
      /\ \A j \in SubIds : /\ sub'[j].kind = sub[j].kind /\ sub'[j].parent = sub[j].parent
                           /\ Claims(sub'[j]) => Claims(sub[j])
                           /\ sub'[j].phase \in Between => sub[j].phase \in Between
    BY StepFacts
<1> SUFFICES ASSUME NEW p \in Parents, OnlyRegistry(p)'
             PROVE  Cardinality(Using(p)') <= Cap + Tasks[p] - 1
    BY DEF GateInv
<1>1. OnlyRegistry(p)
    BY <1>0 DEF OnlyRegistry
<1>2. \A j \in SubIds : j \in Using(p)' => j \in Using(p)
    BY <1>0 DEF Using
<1>3. /\ IsFiniteSet(Using(p)) /\ Cardinality(Using(p)) \in Nat
      /\ Cardinality(Using(p)) <= Cap + Tasks[p] - 1
      /\ Cap \in Nat /\ Tasks[p] \in Nat
    <2>1. IsFiniteSet(Using(p))
        BY <1>0, FS_Subset DEF Using
    <2> QED
        BY <1>1, <2>1, FS_CardinalityType, SubAgentsAssumption DEF GateInv
<1>4. CASE Using(p)' \subseteq Using(p)
    <2>1. Cardinality(Using(p)') <= Cardinality(Using(p)) /\ Cardinality(Using(p)') \in Nat
        BY <1>3, <1>4, FS_Subset, FS_CardinalityType
    <2> QED
        BY <1>3, <2>1
<1>5. CASE ~(Using(p)' \subseteq Using(p))
    <2>1. PICK new : new = Len(sub) + 1
        OBVIOUS
    <2>2. SubIds' = SubIds \cup {new} /\ Gated(new) /\ new \in Using(p)'
        <3>1. PICK j \in Using(p)' : j \notin Using(p)
            BY <1>5
        <3>2. j \in SubIds' /\ j \notin SubIds
            BY <1>2, <3>1 DEF Using
        <3> QED
            BY <2>1, <3>1, <3>2, BeginsGated DEF NobodyBegins
    <2>3. sub'[new].parent = p /\ sub'[new].kind \in {"manage", "auto"}
        BY <2>2 DEF Using, OnlyRegistry
    <2>4. PICK E, K : E = Entering(p) /\ K = {j \in ActiveFor(p) : sub'[j].status \notin TerminalStatuses}
        OBVIOUS
    <2>5. Cardinality(K) < Cap
        BY <2>2, <2>3, <2>4 DEF Gated
    <2>6. IsFiniteSet(E) /\ IsFiniteSet(K) /\ Cardinality(E) \in Nat /\ Cardinality(K) \in Nat
        <3>1. E \subseteq SubIds /\ K \subseteq SubIds
            BY <2>4 DEF Entering, ActiveFor
        <3> QED
            BY <1>0, <3>1, FS_Subset, FS_CardinalityType
    <2>7. Cardinality(E) <= Tasks[p] - 1
        <3>1. IsFiniteSet(Swapping(p)) /\ Cardinality(Swapping(p)) \in Nat
            BY <1>0, FS_Subset, FS_CardinalityType DEF Swapping
        <3>2. CASE MayCall(p)
            BY <1>3, <2>4, <2>6, <3>1, <3>2 DEF MayCall
        <3>3. ASSUME NEW i \in swapping, sub[i].parent = p PROVE Cardinality(E) <= Tasks[p] - 1
            <4>1. i \in Swapping(p)
                BY <3>3 DEF Swapping
            <4>2. Cardinality(Swapping(p)) # 0
                BY <3>1, <4>1, FS_EmptySet
            <4>3. Cardinality(E) + Cardinality(Swapping(p)) <= Tasks[p]
                BY <2>4 DEF Busy
            <4> QED
                BY <1>3, <2>6, <3>1, <4>2, <4>3
        <3> QED
            BY <2>2, <2>3, <3>2, <3>3 DEF Gated
    <2>8. Using(p)' \subseteq (E \cup K) \cup {new}
        <3>1. ASSUME NEW j \in Using(p)', j # new PROVE j \in E \cup K
            <4>1. j \in SubIds /\ j \in Using(p)
                BY <1>2, <2>2, <3>1 DEF Using
            <4>2. CASE j \in Entering(p)
                BY <2>4, <4>2
            <4>3. CASE j \notin Entering(p)
                <5>1. j \in ActiveFor(p) /\ sub[j].phase \notin Between
                    BY <4>1, <4>3, ClaimsAreActive DEF Entering, Using
                <5>2. sub'[j].phase \notin Between
                    BY <1>0, <4>1, <5>1
                <5>3. sub'[j].status \notin TerminalStatuses
                    BY <3>1, <5>2 DEF Using, Claims
                <5> QED
                    BY <2>4, <5>1, <5>3
            <4> QED
                BY <4>2, <4>3
        <3> QED
            BY <3>1
    <2>9. /\ IsFiniteSet(E \cup K) /\ Cardinality(E \cup K) \in Nat
          /\ Cardinality(E \cup K) <= Cardinality(E) + Cardinality(K)
        <3>1. IsFiniteSet(E \cup K) /\ IsFiniteSet(E \cap K)
            BY <2>6, FS_Union, FS_Subset
        <3>2. Cardinality(E \cup K) = Cardinality(E) + Cardinality(K) - Cardinality(E \cap K)
            BY <2>6, FS_Union
        <3>3. Cardinality(E \cap K) \in Nat /\ Cardinality(E \cup K) \in Nat
            BY <3>1, FS_CardinalityType
        <3> QED
            BY <2>6, <3>1, <3>2, <3>3
    <2>10. Cardinality(Using(p)') \in Nat /\ Cardinality(Using(p)') <= Cardinality(E \cup K) + 1
        BY <2>8, <2>9, Sizes
    <2> QED
        BY <1>3, <2>5, <2>6, <2>7, <2>9, <2>10
<1> QED
    BY <1>4, <1>5

(* subagent_manage, set_model's respawn and auto-dispatch share one gate: a parent that *)
(* spawns through them alone runs at most Cap loops, and one more for every turn beyond *)
(* the first that it runs at the same time, for any number of runs, however they are    *)
(* stopped, dropped or timed.  A loop whose model was swapped is not counted.           *)
THEOREM GateIsKept == Spec => []GateHolds
<1>1. Init => Busy /\ GateInv
    <2> SUFFICES ASSUME Init PROVE Busy /\ GateInv
        OBVIOUS
    <2>1. \A p \in Parents : Using(p) = {} /\ Entering(p) = {} /\ Swapping(p) = {}
        BY DEF Init, Using, Entering, Swapping, SubIds
    <2>2. Cap \in Nat /\ \A p \in Parents : Tasks[p] \in Nat \ {0}
        BY SubAgentsAssumption
    <2>3. Cardinality({}) = 0
        BY FS_EmptySet
    <2>4. ASSUME NEW p \in Parents
          PROVE  /\ Cardinality(Entering(p)) + Cardinality(Swapping(p)) <= Tasks[p]
                 /\ Cardinality(Using(p)) <= Cap + Tasks[p] - 1
        <3>1. /\ Cardinality(Entering(p)) = 0 /\ Cardinality(Swapping(p)) = 0
              /\ Cardinality(Using(p)) = 0
            BY <2>1, <2>3
        <3> QED
            BY <2>2, <3>1
    <2> QED
        BY <2>4 DEF GateInv, Busy
<1>2. Inv /\ Busy /\ GateInv /\ [Next]_vars => Busy' /\ GateInv'
    BY BusyStep, GateStep
<1>3. Inv /\ GateInv => GateHolds
    <2> SUFFICES ASSUME Inv, GateInv, NEW p \in Parents,
                        \A i \in SubIds : sub[i].parent = p => sub[i].kind \in {"manage", "auto"}
                 PROVE  Cardinality({i \in SubIds : /\ sub[i].parent = p /\ sub[i].phase = "running"
                                                    /\ sub[i].status # "Cancelled"}) <= Cap + Tasks[p] - 1
        BY DEF GateHolds
    <2> DEFINE R == {i \in SubIds : /\ sub[i].parent = p /\ sub[i].phase = "running"
                                    /\ sub[i].status # "Cancelled"}
    <2>1. IsFiniteSet(SubIds)
        <3>1. sub \in Seq(SubRecord) /\ IsFiniteSet(1..Len(sub))
            BY FS_Interval DEF Inv, Base
        <3> QED
            BY <3>1 DEF SubIds
    <2>2. IsFiniteSet(Using(p)) /\ Cardinality(Using(p)) \in Nat
        BY <2>1, FS_Subset, FS_CardinalityType DEF Using
    <2>3. R \subseteq Using(p)
        BY DEF Inv, Base, RunOK, Using, Claims, Listed, TerminalStatuses
    <2> HIDE DEF R
    <2>4. Cardinality(R) <= Cardinality(Using(p)) /\ Cardinality(R) \in Nat
        BY <2>2, <2>3, FS_Subset, FS_CardinalityType
    <2>5. Cardinality(Using(p)) <= Cap + Tasks[p] - 1
        BY DEF GateInv, OnlyRegistry
    <2>6. Cap \in Nat /\ Tasks[p] \in Nat
        BY SubAgentsAssumption
    <2>7. Cardinality(R) <= Cap + Tasks[p] - 1
        BY <2>2, <2>4, <2>5, <2>6
    <2> QED
        BY <2>7 DEF R
<1> QED
    BY <1>1, <1>2, <1>3, Invariant, PTL DEF Spec

-----------------------------------------------------------------------------
(* A list of names: where each is first named, and how many are by then. *)

IsFirst(s, j) == s[j] # Blank /\ \A k \in 1..(j - 1) : s[k] # s[j]
Firsts(s, j) == {k \in 1..j : IsFirst(s, k)}
Rank(s, j) == Cardinality(Firsts(s, j))

LEMMA RankTyped == ASSUME NEW s, NEW j \in Nat PROVE IsFiniteSet(Firsts(s, j)) /\ Rank(s, j) \in Nat
<1>1. IsFiniteSet(1..j) /\ Firsts(s, j) \subseteq 1..j
    BY FS_Interval DEF Firsts
<1> QED
    BY <1>1, FS_Subset, FS_CardinalityType DEF Rank

LEMMA RankSteps ==
    ASSUME NEW s, NEW j \in Nat
    PROVE  /\ Rank(s, 0) = 0
           /\ Rank(s, j + 1) = IF IsFirst(s, j + 1) THEN Rank(s, j) + 1 ELSE Rank(s, j)
<1>1. Firsts(s, 0) = {}
    BY DEF Firsts
<1>2. Rank(s, 0) = 0
    BY <1>1, FS_EmptySet DEF Rank
<1>3. CASE IsFirst(s, j + 1)
    <2>1. Firsts(s, j + 1) = Firsts(s, j) \cup {j + 1} /\ j + 1 \notin Firsts(s, j)
        BY <1>3 DEF Firsts
    <2> QED
        BY <1>2, <1>3, <2>1, RankTyped, FS_AddElement DEF Rank
<1>4. CASE ~ IsFirst(s, j + 1)
    <2>1. Firsts(s, j + 1) = Firsts(s, j)
        BY <1>4 DEF Firsts
    <2> QED
        BY <1>2, <1>4, <2>1 DEF Rank
<1> QED
    BY <1>3, <1>4

LEMMA RankGrows ==
    ASSUME NEW s, NEW j \in Nat, NEW m \in Nat, j <= m
    PROVE  Rank(s, j) <= Rank(s, m) /\ (IsFirst(s, j) /\ j # 0 => 1 <= Rank(s, j))
<1>1. Firsts(s, j) \subseteq Firsts(s, m)
    BY DEF Firsts
<1>2. Rank(s, j) <= Rank(s, m)
    BY <1>1, RankTyped, FS_Subset DEF Rank
<1>3. ASSUME IsFirst(s, j), j # 0 PROVE 1 <= Rank(s, j)
    <2>1. j - 1 \in Nat /\ (j - 1) + 1 = j
        BY <1>3
    <2>2. Rank(s, (j - 1) + 1) = IF IsFirst(s, (j - 1) + 1) THEN Rank(s, j - 1) + 1 ELSE Rank(s, j - 1)
        BY <2>1, RankSteps
    <2>3. Rank(s, j - 1) \in Nat
        BY <2>1, RankTyped
    <2> QED
        BY <1>3, <2>1, <2>2, <2>3
<1> QED
    BY <1>2, <1>3

\* A name that occurs is first named somewhere before.
LEMMA FirstNamed ==
    ASSUME NEW s, NEW m \in Nat, NEW j \in 1..m, s[j] # Blank
    PROVE  \E n \in 1..m : s[n] = s[j] /\ IsFirst(s, n)
<1> DEFINE Alike == {k \in 1..m : s[k] = s[j]}
<1>1. Alike \subseteq Nat /\ Alike # {}
    OBVIOUS
<1>2. PICK n \in Alike : \A k \in Alike : n <= k
    <2> HIDE DEF Alike
    <2> QED
        BY <1>1, LeastOf
<1>3. ASSUME NEW k \in 1..(n - 1) PROVE s[k] # s[n]
    <2>1. k \in 1..m /\ ~ (n <= k)
        BY <1>2
    <2> QED
        BY <1>2, <2>1
<1> QED
    BY <1>2, <1>3 DEF IsFirst

-----------------------------------------------------------------------------
(* The chain of attempts, as it grows along the fallbacks. *)

TargetRec == [primary : Names, fallbacks : Seq(Names)]
Opening(t) == IF t.primary = Blank THEN << >> ELSE <<t.primary>>
Full(c, t) == Len(c) > Len(Opening(t)) /\ Len(c) >= MaxAttempts
Tried(c, name, t) == IF Full(c, t) \/ Skipped(c, name) THEN c ELSE Append(c, name)

ChainAlong(f, t) ==
    /\ f \in [0..Len(t.fallbacks) -> Seq(Names)]
    /\ f[0] = Opening(t)
    /\ \A k \in 1..Len(t.fallbacks) : f[k] = Tried(f[k - 1], t.fallbacks[k], t)
    /\ AttemptProviders(t) = f[Len(t.fallbacks)]

LEMMA ChainRun == ASSUME NEW t, t \in TargetRec PROVE \E f : ChainAlong(f, t)
<1> DEFINE V == Seq(Names)
           s == t.fallbacks
           step == [p \in V \X Names |-> Tried(p[1], p[2], t)]
           upTo[k \in 0..Len(s)] == IF k = 0 THEN Opening(t) ELSE Tried(upTo[k - 1], s[k], t)
<1>1. /\ s \in Seq(Names) /\ Len(s) \in Nat /\ \A k \in 1..Len(s) : s[k] \in Names
      /\ t.primary \in Names
    BY DEF TargetRec
<1>2. PICK f : IsRun(f, V, Opening(t), step, s)
    <2>1. Opening(t) \in V
        BY <1>1 DEF Opening
    <2>2. IsStep(step, V, Names)
        <3>1. ASSUME NEW p \in V \X Names PROVE Tried(p[1], p[2], t) \in V
            <4>1. p[1] \in V /\ p[2] \in Names
                OBVIOUS
            <4>2. Append(p[1], p[2]) \in V
                BY <4>1, AppendProperties
            <4> QED
                BY <4>1, <4>2 DEF Tried
        <3> QED
            BY <3>1 DEF IsStep
    <2> HIDE DEF step, V, s
    <2> QED
        BY <1>1, <2>1, <2>2, RunExists
<1> HIDE DEF s
<1>3. ASSUME NEW k \in 1..Len(s) PROVE f[k] = Tried(f[k - 1], s[k], t)
    <2>1. <<f[k - 1], s[k]>> \in V \X Names
        BY <1>1, <1>2, k - 1 \in 0..Len(s) DEF IsRun
    <2>2. step[<<f[k - 1], s[k]>>] = Tried(f[k - 1], s[k], t)
        BY <2>1
    <2> QED
        BY <1>2, <2>2, Zenon DEF IsRun
<1>4. f = [k \in 0..Len(s) |-> IF k = 0 THEN Opening(t) ELSE Tried(f[k - 1], s[k], t)]
    <2>1. ASSUME NEW k \in 0..Len(s) PROVE f[k] = IF k = 0 THEN Opening(t) ELSE Tried(f[k - 1], s[k], t)
        <3>1. CASE k = 0
            BY <1>2, <3>1, Zenon DEF IsRun
        <3>2. CASE k # 0
            BY <1>1, <1>3, <3>2, k \in 1..Len(s)
        <3> QED
            BY <3>1, <3>2
    <2> QED
        BY <1>2, <2>1, Zenon DEF IsRun
<1>5. upTo = [k \in 0..Len(s) |-> IF k = 0 THEN Opening(t) ELSE Tried(upTo[k - 1], s[k], t)]
    BY <1>4, Zenon
<1>6. AttemptProviders(t) = upTo[Len(s)]
    BY Zenon DEF AttemptProviders, Tried, Full, Opening, s
<1> HIDE DEF upTo, step, V
<1>7. StepAlike(upTo, f, Len(s))
    <2>1. upTo[0] = Opening(t) /\ f[0] = Opening(t)
        BY <1>1, <1>2, <1>5 DEF IsRun
    <2>2. ASSUME NEW k \in 1..Len(s), upTo[k - 1] = f[k - 1] PROVE upTo[k] = f[k]
        <3>1. k \in 0..Len(s) /\ k # 0
            BY <1>1, <2>2
        <3>2. upTo[k] = Tried(upTo[k - 1], s[k], t)
            BY <1>5, <3>1, Zenon
        <3> QED
            BY <1>3, <2>2, <3>2
    <2> QED
        BY <2>1, <2>2 DEF StepAlike
<1>8. AttemptProviders(t) = f[Len(s)]
    <2>1. Agree(upTo, f, Len(s))
        BY <1>1, <1>7, RunsAgree
    <2> QED
        BY <1>1, <1>6, <2>1 DEF Agree
<1> QED
    BY <1>2, <1>3, <1>8, Zenon DEF IsRun, ChainAlong, V, s

\* How long a chain may get: the limit is looked at when a fallback has been added.
Limit(t) == IF MaxAttempts > Len(Opening(t)) THEN MaxAttempts ELSE Len(Opening(t)) + 1

LEMMA LimitFacts ==
    ASSUME NEW t
    PROVE  /\ Limit(t) \in Nat \ {0} /\ Limit(t) <= (IF MaxAttempts = 1 THEN 2 ELSE MaxAttempts)
           /\ MaxAttempts > 1 => Limit(t) = MaxAttempts
           /\ \A c \in Seq(Names) : Full(c, t) <=> Len(c) >= Limit(t)
<1>1. PICK o \in {0, 1} : o = Len(Opening(t))
    <2>1. Len(<< >>) = 0 /\ Len(<<t.primary>>) = 1
        OBVIOUS
    <2> QED
        BY <2>1 DEF Opening
<1>2. MaxAttempts \in Nat \ {0}
    BY SubAgentsAssumption
<1>3. Limit(t) = IF MaxAttempts > o THEN MaxAttempts ELSE o + 1
    BY <1>1, Zenon DEF Limit
<1>4. ASSUME NEW c \in Seq(Names) PROVE Full(c, t) <=> Len(c) >= Limit(t)
    <2>1. PICK l \in Nat : l = Len(c)
        OBVIOUS
    <2>2. Full(c, t) <=> l > o /\ l >= MaxAttempts
        BY <1>1, <2>1, Zenon DEF Full
    <2>3. l > o /\ l >= MaxAttempts <=> l >= Limit(t)
        BY <1>2, <1>3
    <2> QED
        BY <2>1, <2>2, <2>3
<1>5. /\ Limit(t) \in Nat \ {0} /\ Limit(t) <= (IF MaxAttempts = 1 THEN 2 ELSE MaxAttempts)
      /\ MaxAttempts > 1 => Limit(t) = MaxAttempts
    BY <1>2, <1>3
<1> QED
    BY <1>4, <1>5

\* The chain c holds, of the first n names of s, those first named there, as far as it goes.
Chains(c, s, n, lim) ==
    /\ Len(c) = IF Rank(s, n) <= lim THEN Rank(s, n) ELSE lim
    /\ \A j \in 1..n : IsFirst(s, j) /\ Rank(s, j) <= lim =>
          Rank(s, j) \in 1..Len(c) /\ c[Rank(s, j)] = s[j]
    /\ \A i \in 1..Len(c) : \E j \in 1..n : c[i] = s[j]

LEMMA ChainsOn ==
    ASSUME NEW t, t \in TargetRec, NEW lim, lim = Limit(t), NEW c, c \in Seq(Names), NEW s,
           NEW n \in Nat \ {0}, s[n + 1] \in Names, Chains(c, s, n, lim)
    PROVE  Chains(Tried(c, s[n + 1], t), s, n + 1, lim)
<1> DEFINE name == s[n + 1]
           b == Rank(s, n)
<1>1. /\ lim \in Nat /\ Len(c) \in Nat /\ b \in Nat /\ name \in Names
      /\ Len(c) = IF b <= lim THEN b ELSE lim
      /\ DOMAIN c = 1..Len(c)
    BY LimitFacts, RankTyped DEF Chains
<1>3. Rank(s, n + 1) = IF IsFirst(s, n + 1) THEN b + 1 ELSE b
    BY RankSteps
<1>4. /\ \A j \in 1..n : IsFirst(s, j) /\ Rank(s, j) <= lim =>
            Rank(s, j) \in 1..Len(c) /\ c[Rank(s, j)] = s[j]
      /\ \A i \in 1..Len(c) : \E j \in 1..n : c[i] = s[j]
    BY DEF Chains
<1> HIDE DEF b
<1>5. ASSUME Rank(s, n + 1) = b \/ Len(c) = lim,
             IsFirst(s, n + 1) => ~ (Rank(s, n + 1) <= lim)
      PROVE  Chains(c, s, n + 1, lim)
    <2>1. Len(c) = IF Rank(s, n + 1) <= lim THEN Rank(s, n + 1) ELSE lim
        BY <1>1, <1>3, <1>5
    <2>2. ASSUME NEW j \in 1..(n + 1), IsFirst(s, j) /\ Rank(s, j) <= lim
          PROVE  Rank(s, j) \in 1..Len(c) /\ c[Rank(s, j)] = s[j]
        <3>1. j \in 1..n
            BY <1>5, <2>2
        <3> QED
            BY <1>4, <2>2, <3>1
    <2>3. \A i \in 1..Len(c) : \E j \in 1..(n + 1) : c[i] = s[j]
        <3>1. 1..n \subseteq 1..(n + 1)
            OBVIOUS
        <3> QED
            BY <1>4, <3>1
    <2> QED
        BY <2>1, <2>2, <2>3 DEF Chains
<1>6. CASE Full(c, t)
    <2>1. Len(c) = lim /\ b >= lim
        BY <1>1, <1>6, LimitFacts
    <2>2. IsFirst(s, n + 1) => ~ (Rank(s, n + 1) <= lim)
        BY <1>1, <1>3, <2>1
    <2>3. Tried(c, name, t) = c
        BY <1>6 DEF Tried
    <2> QED
        BY <1>5, <2>1, <2>2, <2>3
<1>7. CASE ~ Full(c, t)
    <2>1. Len(c) = b /\ b < lim
        <3>1. Len(c) < lim
            BY <1>1, <1>7, LimitFacts
        <3> QED
            BY <1>1, <3>1
    <2>2. CASE Skipped(c, name)
        <3>1. ~ IsFirst(s, n + 1)
            <4>1. CASE name = Blank
                BY <4>1 DEF IsFirst
            <4>2. CASE \E i \in DOMAIN c : c[i] = name
                <5>1. PICK i \in 1..Len(c) : c[i] = name
                    BY <1>1, <4>2
                <5>2. PICK j \in 1..n : c[i] = s[j]
                    BY <1>4
                <5>3. j \in 1..((n + 1) - 1) /\ s[j] = s[n + 1]
                    BY <5>1, <5>2
                <5> QED
                    BY <5>3 DEF IsFirst
            <4> QED
                BY <2>2, <4>1, <4>2 DEF Skipped
        <3>2. Tried(c, name, t) = c
            BY <2>2 DEF Tried
        <3> QED
            BY <1>3, <1>5, <3>1, <3>2
    <2>3. CASE ~ Skipped(c, name)
        <3> DEFINE longer == Append(c, name)
        <3>1. /\ Tried(c, name, t) = longer
              /\ Len(longer) = b + 1 /\ longer[b + 1] = name /\ \A i \in 1..b : longer[i] = c[i]
            BY <1>1, <1>7, <2>1, <2>3, AppendProperties DEF Tried
        <3>2. name # Blank /\ \A i \in 1..b : c[i] # name
            BY <1>1, <2>1, <2>3 DEF Skipped
        <3> HIDE DEF longer, name
        <3>3. IsFirst(s, n + 1)
            <4>1. SUFFICES ASSUME NEW k \in 1..((n + 1) - 1), s[k] = s[n + 1] PROVE FALSE
                BY <3>2 DEF IsFirst, name
            <4>2. k \in 1..n /\ s[k] = name /\ name # Blank
                BY <3>2, <4>1 DEF name
            <4>3. PICK m \in 1..n : s[m] = s[k] /\ IsFirst(s, m)
                BY <4>2, FirstNamed
            <4>4. m \in Nat /\ m <= n
                OBVIOUS
            <4>5. Rank(s, m) <= b /\ Rank(s, m) \in Nat
                BY <4>4, RankGrows, RankTyped DEF b
            <4>6. Rank(s, m) <= lim
                BY <1>1, <2>1, <4>5
            <4>7. Rank(s, m) \in 1..b /\ c[Rank(s, m)] = s[m]
                BY <1>4, <2>1, <4>3, <4>6
            <4> QED
                BY <3>2, <4>2, <4>3, <4>7
        <3>4. Rank(s, n + 1) = b + 1 /\ b + 1 <= lim
            BY <1>1, <1>3, <2>1, <3>3
        <3>5. ASSUME NEW j \in 1..(n + 1), IsFirst(s, j) /\ Rank(s, j) <= lim
              PROVE  Rank(s, j) \in 1..Len(longer) /\ longer[Rank(s, j)] = s[j]
            <4>1. CASE j = n + 1
                BY <1>1, <3>1, <3>4, <4>1 DEF name
            <4>2. CASE j # n + 1
                <5>1. j \in 1..n
                    BY <4>2
                <5>2. Rank(s, j) \in 1..b /\ c[Rank(s, j)] = s[j]
                    BY <1>4, <2>1, <3>5, <5>1
                <5>3. Rank(s, j) \in 1..(b + 1)
                    BY <1>1, <5>2
                <5> QED
                    BY <3>1, <5>2, <5>3
            <4> QED
                BY <4>1, <4>2
        <3>6. ASSUME NEW i \in 1..Len(longer) PROVE \E j \in 1..(n + 1) : longer[i] = s[j]
            <4>1. CASE i = b + 1
                BY <3>1, <4>1, n + 1 \in 1..(n + 1) DEF name
            <4>2. CASE i # b + 1
                <5>1. i \in 1..b
                    BY <1>1, <3>1, <4>2
                <5>2. PICK j \in 1..n : c[i] = s[j]
                    BY <1>4, <2>1, <5>1
                <5>3. j \in 1..(n + 1)
                    OBVIOUS
                <5> QED
                    BY <3>1, <5>1, <5>2, <5>3
            <4> QED
                BY <4>1, <4>2
        <3>7. Chains(longer, s, n + 1, lim)
            BY <3>1, <3>4, <3>5, <3>6 DEF Chains
        <3> QED
            BY <3>1, <3>7 DEF name
    <2> QED
        BY <2>2, <2>3
<1> QED
    BY <1>6, <1>7

Named(t) == <<t.primary>> \o t.fallbacks

LEMMA NamedFacts ==
    ASSUME NEW t, t \in TargetRec
    PROVE  /\ Named(t) \in Seq(Names) /\ Len(Named(t)) = Len(t.fallbacks) + 1 /\ Len(t.fallbacks) \in Nat
           /\ Named(t)[1] = t.primary /\ t.primary \in Names
           /\ \A k \in 1..Len(t.fallbacks) : Named(t)[k + 1] = t.fallbacks[k] /\ t.fallbacks[k] \in Names
<1>1. t.primary \in Names /\ t.fallbacks \in Seq(Names) /\ Len(t.fallbacks) \in Nat
    BY DEF TargetRec
<1>2. /\ <<t.primary>> \in Seq(Names) /\ Len(<<t.primary>>) = 1 /\ <<t.primary>>[1] = t.primary
    BY <1>1
<1>3. /\ Named(t) \in Seq(Names) /\ Len(Named(t)) = 1 + Len(t.fallbacks)
      /\ \A i \in 1..(1 + Len(t.fallbacks)) :
            Named(t)[i] = IF i <= 1 THEN <<t.primary>>[i] ELSE t.fallbacks[i - 1]
    BY <1>1, <1>2, ConcatProperties DEF Named
<1>4. Named(t)[1] = t.primary
    BY <1>1, <1>2, <1>3
<1>5. ASSUME NEW k \in 1..Len(t.fallbacks) PROVE Named(t)[k + 1] = t.fallbacks[k] /\ t.fallbacks[k] \in Names
    <2>1. k + 1 \in 1..(1 + Len(t.fallbacks)) /\ ~ (k + 1 <= 1) /\ (k + 1) - 1 = k
        BY <1>1
    <2>2. t.fallbacks[k] \in Names
        BY <1>1
    <2> QED
        BY <1>3, <2>1, <2>2
<1> QED
    BY <1>1, <1>3, <1>4, <1>5

(* attempt_providers, for every limit and whatever is configured: the chain has the       *)
(* providers in the order in which they are first named, none of them blank, none twice   *)
(* and none that is not named, and as many as it may get.  That is the limit, or two      *)
(* where the limit is one and the primary is not blank.                                   *)
THEOREM ChainFits ==
    ASSUME NEW t, t \in TargetRec
    PROVE  /\ AttemptProviders(t) \in Seq(Names)
           /\ Chains(AttemptProviders(t), Named(t), Len(Named(t)), Limit(t))
<1> DEFINE L == Len(t.fallbacks)
           s == Named(t)
           lim == Limit(t)
<1>1. PICK f : ChainAlong(f, t)
    BY ChainRun
<1>2. /\ f \in [0..L -> Seq(Names)] /\ f[0] = Opening(t) /\ AttemptProviders(t) = f[L]
      /\ \A k \in 1..L : f[k] = Tried(f[k - 1], t.fallbacks[k], t)
    BY <1>1 DEF ChainAlong
<1>3. /\ L \in Nat /\ Len(s) = L + 1 /\ s[1] = t.primary
      /\ \A k \in 1..L : s[k + 1] = t.fallbacks[k] /\ t.fallbacks[k] \in Names
    BY NamedFacts
<1> HIDE DEF s, L, lim
<1> DEFINE Good == {k \in 0..L : Chains(f[k], s, k + 1, lim)}
<1>4. 0 \in Good
    <2>1. Rank(s, 1) = IF IsFirst(s, 1) THEN 1 ELSE 0
        <3>1. Rank(s, 0) = 0 /\ Rank(s, 0 + 1) = IF IsFirst(s, 0 + 1) THEN Rank(s, 0) + 1 ELSE Rank(s, 0)
            BY RankSteps
        <3> QED
            BY <3>1
    <2>2. IsFirst(s, 1) <=> t.primary # Blank
        BY <1>3 DEF IsFirst
    <2>3. lim \in Nat \ {0}
        BY LimitFacts DEF lim
    <2>4. CASE t.primary = Blank
        <3>1. f[0] = << >> /\ Len(<< >>) = 0 /\ Rank(s, 1) = 0 /\ ~ IsFirst(s, 1)
            BY <1>2, <2>1, <2>2, <2>4 DEF Opening
        <3>2. \A j \in 1..1 : ~ IsFirst(s, j)
            BY <3>1
        <3>3. Chains(f[0], s, 1, lim)
            BY <2>3, <3>1, <3>2 DEF Chains
        <3> QED
            BY <1>3, <3>3
    <2>5. CASE t.primary # Blank
        <3>1. f[0] = <<t.primary>> /\ Len(<<t.primary>>) = 1 /\ <<t.primary>>[1] = t.primary /\ Rank(s, 1) = 1
            BY <1>2, <2>1, <2>2, <2>5 DEF Opening
        <3>2. Chains(f[0], s, 1, lim)
            BY <1>3, <2>3, <3>1 DEF Chains
        <3> QED
            BY <1>3, <3>2
    <2> QED
        BY <2>4, <2>5
<1>5. ASSUME NEW k \in 0..L, k \in Good, k # L PROVE k + 1 \in Good
    <2>1. k + 1 \in 1..L /\ k + 1 \in Nat \ {0} /\ (k + 1) - 1 = k /\ k \in 0..L
        BY <1>3, <1>5
    <2>2. f[k] \in Seq(Names) /\ Chains(f[k], s, k + 1, lim)
        BY <1>2, <1>5
    <2>3. s[(k + 1) + 1] = t.fallbacks[k + 1] /\ t.fallbacks[k + 1] \in Names
        BY <1>3, <2>1
    <2>4. f[k + 1] = Tried(f[k], s[(k + 1) + 1], t)
        <3>1. f[k + 1] = Tried(f[(k + 1) - 1], t.fallbacks[k + 1], t)
            BY <1>2, <2>1
        <3> QED
            BY <2>1, <2>3, <3>1, Zenon
    <2>5. PICK n \in Nat \ {0} : n = k + 1
        BY <2>1
    <2>6. Chains(Tried(f[k], s[n + 1], t), s, n + 1, lim)
        BY <2>2, <2>3, <2>5, ChainsOn DEF lim
    <2>7. Chains(f[k + 1], s, (k + 1) + 1, lim)
        BY <2>4, <2>5, <2>6, Zenon
    <2> QED
        BY <2>1, <2>7
<1>6. L \in Good
    <2> HIDE DEF Good
    <2>1. 0..L \subseteq Good
        BY <1>3, <1>4, <1>5, UpTo
    <2> QED
        BY <1>3, <2>1
<1>7. AttemptProviders(t) \in Seq(Names) /\ Chains(AttemptProviders(t), s, L + 1, lim)
    <2>1. f[L] \in Seq(Names)
        BY <1>2, <1>3
    <2>2. Chains(f[L], s, L + 1, lim)
        BY <1>6
    <2> QED
        BY <1>2, <2>1, <2>2, Zenon
<1> QED
    BY <1>3, <1>7 DEF s, lim

-----------------------------------------------------------------------------
(* Where a dispatch is in its chain. *)

LEMMA ChainTyped == ASSUME NEW t, t \in TargetRec PROVE AttemptProviders(t) \in Seq(Names)
<1>1. PICK f : ChainAlong(f, t)
    BY ChainRun
<1>2. Len(t.fallbacks) \in 0..Len(t.fallbacks)
    BY DEF TargetRec
<1> QED
    BY <1>1, <1>2 DEF ChainAlong

LEMMA TargetsTyped == Targets \cup {NoTarget} \subseteq TargetRec
<1>1. Blank \in Names /\ Targets \subseteq TargetRec
    BY SubAgentsAssumption DEF TargetRec
<1>2. NoTarget \in TargetRec
    <2>1. << >> \in Seq(Names)
        OBVIOUS
    <2> QED
        BY <1>1, <2>1 DEF NoTarget, TargetRec
<1> QED
    BY <1>1, <1>2

\* A run is at an attempt its chain has, and at the last one when it has failed.
Answered == {"ended", "recorded", "settled", "returned"}
OnChain(rec) ==
    /\ rec.at \in Nat \ {0}
    /\ rec.kind = "dispatch" => rec.at <= Len(AttemptProviders(rec.target))
    /\ rec.phase \notin Answered => rec.answer = "none"
    /\ rec.kind = "dispatch" /\ rec.answer = "err" => rec.at = Len(AttemptProviders(rec.target))

Tries == \A j \in SubIds : OnChain(sub[j])

LEMMA NewOnChain ==
    ASSUME NEW kind, NEW p, NEW phase, NEW t, t \in Targets \cup {NoTarget},
           kind = "dispatch" => AttemptProviders(t) # << >>
    PROVE  OnChain(NewSub(kind, p, phase, t))
<1>1. /\ NewSub(kind, p, phase, t).at = 1 /\ NewSub(kind, p, phase, t).kind = kind
      /\ NewSub(kind, p, phase, t).target = t /\ NewSub(kind, p, phase, t).answer = "none"
    BY DEF NewSub
<1>2. AttemptProviders(t) \in Seq(Names)
    BY TargetsTyped, ChainTyped
<1>3. kind = "dispatch" => 1 <= Len(AttemptProviders(t))
    BY <1>2, EmptySeq
<1> QED
    BY <1>1, <1>3 DEF OnChain

LEMMA BegunOnChain ==
    ASSUME Inv, [Next]_vars, NEW j, j \in SubIds', j \notin SubIds
    PROVE  OnChain(sub'[j])
<1>0. sub \in Seq(SubRecord) /\ Inv' /\ SubIds = 1..Len(sub) /\ Len(sub) \in Nat /\ Base /\ Lists
    BY NextKeeps DEF Inv, Base, SubIds
<1>1. ASSUME NEW n, sub' = Append(sub, n) PROVE sub'[j] = n
    BY <1>0, <1>1 DEF SubIds
<1>2. ASSUME NEW p \in Parents, NEW kind \in Kinds[p], AdmitByRegistry(kind, p) PROVE OnChain(sub'[j])
    <2>1. PICK n : n = NewSub(kind, p, "admitted", NoTarget)
        OBVIOUS
    <2>2. sub' = Append(sub, n) /\ kind # "dispatch"
        BY <1>2, <2>1 DEF AdmitByRegistry, Begin
    <2>3. OnChain(n)
        BY <2>1, <2>2, NewOnChain
    <2> QED
        BY <1>1, <2>2, <2>3
<1>3. ASSUME NEW p \in Parents, AdmitByCounter(p) PROVE OnChain(sub'[j])
    <2>1. PICK n : n = NewSub("tool", p, "admitted", NoTarget)
        OBVIOUS
    <2>2. sub' = Append(sub, n)
        BY <1>3, <2>1 DEF AdmitByCounter, Begin
    <2>3. OnChain(n)
        BY <2>1, NewOnChain
    <2> QED
        BY <1>1, <2>2, <2>3
<1>4. ASSUME NEW p \in Parents, NEW target \in Targets, Dispatch(p, target) PROVE OnChain(sub'[j])
    <2>1. PICK n : n = NewSub("dispatch", p, "registered", target)
        OBVIOUS
    <2>2. sub' = Append(sub, n) /\ AttemptProviders(target) # << >>
        BY <1>4, <2>1 DEF Dispatch, Begin
    <2>3. OnChain(n)
        BY <2>1, <2>2, NewOnChain
    <2> QED
        BY <1>1, <2>2, <2>3
<1>5. ASSUME NEW p \in Parents, MonitorTick(p) PROVE FALSE
    BY <1>0, <1>5, MonitorLives
<1>6. ASSUME NEW i \in SubIds, RunStep(i) PROVE FALSE
    <2>1. PICK n : Follows(i, n)
        BY <1>0, <1>6, RunStepFollows
    <2> QED
        BY <1>0, <2>1, OneLives DEF Follows, Becomes
<1>7. ASSUME NEW i \in SubIds, SetModelMark(i) PROVE OnChain(sub'[j])
    <2>1. PICK marked : marked = [sub EXCEPT ![i].status = SetStatus(sub[i].status, "Cancelled")]
        OBVIOUS
    <2>2. PICK n : n = NewSub("manage", sub[i].parent, "admitted", NoTarget)
        OBVIOUS
    <2>3. sub' = marked \/ sub' = Append(marked, n)
        BY <1>7, <2>1, <2>2 DEF SetModelMark
    <2>4. DOMAIN marked = SubIds /\ Len(marked) = Len(sub)
        BY <1>0, <2>1
    <2>5. sub'[j] = n
        BY <1>0, <2>3, <2>4 DEF SubIds
    <2>6. OnChain(n)
        BY <2>2, NewOnChain
    <2> QED
        BY <2>5, <2>6
<1>8. CASE UNCHANGED vars
    BY <1>8 DEF vars, SubIds
<1> QED
    BY <1>2, <1>3, <1>4, <1>5, <1>6, <1>7, <1>8 DEF Next, RunStep

LEMMA TriesStep == ASSUME Inv, Tries, [Next]_vars PROVE Tries'
<1>0. Inv' /\ Lives /\ sub \in Seq(SubRecord)
    BY NextKeeps DEF Inv, Base
<1>1. ASSUME NEW j \in SubIds' PROVE OnChain(sub'[j])
    <2>1. CASE j \notin SubIds
        BY <2>1, BegunOnChain
    <2>2. CASE j \in SubIds
        <3> DEFINE last == Len(AttemptProviders(sub[j].target))
        <3>1. OnChain(sub[j]) /\ sub'[j].target = sub[j].target
            BY <2>2, OriginStays DEF Tries, SameOrigin
        <3>2. LifeStep(sub[j], sub'[j]) /\ sub'[j].kind = sub[j].kind
            BY <1>0, <2>2 DEF Lives, LifeStep, Admitted, Registered, Started, Ended, Finalised, Touched, SameButPhase
        <3>3. last \in Nat
            <4>1. sub[j] \in SubRecord
                BY <1>0, <2>2 DEF SubIds
            <4>2. sub[j].target \in TargetRec
                BY <4>1, TargetsTyped DEF SubRecord
            <4> QED
                BY <4>2, ChainTyped
        <3>4. sub'[j].phase \notin Answered => sub'[j].answer = "none"
            BY <3>1, <3>2 DEF OnChain, Answered, LifeStep, Admitted, Registered, Started, Ended, Finalised,
                              Touched, SameButPhase
        <3>5. /\ sub'[j].at # sub[j].at =>
                    /\ sub'[j].at = sub[j].at + 1 /\ sub[j].phase = "running" /\ sub[j].at < last
                    /\ sub[j].kind = "dispatch"
              /\ sub'[j].answer # sub[j].answer =>
                    /\ sub'[j].at = sub[j].at
                    /\ sub'[j].answer = "err" /\ sub[j].kind = "dispatch" => sub[j].at = last
            BY <2>2, OriginStays DEF AttemptFails, LoopEnds, Chain
        <3> HIDE DEF last
        <3>6. CASE sub'[j].at = sub[j].at /\ sub'[j].answer = sub[j].answer
            BY <3>1, <3>2, <3>4, <3>6 DEF OnChain
        <3>7. CASE sub'[j].answer # sub[j].answer
            BY <3>1, <3>2, <3>4, <3>5, <3>7 DEF OnChain, last
        <3>8. CASE sub'[j].at # sub[j].at
            <4>1. sub[j].answer = "none" /\ sub[j].at \in Nat
                BY <3>1, <3>5, <3>8 DEF OnChain, Answered
            <4>2. sub'[j].answer = "none"
                BY <3>5, <3>8, <4>1
            <4>3. sub'[j].at \in Nat \ {0} /\ sub'[j].at <= last
                BY <3>3, <3>5, <3>8, <4>1
            <4> QED
                BY <3>1, <3>2, <3>4, <4>2, <4>3 DEF OnChain, last
        <3> QED
            BY <3>6, <3>7, <3>8
    <2> QED
        BY <2>1, <2>2
<1> QED
    BY <1>1 DEF Tries

(* Every run keeps to its type, and a dispatch is always at an attempt its chain of   *)
(* providers has: AttemptFails moves to the next one only where there is one.         *)
THEOREM SubAgentsTyped == Spec => []TypeOK
<1>1. Init => Tries
    BY DEF Init, Tries, SubIds
<1>2. Inv /\ Tries => TypeOK
    <2> SUFFICES ASSUME Inv, Tries PROVE TypeOK
        OBVIOUS
    <2>1. registered \subseteq SubIds /\ swapping \subseteq SubIds
        BY DEF Inv, Lists
    <2>2. counter \in Nat
        BY HoldingFinite, FS_CardinalityType DEF Inv, Base, Slots
    <2>3. ASSUME NEW i \in SubIds
          PROVE  /\ sub[i].kind \in AllKinds /\ sub[i].parent \in Parents
                 /\ sub[i].phase \in Phases /\ sub[i].status \in Statuses
                 /\ sub[i].answer \in Answers /\ sub[i].at \in Nat \ {0}
                 /\ sub[i].kind = "dispatch" => sub[i].at <= Len(Chain(i))
        <3>1. sub[i] \in SubRecord
            BY DEF Inv, Base, SubIds
        <3>2. OnChain(sub[i])
            BY DEF Tries
        <3> QED
            BY <3>1, <3>2 DEF SubRecord, OnChain, Chain
    <2> QED
        BY <2>1, <2>2, <2>3 DEF TypeOK
<1> QED
    BY <1>1, <1>2, Invariant, TriesStep, PTL DEF Spec

(* dispatch: one provider after the other, none left out and none again, and who is told *)
(* that the dispatch failed may rely on every provider of the chain having been tried.    *)
(* The chain does not change while it is walked.                                          *)
AllTried == \A i \in SubIds : sub[i].kind = "dispatch" /\ sub[i].answer = "err" => sub[i].at = Len(Chain(i))
OneByOne ==
    \A i \in SubIds :
        /\ Chain(i)' = Chain(i)
        /\ sub'[i].at # sub[i].at => sub'[i].at = sub[i].at + 1 /\ sub[i].phase = "running"

THEOREM EveryProviderOnce == Spec => []AllTried /\ [][OneByOne]_vars
<1>1. Init => Tries
    BY DEF Init, Tries, SubIds
<1>2. Tries => AllTried
    BY DEF Tries, OnChain, AllTried, Chain
<1>3. Inv /\ [Next]_vars => [OneByOne]_vars
    <2> SUFFICES ASSUME Inv, [Next]_vars, NEW i \in SubIds
                 PROVE  /\ Chain(i)' = Chain(i)
                        /\ sub'[i].at # sub[i].at => sub'[i].at = sub[i].at + 1 /\ sub[i].phase = "running"
        BY DEF OneByOne
    <2>1. sub'[i].target = sub[i].target
        BY OriginStays DEF SameOrigin
    <2>2. sub'[i].at # sub[i].at => sub'[i].at = sub[i].at + 1 /\ sub[i].phase = "running"
        BY OriginStays DEF AttemptFails
    <2> QED
        BY <2>1, <2>2 DEF Chain
<1> QED
    BY <1>1, <1>2, <1>3, Invariant, TriesStep, PTL DEF Spec

(* attempt_providers: for a limit of at least two, whatever is configured, a dispatch *)
(* tries the providers in the order in which they are first named, none of them blank *)
(* and none twice, and as many as the limit allows.                                   *)
THEOREM ChainsAreRight == ASSUME MaxAttempts > 1 PROVE Spec => []ChainIsRight
<1>1. ASSUME Inv, NEW i \in SubIds
      PROVE  LET chain == Chain(i)
                 named == <<sub[i].target.primary>> \o sub[i].target.fallbacks
                 First(j) == named[j] # Blank /\ \A k \in 1..(j - 1) : named[k] # named[j]
                 before(j) == Cardinality({k \in 1..j : First(k)})
             IN  /\ Len(chain) <= MaxAttempts
                 /\ \A j \in DOMAIN named : First(j) /\ before(j) <= MaxAttempts =>
                       /\ before(j) \in DOMAIN chain
                       /\ chain[before(j)] = named[j]
                 /\ Len(chain) <= before(Len(named))
    <2> DEFINE t == sub[i].target
               c == Chain(i)
               s == Named(t)
    <2>1. t \in TargetRec
        <3>1. sub[i] \in SubRecord
            BY <1>1 DEF Inv, Base, SubIds
        <3> QED
            BY <3>1, TargetsTyped DEF SubRecord
    <2>2. /\ c \in Seq(Names) /\ Chains(c, s, Len(s), MaxAttempts)
        <3>1. Limit(t) = MaxAttempts
            BY LimitFacts
        <3> QED
            BY <2>1, <3>1, ChainFits DEF Chain
    <2>3. DOMAIN s = 1..Len(s) /\ Len(s) \in Nat /\ DOMAIN c = 1..Len(c) /\ Len(c) \in Nat
        BY <2>1, <2>2, NamedFacts
    <2> HIDE DEF t, c, s
    <2>4. MaxAttempts \in Nat /\ Rank(s, Len(s)) \in Nat
        BY <2>3, SubAgentsAssumption, RankTyped
    <2>5. /\ Len(c) <= MaxAttempts /\ Len(c) <= Rank(s, Len(s))
          /\ \A j \in DOMAIN s : IsFirst(s, j) /\ Rank(s, j) <= MaxAttempts =>
                Rank(s, j) \in DOMAIN c /\ c[Rank(s, j)] = s[j]
        BY <2>2, <2>3, <2>4 DEF Chains
    <2> QED
        BY <2>5, Zenon DEF Rank, Firsts, IsFirst, s, c, t, Named
<1>2. Inv => ChainIsRight
    BY <1>1, Zenon DEF ChainIsRight
<1> QED
    BY <1>2, Invariant, PTL

=============================================================================

--------------------------- MODULE SopEngineProofs ---------------------------
(***************************************************************************)
(* Theorems about SopEngine for every set of SOPs and every value of the   *)
(* limits.  A step of the engine does one of three things to the runs: it  *)
(* starts one, it finishes one, or it rewrites records in place.  What     *)
(* follows is proved from these three effects.                             *)
(***************************************************************************)
EXTENDS SopCallers, TLAPS, SequenceTheorems, FiniteSetTheorems

Starts ==
    \E rec \in SopRun :
        /\ rec.status \in Live /\ CanStart(rec.sop)
        /\ run' = Append(run, rec)
        /\ active' = active \cup {Len(run) + 1}
        /\ finished' = finished

Finishes ==
    \E r \in active, rec \in SopRun, status \in Terminal :
        rec.sop = run[r].sop /\ FinishRun(r, rec, status)

Rewrites ==
    /\ run' \in Seq(SopRun) /\ Len(run') = Len(run)
    /\ \A r \in RunIds :
         /\ run'[r].sop = run[r].sop
         /\ \/ run'[r].status = run[r].status
            \/ r \in active /\ run'[r].status \in Live
         /\ r \notin active => run'[r].results = run[r].results
    /\ UNCHANGED <<active, finished>>

-----------------------------------------------------------------------------
(* The records the helpers return. *)

LEMMA NewRunType ==
    ASSUME NEW s \in SOPs
    PROVE  NewRun(s) \in SopRun /\ NewRun(s).sop = s /\ NewRun(s).status = "Running"
BY DEF NewRun, SopRun, Live, Terminal, NotWaiting

LEMMA HoldType ==
    ASSUME NEW rec \in SopRun, NEW status \in Live
    PROVE  /\ Hold(rec, status) \in SopRun
           /\ Hold(rec, status).sop = rec.sop /\ Hold(rec, status).status = status
<1>1. 0 \in {NotWaiting} \cup 0..ApprovalTimeout /\ status \in Terminal \cup Live
    BY SopAssumption
<1> QED
    BY <1>1 DEF Hold, SopRun

LEMMA EnterStepType ==
    ASSUME NEW rec \in SopRun, NEW n \in Nat \ {0}
    PROVE  /\ EnterStep(rec, n) \in SopRun /\ EnterStep(rec, n).sop = rec.sop
           /\ EnterStep(rec, n).status \in Live \cup {rec.status}
<1> DEFINE moved == [rec EXCEPT !.step = n]
<1>1. moved \in SopRun /\ moved.sop = rec.sop /\ moved.status = rec.status
    BY DEF SopRun
<1>2. "WaitingApproval" \in Live
    BY DEF Live
<1>3. EnterStep(rec, n) = IF NeedsApproval(rec.sop, n) THEN Hold(moved, "WaitingApproval")
                          ELSE moved
    BY DEF EnterStep
<1> HIDE DEF moved
<1> QED
    BY <1>1, <1>2, <1>3, HoldType

LEMMA EnterDetStepType ==
    ASSUME NEW rec \in SopRun, NEW n \in Nat \ {0}
    PROVE  /\ EnterDetStep(rec, n) \in SopRun /\ EnterDetStep(rec, n).sop = rec.sop
           /\ EnterDetStep(rec, n).status \in Live \cup {rec.status}
<1> DEFINE moved == [rec EXCEPT !.step = n]
<1>1. moved \in SopRun /\ moved.sop = rec.sop /\ moved.status = rec.status
    BY DEF SopRun
<1>2. "PausedCheckpoint" \in Live
    BY DEF Live
<1>3. EnterDetStep(rec, n) = IF IsCheckpoint(rec.sop, n) THEN Hold(moved, "PausedCheckpoint")
                             ELSE moved
    BY DEF EnterDetStep
<1> HIDE DEF moved
<1> QED
    BY <1>1, <1>2, <1>3, HoldType

LEMMA ReleasedType ==
    ASSUME NEW rec \in SopRun
    PROVE  /\ Released(rec) \in SopRun /\ Released(rec).sop = rec.sop
           /\ Released(rec).status = "Running"
BY DEF Released, SopRun, Live, NotWaiting

LEMMA RecordedType ==
    ASSUME TypeOK, NEW r \in RunIds, NEW outcome \in Outcomes
    PROVE  /\ Recorded(r, outcome) \in SopRun /\ Recorded(r, outcome).sop = run[r].sop
           /\ Recorded(r, outcome).status = run[r].status
           /\ Recorded(r, outcome).step = run[r].step
           /\ Recorded(r, outcome).results
                = Append(run[r].results, [step |-> run[r].step, status |-> outcome])
<1>1. run[r] \in SopRun
    BY DEF TypeOK, RunIds
<1> DEFINE Result == [step : Nat, status : Outcomes]
           new == [step |-> run[r].step, status |-> outcome]
<1>2. new \in Result /\ run[r].results \in Seq(Result)
    BY <1>1 DEF SopRun
<1>3. Append(run[r].results, new) \in Seq(Result)
    BY <1>2, AppendProperties
<1> QED
    BY <1>1, <1>3 DEF Recorded, SopRun

(* Kept returns the newest members of a list, in their order. *)
LEMMA KeptType ==
    ASSUME NEW S, NEW f \in Seq(S)
    PROVE  /\ Kept(f) \in Seq(S)
           /\ MaxFinished > 0 => Len(Kept(f)) <= MaxFinished
           /\ \E k \in Nat : /\ Len(Kept(f)) + k = Len(f)
                             /\ \A i \in 1..Len(Kept(f)) : Kept(f)[i] = f[i + k]
<1>1. MaxFinished \in Nat /\ Len(f) \in Nat /\ \A i \in 1..Len(f) : f[i] \in S
    BY SopAssumption, LenProperties, ElementOfSeq
<1>2. CASE MaxFinished > 0 /\ Len(f) > MaxFinished
    <2> DEFINE m == Len(f) - MaxFinished + 1
    <2>1. m \in Int /\ Len(f) \in Int /\ m <= Len(f) /\ m >= 1
        BY <1>1, <1>2
    <2>2. \A i \in m..Len(f) : f[i] \in S
        BY <1>1, <2>1
    <2>3. /\ SubSeq(f, m, Len(f)) \in Seq(S)
          /\ Len(SubSeq(f, m, Len(f))) = MaxFinished
          /\ \A i \in 1..MaxFinished : SubSeq(f, m, Len(f))[i] = f[m + i - 1]
        <3> HIDE DEF m
        <3>1. /\ SubSeq(f, m, Len(f)) \in Seq(S)
              /\ Len(SubSeq(f, m, Len(f))) = Len(f) - m + 1
              /\ \A i \in 1..(Len(f) - m + 1) : SubSeq(f, m, Len(f))[i] = f[m + i - 1]
            BY <2>1, <2>2, SubSeqProperties
        <3>2. Len(f) - m + 1 = MaxFinished
            BY <1>1 DEF m
        <3> QED
            BY <3>1, <3>2
    <2>4. Kept(f) = SubSeq(f, m, Len(f))
        BY <1>2 DEF Kept
    <2> DEFINE k == Len(f) - MaxFinished
    <2>5. k \in Nat /\ Len(Kept(f)) + k = Len(f)
        BY <1>1, <1>2, <2>3, <2>4
    <2>6. \A i \in 1..Len(Kept(f)) : Kept(f)[i] = f[i + k]
        <3>1. \A i \in 1..MaxFinished : m + i - 1 = i + k
            BY <1>1
        <3> HIDE DEF m, k
        <3> QED
            BY <2>3, <2>4, <3>1
    <2>7. Kept(f) \in Seq(S) /\ (MaxFinished > 0 => Len(Kept(f)) <= MaxFinished)
        BY <1>1, <2>3, <2>4
    <2> HIDE DEF m, k
    <2> QED
        BY <2>5, <2>6, <2>7
<1>3. CASE ~(MaxFinished > 0 /\ Len(f) > MaxFinished)
    <2>1. Kept(f) = f
        BY <1>3 DEF Kept
    <2>2. \A i \in 1..Len(f) : i + 0 = i
        OBVIOUS
    <2>3. 0 \in Nat /\ Len(f) + 0 = Len(f) /\ \A i \in 1..Len(f) : f[i] = f[i + 0]
        BY <1>1, <2>2
    <2>4. MaxFinished > 0 => Len(f) <= MaxFinished
        BY <1>1, <1>3
    <2> QED
        BY <2>1, <2>3, <2>4
<1> QED
    BY <1>2, <1>3

-----------------------------------------------------------------------------
(* Every action has one of the three effects. *)

LEMMA RunFacts ==
    ASSUME TypeOK
    PROVE  /\ Len(run) \in Nat /\ RunIds = 1..Len(run) /\ active \subseteq 1..Len(run)
           /\ \A r \in RunIds : run[r] \in SopRun /\ run[r].sop \in SOPs
                                /\ run[r].step \in Nat \ {0}
<1>1. run \in Seq(SopRun) /\ active \subseteq RunIds
    BY DEF TypeOK
<1>2. Len(run) \in Nat /\ DOMAIN run = 1..Len(run) /\ \A r \in 1..Len(run) : run[r] \in SopRun
    BY <1>1, LenProperties, ElementOfSeq
<1>3. \A rec \in SopRun : rec.sop \in SOPs /\ rec.step \in Nat \ {0}
    BY DEF SopRun
<1> QED
    BY <1>1, <1>2, <1>3 DEF RunIds

LEMMA OneRewritten ==
    ASSUME TypeOK, NEW r \in active, NEW rec \in SopRun,
           rec.sop = run[r].sop, rec.status \in Live \cup {run[r].status},
           run' = [run EXCEPT ![r] = rec], UNCHANGED <<active, finished>>
    PROVE  Rewrites
<1>1. run \in Seq(SopRun) /\ r \in 1..Len(run) /\ RunIds = 1..Len(run)
    BY RunFacts DEF TypeOK
<1>2. /\ run' \in Seq(SopRun) /\ Len(run') = Len(run)
      /\ \A j \in 1..Len(run) : run'[j] = IF j = r THEN rec ELSE run[j]
    BY <1>1, ExceptSeq
<1>3. \A j \in RunIds :
         /\ run'[j].sop = run[j].sop
         /\ \/ run'[j].status = run[j].status
            \/ j \in active /\ run'[j].status \in Live
         /\ j \notin active => run'[j].results = run[j].results
    BY <1>1, <1>2
<1> QED
    BY <1>2, <1>3 DEF Rewrites

LEMMA StartRunEffect ==
    ASSUME TypeOK, NEW s \in SOPs, NEW written, StartRun(s, written)
    PROVE  Starts
<1>1. NewRun(s) \in SopRun /\ NewRun(s).sop = s /\ NewRun(s).status \in Live
    BY NewRunType DEF Live
<1>2. 1 \in Nat \ {0}
    OBVIOUS
<1>3. PICK rec \in SopRun : rec.sop = s /\ rec.status \in Live /\ run' = Append(run, rec)
    <2>1. CASE Deterministic(s)
        <3>1. run' = Append(run, EnterDetStep(NewRun(s), 1))
            BY <2>1 DEF StartRun
        <3> QED
            BY <1>1, <1>2, <3>1, EnterDetStepType
    <2>2. CASE ~Deterministic(s)
        <3>1. run' = Append(run, EnterStep(NewRun(s), 1))
            BY <2>2 DEF StartRun
        <3> QED
            BY <1>1, <1>2, <3>1, EnterStepType
    <2> QED
        BY <2>1, <2>2
<1>4. CanStart(s) /\ active' = active \cup {Len(run) + 1} /\ finished' = finished
    BY DEF StartRun
<1> QED
    BY <1>3, <1>4 DEF Starts

LEMMA AdvanceStepEffect ==
    ASSUME TypeOK, NEW r \in RunIds, NEW outcome \in Outcomes, AdvanceStep(r, outcome)
    PROVE  Finishes \/ Rewrites
<1> DEFINE rec == Recorded(r, outcome)
<1>1. /\ rec \in SopRun /\ rec.sop = run[r].sop /\ rec.status = run[r].status
      /\ rec.step + 1 \in Nat \ {0} /\ r \in active
    <2>1. rec.step \in Nat \ {0}
        BY RecordedType, RunFacts
    <2>3. r \in active
        BY DEF AdvanceStep
    <2>4. rec \in SopRun /\ rec.sop = run[r].sop /\ rec.status = run[r].status
        BY RecordedType
    <2> HIDE DEF rec
    <2> QED
        BY <2>1, <2>3, <2>4
<1>2. CASE FinishRun(r, rec, "Failed") \/ FinishRun(r, rec, "Completed")
    BY <1>1, <1>2 DEF Finishes, Terminal
<1>3. CASE run' = [run EXCEPT ![r] = EnterStep(rec, rec.step + 1)] /\ UNCHANGED <<active, finished>>
    <2> HIDE DEF rec
    <2> QED
        BY <1>1, <1>3, EnterStepType, OneRewritten
<1> QED
    BY <1>2, <1>3 DEF AdvanceStep

LEMMA AdvanceDeterministicStepEffect ==
    ASSUME TypeOK, NEW r \in RunIds, NEW written, AdvanceDeterministicStep(r, written)
    PROVE  Finishes \/ Rewrites
<1> DEFINE rec == Recorded(r, "done")
<1>1. /\ rec \in SopRun /\ rec.sop = run[r].sop /\ rec.status = run[r].status
      /\ rec.step + 1 \in Nat \ {0} /\ r \in active
    <2>1. "done" \in Outcomes
        BY DEF Outcomes
    <2>2. rec.step \in Nat \ {0}
        BY <2>1, RecordedType, RunFacts
    <2>3. r \in active
        BY DEF AdvanceDeterministicStep
    <2>4. rec \in SopRun /\ rec.sop = run[r].sop /\ rec.status = run[r].status
        BY <2>1, RecordedType
    <2> HIDE DEF rec
    <2> QED
        BY <2>2, <2>3, <2>4
<1>2. CASE FinishRun(r, rec, "Completed")
    BY <1>1, <1>2 DEF Finishes, Terminal
<1>3. CASE /\ run' = [run EXCEPT ![r] = EnterDetStep(rec, rec.step + 1)]
           /\ UNCHANGED <<active, finished>>
    <2> HIDE DEF rec
    <2> QED
        BY <1>1, <1>3, EnterDetStepType, OneRewritten
<1> QED
    BY <1>2, <1>3 DEF AdvanceDeterministicStep

LEMMA ReleaseEffect ==
    ASSUME TypeOK, NEW due \in SUBSET active,
           run' = [r \in RunIds |-> IF r \in due THEN Released(run[r]) ELSE run[r]],
           UNCHANGED <<active, finished>>
    PROVE  Rewrites
<1>1. Len(run) \in Nat /\ RunIds = 1..Len(run)
    BY RunFacts
<1>2. \A r \in RunIds : run[r] \in SopRun
    BY RunFacts
<1>3. \A r \in RunIds :
        /\ run'[r] \in SopRun /\ run'[r].sop = run[r].sop
        /\ \/ run'[r].status = run[r].status
           \/ r \in active /\ run'[r].status \in Live
        /\ r \notin active => run'[r].results = run[r].results
    BY <1>2, ReleasedType DEF Live
<1>4. run' \in [1..Len(run) -> SopRun]
    BY <1>1, <1>3
<1>5. run' \in Seq(SopRun) /\ Len(run') = Len(run)
    <2>1. run' \in Seq(SopRun)
        BY <1>1, <1>4, SeqDef
    <2>2. DOMAIN run' = 1..Len(run)
        BY <1>4
    <2> QED
        BY <1>1, <2>1, <2>2
<1> QED
    BY <1>3, <1>5 DEF Rewrites

LEMMA TickEffect ==
    ASSUME TypeOK, Tick
    PROVE  Rewrites
<1>1. Len(run) \in Nat /\ RunIds = 1..Len(run) /\ \A r \in RunIds : run[r] \in SopRun
    BY RunFacts
<1>2. ASSUME NEW r \in RunIds
      PROVE  /\ run'[r] \in SopRun /\ run'[r].sop = run[r].sop
             /\ run'[r].status = run[r].status /\ run'[r].results = run[r].results
    <2> DEFINE waited == IF run[r].waited = NotWaiting THEN run[r].waited
                         ELSE Min2(run[r].waited + 1, ApprovalTimeout)
               age == Min2(run[r].age + 1, Def[run[r].sop].cooldown)
    <2>1. run[r] \in SopRun
        BY <1>1
    <2>2. waited \in {NotWaiting} \cup 0..ApprovalTimeout
        BY <2>1, SopAssumption DEF SopRun, Min2
    <2>3. Def[run[r].sop].cooldown \in Nat
        BY <2>1, SopAssumption DEF SopRun, SopDefinition
    <2>4. age \in Nat
        BY <2>1, <2>3 DEF SopRun, Min2
    <2>5. run'[r] = IF r \in active THEN [run[r] EXCEPT !.waited = waited]
                    ELSE [run[r] EXCEPT !.age = age]
        BY DEF Tick
    <2> HIDE DEF waited, age
    <2> QED
        BY <2>1, <2>2, <2>4, <2>5 DEF SopRun
<1>3. run' \in [1..Len(run) -> SopRun]
    BY <1>1, <1>2 DEF Tick
<1>4. run' \in Seq(SopRun) /\ Len(run') = Len(run)
    <2>1. run' \in Seq(SopRun)
        BY <1>1, <1>3, SeqDef
    <2>2. DOMAIN run' = 1..Len(run)
        BY <1>3
    <2> QED
        BY <1>1, <2>1, <2>2
<1> QED
    BY <1>2, <1>4 DEF Rewrites, Tick

LEMMA ResumeEffect ==
    ASSUME TypeOK, NEW p \in persisted, NEW written, ResumeDeterministicRun(p, written)
    PROVE  Rewrites
<1> DEFINE r == p.run
           n == p.last + 1
<1>1. r \in active /\ run[r] \in SopRun /\ n \in Nat \ {0}
    <2>1. p.last \in Nat
        BY DEF TypeOK
    <2>2. r \in active
        BY DEF ResumeDeterministicRun
    <2> QED
        BY <2>1, <2>2, RunFacts DEF RunIds
<1>2. Released(run[r]) \in SopRun /\ Released(run[r]).sop = run[r].sop
      /\ Released(run[r]).status \in Live
    BY <1>1, ReleasedType DEF Live
<1>3. run' = [run EXCEPT ![r] = EnterDetStep(Released(run[r]), n)] /\ UNCHANGED <<active, finished>>
    BY DEF ResumeDeterministicRun
<1> HIDE DEF r, n
<1> QED
    BY <1>1, <1>2, <1>3, EnterDetStepType, OneRewritten

LEMMA ApproveStepEffect ==
    ASSUME TypeOK, NEW r \in RunIds, ApproveStep(r)
    PROVE  Rewrites
<1>1. r \in active /\ run' = [run EXCEPT ![r] = Released(run[r])] /\ UNCHANGED <<active, finished>>
    BY DEF ApproveStep
<1>2. Released(run[r]) \in SopRun /\ Released(run[r]).sop = run[r].sop
      /\ Released(run[r]).status \in Live
    BY RunFacts, ReleasedType DEF Live
<1> QED
    BY <1>1, <1>2, OneRewritten

(* Whatever the engine does, it starts one run, finishes one run, or rewrites *)
(* records without touching active_runs and the finished list.                *)
LEMMA StepEffect ==
    ASSUME TypeOK, [Next]_vars
    PROVE  Starts \/ Finishes \/ Rewrites
<1>1. ASSUME NEW s \in SOPs, NEW written \in WriteOutcomes, StartRun(s, written)
      PROVE  Starts
    BY <1>1, StartRunEffect
<1>2. ASSUME NEW r \in RunIds, NEW outcome \in Outcomes, AdvanceStep(r, outcome)
      PROVE  Finishes \/ Rewrites
    BY <1>2, AdvanceStepEffect
<1>3. ASSUME NEW r \in RunIds, CancelRun(r)
      PROVE  Finishes
    <2>1. r \in active /\ run[r] \in SopRun /\ FinishRun(r, run[r], "Cancelled")
        BY <1>3, RunFacts DEF CancelRun
    <2> QED
        BY <2>1 DEF Finishes, Terminal
<1>4. ASSUME NEW r \in RunIds, ApproveStep(r)
      PROVE  Rewrites
    BY <1>4, ApproveStepEffect
<1>5. ASSUME CheckApprovalTimeouts
      PROVE  Rewrites
    <2> DEFINE due == {r \in active : Overdue(r)}
    <2>1. /\ run' = [r \in RunIds |-> IF r \in due THEN Released(run[r]) ELSE run[r]]
          /\ UNCHANGED <<active, finished>>
        BY <1>5 DEF CheckApprovalTimeouts
    <2>2. due \in SUBSET active
        OBVIOUS
    <2> HIDE DEF due
    <2> QED
        BY <2>1, <2>2, ReleaseEffect
<1>6. ASSUME NEW r \in RunIds, NEW written \in WriteOutcomes, AdvanceDeterministicStep(r, written)
      PROVE  Finishes \/ Rewrites
    BY <1>6, AdvanceDeterministicStepEffect
<1>7. ASSUME NEW p \in persisted, NEW written \in WriteOutcomes, ResumeDeterministicRun(p, written)
      PROVE  Rewrites
    BY <1>7, ResumeEffect
<1>8. ASSUME Reload \/ UNCHANGED vars
      PROVE  Rewrites
    <2>1. run' = run /\ UNCHANGED <<active, finished>>
        BY <1>8 DEF Reload, vars
    <2>2. run \in Seq(SopRun)
        BY DEF TypeOK
    <2> QED
        BY <2>1, <2>2 DEF Rewrites
<1>9. ASSUME Tick
      PROVE  Rewrites
    BY <1>9, TickEffect
<1> QED
    BY <1>1, <1>2, <1>3, <1>4, <1>5, <1>6, <1>7, <1>8, <1>9 DEF Next

(* What FinishRun does to the two collections of runs. *)
LEMMA FinishFacts ==
    ASSUME TypeOK, NEW r \in active, NEW rec \in SopRun, NEW status \in Terminal,
           FinishRun(r, rec, status)
    PROVE  /\ run' \in Seq(SopRun) /\ Len(run') = Len(run)
           /\ run'[r].sop = rec.sop /\ run'[r].status = status
           /\ \A j \in RunIds \ {r} : run'[j] = run[j]
           /\ active' = active \ {r}
           /\ finished' \in Seq(RunIds)
           /\ MaxFinished > 0 => Len(finished') <= MaxFinished
           /\ \E k \in Nat :
                /\ Len(finished') + k = Len(finished) + 1
                /\ \A i \in 1..Len(finished') :
                     finished'[i] = IF i + k = Len(finished) + 1 THEN r ELSE finished[i + k]
<1> DEFINE final == [rec EXCEPT !.status = status, !.age = 0]
<1>1. final \in SopRun /\ final.sop = rec.sop /\ final.status = status
    BY DEF SopRun
<1>2. run' = [run EXCEPT ![r] = final] /\ active' = active \ {r}
      /\ finished' = Kept(Append(finished, r))
    BY DEF FinishRun
<1>3. run \in Seq(SopRun) /\ r \in 1..Len(run) /\ RunIds = 1..Len(run) /\ r \in RunIds
    BY RunFacts DEF TypeOK
<1> HIDE DEF final
<1>4. /\ run' \in Seq(SopRun) /\ Len(run') = Len(run)
      /\ \A j \in 1..Len(run) : run'[j] = IF j = r THEN final ELSE run[j]
    BY <1>1, <1>2, <1>3, ExceptSeq
<1>5. /\ Append(finished, r) \in Seq(RunIds) /\ Len(Append(finished, r)) = Len(finished) + 1
      /\ Len(finished) \in Nat
      /\ \A i \in 1..Len(finished) : Append(finished, r)[i] = finished[i]
      /\ Append(finished, r)[Len(finished) + 1] = r
    <2>1. finished \in Seq(RunIds)
        BY DEF TypeOK
    <2> QED
        BY <1>3, <2>1, AppendProperties, LenProperties
<1>6. /\ finished' \in Seq(RunIds)
      /\ MaxFinished > 0 => Len(finished') <= MaxFinished
    BY <1>2, <1>5, KeptType
<1>7. PICK k \in Nat : /\ Len(finished') + k = Len(finished) + 1
                       /\ \A i \in 1..Len(finished') : finished'[i] = Append(finished, r)[i + k]
    <2> DEFINE longer == Append(finished, r)
    <2>1. longer \in Seq(RunIds) /\ Len(longer) = Len(finished) + 1 /\ finished' = Kept(longer)
        BY <1>2, <1>5
    <2> HIDE DEF longer
    <2>2. PICK k \in Nat : /\ Len(Kept(longer)) + k = Len(longer)
                           /\ \A i \in 1..Len(Kept(longer)) : Kept(longer)[i] = longer[i + k]
        BY <2>1, KeptType
    <2>3. /\ Len(finished') + k = Len(finished) + 1
          /\ \A i \in 1..Len(finished') : finished'[i] = longer[i + k]
        BY <2>1, <2>2
    <2> QED
        BY <2>3 DEF longer
<1>8. \A i \in 1..Len(finished') :
        finished'[i] = IF i + k = Len(finished) + 1 THEN r ELSE finished[i + k]
    <2>1. Len(finished') \in Nat
        BY <1>6, LenProperties
    <2>2. ASSUME NEW i \in 1..Len(finished'), i + k # Len(finished) + 1
          PROVE  i + k \in 1..Len(finished)
        BY <1>5, <1>7, <2>1, <2>2
    <2>3. ASSUME NEW i \in 1..Len(finished')
          PROVE  finished'[i] = IF i + k = Len(finished) + 1 THEN r ELSE finished[i + k]
        <3>1. CASE i + k = Len(finished) + 1
            BY <1>5, <1>7, <3>1
        <3>2. CASE i + k # Len(finished) + 1
            BY <1>5, <1>7, <2>2, <3>2
        <3> QED
            BY <3>1, <3>2
    <2> QED
        BY <2>3
<1>9. \E m \in Nat :
        /\ Len(finished') + m = Len(finished) + 1
        /\ \A i \in 1..Len(finished') :
             finished'[i] = IF i + m = Len(finished) + 1 THEN r ELSE finished[i + m]
    BY <1>7, <1>8
<1> QED
    BY <1>1, <1>2, <1>3, <1>4, <1>6, <1>9

(* The part of TypeOK about the runs follows from the effect alone, and the  *)
(* ids of the runs only grow.                                                *)
LEMMA EffectType ==
    ASSUME TypeOK, Starts \/ Finishes \/ Rewrites
    PROVE  /\ run' \in Seq(SopRun) /\ RunIds \subseteq RunIds'
           /\ Len(run') \in Nat /\ Len(run) \in Nat
           /\ active' \subseteq RunIds'
           /\ finished' \in Seq(RunIds')
           /\ MaxFinished > 0 => Len(finished') <= MaxFinished
<1>1. /\ run \in Seq(SopRun) /\ RunIds = 1..Len(run) /\ Len(run) \in Nat
      /\ active \subseteq RunIds /\ finished \in Seq(RunIds)
      /\ MaxFinished > 0 => Len(finished) <= MaxFinished
    BY RunFacts DEF TypeOK
<1>2. CASE Starts
    <2>1. PICK rec \in SopRun : /\ run' = Append(run, rec)
                                /\ active' = active \cup {Len(run) + 1} /\ finished' = finished
        BY <1>2 DEF Starts
    <2>2. run' \in Seq(SopRun) /\ Len(run') = Len(run) + 1
        BY <1>1, <2>1, AppendProperties
    <2>3. RunIds' = 1..(Len(run) + 1)
        BY <2>2, LenProperties DEF RunIds
    <2>4. RunIds \subseteq RunIds' /\ Len(run) + 1 \in RunIds'
        BY <1>1, <2>3
    <2>5. finished' \in Seq(RunIds')
        BY <1>1, <2>1, <2>4, SeqMonotonic
    <2>6. Len(run') \in Nat
        BY <1>1, <2>2
    <2>8. active' \subseteq RunIds'
        BY <1>1, <2>1, <2>4
    <2>7. MaxFinished > 0 => Len(finished') <= MaxFinished
        BY <1>1, <2>1
    <2> QED
        BY <1>1, <2>2, <2>4, <2>5, <2>6, <2>7, <2>8
<1>3. CASE Finishes
    <2>1. PICK r \in active, rec \in SopRun, status \in Terminal : FinishRun(r, rec, status)
        BY <1>3 DEF Finishes
    <2>2. /\ run' \in Seq(SopRun) /\ Len(run') = Len(run)
          /\ active' = active \ {r} /\ finished' \in Seq(RunIds)
          /\ MaxFinished > 0 => Len(finished') <= MaxFinished
        BY <2>1, FinishFacts
    <2>3. RunIds' = RunIds
        BY <1>1, <2>2, LenProperties DEF RunIds
    <2> QED
        BY <1>1, <2>2, <2>3
<1>4. CASE Rewrites
    <2>1. run' \in Seq(SopRun) /\ Len(run') = Len(run) /\ active' = active /\ finished' = finished
        BY <1>4 DEF Rewrites
    <2>2. RunIds' = RunIds
        BY <1>1, <2>1, LenProperties DEF RunIds
    <2> QED
        BY <1>1, <2>1, <2>2
<1> QED
    BY <1>2, <1>3, <1>4

-----------------------------------------------------------------------------
(* Type correctness. *)

LEMMA ReplyUpdate ==
    ASSUME TypeOK, NEW r \in RunIds, NEW value \in Replies,
           reply' = [reply EXCEPT ![r] = value]
    PROVE  reply' \in Seq(Replies) /\ Len(reply') = Len(reply)
<1>1. reply \in Seq(Replies) /\ r \in 1..Len(reply)
    BY RunFacts DEF TypeOK
<1> QED
    BY <1>1, ExceptSeq

LEMMA ReplyTypes ==
    ASSUME NEW s, NEW n, NEW written
    PROVE  EnterReply(s, n) \in Replies /\ EnterDetReply(s, n, written) \in Replies
BY DEF EnterReply, EnterDetReply, Replies

LEMMA WrittenType ==
    ASSUME NEW r \in RunIds', NEW s, NEW n \in Nat \ {0}, NEW written
    PROVE  Written(r, s, n, written) \subseteq [run : RunIds', last : Nat]
BY DEF Written

(* The other variables of TypeOK, action by action. *)
TypeOfRest ==
    /\ loaded' \subseteq SOPs
    /\ persisted' \subseteq [run : RunIds', last : Nat]
    /\ reply' \in Seq(Replies) /\ Len(reply') = Len(run')
    /\ granted' \subseteq RunIds' \X (Nat \ {0})
    /\ lastDone' \in [SOPs -> {-1} \cup Nat]

LEMMA RestUnchanged ==
    ASSUME TypeOK, RunIds \subseteq RunIds'
    PROVE  /\ loaded \subseteq SOPs
           /\ persisted \subseteq [run : RunIds', last : Nat]
           /\ reply \in Seq(Replies) /\ Len(reply) = Len(run)
           /\ granted \subseteq RunIds' \X (Nat \ {0})
           /\ lastDone \in [SOPs -> {-1} \cup Nat]
BY DEF TypeOK

LEMMA FinishRest ==
    ASSUME TypeOK, NEW r \in active, NEW rec \in SopRun, NEW status \in Terminal,
           FinishRun(r, rec, status)
    PROVE  lastDone' \in [SOPs -> {-1} \cup Nat] /\ Len(run') = Len(run)
<1>1. lastDone' = [lastDone EXCEPT ![rec.sop] = 0] /\ lastDone \in [SOPs -> {-1} \cup Nat]
    BY DEF FinishRun, TypeOK
<1> QED
    BY <1>1, FinishFacts

LEMMA TypeOfRestPreserved ==
    ASSUME TypeOK, [Next]_vars
    PROVE  TypeOfRest
<1>0. /\ RunIds \subseteq RunIds' /\ Len(run') \in Nat /\ Len(run) \in Nat
      /\ RunIds = 1..Len(run) /\ active \subseteq RunIds
    BY StepEffect, EffectType, RunFacts DEF TypeOK
<1>u. /\ loaded \subseteq SOPs
      /\ persisted \subseteq [run : RunIds', last : Nat]
      /\ reply \in Seq(Replies) /\ Len(reply) = Len(run)
      /\ granted \subseteq RunIds' \X (Nat \ {0})
      /\ lastDone \in [SOPs -> {-1} \cup Nat]
    BY <1>0, RestUnchanged
<1>s. \A r \in RunIds : r \in RunIds' /\ run[r].step \in Nat \ {0}
    BY <1>0, RunFacts
<1>1. ASSUME NEW s \in SOPs, NEW written \in WriteOutcomes, StartRun(s, written)
      PROVE  TypeOfRest
    <2>1. PICK rec \in SopRun : run' = Append(run, rec)
        BY <1>1, StartRunEffect DEF Starts
    <2>2. Len(run') = Len(run) + 1 /\ Len(run) + 1 \in RunIds'
        <3>1. run \in Seq(SopRun)
            BY DEF TypeOK
        <3>2. run' \in Seq(SopRun) /\ Len(run') = Len(run) + 1
            BY <2>1, <3>1, AppendProperties
        <3>3. RunIds' = 1..(Len(run) + 1)
            BY <3>2, LenProperties DEF RunIds
        <3> QED
            BY <1>0, <3>2, <3>3
    <2>3. PICK value \in Replies : reply' = Append(reply, value)
        BY <1>1, ReplyTypes DEF StartRun
    <2>4. reply' \in Seq(Replies) /\ Len(reply') = Len(run')
        BY <1>u, <2>2, <2>3, AppendProperties
    <2>5. persisted' \subseteq [run : RunIds', last : Nat]
        <3>1. Written(Len(run) + 1, s, 1, written) \subseteq [run : RunIds', last : Nat]
            BY <2>2, WrittenType
        <3> QED
            BY <1>1, <1>u, <3>1 DEF StartRun
    <2> QED
        BY <1>1, <1>u, <2>4, <2>5 DEF StartRun, TypeOfRest
<1>2. ASSUME NEW r \in RunIds, NEW outcome \in Outcomes, AdvanceStep(r, outcome)
      PROVE  TypeOfRest
    <2> DEFINE rec == Recorded(r, outcome)
    <2>1. PICK value \in Replies : reply' = [reply EXCEPT ![r] = value]
        BY <1>2, ReplyTypes DEF AdvanceStep, Replies
    <2>2. reply' \in Seq(Replies) /\ Len(reply') = Len(reply)
        BY <2>1, ReplyUpdate
    <2>3. lastDone' \in [SOPs -> {-1} \cup Nat]
        <3>1. rec \in SopRun
            BY RecordedType
        <3>2. "Failed" \in Terminal /\ "Completed" \in Terminal /\ r \in active
            BY <1>2 DEF Terminal, AdvanceStep
        <3>3. \/ FinishRun(r, rec, "Failed") \/ FinishRun(r, rec, "Completed")
              \/ lastDone' = lastDone
            BY <1>2 DEF AdvanceStep
        <3> HIDE DEF rec
        <3> QED
            BY <1>u, <3>1, <3>2, <3>3, FinishRest
    <2>4. Len(run') = Len(run)
        BY <1>2, AdvanceStepEffect, FinishFacts DEF Finishes, Rewrites
    <2> QED
        BY <1>2, <1>u, <2>2, <2>3, <2>4 DEF AdvanceStep, TypeOfRest
<1>3. ASSUME NEW r \in RunIds, CancelRun(r)
      PROVE  TypeOfRest
    <2>1. r \in active /\ run[r] \in SopRun /\ FinishRun(r, run[r], "Cancelled")
          /\ "Cancelled" \in Terminal
        BY <1>3, RunFacts DEF CancelRun, Terminal
    <2>2. lastDone' \in [SOPs -> {-1} \cup Nat] /\ Len(run') = Len(run)
        BY <2>1, FinishRest
    <2> QED
        BY <1>3, <1>u, <2>2 DEF CancelRun, TypeOfRest
<1>4. ASSUME NEW r \in RunIds, ApproveStep(r)
      PROVE  TypeOfRest
    <2>1. PICK value \in Replies : reply' = [reply EXCEPT ![r] = value]
        BY <1>4 DEF ApproveStep, Replies
    <2>2. reply' \in Seq(Replies) /\ Len(reply') = Len(reply)
        BY <2>1, ReplyUpdate
    <2>3. Len(run') = Len(run)
        BY <1>4, ApproveStepEffect DEF Rewrites
    <2>4. granted' \subseteq RunIds' \X (Nat \ {0})
        <3>1. granted' = granted \cup {<<r, run[r].step>>} \/ granted' = granted
            BY <1>4 DEF ApproveStep
        <3> QED
            BY <1>s, <1>u, <3>1
    <2> QED
        BY <1>4, <1>u, <2>2, <2>3, <2>4 DEF ApproveStep, TypeOfRest
<1>5. ASSUME CheckApprovalTimeouts
      PROVE  TypeOfRest
    <2> DEFINE due == {r \in active : Overdue(r)}
    <2>1. /\ run' = [r \in RunIds |-> IF r \in due THEN Released(run[r]) ELSE run[r]]
          /\ reply' = [r \in RunIds |-> IF r \in due THEN "ExecuteStep" ELSE reply[r]]
          /\ granted' = granted \cup {<<r, run[r].step>> : r \in due}
          /\ UNCHANGED <<loaded, active, finished, persisted, lastDone>>
        BY <1>5 DEF CheckApprovalTimeouts
    <2>2. due \subseteq RunIds
        BY <1>0
    <2> HIDE DEF due
    <2>3. granted' \subseteq RunIds' \X (Nat \ {0})
        BY <1>s, <1>u, <2>1, <2>2
    <2>4. reply' \in [1..Len(run) -> Replies]
        <3>1. \A r \in 1..Len(reply) : reply[r] \in Replies
            BY <1>u, ElementOfSeq
        <3>2. "ExecuteStep" \in Replies
            BY DEF Replies
        <3> QED
            BY <1>0, <1>u, <2>1, <3>1, <3>2
    <2>5. reply' \in Seq(Replies) /\ Len(reply') = Len(run)
        <3>1. reply' \in Seq(Replies)
            BY <1>0, <2>4, SeqDef
        <3>2. DOMAIN reply' = 1..Len(run)
            BY <2>4
        <3> QED
            BY <1>0, <3>1, <3>2
    <2>6. DOMAIN run' = 1..Len(run) /\ run' \in Seq(SopRun)
        BY <1>0, <2>1, StepEffect, EffectType
    <2>7. Len(run') = Len(run)
        BY <1>0, <2>6
    <2> QED
        BY <1>u, <2>1, <2>3, <2>5, <2>7 DEF TypeOfRest
<1>6. ASSUME NEW r \in RunIds, NEW written \in WriteOutcomes, AdvanceDeterministicStep(r, written)
      PROVE  TypeOfRest
    <2> DEFINE rec == Recorded(r, "done")
    <2>0. rec \in SopRun /\ rec.step \in Nat \ {0} /\ r \in active /\ "Completed" \in Terminal
        <3>1. "done" \in Outcomes
            BY DEF Outcomes
        <3>2. rec \in SopRun /\ rec.step = run[r].step
            BY <3>1, RecordedType
        <3>3. r \in active /\ "Completed" \in Terminal
            BY <1>6 DEF AdvanceDeterministicStep, Terminal
        <3> HIDE DEF rec
        <3> QED
            BY <1>s, <3>2, <3>3
    <2>1. PICK value \in Replies : reply' = [reply EXCEPT ![r] = value]
        BY <1>6, ReplyTypes DEF AdvanceDeterministicStep, Replies
    <2>2. reply' \in Seq(Replies) /\ Len(reply') = Len(reply)
        BY <2>1, ReplyUpdate
    <2>3. FinishRun(r, rec, "Completed") \/ lastDone' = lastDone
        BY <1>6 DEF AdvanceDeterministicStep
    <2>4. \/ persisted' = persisted
          \/ persisted' = persisted \cup Written(r, rec.sop, rec.step + 1, written)
        BY <1>6 DEF AdvanceDeterministicStep
    <2> HIDE DEF rec
    <2>5. lastDone' \in [SOPs -> {-1} \cup Nat]
        BY <1>u, <2>0, <2>3, FinishRest
    <2>6. persisted' \subseteq [run : RunIds', last : Nat]
        <3>1. rec.step + 1 \in Nat \ {0}
            BY <2>0
        <3>2. Written(r, rec.sop, rec.step + 1, written) \subseteq [run : RunIds', last : Nat]
            BY <1>s, <3>1, WrittenType
        <3> QED
            BY <1>u, <2>4, <3>2
    <2>7. Len(run') = Len(run)
        BY <1>6, AdvanceDeterministicStepEffect, FinishFacts DEF Finishes, Rewrites
    <2> QED
        BY <1>6, <1>u, <2>2, <2>5, <2>6, <2>7 DEF AdvanceDeterministicStep, TypeOfRest
<1>7. ASSUME NEW p \in persisted, NEW written \in WriteOutcomes, ResumeDeterministicRun(p, written)
      PROVE  TypeOfRest
    <2>0. p.run \in RunIds /\ p.last + 1 \in Nat \ {0} /\ p.run \in RunIds'
        <3>1. p.run \in RunIds /\ p.last \in Nat
            BY DEF TypeOK
        <3> QED
            BY <1>0, <3>1
    <2>1. PICK value \in Replies : reply' = [reply EXCEPT ![p.run] = value]
        BY <1>7, ReplyTypes DEF ResumeDeterministicRun
    <2>2. reply' \in Seq(Replies) /\ Len(reply') = Len(reply)
        BY <2>0, <2>1, ReplyUpdate
    <2>3. Len(run') = Len(run)
        BY <1>7, ResumeEffect DEF Rewrites
    <2>4. persisted' \subseteq [run : RunIds', last : Nat]
        <3>1. Written(p.run, run[p.run].sop, p.last + 1, written) \subseteq [run : RunIds', last : Nat]
            BY <2>0, WrittenType
        <3> QED
            BY <1>7, <1>u, <3>1 DEF ResumeDeterministicRun
    <2> QED
        BY <1>7, <1>u, <2>2, <2>3, <2>4 DEF ResumeDeterministicRun, TypeOfRest
<1>8. ASSUME Reload \/ UNCHANGED vars
      PROVE  TypeOfRest
    BY <1>8, <1>u DEF Reload, vars, TypeOfRest
<1>9. ASSUME Tick
      PROVE  TypeOfRest
    <2>1. Len(run') = Len(run)
        BY <1>9, TickEffect DEF Rewrites
    <2>2. lastDone' \in [SOPs -> {-1} \cup Nat]
        <3>1. ASSUME NEW s \in SOPs
              PROVE  lastDone'[s] \in {-1} \cup Nat
            <4>1. Def[s].cooldown \in Nat /\ lastDone[s] \in {-1} \cup Nat
                BY <1>u, SopAssumption DEF SopDefinition
            <4> QED
                BY <1>9, <4>1 DEF Tick, Min2
        <3> QED
            BY <1>9, <3>1 DEF Tick
    <2> QED
        BY <1>9, <1>u, <2>1, <2>2 DEF Tick, TypeOfRest
<1> QED
    BY <1>1, <1>2, <1>3, <1>4, <1>5, <1>6, <1>7, <1>8, <1>9 DEF Next

(* The engine keeps every variable in its type, and the finished list within *)
(* max_finished_runs, for every set of SOPs and every configuration.         *)
THEOREM TypeCorrect == Spec => []TypeOK
<1>1. Init => TypeOK
    <2> SUFFICES ASSUME Init PROVE TypeOK
        OBVIOUS
    <2>1. << >> \in Seq(SopRun) /\ << >> \in Seq(RunIds) /\ << >> \in Seq(Replies) /\ Len(<< >>) = 0
        BY EmptySeq
    <2>2. MaxFinished \in Nat
        BY SopAssumption
    <2> QED
        BY <2>1, <2>2 DEF Init, TypeOK
<1>2. TypeOK /\ [Next]_vars => TypeOK'
    <2> SUFFICES ASSUME TypeOK, [Next]_vars PROVE TypeOK'
        OBVIOUS
    <2> QED
        BY StepEffect, EffectType, TypeOfRestPreserved DEF TypeOK, TypeOfRest
<1> QED
    BY <1>1, <1>2, PTL DEF Spec

-----------------------------------------------------------------------------
(* Runs in flight and finished runs.  RunsPartitioned is inductive relative to *)
(* TypeOK: the run that is filed as finished was active, hence not in the list.  *)

LEMMA StartFacts ==
    ASSUME TypeOK, NEW rec \in SopRun, run' = Append(run, rec)
    PROVE  /\ RunIds' = RunIds \cup {Len(run) + 1} /\ Len(run) + 1 \notin RunIds
           /\ \A r \in RunIds : run'[r] = run[r]
           /\ run'[Len(run) + 1] = rec
<1>1. run \in Seq(SopRun) /\ RunIds = 1..Len(run) /\ Len(run) \in Nat
    BY RunFacts DEF TypeOK
<1>2. /\ run' \in Seq(SopRun) /\ Len(run') = Len(run) + 1
      /\ \A r \in 1..Len(run) : run'[r] = run[r]
      /\ run'[Len(run) + 1] = rec
    BY <1>1, AppendProperties
<1>3. RunIds' = 1..(Len(run) + 1)
    BY <1>2, LenProperties DEF RunIds
<1> QED
    BY <1>1, <1>2, <1>3

LEMMA PartitionStep ==
    ASSUME TypeOK, RunsPartitioned, [Next]_vars
    PROVE  RunsPartitioned'
<1>1. /\ active \subseteq RunIds /\ finished \in Seq(RunIds) /\ Len(finished) \in Nat
      /\ DOMAIN finished = 1..Len(finished) /\ \A i \in DOMAIN finished : finished[i] \in RunIds
    <2>1. active \subseteq RunIds /\ finished \in Seq(RunIds)
        BY DEF TypeOK
    <2> QED
        BY <2>1, LenProperties, ElementOfSeq
<1>2. CASE Starts
    <2>1. PICK rec \in SopRun : /\ run' = Append(run, rec) /\ rec.status \in Live
                                /\ active' = active \cup {Len(run) + 1} /\ finished' = finished
        BY <1>2 DEF Starts
    <2> DEFINE new == Len(run) + 1
    <2>2. /\ RunIds' = RunIds \cup {new} /\ new \notin RunIds
          /\ \A r \in RunIds : run'[r] = run[r]
          /\ run'[new] = rec
        BY <2>1, StartFacts
    <2> HIDE DEF new
    <2>3. active' = active \cup {new}
        BY <2>1 DEF new
    <2>4. \A r \in RunIds' : r \in active' <=> run'[r].status \in Live
        BY <2>1, <2>2, <2>3 DEF RunsPartitioned
    <2>5. \A i \in DOMAIN finished' : finished'[i] \notin active'
        BY <1>1, <2>1, <2>2, <2>3 DEF RunsPartitioned
    <2> QED
        BY <2>1, <2>4, <2>5 DEF RunsPartitioned
<1>3. CASE Finishes
    <2>1. PICK r \in active, rec \in SopRun, status \in Terminal : FinishRun(r, rec, status)
        BY <1>3 DEF Finishes
    <2>2. /\ run' \in Seq(SopRun) /\ Len(run') = Len(run) /\ run'[r].status = status
          /\ \A j \in RunIds \ {r} : run'[j] = run[j]
          /\ active' = active \ {r} /\ finished' \in Seq(RunIds)
        BY <2>1, FinishFacts
    <2>3. PICK k \in Nat :
            /\ Len(finished') + k = Len(finished) + 1
            /\ \A i \in 1..Len(finished') :
                 finished'[i] = IF i + k = Len(finished) + 1 THEN r ELSE finished[i + k]
        BY <2>1, FinishFacts
    <2>4. RunIds' = RunIds
        <3>1. RunIds' = 1..Len(run)
            BY <2>2, LenProperties DEF RunIds
        <3> QED
            BY <3>1, RunFacts
    <2>5. DOMAIN finished' = 1..Len(finished') /\ Len(finished') \in Nat
        BY <2>2, LenProperties
    <2>6. ASSUME NEW i \in DOMAIN finished'
          PROVE  \/ i + k = Len(finished) + 1 /\ finished'[i] = r
                 \/ i + k \in DOMAIN finished /\ finished'[i] = finished[i + k]
                    /\ i + k # Len(finished) + 1
        <3>1. i + k \in 1..(Len(finished) + 1)
            BY <1>1, <2>3, <2>5
        <3> QED
            BY <1>1, <2>3, <2>5, <3>1
    <2>7. \A q \in RunIds' : q \in active' <=> run'[q].status \in Live
        <3>1. status \notin Live
            BY DEF Terminal, Live
        <3> QED
            BY <2>2, <2>4, <3>1 DEF RunsPartitioned
    <2>8. \A i \in DOMAIN finished' : finished'[i] \notin active'
        BY <2>2, <2>6 DEF RunsPartitioned
    <2>9. ASSUME NEW i \in DOMAIN finished', NEW j \in DOMAIN finished',
                 finished'[i] = finished'[j]
          PROVE  i = j
        <3>1. i + k = j + k
            <4>1. \A m \in DOMAIN finished : finished[m] # r
                BY DEF RunsPartitioned
            <4> QED
                BY <2>6, <2>9, <4>1 DEF RunsPartitioned
        <3> QED
            BY <2>5, <3>1
    <2> QED
        BY <2>7, <2>8, <2>9 DEF RunsPartitioned
<1>4. CASE Rewrites
    <2>1. /\ run' \in Seq(SopRun) /\ Len(run') = Len(run) /\ active' = active
          /\ finished' = finished
          /\ \A r \in RunIds : \/ run'[r].status = run[r].status
                               \/ r \in active /\ run'[r].status \in Live
        BY <1>4 DEF Rewrites
    <2>2. RunIds' = RunIds
        <3>1. RunIds' = 1..Len(run)
            BY <2>1, LenProperties DEF RunIds
        <3> QED
            BY <3>1, RunFacts
    <2> QED
        BY <2>1, <2>2 DEF RunsPartitioned
<1> QED
    BY <1>2, <1>3, <1>4, StepEffect

(* For every configuration a run holds a slot exactly while it is not terminal, *)
(* and no run is filed as finished twice.                                       *)
THEOREM Partitioned == Spec => []RunsPartitioned
<1>1. Init => RunsPartitioned
    <2> SUFFICES ASSUME Init PROVE RunsPartitioned
        OBVIOUS
    <2>1. DOMAIN run = {} /\ DOMAIN finished = {}
        BY DEF Init
    <2> QED
        BY <2>1 DEF RunsPartitioned, RunIds
<1>2. TypeOK /\ RunsPartitioned /\ [Next]_vars => RunsPartitioned'
    BY PartitionStep
<1> QED
    BY <1>1, <1>2, TypeCorrect, PTL DEF Spec

-----------------------------------------------------------------------------
(* The limits. *)

LEMMA ActiveFinite ==
    ASSUME TypeOK
    PROVE  /\ IsFiniteSet(active) /\ Cardinality(active) \in Nat
           /\ \A s : /\ IsFiniteSet(ActiveOf(s)) /\ Cardinality(ActiveOf(s)) \in Nat
                     /\ ActiveOf(s) \subseteq active
<1>1. Len(run) \in Nat /\ active \in SUBSET (1..Len(run))
    BY RunFacts
<1>2. IsFiniteSet(1..Len(run))
    BY <1>1, FS_Interval
<1>3. IsFiniteSet(active)
    BY <1>1, <1>2, FS_Subset
<1>4. \A s : ActiveOf(s) \in SUBSET active
    BY DEF ActiveOf
<1>5. \A s : IsFiniteSet(ActiveOf(s))
    BY <1>3, <1>4, FS_Subset
<1> QED
    BY <1>3, <1>4, <1>5, FS_CardinalityType

LEMMA LimitsStep ==
    ASSUME TypeOK, TypeOK', ConcurrencyLimits, [Next]_vars
    PROVE  ConcurrencyLimits'
<1>1. /\ IsFiniteSet(active) /\ Cardinality(active) \in Nat
      /\ \A s : IsFiniteSet(ActiveOf(s)) /\ Cardinality(ActiveOf(s)) \in Nat
      /\ \A s : ActiveOf(s) \subseteq active
    BY ActiveFinite
<1>2. active \subseteq RunIds
    BY DEF TypeOK
<1>m. MaxTotal \in Nat /\ \A s \in SOPs : Def[s].maxConcurrent \in Nat
    BY SopAssumption DEF SopDefinition
<1>3. CASE Starts
    <2>1. PICK rec \in SopRun : /\ run' = Append(run, rec) /\ CanStart(rec.sop)
                                /\ active' = active \cup {Len(run) + 1}
        BY <1>3 DEF Starts
    <2> DEFINE new == Len(run) + 1
    <2>2. /\ new \notin RunIds /\ \A r \in RunIds : run'[r] = run[r]
          /\ run'[new] = rec
        BY <2>1, StartFacts
    <2>3. active' = active \cup {new}
        BY <2>1
    <2> HIDE DEF new
    <2>4. Cardinality(active') <= MaxTotal
        <3>1. Cardinality(active') <= Cardinality(active) + 1
            BY <1>1, <2>3, FS_AddElement
        <3>2. Cardinality(active) < MaxTotal
            BY <2>1 DEF CanStart
        <3>3. IsFiniteSet(active') /\ Cardinality(active') \in Nat
            BY <1>1, <2>3, FS_AddElement, FS_CardinalityType
        <3> QED
            BY <1>1, <1>m, <3>1, <3>2, <3>3
    <2>5. ASSUME NEW s \in SOPs
          PROVE  Cardinality(ActiveOf(s)') <= Def[s].maxConcurrent
        <3>1. CASE s = rec.sop
            <4>1. ActiveOf(s)' = ActiveOf(s) \cup {new}
                BY <1>2, <2>2, <2>3, <3>1 DEF ActiveOf
            <4>2. /\ Cardinality(ActiveOf(s)') <= Cardinality(ActiveOf(s)) + 1
                  /\ Cardinality(ActiveOf(s)') \in Nat
                <5>1. IsFiniteSet(ActiveOf(s)) /\ Cardinality(ActiveOf(s)) \in Nat
                    BY <1>1
                <5>2. /\ Cardinality(ActiveOf(s) \cup {new})
                            = IF new \in ActiveOf(s) THEN Cardinality(ActiveOf(s))
                              ELSE Cardinality(ActiveOf(s)) + 1
                    BY <5>1, FS_AddElement
                <5> QED
                    BY <4>1, <5>1, <5>2
            <4>3. Cardinality(ActiveOf(s)) < Def[s].maxConcurrent
                BY <2>1, <3>1 DEF CanStart
            <4> QED
                BY <1>1, <1>m, <4>2, <4>3
        <3>2. CASE s # rec.sop
            <4>1. ActiveOf(s)' = ActiveOf(s)
                BY <1>2, <2>2, <2>3, <3>2 DEF ActiveOf
            <4> QED
                BY <4>1 DEF ConcurrencyLimits
        <3> QED
            BY <3>1, <3>2
    <2> QED
        BY <2>4, <2>5 DEF ConcurrencyLimits
<1>4. CASE Finishes \/ Rewrites
    <2>1. active' \subseteq active
        BY <1>4, FinishFacts DEF Finishes, Rewrites
    <2>2. \A r \in active : run'[r].sop = run[r].sop
        <3>1. CASE Finishes
            <4>1. PICK r \in active, rec \in SopRun, status \in Terminal :
                    rec.sop = run[r].sop /\ FinishRun(r, rec, status)
                BY <3>1 DEF Finishes
            <4>2. run'[r].sop = rec.sop /\ \A j \in RunIds \ {r} : run'[j] = run[j]
                BY <4>1, FinishFacts
            <4> QED
                BY <1>2, <4>1, <4>2
        <3>2. CASE Rewrites
            BY <1>2, <3>2 DEF Rewrites
        <3> QED
            BY <1>4, <3>1, <3>2
    <2>3. Cardinality(active') <= Cardinality(active) /\ Cardinality(active') \in Nat
        BY <1>1, <2>1, FS_Subset, FS_CardinalityType
    <2>4. ASSUME NEW s \in SOPs
          PROVE  /\ Cardinality(ActiveOf(s)') <= Cardinality(ActiveOf(s))
                 /\ Cardinality(ActiveOf(s)') \in Nat
        <3>1. ActiveOf(s)' \subseteq ActiveOf(s)
            BY <2>1, <2>2 DEF ActiveOf
        <3> QED
            BY <1>1, <3>1, FS_Subset, FS_CardinalityType
    <2>5. Cardinality(active') <= MaxTotal
        BY <1>1, <1>m, <2>3 DEF ConcurrencyLimits
    <2>6. ASSUME NEW s \in SOPs
          PROVE  Cardinality(ActiveOf(s)') <= Def[s].maxConcurrent
        BY <1>1, <1>m, <2>4 DEF ConcurrencyLimits
    <2> QED
        BY <2>5, <2>6 DEF ConcurrencyLimits
<1> QED
    BY <1>3, <1>4, StepEffect

(* The number of active runs never exceeds max_concurrent_total or a SOP's own   *)
(* max_concurrent, for every configuration and however long the engine runs.    *)
THEOREM LimitsHold == Spec => []ConcurrencyLimits
<1>1. Init => ConcurrencyLimits
    <2> SUFFICES ASSUME Init PROVE ConcurrencyLimits
        OBVIOUS
    <2>1. active = {} /\ \A s : ActiveOf(s) = {}
        BY DEF Init, ActiveOf
    <2>2. MaxTotal \in Nat /\ \A s \in SOPs : Def[s].maxConcurrent \in Nat
        BY SopAssumption DEF SopDefinition
    <2> QED
        BY <2>1, <2>2, FS_EmptySet DEF ConcurrencyLimits
<1>2. TypeOK /\ TypeOK' /\ ConcurrencyLimits /\ [Next]_vars => ConcurrencyLimits'
    BY LimitsStep
<1> QED
    BY <1>1, <1>2, TypeCorrect, PTL DEF Spec

-----------------------------------------------------------------------------
(* A run that left active_runs never comes back, and no call changes its status *)
(* or its results: late answers and old state files bounce off.                 *)
THEOREM FinalForever == Spec => FinishedIsFinal
<1>1. TypeOK /\ [Next]_vars =>
        [\A r \in RunIds \ active :
           /\ r \notin active'
           /\ run'[r].results = run[r].results /\ run'[r].status = run[r].status]_vars
    <2> SUFFICES ASSUME TypeOK, [Next]_vars, NEW r \in RunIds \ active
                 PROVE  /\ r \notin active'
                        /\ run'[r].results = run[r].results /\ run'[r].status = run[r].status
        OBVIOUS
    <2>1. CASE Starts
        <3>1. PICK rec \in SopRun : /\ run' = Append(run, rec)
                                    /\ active' = active \cup {Len(run) + 1}
            BY <2>1 DEF Starts
        <3>2. run'[r] = run[r] /\ r # Len(run) + 1
            BY <3>1, StartFacts
        <3> QED
            BY <3>1, <3>2
    <2>2. CASE Finishes
        <3>1. PICK q \in active, rec \in SopRun, status \in Terminal : FinishRun(q, rec, status)
            BY <2>2 DEF Finishes
        <3>2. run'[r] = run[r] /\ active' = active \ {q}
            BY <3>1, FinishFacts
        <3> QED
            BY <3>2
    <2>3. CASE Rewrites
        BY <2>3 DEF Rewrites
    <2> QED
        BY <2>1, <2>2, <2>3, StepEffect
<1> QED
    BY <1>1, TypeCorrect, PTL DEF Spec, FinishedIsFinal

-----------------------------------------------------------------------------
(* The cooldown.  As long as nothing is evicted from the finished list, the latest *)
(* run of a SOP in it is the run that set the SOP's history.                       *)

\* Place i of the list holds the latest finished run of s, and it is that old.
LatestAt(s, i, age) ==
    /\ i \in DOMAIN finished /\ run[finished[i]].sop = s /\ run[finished[i]].age = age
    /\ \A j \in DOMAIN finished : j > i => run[finished[j]].sop # s

LatestIsLast ==
    \A s \in SOPs : lastDone[s] # -1 => \E i \in DOMAIN finished : LatestAt(s, i, lastDone[s])

\* A step that finishes no run and lets no time pass.
Quiet ==
    /\ finished' = finished /\ lastDone' = lastDone
    /\ \A r \in RunIds \ active : run'[r] = run[r]

LEMMA OneIsQuiet ==
    ASSUME TypeOK, NEW r \in active, NEW rec, run' = [run EXCEPT ![r] = rec],
           UNCHANGED <<finished, lastDone>>
    PROVE  Quiet
BY DEF Quiet, RunIds

(* Every step finishes one run, lets a second pass, or is quiet. *)
LEMMA CooldownEffect ==
    ASSUME TypeOK, [Next]_vars
    PROVE  Finishes \/ Tick \/ Quiet
<1>0. run \in Seq(SopRun) /\ RunIds = 1..Len(run) /\ Len(run) \in Nat
    BY RunFacts DEF TypeOK
<1>1. ASSUME NEW s \in SOPs, NEW written \in WriteOutcomes, StartRun(s, written)
      PROVE  Quiet
    <2>1. PICK rec \in SopRun : run' = Append(run, rec)
        BY <1>1, StartRunEffect DEF Starts
    <2>2. \A r \in RunIds : run'[r] = run[r]
        BY <1>0, <2>1, AppendProperties
    <2>3. finished' = finished /\ lastDone' = lastDone
        BY <1>1 DEF StartRun
    <2> QED
        BY <2>2, <2>3 DEF Quiet
<1>2. ASSUME NEW r \in RunIds, NEW outcome \in Outcomes, AdvanceStep(r, outcome)
      PROVE  Finishes \/ Quiet
    <2> DEFINE rec == Recorded(r, outcome)
    <2>1. rec \in SopRun /\ rec.sop = run[r].sop /\ r \in active
        BY <1>2, RecordedType DEF AdvanceStep
    <2>2. CASE FinishRun(r, rec, "Failed") \/ FinishRun(r, rec, "Completed")
        <3> HIDE DEF rec
        <3> QED
            BY <2>1, <2>2 DEF Finishes, Terminal
    <2>3. CASE run' = [run EXCEPT ![r] = EnterStep(rec, rec.step + 1)]
               /\ UNCHANGED <<active, finished, lastDone>>
        <3> HIDE DEF rec
        <3> QED
            BY <2>1, <2>3, OneIsQuiet
    <2> QED
        BY <1>2, <2>2, <2>3 DEF AdvanceStep
<1>3. ASSUME NEW r \in RunIds, CancelRun(r)
      PROVE  Finishes
    <2>1. r \in active /\ run[r] \in SopRun /\ FinishRun(r, run[r], "Cancelled")
        BY <1>3, RunFacts DEF CancelRun
    <2> QED
        BY <2>1 DEF Finishes, Terminal
<1>4. ASSUME NEW r \in RunIds, ApproveStep(r)
      PROVE  Quiet
    <2>1. r \in active /\ run' = [run EXCEPT ![r] = Released(run[r])]
          /\ UNCHANGED <<finished, lastDone>>
        BY <1>4 DEF ApproveStep
    <2> QED
        BY <2>1, OneIsQuiet
<1>5. ASSUME CheckApprovalTimeouts
      PROVE  Quiet
    <2> DEFINE due == {r \in active : Overdue(r)}
    <2>1. /\ run' = [r \in RunIds |-> IF r \in due THEN Released(run[r]) ELSE run[r]]
          /\ UNCHANGED <<finished, lastDone>>
        BY <1>5 DEF CheckApprovalTimeouts
    <2>2. due \subseteq active
        OBVIOUS
    <2> HIDE DEF due
    <2> QED
        BY <2>1, <2>2 DEF Quiet
<1>6. ASSUME NEW r \in RunIds, NEW written \in WriteOutcomes, AdvanceDeterministicStep(r, written)
      PROVE  Finishes \/ Quiet
    <2> DEFINE rec == Recorded(r, "done")
    <2>1. rec \in SopRun /\ rec.sop = run[r].sop /\ r \in active
        BY <1>6, RecordedType DEF AdvanceDeterministicStep, Outcomes
    <2>2. CASE FinishRun(r, rec, "Completed")
        <3> HIDE DEF rec
        <3> QED
            BY <2>1, <2>2 DEF Finishes, Terminal
    <2>3. CASE run' = [run EXCEPT ![r] = EnterDetStep(rec, rec.step + 1)]
               /\ UNCHANGED <<active, finished, lastDone>>
        <3> HIDE DEF rec
        <3> QED
            BY <2>1, <2>3, OneIsQuiet
    <2> QED
        BY <1>6, <2>2, <2>3 DEF AdvanceDeterministicStep
<1>7. ASSUME NEW p \in persisted, NEW written \in WriteOutcomes, ResumeDeterministicRun(p, written)
      PROVE  Quiet
    <2>1. p.run \in active
          /\ run' = [run EXCEPT ![p.run] = EnterDetStep(Released(run[p.run]), p.last + 1)]
          /\ UNCHANGED <<finished, lastDone>>
        BY <1>7 DEF ResumeDeterministicRun
    <2> QED
        BY <2>1, OneIsQuiet
<1>8. ASSUME Reload \/ UNCHANGED vars
      PROVE  Quiet
    BY <1>8 DEF Reload, vars, Quiet
<1> QED
    BY <1>1, <1>2, <1>3, <1>4, <1>5, <1>6, <1>7, <1>8 DEF Next

LEMMA CooldownStep ==
    ASSUME MaxFinished = 0, TypeOK, RunsPartitioned, LatestIsLast, [Next]_vars
    PROVE  LatestIsLast'
<1>0. /\ \A i \in DOMAIN finished : finished[i] \in RunIds \ active
      /\ finished \in Seq(RunIds) /\ DOMAIN finished = 1..Len(finished) /\ Len(finished) \in Nat
    <2>1. finished \in Seq(RunIds)
        BY DEF TypeOK
    <2> QED
        BY <2>1, LenProperties, ElementOfSeq DEF RunsPartitioned
<1>1. CASE Finishes
    <2>1. PICK r \in active, rec \in SopRun, status \in Terminal :
              rec.sop = run[r].sop /\ FinishRun(r, rec, status)
        BY <1>1 DEF Finishes
    <2>2. finished' = Append(finished, r)
        BY <2>1 DEF FinishRun, Kept
    <2>3. r \in RunIds
        BY DEF TypeOK
    <2>4. /\ DOMAIN finished' = 1..(Len(finished) + 1)
          /\ finished'[Len(finished) + 1] = r
          /\ \A i \in 1..Len(finished) : finished'[i] = finished[i]
        <3>1. /\ Append(finished, r) \in Seq(RunIds)
              /\ Len(Append(finished, r)) = Len(finished) + 1
              /\ Append(finished, r)[Len(finished) + 1] = r
              /\ \A i \in 1..Len(finished) : Append(finished, r)[i] = finished[i]
            BY <1>0, <2>3, AppendProperties
        <3>2. DOMAIN Append(finished, r) = 1..(Len(finished) + 1)
            BY <3>1, LenProperties
        <3> QED
            BY <2>2, <3>1, <3>2
    <2>5. /\ run'[r].sop = rec.sop /\ run'[r].age = 0
          /\ \A q \in RunIds \ {r} : run'[q] = run[q]
        <3> DEFINE final == [rec EXCEPT !.status = status, !.age = 0]
        <3>1. final.sop = rec.sop /\ final.age = 0
            BY DEF SopRun
        <3>2. run' = [run EXCEPT ![r] = final]
            BY <2>1 DEF FinishRun
        <3> HIDE DEF final
        <3> QED
            BY <2>3, <3>1, <3>2 DEF RunIds
    <2>6. rec.sop \in SOPs /\ lastDone' = [lastDone EXCEPT ![rec.sop] = 0]
          /\ lastDone \in [SOPs -> {-1} \cup Nat]
        BY <2>1 DEF FinishRun, SopRun, TypeOK
    <2>7. ASSUME NEW s \in SOPs, lastDone'[s] # -1
          PROVE  \E i \in DOMAIN finished' : LatestAt(s, i, lastDone[s])'
        <3>1. CASE s = rec.sop
            <4>1. PICK top : top = Len(finished) + 1
                OBVIOUS
            <4>2. lastDone'[s] = 0 /\ top \in DOMAIN finished'
                BY <1>0, <2>4, <2>6, <3>1, <4>1
            <4>3. \A j \in DOMAIN finished' : ~(j > top)
                BY <1>0, <2>4, <4>1
            <4>4. run'[finished'[top]].sop = s /\ run'[finished'[top]].age = 0
                BY <2>4, <2>5, <3>1, <4>1
            <4> QED
                BY <4>2, <4>3, <4>4 DEF LatestAt
        <3>2. CASE s # rec.sop
            <4>1. lastDone'[s] = lastDone[s]
                BY <2>6, <3>2
            <4>2. PICK i \in DOMAIN finished : LatestAt(s, i, lastDone[s])
                BY <2>7, <4>1 DEF LatestIsLast
            <4>3. \A j \in DOMAIN finished : run'[finished'[j]] = run[finished[j]]
                BY <1>0, <2>4, <2>5
            <4>4. i \in DOMAIN finished'
                BY <1>0, <2>4
            <4>5. ASSUME NEW j \in DOMAIN finished', j > i
                  PROVE  run'[finished'[j]].sop # s
                <5>1. CASE j = Len(finished) + 1
                    BY <2>4, <2>5, <3>2, <5>1
                <5>2. CASE j # Len(finished) + 1
                    <6>1. j \in DOMAIN finished
                        BY <1>0, <2>4, <5>2
                    <6> QED
                        BY <4>2, <4>3, <4>5, <6>1 DEF LatestAt
                <5> QED
                    BY <5>1, <5>2
            <4>6. run'[finished'[i]].sop = s /\ run'[finished'[i]].age = lastDone'[s]
                BY <4>1, <4>2, <4>3 DEF LatestAt
            <4> QED
                BY <4>4, <4>5, <4>6 DEF LatestAt
        <3> QED
            BY <3>1, <3>2
    <2> QED
        BY <2>7 DEF LatestIsLast
<1>2. CASE Tick
    <2>1. ASSUME NEW q \in RunIds \ active
          PROVE  /\ run'[q].sop = run[q].sop
                 /\ run'[q].age = Min2(run[q].age + 1, Def[run[q].sop].cooldown)
        <3>1. run[q] \in SopRun
            BY RunFacts
        <3>2. PICK age : age = Min2(run[q].age + 1, Def[run[q].sop].cooldown)
            OBVIOUS
        <3>3. run'[q] = [run[q] EXCEPT !.age = age]
            BY <1>2, <3>2 DEF Tick
        <3> QED
            BY <3>1, <3>2, <3>3 DEF SopRun
    <2>2. finished' = finished
        BY <1>2 DEF Tick
    <2>3. ASSUME NEW s \in SOPs, lastDone'[s] # -1
          PROVE  \E i \in DOMAIN finished' : LatestAt(s, i, lastDone[s])'
        <3>1. lastDone[s] # -1 /\ lastDone'[s] = Min2(lastDone[s] + 1, Def[s].cooldown)
            BY <1>2, <2>3 DEF Tick
        <3>2. PICK i \in DOMAIN finished : LatestAt(s, i, lastDone[s])
            BY <3>1 DEF LatestIsLast
        <3>3. finished[i] \in RunIds \ active
              /\ \A j \in DOMAIN finished : finished[j] \in RunIds \ active
            BY <1>0
        <3>4. run'[finished[i]].sop = s /\ run'[finished[i]].age = lastDone'[s]
            BY <2>1, <3>1, <3>2, <3>3 DEF LatestAt
        <3>5. \A j \in DOMAIN finished : j > i => run'[finished[j]].sop # s
            BY <2>1, <3>2, <3>3 DEF LatestAt
        <3> QED
            BY <2>2, <3>4, <3>5 DEF LatestAt
    <2> QED
        BY <2>3 DEF LatestIsLast
<1>3. CASE Quiet
    <2>1. finished' = finished /\ lastDone' = lastDone
          /\ \A j \in DOMAIN finished : run'[finished[j]] = run[finished[j]]
        BY <1>0, <1>3 DEF Quiet
    <2> QED
        BY <2>1 DEF LatestIsLast, LatestAt
<1> QED
    BY <1>1, <1>2, <1>3, CooldownEffect

(* can_start sees the end of the SOP's last run, so cooldown_secs pass before the *)
(* next one starts.  The premise is that max_finished_runs evicts nothing: with a *)
(* limit, the last run of a rare SOP may be gone when it is asked for.            *)
THEOREM CooldownKept == MaxFinished = 0 => (Spec => CooldownHonoured)
<1> SUFFICES ASSUME MaxFinished = 0
             PROVE  Spec => CooldownHonoured
    OBVIOUS
<1>1. Init => LatestIsLast
    BY DEF Init, LatestIsLast
<1>2. TypeOK /\ RunsPartitioned /\ LatestIsLast /\ [Next]_vars => LatestIsLast'
    BY CooldownStep
<1>3. ASSUME TypeOK, LatestIsLast, [Next]_vars
      PROVE  [\A s \in SOPs :
                 /\ Len(run') > Len(run) /\ run'[Len(run')].sop = s
                 /\ lastDone[s] # -1
                 => lastDone[s] >= Def[s].cooldown]_vars
    <2> SUFFICES ASSUME NEW s \in SOPs, Len(run') > Len(run), run'[Len(run')].sop = s,
                        lastDone[s] # -1
                 PROVE  lastDone[s] >= Def[s].cooldown
        OBVIOUS
    <2>1. Starts
        <3>1. Len(run) \in Nat
            BY RunFacts
        <3>2. Finishes => Len(run') = Len(run)
            BY <1>3, FinishFacts DEF Finishes
        <3>3. Rewrites => Len(run') = Len(run)
            BY DEF Rewrites
        <3> QED
            BY <1>3, <3>1, <3>2, <3>3, StepEffect
    <2>2. PICK rec \in SopRun : CanStart(rec.sop) /\ run' = Append(run, rec)
        BY <2>1 DEF Starts
    <2>3. rec.sop = s
        <3>1. run \in Seq(SopRun)
            BY <1>3 DEF TypeOK
        <3>2. Len(run') = Len(run) + 1 /\ run'[Len(run) + 1] = rec
            BY <2>2, <3>1, AppendProperties
        <3> QED
            BY <3>2
    <2>4. PICK i \in DOMAIN finished : LatestAt(s, i, lastDone[s])
        BY <1>3 DEF LatestIsLast
    <2>5. finished[i] \in LastFinished(s)
        <3>1. finished[i] \in RunIds
            <4>1. finished \in Seq(RunIds)
                BY <1>3 DEF TypeOK
            <4> QED
                BY <4>1, ElementOfSeq, LenProperties
        <3> QED
            BY <2>4, <3>1 DEF LatestAt, LastFinished
    <2>6. ~(run[finished[i]].age < Def[s].cooldown)
        BY <2>2, <2>3, <2>5 DEF CanStart, CoolingDown
    <2>7. lastDone[s] \in Int /\ Def[s].cooldown \in Int
        BY <1>3, SopAssumption DEF TypeOK, SopDefinition
    <2> QED
        BY <2>4, <2>6, <2>7 DEF LatestAt
<1> QED
    BY <1>1, <1>2, <1>3, TypeCorrect, Partitioned, PTL DEF Spec, CooldownHonoured

-----------------------------------------------------------------------------
(* The callers of the running program.  ToolSpec takes a subset of the engine's *)
(* steps, so what holds of Spec holds of it.                                    *)

LEMMA ToolStepIsStep == [ToolNext]_vars => [Next]_vars
BY DEF ToolNext, Next, ExecuteTool, AdvanceTool, ApproveTool

LEMMA ToolInvariants == ToolSpec => [](TypeOK /\ RunsPartitioned)
<1>1. ToolSpec => Spec
    BY ToolStepIsStep, PTL DEF ToolSpec, Spec
<1> QED
    BY <1>1, TypeCorrect, Partitioned, PTL

(* What the helpers do to the fields InOrder reads. *)
LEMMA EnterStepKeeps ==
    ASSUME NEW rec \in SopRun, NEW n \in Nat \ {0}
    PROVE  EnterStep(rec, n).step = n /\ EnterStep(rec, n).results = rec.results
BY DEF EnterStep, Hold, SopRun

LEMMA EnterDetStepKeeps ==
    ASSUME NEW rec \in SopRun, NEW n \in Nat \ {0}
    PROVE  EnterDetStep(rec, n).step = n /\ EnterDetStep(rec, n).results = rec.results
BY DEF EnterDetStep, Hold, SopRun

(* A run that has only begun is in order. *)
LEMMA FreshInOrder ==
    ASSUME NEW rec \in SopRun, rec.results = << >>, rec.step = 1, rec.status \in Live,
           Total(rec.sop) > 0, Total(rec.sop) \in Nat
    PROVE  InOrder(rec)
<1>1. Len(rec.results) = 0
    BY EmptySeq
<1>2. rec.status # "Completed" /\ rec.status # "Failed"
    BY DEF Live
<1> QED
    BY <1>1, <1>2 DEF InOrder

LEMMA TotalType ==
    ASSUME NEW s \in SOPs
    PROVE  Total(s) \in Nat
<1>1. Def[s].steps \in Seq(StepDefinition)
    BY SopAssumption DEF SopDefinition
<1> QED
    BY <1>1, LenProperties DEF Total

(* A live run in order that reports its current step, and then completes, fails or *)
(* moves one step on, is in order again.                                            *)
LEMMA ReportInOrder ==
    ASSUME NEW old \in SopRun, old.status \in Live, InOrder(old),
           NEW outcome \in Outcomes, NEW new \in SopRun, new.sop = old.sop,
           new.results = Append(old.results, [step |-> old.step, status |-> outcome]),
           \/ outcome = "failed" /\ new.status = "Failed"
           \/ /\ outcome = "done" /\ old.step + 1 > Total(old.sop)
              /\ new.status = "Completed"
           \/ /\ outcome = "done" /\ old.step + 1 <= Total(old.sop)
              /\ new.status \in Live /\ new.step = old.step + 1
    PROVE  InOrder(new)
<1> DEFINE n == Len(old.results)
           result == [step |-> old.step, status |-> outcome]
<1>1. old.results \in Seq([step : Nat, status : Outcomes]) /\ old.step \in Nat \ {0}
    BY DEF SopRun
<1>2. result \in [step : Nat, status : Outcomes] /\ result.step = old.step
      /\ result.status = outcome
    BY <1>1
<1> HIDE DEF result
<1>3. new.results = Append(old.results, result)
    BY DEF result
<1>4. /\ n \in Nat /\ Len(new.results) = n + 1
      /\ \A i \in 1..n : new.results[i] = old.results[i]
      /\ new.results[n + 1] = result
    BY <1>1, <1>2, <1>3, AppendProperties, LenProperties
<1>5. /\ \A i \in 1..n : old.results[i].step = i
      /\ \A i \in 1..(n - 1) : old.results[i].status = "done"
      /\ n > 0 => old.results[n].status = "done"
      /\ old.step = n + 1 /\ old.step <= Total(old.sop)
    BY DEF InOrder
<1>6. Total(old.sop) \in Nat
    BY TotalType DEF SopRun
<1> DEFINE m == Len(new.results)
<1>7. m = n + 1 /\ m \in Nat /\ m > 0 /\ m - 1 = n
    BY <1>4
<1>8. \A i \in 1..m : new.results[i].step = i
    <2>1. ASSUME NEW i \in 1..m
          PROVE  i \in 1..n \/ i = n + 1
        BY <1>4, <1>7
    <2> HIDE DEF n, m
    <2> QED
        BY <1>2, <1>4, <1>5, <2>1
<1>9. \A i \in 1..(m - 1) : new.results[i].status = "done"
    <2>1. ASSUME NEW i \in 1..n
          PROVE  i \in 1..(n - 1) \/ (i = n /\ n > 0)
        BY <1>4
    <2> HIDE DEF n, m
    <2> QED
        BY <1>4, <1>5, <1>7, <2>1
<1>10. new.results[m].status = outcome
    <2> HIDE DEF n, m
    <2> QED
        BY <1>2, <1>4, <1>7
<1> HIDE DEF n, m
<1>11. new.status \in Live \cup {"Cancelled"} =>
         /\ new.step = m + 1 /\ new.step <= Total(new.sop)
         /\ new.results[m].status = "done"
    BY <1>5, <1>7, <1>10 DEF Live, Outcomes
<1>12. new.status = "Completed" => m = Total(new.sop) /\ new.results[m].status = "done"
    <2> SUFFICES ASSUME new.status = "Completed"
                 PROVE  m = Total(new.sop) /\ new.results[m].status = "done"
        OBVIOUS
    <2>1. outcome = "done" /\ old.step + 1 > Total(old.sop)
        BY DEF Live
    <2>2. m = Total(old.sop)
        BY <1>4, <1>5, <1>6, <1>7, <2>1
    <2> QED
        BY <1>10, <2>1, <2>2
<1>13. new.status = "Failed" => new.results[m].status = "failed"
    BY <1>10 DEF Live
<1> USE DEF m
<1> QED
    BY <1>7, <1>8, <1>9, <1>11, <1>12, <1>13 DEF InOrder

LEMMA InOrderStep ==
    ASSUME TypeOK, RunsPartitioned, StepsInOrder, [ToolNext]_vars
    PROVE  StepsInOrder'
<1>0. /\ run \in Seq(SopRun) /\ RunIds = 1..Len(run) /\ Len(run) \in Nat
      /\ \A r \in RunIds : run[r] \in SopRun /\ InOrder(run[r])
    BY RunFacts DEF TypeOK, StepsInOrder
<1>1. ASSUME NEW s \in SOPs, NEW written \in WriteOutcomes, StartRun(s, written)
      PROVE  StepsInOrder'
    <2>1. PICK rec \in SopRun : /\ run' = Append(run, rec) /\ rec.sop = s
                                /\ rec.status \in Live /\ rec.step = 1 /\ rec.results = << >>
        <3> DEFINE fresh == NewRun(s)
        <3>1. fresh \in SopRun /\ fresh.sop = s /\ fresh.status \in Live /\ fresh.results = << >>
            BY NewRunType DEF NewRun, Live
        <3>2. 1 \in Nat \ {0}
            OBVIOUS
        <3>3. run' = Append(run, EnterDetStep(fresh, 1)) \/ run' = Append(run, EnterStep(fresh, 1))
            BY <1>1 DEF StartRun
        <3> HIDE DEF fresh
        <3>4. CASE run' = Append(run, EnterDetStep(fresh, 1))
            <4> DEFINE rec == EnterDetStep(fresh, 1)
            <4>1. /\ rec \in SopRun /\ rec.sop = s /\ rec.status \in Live
                  /\ rec.step = 1 /\ rec.results = << >>
                BY <3>1, <3>2, EnterDetStepType, EnterDetStepKeeps
            <4> HIDE DEF rec
            <4> QED
                BY <3>4, <4>1 DEF rec
        <3>5. CASE run' = Append(run, EnterStep(fresh, 1))
            <4> DEFINE rec == EnterStep(fresh, 1)
            <4>1. /\ rec \in SopRun /\ rec.sop = s /\ rec.status \in Live
                  /\ rec.step = 1 /\ rec.results = << >>
                BY <3>1, <3>2, EnterStepType, EnterStepKeeps
            <4> HIDE DEF rec
            <4> QED
                BY <3>5, <4>1 DEF rec
        <3> QED
            BY <3>3, <3>4, <3>5
    <2>2. Total(s) > 0 /\ Total(s) \in Nat
        BY <1>1, TotalType DEF StartRun
    <2>3. InOrder(rec)
        BY <2>1, <2>2, FreshInOrder
    <2>4. /\ RunIds' = RunIds \cup {Len(run) + 1}
          /\ \A r \in RunIds : run'[r] = run[r]
          /\ run'[Len(run) + 1] = rec
        BY <2>1, StartFacts
    <2>5. ASSUME NEW r \in RunIds' PROVE InOrder(run'[r])
        BY <1>0, <2>3, <2>4
    <2> QED
        BY <2>5 DEF StepsInOrder, InOrder, Total
<1>2. ASSUME NEW r \in RunIds, NEW outcome \in Outcomes, AdvanceStep(r, outcome)
      PROVE  StepsInOrder'
    <2> DEFINE rec == Recorded(r, outcome)
               old == run[r]
    <2>1. /\ rec \in SopRun /\ rec.sop = old.sop /\ rec.status = old.status
          /\ rec.step = old.step
          /\ rec.results = Append(old.results, [step |-> old.step, status |-> outcome])
        BY RecordedType
    <2>2. r \in active /\ old \in SopRun /\ old.status \in Live /\ InOrder(old)
        BY <1>0, <1>2 DEF AdvanceStep, RunsPartitioned
    <2>3. old.step + 1 \in Nat \ {0}
        <3>1. old.step \in Nat \ {0}
            BY <2>2 DEF SopRun
        <3> HIDE DEF old
        <3> QED
            BY <3>1
    <2>4. PICK new \in SopRun :
            /\ run' = [run EXCEPT ![r] = new]
            /\ new.sop = old.sop /\ new.results = rec.results
            /\ \/ outcome = "failed" /\ new.status = "Failed"
               \/ /\ outcome = "done" /\ old.step + 1 > Total(old.sop)
                  /\ new.status = "Completed"
               \/ /\ outcome = "done" /\ old.step + 1 <= Total(old.sop)
                  /\ new.status \in Live /\ new.step = old.step + 1
        <3>1. CASE outcome = "failed" /\ FinishRun(r, rec, "Failed")
            <4> DEFINE new == [rec EXCEPT !.status = "Failed", !.age = 0]
            <4>1. run' = [run EXCEPT ![r] = new]
                BY <3>1 DEF FinishRun
            <4> HIDE DEF rec
            <4>2. /\ new \in SopRun /\ new.sop = rec.sop /\ new.results = rec.results
                  /\ new.status = "Failed"
                BY <2>1 DEF SopRun, Terminal
            <4> HIDE DEF new
            <4> QED
                BY <2>1, <3>1, <4>1, <4>2
        <3>2. CASE outcome # "failed" /\ old.step + 1 > Total(old.sop) /\ FinishRun(r, rec, "Completed")
            <4> DEFINE new == [rec EXCEPT !.status = "Completed", !.age = 0]
            <4>1. run' = [run EXCEPT ![r] = new]
                BY <3>2 DEF FinishRun
            <4> HIDE DEF rec
            <4>2. /\ new \in SopRun /\ new.sop = rec.sop /\ new.results = rec.results
                  /\ new.status = "Completed"
                BY <2>1 DEF SopRun, Terminal
            <4>3. outcome = "done"
                BY <3>2 DEF Outcomes
            <4> HIDE DEF new
            <4> QED
                BY <2>1, <3>2, <4>1, <4>2, <4>3
        <3>3. CASE /\ outcome # "failed" /\ old.step + 1 <= Total(old.sop)
                   /\ run' = [run EXCEPT ![r] = EnterStep(rec, rec.step + 1)]
            <4> HIDE DEF rec, old
            <4>1. outcome = "done" /\ rec.step + 1 = old.step + 1
                BY <2>1, <3>3 DEF Outcomes
            <4>2. /\ EnterStep(rec, rec.step + 1) \in SopRun
                  /\ EnterStep(rec, rec.step + 1).sop = old.sop
                  /\ EnterStep(rec, rec.step + 1).status \in Live
                  /\ EnterStep(rec, rec.step + 1).step = old.step + 1
                  /\ EnterStep(rec, rec.step + 1).results = rec.results
                BY <2>1, <2>2, <2>3, <4>1, EnterStepType, EnterStepKeeps
            <4> QED
                BY <3>3, <4>1, <4>2
        <3> QED
            BY <1>2, <2>1, <3>1, <3>2, <3>3 DEF AdvanceStep
    <2> HIDE DEF rec, old
    <2>5. InOrder(new)
        BY <2>1, <2>2, <2>4, ReportInOrder
    <2>6. /\ run' \in Seq(SopRun) /\ Len(run') = Len(run)
          /\ \A q \in 1..Len(run) : run'[q] = IF q = r THEN new ELSE run[q]
        BY <1>0, <2>4, ExceptSeq
    <2>7. RunIds' = RunIds
        BY <1>0, <2>6, LenProperties DEF RunIds
    <2>8. ASSUME NEW q \in RunIds PROVE InOrder(run'[q])
        BY <1>0, <2>5, <2>6
    <2> QED
        BY <2>7, <2>8 DEF StepsInOrder, InOrder, Total
<1>3. ASSUME NEW r \in RunIds, ApproveStep(r)
      PROVE  StepsInOrder'
    <2> DEFINE new == Released(run[r])
    <2>1. run' = [run EXCEPT ![r] = new] /\ run[r].status \in Live
        BY <1>3 DEF ApproveStep, Live
    <2>2. new \in SopRun /\ new.sop = run[r].sop /\ new.status \in Live
        BY <1>0, ReleasedType DEF Live
    <2>3. new.step = run[r].step /\ new.results = run[r].results
        BY <1>0 DEF Released, SopRun
    <2> HIDE DEF new
    <2>4. InOrder(new)
        <3>1. new.status # "Completed" /\ new.status # "Failed"
            BY <2>2 DEF Live
        <3> QED
            BY <1>0, <2>1, <2>2, <2>3, <3>1 DEF InOrder
    <2>5. /\ run' \in Seq(SopRun) /\ Len(run') = Len(run)
          /\ \A q \in 1..Len(run) : run'[q] = IF q = r THEN new ELSE run[q]
        BY <1>0, <2>1, <2>2, ExceptSeq
    <2>6. RunIds' = RunIds
        BY <1>0, <2>5, LenProperties DEF RunIds
    <2>7. ASSUME NEW q \in RunIds PROVE InOrder(run'[q])
        BY <1>0, <2>4, <2>5
    <2> QED
        BY <2>6, <2>7 DEF StepsInOrder, InOrder, Total
<1>4. ASSUME Tick
      PROVE  StepsInOrder'
    <2>1. RunIds' = RunIds
        BY <1>4 DEF Tick, RunIds
    <2>2. ASSUME NEW r \in RunIds
          PROVE  /\ run'[r].sop = run[r].sop /\ run'[r].status = run[r].status
                 /\ run'[r].step = run[r].step /\ run'[r].results = run[r].results
        <3>1. run[r] \in SopRun
            BY <1>0
        <3>2. \E w : run'[r] = [run[r] EXCEPT !.waited = w] \/ run'[r] = [run[r] EXCEPT !.age = w]
            BY <1>4 DEF Tick
        <3> QED
            BY <3>1, <3>2 DEF SopRun
    <2>3. \A r \in RunIds : InOrder(run'[r])
        BY <1>0, <2>2 DEF InOrder
    <2> QED
        BY <2>1, <2>3 DEF StepsInOrder, InOrder, Total
<1>5. ASSUME UNCHANGED vars
      PROVE  StepsInOrder'
    BY <1>5 DEF vars, StepsInOrder, InOrder, Total, RunIds
<1> QED
    BY <1>1, <1>2, <1>3, <1>4, <1>5 DEF ToolNext, ExecuteTool, AdvanceTool, ApproveTool

(* With the calls the program makes, every run of every SOP reports its steps once *)
(* and in order, and its final status says what its results say.                   *)
THEOREM ToolsInOrder == ToolSpec => []StepsInOrder
<1>1. Init => StepsInOrder
    <2> SUFFICES ASSUME Init PROVE StepsInOrder
        OBVIOUS
    <2>1. DOMAIN run = {}
        BY DEF Init
    <2> QED
        BY <2>1 DEF StepsInOrder, RunIds
<1>2. TypeOK /\ RunsPartitioned /\ StepsInOrder /\ [ToolNext]_vars => StepsInOrder'
    BY InOrderStep
<1> QED
    BY <1>1, <1>2, ToolInvariants, PTL DEF ToolSpec
=============================================================================

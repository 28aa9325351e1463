--------------------------- MODULE SopCallersProofs ---------------------------
(***************************************************************************)
(* Theorems about SopCallers, for any SOPs and limits: what holds of a     *)
(* caller that does what the returned actions ask for, and what holds of   *)
(* the program's own tools too.                                            *)
(***************************************************************************)
EXTENDS SopEngineProofs

\* What is known of a run: its record, the last action returned for it, and the steps of it
\* that were approved.
Fine(rec, rep, approved, obeys, live) ==
    /\ live /\ rep = "WaitApproval" => rec.status = "WaitingApproval" /\ rec.waited # NotWaiting
    /\ obeys =>
        /\ \A n \in approved : NeedsApproval(rec.sop, n)
        /\ ~Deterministic(rec.sop) => \A n \in DOMAIN rec.results : NeedsApproval(rec.sop, n) => n \in approved
        /\ live =>
            /\ rec.step = Len(rec.results) + 1
            /\ rec.status = "WaitingApproval" => ~Deterministic(rec.sop) /\ NeedsApproval(rec.sop, rec.step)
            /\ rep = "ExecuteStep" =>
                /\ ~Deterministic(rec.sop) /\ rec.status # "WaitingApproval"
                /\ NeedsApproval(rec.sop, rec.step) => rec.step \in approved
            /\ rep \in {"DeterministicStep", "CheckpointWait"} => Deterministic(rec.sop)
            /\ Deterministic(rec.sop) /\ IsCheckpoint(rec.sop, rec.step) => rec.status = "PausedCheckpoint"

Approved(r) == {n \in Nat : <<r, n>> \in granted}

CallersInv ==
    /\ loaded = SOPs
    /\ \A r \in RunIds : Fine(run[r], reply[r], Approved(r), Obedient, r \in active)

-----------------------------------------------------------------------------
(* Records and replies. *)

\* A run that enters a step, the one after what it has reported.
LEMMA EnterStepFine ==
    ASSUME NEW rec \in SopRun, NEW n \in Nat \ {0}, NEW approved, NEW obeys \in BOOLEAN,
           obeys => /\ ~Deterministic(rec.sop) /\ n = Len(rec.results) + 1
                    /\ rec.status # "WaitingApproval"
                    /\ \A m \in approved : NeedsApproval(rec.sop, m)
                    /\ \A m \in DOMAIN rec.results : NeedsApproval(rec.sop, m) => m \in approved
    PROVE  Fine(EnterStep(rec, n), EnterReply(rec.sop, n), approved, obeys, TRUE)
<1>1. PICK new : new = EnterStep(rec, n)
    OBVIOUS
<1>2. CASE NeedsApproval(rec.sop, n)
    <2>1. new = [rec EXCEPT !.step = n, !.status = "WaitingApproval", !.waited = 0]
        BY <1>1, <1>2 DEF EnterStep, Hold, SopRun
    <2>2. /\ new.sop = rec.sop /\ new.step = n /\ new.results = rec.results
          /\ new.status = "WaitingApproval" /\ new.waited = 0
        BY <2>1 DEF SopRun
    <2>3. EnterReply(rec.sop, n) = "WaitApproval"
        BY <1>2 DEF EnterReply
    <2> QED
        BY <1>1, <1>2, <2>2, <2>3 DEF Fine, NotWaiting
<1>3. CASE ~NeedsApproval(rec.sop, n)
    <2>1. new = [rec EXCEPT !.step = n]
        BY <1>1, <1>3 DEF EnterStep
    <2>2. new.sop = rec.sop /\ new.step = n /\ new.results = rec.results /\ new.status = rec.status
        BY <2>1 DEF SopRun
    <2>3. EnterReply(rec.sop, n) = "ExecuteStep"
        BY <1>3 DEF EnterReply
    <2> QED
        BY <1>1, <1>3, <2>2, <2>3 DEF Fine
<1> QED
    BY <1>2, <1>3

LEMMA EnterDetStepFine ==
    ASSUME NEW rec \in SopRun, NEW n \in Nat \ {0}, NEW approved, NEW obeys \in BOOLEAN, NEW written,
           obeys => /\ Deterministic(rec.sop) /\ n = Len(rec.results) + 1
                    /\ rec.status # "WaitingApproval"
                    /\ \A m \in approved : NeedsApproval(rec.sop, m)
    PROVE  Fine(EnterDetStep(rec, n), EnterDetReply(rec.sop, n, written), approved, obeys, TRUE)
<1>1. PICK new : new = EnterDetStep(rec, n)
    OBVIOUS
<1>2. /\ EnterDetReply(rec.sop, n, written) # "WaitApproval"
      /\ EnterDetReply(rec.sop, n, written) # "ExecuteStep"
    BY DEF EnterDetReply
<1>3. CASE IsCheckpoint(rec.sop, n)
    <2>1. new = [rec EXCEPT !.step = n, !.status = "PausedCheckpoint", !.waited = 0]
        BY <1>1, <1>3 DEF EnterDetStep, Hold, SopRun
    <2>2. new.sop = rec.sop /\ new.step = n /\ new.results = rec.results /\ new.status = "PausedCheckpoint"
        BY <2>1 DEF SopRun
    <2> QED
        BY <1>1, <1>2, <2>2 DEF Fine
<1>4. CASE ~IsCheckpoint(rec.sop, n)
    <2>1. new = [rec EXCEPT !.step = n]
        BY <1>1, <1>4 DEF EnterDetStep
    <2>2. new.sop = rec.sop /\ new.step = n /\ new.results = rec.results /\ new.status = rec.status
        BY <2>1 DEF SopRun
    <2> QED
        BY <1>1, <1>2, <1>4, <2>2 DEF Fine
<1> QED
    BY <1>3, <1>4

\* A run that leaves.
LEMMA LeftFine ==
    ASSUME NEW rec, NEW new, NEW rep, NEW approved, NEW obeys \in BOOLEAN,
           new.sop = rec.sop, new.results = rec.results,
           obeys => /\ \A m \in approved : NeedsApproval(rec.sop, m)
                    /\ ~Deterministic(rec.sop) =>
                          \A m \in DOMAIN rec.results : NeedsApproval(rec.sop, m) => m \in approved
    PROVE  Fine(new, rep, approved, obeys, FALSE)
BY DEF Fine

\* A run that has waited and is released, its step approved.
LEMMA ReleasedFine ==
    ASSUME NEW rec \in SopRun, NEW rep, NEW approved, NEW more, NEW obeys \in BOOLEAN,
           rec.status = "WaitingApproval", more = approved \cup {rec.step},
           Fine(rec, rep, approved, obeys, TRUE)
    PROVE  Fine(Released(rec), "ExecuteStep", more, obeys, TRUE)
<1>1. PICK new : new = Released(rec)
    OBVIOUS
<1>2. new.sop = rec.sop /\ new.step = rec.step /\ new.results = rec.results /\ new.status = "Running"
    BY <1>1 DEF Released, SopRun
<1>3. obeys => NeedsApproval(rec.sop, rec.step) /\ ~Deterministic(rec.sop)
    BY DEF Fine
<1> QED
    BY <1>1, <1>2, <1>3 DEF Fine

\* What the report of the current step adds.
LEMMA RecordedFine ==
    ASSUME TypeOK, CallersInv, NEW r \in active, NEW outcome \in Outcomes,
           NEW rec, rec = Recorded(r, outcome)
    PROVE  /\ rec \in SopRun /\ rec.sop = run[r].sop /\ rec.status = run[r].status
           /\ rec.step = run[r].step /\ rec.step + 1 \in Nat \ {0}
           /\ Obedient =>
                /\ rec.step + 1 = Len(rec.results) + 1
                /\ \A m \in Approved(r) : NeedsApproval(rec.sop, m)
           /\ Obedient /\ reply[r] = "ExecuteStep" =>
                /\ ~Deterministic(rec.sop) /\ rec.status # "WaitingApproval"
                /\ \A m \in DOMAIN rec.results : NeedsApproval(rec.sop, m) => m \in Approved(r)
           /\ Obedient /\ reply[r] \in {"DeterministicStep", "CheckpointWait"} =>
                Deterministic(rec.sop) /\ rec.status # "WaitingApproval"
<1>1. r \in RunIds /\ run[r] \in SopRun /\ run[r].step \in Nat \ {0}
    BY RunFacts DEF RunIds
<1>2. PICK old : old = run[r]
    OBVIOUS
<1>3. PICK result : result = [step |-> old.step, status |-> outcome]
    OBVIOUS
<1>4. /\ rec \in SopRun /\ rec.sop = old.sop /\ rec.status = old.status /\ rec.step = old.step
      /\ rec.results = Append(old.results, result)
    BY <1>1, <1>2, <1>3, RecordedType
<1>5. old.results \in Seq([step : Nat, status : Outcomes]) /\ result \in [step : Nat, status : Outcomes]
    BY <1>1, <1>2, <1>3 DEF SopRun
<1>6. /\ Len(old.results) \in Nat /\ DOMAIN old.results = 1..Len(old.results)
      /\ Len(rec.results) = Len(old.results) + 1 /\ DOMAIN rec.results = 1..(Len(old.results) + 1)
    BY <1>4, <1>5, AppendProperties, LenProperties
<1>7. Fine(old, reply[r], Approved(r), Obedient, TRUE)
    BY <1>1, <1>2 DEF CallersInv
<1>8. Obedient => /\ old.step = Len(old.results) + 1
                  /\ \A m \in Approved(r) : NeedsApproval(old.sop, m)
    BY <1>7 DEF Fine
<1>9. rec.step + 1 \in Nat \ {0} /\ (Obedient => rec.step + 1 = Len(rec.results) + 1)
    BY <1>1, <1>2, <1>4, <1>6, <1>8
<1>10. ASSUME Obedient, reply[r] = "ExecuteStep"
       PROVE  /\ ~Deterministic(rec.sop) /\ rec.status # "WaitingApproval"
              /\ \A m \in DOMAIN rec.results : NeedsApproval(rec.sop, m) => m \in Approved(r)
    <2>1. /\ ~Deterministic(old.sop) /\ old.status # "WaitingApproval"
          /\ NeedsApproval(old.sop, old.step) => old.step \in Approved(r)
          /\ \A m \in DOMAIN old.results : NeedsApproval(old.sop, m) => m \in Approved(r)
        BY <1>7, <1>10 DEF Fine
    <2>2. ASSUME NEW m \in DOMAIN rec.results PROVE m \in DOMAIN old.results \/ m = old.step
        BY <1>6, <1>8, <1>10
    <2> QED
        BY <1>4, <2>1, <2>2
<1>11. Obedient /\ reply[r] \in {"DeterministicStep", "CheckpointWait"} =>
          Deterministic(rec.sop) /\ rec.status # "WaitingApproval"
    BY <1>4, <1>7 DEF Fine
<1> QED
    BY <1>2, <1>4, <1>8, <1>9, <1>10, <1>11

-----------------------------------------------------------------------------
(* The steps of the two callers. *)

\* A step that changes one run, at most.
LEMMA OneRunFine ==
    ASSUME TypeOK, CallersInv, loaded' = loaded, caller' = caller, NEW r \in RunIds, NEW rec, NEW rep, NEW more,
           run' = [run EXCEPT ![r] = rec], reply' = [reply EXCEPT ![r] = rep],
           active' \in {active, active \ {r}},
           Approved(r)' = more, \A q \in RunIds \ {r} : Approved(q)' = Approved(q),
           Fine(rec, rep, more, Obedient, r \in active')
    PROVE  CallersInv'
<1>1. RunIds' = RunIds /\ run'[r] = rec /\ \A q \in RunIds \ {r} : run'[q] = run[q]
    BY DEF RunIds
<1>2. /\ reply'[r] = rep /\ \A q \in RunIds \ {r} : reply'[q] = reply[q]
    <2>1. reply \in Seq(Replies) /\ RunIds = 1..Len(reply)
        BY RunFacts DEF TypeOK
    <2>2. DOMAIN reply = RunIds
        BY <2>1, LenProperties
    <2> QED
        BY <2>2
<1>4. ASSUME NEW q \in RunIds PROVE Fine(run'[q], reply'[q], Approved(q)', Obedient, q \in active')
    <2>1. CASE q = r
        BY <1>1, <1>2, <2>1
    <2>2. CASE q # r
        BY <1>1, <1>2, <2>2 DEF CallersInv
    <2> QED
        BY <2>1, <2>2
<1>5. Obedient' <=> Obedient
    BY DEF Obedient
<1>6. ASSUME NEW q \in RunIds' PROVE Fine(run[q], reply[q], Approved(q), Obedient, q \in active)'
    BY <1>1, <1>4, <1>5 DEF Fine
<1> QED
    BY <1>6 DEF CallersInv

LEMMA StartFine ==
    ASSUME TypeOK, RunsPartitioned, CallersInv, caller' = caller,
           NEW s \in SOPs, NEW written, StartRun(s, written)
    PROVE  CallersInv'
<1>1. /\ run \in Seq(SopRun) /\ RunIds = 1..Len(run) /\ Len(run) \in Nat /\ active \subseteq RunIds
      /\ reply \in Seq(Replies) /\ Len(reply) = Len(run)
    BY RunFacts DEF TypeOK
<1>2. PICK new : new = Len(run) + 1
    OBVIOUS
<1>3. new \notin RunIds /\ active' = active \cup {new} /\ loaded' = loaded /\ granted' = granted
    BY <1>1, <1>2 DEF StartRun
<1>4. Approved(new) = {} /\ \A q : Approved(q)' = Approved(q)
    BY <1>3 DEF Approved, TypeOK
<1>5. /\ NewRun(s) \in SopRun /\ NewRun(s).sop = s /\ NewRun(s).status = "Running"
      /\ NewRun(s).results = << >> /\ Len(NewRun(s).results) = 0 /\ 1 \in Nat \ {0}
      /\ 1 = Len(NewRun(s).results) + 1 /\ Obedient \in BOOLEAN
    BY NewRunType, EmptySeq DEF NewRun, Obedient
<1>6. PICK rec \in SopRun, rep \in Replies :
         run' = Append(run, rec) /\ reply' = Append(reply, rep) /\ Fine(rec, rep, {}, Obedient, TRUE)
    <2>1. CASE Deterministic(s)
        <3>1. run' = Append(run, EnterDetStep(NewRun(s), 1)) /\ reply' = Append(reply, EnterDetReply(s, 1, written))
            BY <2>1 DEF StartRun
        <3>2. Fine(EnterDetStep(NewRun(s), 1), EnterDetReply(s, 1, written), {}, Obedient, TRUE)
            <4>1. PICK fresh : fresh = NewRun(s)
                OBVIOUS
            <4>2. /\ fresh \in SopRun /\ fresh.sop = s /\ fresh.status # "WaitingApproval"
                  /\ 1 \in Nat \ {0} /\ 1 = Len(fresh.results) + 1
                BY <1>5, <4>1
            <4>3. Fine(EnterDetStep(fresh, 1), EnterDetReply(fresh.sop, 1, written), {}, Obedient, TRUE)
                BY <1>5, <2>1, <4>2, EnterDetStepFine
            <4> QED
                BY <4>1, <4>2, <4>3
        <3> QED
            BY <1>5, <3>1, <3>2, EnterDetStepType, ReplyTypes
    <2>2. CASE ~Deterministic(s)
        <3>1. run' = Append(run, EnterStep(NewRun(s), 1)) /\ reply' = Append(reply, EnterReply(s, 1))
            BY <2>2 DEF StartRun
        <3>2. \A m \in DOMAIN NewRun(s).results : FALSE
            BY <1>5, EmptySeq
        <3>3. Fine(EnterStep(NewRun(s), 1), EnterReply(s, 1), {}, Obedient, TRUE)
            <4>1. PICK fresh : fresh = NewRun(s)
                OBVIOUS
            <4>2. /\ fresh \in SopRun /\ fresh.sop = s /\ fresh.status # "WaitingApproval"
                  /\ 1 \in Nat \ {0} /\ 1 = Len(fresh.results) + 1
                  /\ \A m \in DOMAIN fresh.results : FALSE
                BY <1>5, <3>2, <4>1
            <4>3. Fine(EnterStep(fresh, 1), EnterReply(fresh.sop, 1), {}, Obedient, TRUE)
                BY <1>5, <2>2, <4>2, EnterStepFine
            <4> QED
                BY <4>1, <4>2, <4>3
        <3> QED
            BY <1>5, <3>1, <3>3, EnterStepType, ReplyTypes
    <2> QED
        BY <2>1, <2>2
<1>7. RunIds' = RunIds \cup {new} /\ run'[new] = rec /\ \A q \in RunIds : run'[q] = run[q]
    BY <1>2, <1>6, StartFacts
<1>8. reply'[new] = rep /\ \A q \in RunIds : reply'[q] = reply[q]
    BY <1>1, <1>2, <1>6, AppendProperties
<1>9. ASSUME NEW q \in RunIds' PROVE Fine(run[q], reply[q], Approved(q), Obedient, q \in active)'
    <2>1. CASE q = new
        BY <1>3, <1>4, <1>6, <1>7, <1>8, <2>1 DEF Fine, Obedient
    <2>2. CASE q # new
        <3>1. q \in RunIds /\ (q \in active' <=> q \in active)
            BY <1>3, <1>7, <2>2
        <3>2. Fine(run[q], reply[q], Approved(q), Obedient, q \in active)
            BY <3>1 DEF CallersInv
        <3> QED
            BY <1>4, <1>7, <1>8, <3>1, <3>2 DEF Fine, Obedient
    <2> QED
        BY <2>1, <2>2
<1> QED
    BY <1>3, <1>9 DEF CallersInv

LEMMA AdvanceFine ==
    ASSUME TypeOK, CallersInv, caller' = caller, NEW r \in RunIds, NEW outcome \in Outcomes,
           AdvanceStep(r, outcome), Obedient => reply[r] = "ExecuteStep"
    PROVE  CallersInv'
<1>1. PICK rec : rec = Recorded(r, outcome)
    OBVIOUS
<1>2. r \in active /\ loaded' = loaded /\ granted' = granted
    BY DEF AdvanceStep
<1>3. /\ rec \in SopRun /\ rec.step + 1 \in Nat \ {0}
      /\ Obedient =>
           /\ rec.step + 1 = Len(rec.results) + 1 /\ ~Deterministic(rec.sop) /\ rec.status # "WaitingApproval"
           /\ \A m \in Approved(r) : NeedsApproval(rec.sop, m)
           /\ \A m \in DOMAIN rec.results : NeedsApproval(rec.sop, m) => m \in Approved(r)
    BY <1>1, <1>2, RecordedFine
<1>6. \A q : Approved(q)' = Approved(q)
    BY <1>2 DEF Approved
<1>4. ASSUME NEW status \in Terminal, FinishRun(r, rec, status), reply' = [reply EXCEPT ![r] = status]
      PROVE  CallersInv'
    <2>1. PICK new : new = [rec EXCEPT !.status = status, !.age = 0]
        OBVIOUS
    <2>2. run' = [run EXCEPT ![r] = new] /\ active' = active \ {r}
        BY <1>4, <2>1 DEF FinishRun
    <2>3. new.sop = rec.sop /\ new.results = rec.results
        BY <1>3, <2>1 DEF SopRun
    <2>4. Fine(new, status, Approved(r), Obedient, FALSE)
        BY <1>3, <2>3, LeftFine DEF Obedient
    <2>5. Fine(new, status, Approved(r), Obedient, r \in active')
        BY <2>2, <2>4 DEF Fine
    <2> QED
        BY <1>2, <1>4, <1>6, <2>2, <2>5, OneRunFine
<1>5. ASSUME run' = [run EXCEPT ![r] = EnterStep(rec, rec.step + 1)],
             reply' = [reply EXCEPT ![r] = EnterReply(rec.sop, rec.step + 1)], active' = active
      PROVE  CallersInv'
    <2>1. Fine(EnterStep(rec, rec.step + 1), EnterReply(rec.sop, rec.step + 1), Approved(r), Obedient, TRUE)
        BY <1>3, EnterStepFine DEF Obedient
    <2>2. PICK new, rep : new = EnterStep(rec, rec.step + 1) /\ rep = EnterReply(rec.sop, rec.step + 1)
        OBVIOUS
    <2>3. Fine(new, rep, Approved(r), Obedient, r \in active')
        BY <1>2, <1>5, <2>1, <2>2 DEF Fine
    <2> QED
        BY <1>2, <1>5, <1>6, <2>2, <2>3, OneRunFine
<1> QED
    BY <1>1, <1>4, <1>5 DEF AdvanceStep, Terminal

LEMMA ApproveFine ==
    ASSUME TypeOK, CallersInv, caller' = caller, NEW r \in RunIds, ApproveStep(r)
    PROVE  CallersInv'
<1>1. PICK rec : rec = run[r]
    OBVIOUS
<1>2. r \in active /\ rec \in SopRun /\ rec.sop \in SOPs /\ rec.step \in Nat \ {0} /\ rec.status = "WaitingApproval"
    BY <1>1, RunFacts DEF ApproveStep
<1>3. /\ loaded = SOPs /\ Fine(rec, reply[r], Approved(r), Obedient, TRUE)
    BY <1>1, <1>2 DEF CallersInv
<1>4. /\ run' = [run EXCEPT ![r] = Released(rec)] /\ reply' = [reply EXCEPT ![r] = "ExecuteStep"]
      /\ granted' = granted \cup {<<r, rec.step>>} /\ active' = active /\ loaded' = loaded
    BY <1>1, <1>2, <1>3 DEF ApproveStep
<1>5. PICK more : more = Approved(r) \cup {rec.step}
    OBVIOUS
<1>6. Approved(r)' = more /\ \A q \in RunIds \ {r} : Approved(q)' = Approved(q)
    BY <1>2, <1>4, <1>5 DEF Approved
<1>7. Fine(Released(rec), "ExecuteStep", more, Obedient, TRUE)
    BY <1>2, <1>3, <1>5, ReleasedFine DEF Obedient
<1>8. Fine(Released(rec), "ExecuteStep", more, Obedient, r \in active')
    BY <1>2, <1>4, <1>7 DEF Fine
<1> QED
    BY <1>4, <1>6, <1>8, OneRunFine

LEMMA AdvanceDetFine ==
    ASSUME TypeOK, CallersInv, caller' = caller, NEW r \in RunIds, NEW written,
           AdvanceDeterministicStep(r, written), reply[r] \in {"DeterministicStep", "CheckpointWait"}
    PROVE  CallersInv'
<1>1. PICK rec : rec = Recorded(r, "done")
    OBVIOUS
<1>2. r \in active /\ loaded' = loaded /\ granted' = granted /\ "done" \in Outcomes
    BY DEF AdvanceDeterministicStep, Outcomes
<1>3. /\ rec \in SopRun /\ rec.step + 1 \in Nat \ {0}
      /\ Obedient =>
           /\ rec.step + 1 = Len(rec.results) + 1 /\ Deterministic(rec.sop) /\ rec.status # "WaitingApproval"
           /\ \A m \in Approved(r) : NeedsApproval(rec.sop, m)
    BY <1>1, <1>2, RecordedFine
<1>4. \A q : Approved(q)' = Approved(q)
    BY <1>2 DEF Approved
<1>5. ASSUME FinishRun(r, rec, "Completed"), reply' = [reply EXCEPT ![r] = "Completed"]
      PROVE  CallersInv'
    <2>1. PICK new : new = [rec EXCEPT !.status = "Completed", !.age = 0]
        OBVIOUS
    <2>2. run' = [run EXCEPT ![r] = new] /\ active' = active \ {r}
        BY <1>5, <2>1 DEF FinishRun
    <2>3. new.sop = rec.sop /\ new.results = rec.results
        BY <1>3, <2>1 DEF SopRun
    <2>4. Fine(new, "Completed", Approved(r), Obedient, FALSE)
        BY <1>3, <2>3, LeftFine DEF Obedient
    <2>5. Fine(new, "Completed", Approved(r), Obedient, r \in active')
        BY <2>2, <2>4 DEF Fine
    <2> QED
        BY <1>2, <1>4, <1>5, <2>2, <2>5, OneRunFine
<1>6. ASSUME run' = [run EXCEPT ![r] = EnterDetStep(rec, rec.step + 1)],
             reply' = [reply EXCEPT ![r] = EnterDetReply(rec.sop, rec.step + 1, written)], active' = active
      PROVE  CallersInv'
    <2>1. Fine(EnterDetStep(rec, rec.step + 1), EnterDetReply(rec.sop, rec.step + 1, written), Approved(r), Obedient, TRUE)
        BY <1>3, EnterDetStepFine DEF Obedient
    <2>2. PICK new, rep : new = EnterDetStep(rec, rec.step + 1) /\ rep = EnterDetReply(rec.sop, rec.step + 1, written)
        OBVIOUS
    <2>3. Fine(new, rep, Approved(r), Obedient, r \in active')
        BY <1>2, <1>6, <2>1, <2>2 DEF Fine
    <2> QED
        BY <1>2, <1>4, <1>6, <2>2, <2>3, OneRunFine
<1> QED
    BY <1>1, <1>5, <1>6 DEF AdvanceDeterministicStep

LEMMA ObeyCheckpointFine ==
    ASSUME TypeOK, CallersInv, caller' = caller, Obedient, NEW p \in persisted, NEW written,
           ObeyCheckpoint(p, written)
    PROVE  CallersInv'
<1>1. PICK r, n : r = p.run /\ n = p.last + 1
    OBVIOUS
<1>2. PICK rec : rec = run[r]
    OBVIOUS
<1>3. /\ r \in active /\ r \in RunIds /\ rec \in SopRun /\ rec.step \in Nat \ {0}
      /\ reply[r] = "CheckpointWait" /\ p.last = rec.step - 1
    BY <1>1, <1>2, RunFacts DEF ObeyCheckpoint, RunIds
<1>4. n = rec.step /\ n \in Nat \ {0}
    BY <1>1, <1>3
<1>5. Fine(rec, "CheckpointWait", Approved(r), Obedient, TRUE)
    BY <1>2, <1>3 DEF CallersInv
<1>6. PICK new : new = Released(rec)
    OBVIOUS
<1>7. /\ new \in SopRun /\ new.sop = rec.sop /\ new.results = rec.results /\ new.status = "Running"
    BY <1>3, <1>6, ReleasedType DEF Released, SopRun
<1>8. /\ run' = [run EXCEPT ![r] = EnterDetStep(new, n)]
      /\ reply' = [reply EXCEPT ![r] = EnterDetReply(rec.sop, n, written)]
      /\ UNCHANGED <<loaded, active, granted>>
    BY <1>1, <1>2, <1>6 DEF ObeyCheckpoint, ResumeDeterministicRun
<1>9. \A q : Approved(q)' = Approved(q)
    BY <1>8 DEF Approved
<1>10. /\ Deterministic(rec.sop) /\ n = Len(new.results) + 1
       /\ \A m \in Approved(r) : NeedsApproval(rec.sop, m)
    BY <1>4, <1>5, <1>7 DEF Fine
<1>11. Fine(EnterDetStep(new, n), EnterDetReply(new.sop, n, written), Approved(r), TRUE, TRUE)
    BY <1>4, <1>7, <1>10, EnterDetStepFine
<1>12. PICK rec2, rep2 : rec2 = EnterDetStep(new, n) /\ rep2 = EnterDetReply(rec.sop, n, written)
    OBVIOUS
<1>13. Fine(rec2, rep2, Approved(r), Obedient, r \in active')
    BY <1>3, <1>7, <1>8, <1>11, <1>12 DEF Fine
<1> QED
    BY <1>3, <1>8, <1>9, <1>12, <1>13, OneRunFine

LEMMA CancelFine ==
    ASSUME TypeOK, CallersInv, caller' = caller, NEW r \in RunIds, CancelRun(r)
    PROVE  CallersInv'
<1>1. PICK rec : rec = run[r]
    OBVIOUS
<1>2. PICK new : new = [rec EXCEPT !.status = "Cancelled", !.age = 0]
    OBVIOUS
<1>3. /\ rec \in SopRun /\ run' = [run EXCEPT ![r] = new] /\ active' = active \ {r}
      /\ UNCHANGED <<loaded, reply, granted>>
    BY <1>1, <1>2, RunFacts DEF CancelRun, FinishRun
<1>4. new.sop = rec.sop /\ new.results = rec.results
    BY <1>2, <1>3 DEF SopRun
<1>5. Fine(rec, reply[r], Approved(r), Obedient, r \in active)
    BY <1>1 DEF CallersInv
<1>6. Fine(new, reply[r], Approved(r), Obedient, FALSE)
    BY <1>4, <1>5 DEF Fine
<1>7. Fine(new, reply[r], Approved(r), Obedient, r \in active')
    BY <1>3, <1>6 DEF Fine
<1>8. reply' = [reply EXCEPT ![r] = reply[r]]
    BY <1>3 DEF TypeOK
<1>9. \A q : Approved(q)' = Approved(q)
    BY <1>3 DEF Approved
<1> QED
    BY <1>3, <1>7, <1>8, <1>9, OneRunFine

LEMMA TimeoutsFine ==
    ASSUME TypeOK, CallersInv, caller' = caller, CheckApprovalTimeouts
    PROVE  CallersInv'
<1> DEFINE due == {r \in active : Overdue(r)}
<1>1. /\ run' = [r \in RunIds |-> IF r \in due THEN Released(run[r]) ELSE run[r]]
      /\ reply' = [r \in RunIds |-> IF r \in due THEN "ExecuteStep" ELSE reply[r]]
      /\ granted' = granted \cup {<<r, run[r].step>> : r \in due}
      /\ active' = active /\ loaded' = loaded
    BY DEF CheckApprovalTimeouts
<1>2. RunIds' = RunIds
    BY <1>1 DEF RunIds
<1>3. \A r \in due : r \in active /\ run[r].status = "WaitingApproval"
    BY DEF Overdue
<1> HIDE DEF due
<1>4. ASSUME NEW r \in RunIds PROVE Fine(run'[r], reply'[r], Approved(r)', Obedient, r \in active)
    <2>1. PICK rec : rec = run[r]
        OBVIOUS
    <2>2. rec \in SopRun /\ rec.step \in Nat /\ Fine(rec, reply[r], Approved(r), Obedient, r \in active)
        BY <2>1, RunFacts DEF CallersInv
    <2>3. CASE r \in due
        <3>1. PICK more : more = Approved(r) \cup {rec.step}
            OBVIOUS
        <3>2. Approved(r)' = more
            BY <1>1, <2>1, <2>2, <2>3, <3>1 DEF Approved
        <3>3. Fine(rec, reply[r], Approved(r), Obedient, TRUE) /\ rec.status = "WaitingApproval"
            BY <1>3, <2>1, <2>2, <2>3 DEF Fine
        <3>4. Fine(Released(rec), "ExecuteStep", more, Obedient, TRUE)
            BY <2>2, <3>1, <3>3, ReleasedFine DEF Obedient
        <3>5. run'[r] = Released(rec) /\ reply'[r] = "ExecuteStep"
            BY <1>1, <2>1, <2>3
        <3> QED
            BY <1>3, <2>3, <3>2, <3>4, <3>5 DEF Fine
    <2>4. CASE r \notin due
        <3>1. Approved(r)' = Approved(r)
            BY <1>1, <2>4 DEF Approved
        <3>2. run'[r] = rec /\ reply'[r] = reply[r]
            BY <1>1, <2>1, <2>4
        <3> QED
            BY <2>2, <3>1, <3>2
    <2> QED
        BY <2>3, <2>4
<1>5. ASSUME NEW r \in RunIds' PROVE Fine(run[r], reply[r], Approved(r), Obedient, r \in active)'
    BY <1>1, <1>2, <1>4 DEF Fine, Obedient
<1> QED
    BY <1>1, <1>5 DEF CallersInv

\* Time passes: a run that waits goes on waiting, with its timestamp.
LEMMA TickFine ==
    ASSUME TypeOK, CallersInv, caller' = caller, Tick
    PROVE  CallersInv'
<1>1. RunIds' = RunIds /\ UNCHANGED <<loaded, active, reply, granted>>
    BY DEF Tick, RunIds
<1>2. \A r : Approved(r)' = Approved(r)
    BY <1>1 DEF Approved
<1>3. ASSUME NEW r \in RunIds PROVE Fine(run'[r], reply[r], Approved(r), Obedient, r \in active)
    <2>1. PICK rec : rec = run[r]
        OBVIOUS
    <2>2. rec \in SopRun /\ Fine(rec, reply[r], Approved(r), Obedient, r \in active)
        BY <2>1, RunFacts DEF CallersInv
    <2>3. CASE r \in active
        <3>1. PICK w : w = IF rec.waited = NotWaiting THEN rec.waited ELSE Min2(rec.waited + 1, ApprovalTimeout)
            OBVIOUS
        <3>2. rec.waited # NotWaiting => w # NotWaiting
            BY <2>2, <3>1, SopAssumption DEF SopRun, NotWaiting, Min2
        <3>3. run'[r] = [rec EXCEPT !.waited = w]
            BY <2>1, <2>3, <3>1 DEF Tick
        <3>4. PICK new : new = [rec EXCEPT !.waited = w]
            OBVIOUS
        <3>5. /\ new.sop = rec.sop /\ new.status = rec.status /\ new.step = rec.step
              /\ new.results = rec.results /\ new.waited = w
            BY <2>2, <3>4 DEF SopRun
        <3> QED
            BY <2>2, <3>2, <3>3, <3>4, <3>5 DEF Fine
    <2>4. CASE r \notin active
        <3>1. PICK new : new = [rec EXCEPT !.age = Min2(rec.age + 1, Def[rec.sop].cooldown)]
            OBVIOUS
        <3>2. run'[r] = new
            BY <2>1, <2>4, <3>1 DEF Tick
        <3>3. new.sop = rec.sop /\ new.results = rec.results
            BY <2>2, <3>1 DEF SopRun
        <3> QED
            BY <2>2, <2>4, <3>2, <3>3 DEF Fine
    <2> QED
        BY <2>3, <2>4
<1>4. ASSUME NEW r \in RunIds' PROVE Fine(run[r], reply[r], Approved(r), Obedient, r \in active)'
    BY <1>1, <1>2, <1>3 DEF Fine, Obedient
<1> QED
    BY <1>1, <1>4 DEF CallersInv

LEMMA CallersInvNext ==
    ASSUME TypeOK, RunsPartitioned, CallersInv, [CallerNext]_callerVars
    PROVE  CallersInv'
<1>1. CASE caller' = caller /\ ToolNext /\ ~Obedient
    BY <1>1, StartFine, AdvanceFine, ApproveFine, TickFine DEF ToolNext, ExecuteTool, AdvanceTool, ApproveTool
<1>2. CASE caller' = caller /\ ProtocolNext /\ Obedient
    <2>1. ASSUME NEW s \in SOPs, NEW written, StartRun(s, written) PROVE CallersInv'
        BY <1>2, <2>1, StartFine
    <2>2. ASSUME NEW r \in RunIds, NEW outcome \in Outcomes, ObeyExecute(r, outcome) PROVE CallersInv'
        BY <1>2, <2>2, AdvanceFine DEF ObeyExecute
    <2>3. ASSUME NEW r \in RunIds, ObeyWait(r) \/ CancelRun(r) PROVE CallersInv'
        BY <1>2, <2>3, ApproveFine, CancelFine DEF ObeyWait
    <2>4. ASSUME NEW r \in RunIds, NEW written, ObeyDeterministic(r, written) PROVE CallersInv'
        BY <1>2, <2>4, AdvanceDetFine DEF ObeyDeterministic
    <2>5. ASSUME NEW p \in persisted, NEW written, ObeyCheckpoint(p, written) PROVE CallersInv'
        BY <1>2, <2>5, ObeyCheckpointFine
    <2>6. CASE CheckApprovalTimeouts \/ Tick
        BY <1>2, <2>6, TimeoutsFine, TickFine
    <2> QED
        BY <1>2, <2>1, <2>2, <2>3, <2>4, <2>5, <2>6 DEF ProtocolNext
<1>3. CASE UNCHANGED callerVars
    <2>1. UNCHANGED <<loaded, run, active, reply, granted, caller>>
        BY <1>3 DEF callerVars, vars
    <2>2. RunIds' = RunIds /\ \A r : Approved(r)' = Approved(r)
        BY <2>1 DEF RunIds, Approved
    <2>3. ASSUME NEW r \in RunIds' PROVE Fine(run[r], reply[r], Approved(r), Obedient, r \in active)'
        BY <2>1, <2>2 DEF CallersInv, Fine, Obedient
    <2> QED
        BY <2>1, <2>3 DEF CallersInv
<1>4. caller = "tools" => ~Obedient
    BY DEF Obedient
<1> QED
    BY <1>1, <1>2, <1>3, <1>4 DEF CallerNext

-----------------------------------------------------------------------------
(* The theorems. *)

LEMMA CallersAreUsers == [CallerNext]_callerVars => [Next]_vars
BY DEF CallerNext, callerVars, ToolNext, ExecuteTool, AdvanceTool, ApproveTool, ProtocolNext, Next,
       ObeyExecute, ObeyWait, ObeyDeterministic, ObeyCheckpoint

LEMMA CallersKeep == CallerSpec => [](TypeOK /\ RunsPartitioned)
<1>1. CallerSpec => Spec
    BY CallersAreUsers, PTL DEF CallerSpec, Spec
<1> QED
    BY <1>1, TypeCorrect, Partitioned, PTL

LEMMA CallersInvAlways == CallerSpec => []CallersInv
<1>1. Init => CallersInv
    <2> SUFFICES ASSUME Init PROVE CallersInv
        OBVIOUS
    <2>1. RunIds = {} /\ loaded = SOPs
        BY DEF Init, RunIds
    <2> QED
        BY <2>1 DEF CallersInv
<1>2. TypeOK /\ RunsPartitioned /\ CallersInv /\ [CallerNext]_callerVars => CallersInv'
    BY CallersInvNext
<1> QED
    BY <1>1, <1>2, CallersKeep, PTL DEF CallerSpec

(* requires_confirmation, resolve_step_action: a caller that follows the returned      *)
(* actions reports no step that needs an approval without one, for any SOPs and any    *)
(* mixture of approvals, timeouts and cancellations.                                   *)
THEOREM ObedientCallersAreGated == CallerSpec => []ObedientIsGated
<1>1. ASSUME TypeOK, CallersInv, Obedient PROVE ApprovalBeforeExecution
    <2> SUFFICES ASSUME NEW r \in RunIds, ~Deterministic(run[r].sop), NEW i \in DOMAIN run[r].results,
                        NeedsApproval(run[r].sop, i)
                 PROVE  <<r, i>> \in granted
        BY DEF ApprovalBeforeExecution
    <2>1. Fine(run[r], reply[r], Approved(r), Obedient, r \in active)
        BY <1>1 DEF CallersInv
    <2>2. i \in Approved(r)
        BY <1>1, <2>1 DEF Fine
    <2> QED
        BY <2>2 DEF Approved
<1> QED
    BY <1>1, CallersInvAlways, CallersKeep, PTL DEF ObedientIsGated

(* approve_step, check_approval_timeouts: no approval is spent on a step nobody asked *)
(* about.                                                                             *)
THEOREM ApprovalsWereAskedFor == CallerSpec => []ApprovalsAreAskedFor
<1>1. ASSUME TypeOK, CallersInv PROVE ApprovalsAreAskedFor
    <2> SUFFICES ASSUME Obedient, NEW g \in granted PROVE NeedsApproval(run[g[1]].sop, g[2])
        BY DEF ApprovalsAreAskedFor
    <2>1. PICK r \in RunIds, n \in Nat : g = <<r, n>>
        BY <1>1 DEF TypeOK
    <2>2. n \in Approved(r) /\ Fine(run[r], reply[r], Approved(r), Obedient, r \in active)
        BY <1>1, <2>1 DEF Approved, CallersInv
    <2> QED
        BY <1>1, <2>1, <2>2 DEF Fine
<1> QED
    BY <1>1, CallersInvAlways, CallersKeep, PTL

(* advance_deterministic_step, resume_deterministic_run: a run that is at a checkpoint *)
(* is paused there, as long as its caller does what it is told.                        *)
THEOREM CheckpointsPause == CallerSpec => []CheckpointPauses
<1>1. ASSUME TypeOK, CallersInv PROVE CheckpointPauses
    <2> SUFFICES ASSUME Obedient, NEW r \in active, Deterministic(run[r].sop), IsCheckpoint(run[r].sop, run[r].step)
                 PROVE  run[r].status = "PausedCheckpoint"
        BY DEF CheckpointPauses
    <2>1. r \in RunIds
        BY <1>1 DEF TypeOK
    <2>2. Fine(run[r], reply[r], Approved(r), Obedient, r \in active)
        BY <1>1, <2>1 DEF CallersInv
    <2> QED
        BY <2>2 DEF Fine
<1> QED
    BY <1>1, CallersInvAlways, CallersKeep, PTL

(* sop_status: of either caller, a run that was told to wait for an approval is listed *)
(* as waiting, with the timestamp the timeout is counted from.                         *)
THEOREM GatesAreVisible == CallerSpec => []GateIsVisible
<1>1. ASSUME TypeOK, CallersInv PROVE GateIsVisible
    <2> SUFFICES ASSUME NEW r \in active, reply[r] = "WaitApproval"
                 PROVE  run[r].status = "WaitingApproval" /\ run[r].waited # NotWaiting
        BY DEF GateIsVisible
    <2>1. r \in RunIds
        BY <1>1 DEF TypeOK
    <2>2. Fine(run[r], reply[r], Approved(r), Obedient, r \in active)
        BY <1>1, <2>1 DEF CallersInv
    <2> QED
        BY <2>2 DEF Fine
<1> QED
    BY <1>1, CallersInvAlways, CallersKeep, PTL

-----------------------------------------------------------------------------
(* Steps in order, for the obedient caller as for the tools. *)

\* A step that replaces one record by one that is in order.
LEMMA OneRunInOrder ==
    ASSUME TypeOK, StepsInOrder, NEW r \in RunIds, NEW new \in SopRun, InOrder(new),
           run' = [run EXCEPT ![r] = new]
    PROVE  StepsInOrder'
<1>1. RunIds' = RunIds /\ \A q \in RunIds : run'[q] = IF q = r THEN new ELSE run[q]
    BY DEF RunIds
<1>2. ASSUME NEW q \in RunIds PROVE InOrder(run'[q])
    BY <1>1 DEF StepsInOrder
<1> QED
    BY <1>1, <1>2 DEF StepsInOrder, InOrder, Total

\* Going from one live status to another at the same step leaves a run in order.
LEMMA LiveInOrder ==
    ASSUME NEW old \in SopRun, InOrder(old), old.status \in Live, NEW new \in SopRun,
           new.status \in Live \cup {"Cancelled"},
           new.sop = old.sop, new.step = old.step, new.results = old.results
    PROVE  InOrder(new)
<1>1. new.status # "Completed" /\ new.status # "Failed"
    BY DEF Live
<1> QED
    BY <1>1 DEF InOrder

LEMMA AdvanceDetInOrder ==
    ASSUME TypeOK, RunsPartitioned, StepsInOrder, NEW r \in RunIds, NEW written, AdvanceDeterministicStep(r, written)
    PROVE  StepsInOrder'
<1>1. PICK rec, old : rec = Recorded(r, "done") /\ old = run[r]
    OBVIOUS
<1>2. /\ "done" \in Outcomes /\ r \in active /\ old \in SopRun /\ old.status \in Live /\ InOrder(old)
      /\ old.step \in Nat \ {0}
    BY <1>1, RunFacts DEF Outcomes, AdvanceDeterministicStep, RunsPartitioned, StepsInOrder
<1>3. /\ rec \in SopRun /\ rec.sop = old.sop /\ rec.status = old.status /\ rec.step = old.step
      /\ rec.results = Append(old.results, [step |-> old.step, status |-> "done"])
    BY <1>1, <1>2, RecordedType
<1>4. CASE old.step + 1 > Total(old.sop) /\ FinishRun(r, rec, "Completed")
    <2>1. PICK new : new = [rec EXCEPT !.status = "Completed", !.age = 0]
        OBVIOUS
    <2>2. run' = [run EXCEPT ![r] = new]
        BY <1>4, <2>1 DEF FinishRun
    <2>3. new \in SopRun /\ new.sop = old.sop /\ new.results = rec.results /\ new.status = "Completed"
        BY <1>3, <2>1 DEF SopRun, Terminal
    <2>4. InOrder(new)
        BY <1>2, <1>3, <1>4, <2>3, ReportInOrder
    <2> QED
        BY <2>2, <2>3, <2>4, OneRunInOrder
<1>5. CASE old.step + 1 <= Total(old.sop) /\ run' = [run EXCEPT ![r] = EnterDetStep(rec, rec.step + 1)]
    <2>1. rec.step + 1 \in Nat \ {0} /\ rec.step + 1 = old.step + 1
        BY <1>2, <1>3
    <2>2. PICK new : new = EnterDetStep(rec, rec.step + 1)
        OBVIOUS
    <2>3. new \in SopRun /\ new.sop = old.sop /\ new.results = rec.results /\ new.status \in Live /\ new.step = old.step + 1
        BY <1>2, <1>3, <2>1, <2>2, EnterDetStepType, EnterDetStepKeeps
    <2>4. InOrder(new)
        BY <1>2, <1>3, <1>5, <2>3, ReportInOrder
    <2> QED
        BY <1>5, <2>2, <2>3, <2>4, OneRunInOrder
<1> QED
    BY <1>1, <1>3, <1>4, <1>5 DEF AdvanceDeterministicStep

LEMMA ObeyCheckpointInOrder ==
    ASSUME TypeOK, RunsPartitioned, StepsInOrder, NEW p \in persisted, NEW written, ObeyCheckpoint(p, written)
    PROVE  StepsInOrder'
<1>1. PICK r, n, old, freed : r = p.run /\ n = p.last + 1 /\ old = run[p.run] /\ freed = Released(old)
    OBVIOUS
<1>2. /\ r \in active /\ r \in RunIds /\ old \in SopRun /\ old.step \in Nat \ {0} /\ p.last = old.step - 1
    BY <1>1, RunFacts DEF ObeyCheckpoint, RunIds
<1>3. n = old.step /\ n \in Nat \ {0} /\ old.status \in Live /\ InOrder(old)
    BY <1>1, <1>2 DEF RunsPartitioned, StepsInOrder
<1>4. freed \in SopRun /\ freed.sop = old.sop /\ freed.status \in Live /\ freed.results = old.results
    BY <1>1, <1>2, ReleasedType DEF Released, SopRun, Live
<1>5. PICK new : new = EnterDetStep(freed, n)
    OBVIOUS
<1>6. new \in SopRun /\ new.sop = old.sop /\ new.status \in Live /\ new.step = old.step /\ new.results = old.results
    BY <1>3, <1>4, <1>5, EnterDetStepType, EnterDetStepKeeps
<1>7. InOrder(new)
    BY <1>2, <1>3, <1>6, LiveInOrder
<1>8. run' = [run EXCEPT ![r] = new]
    BY <1>1, <1>5 DEF ObeyCheckpoint, ResumeDeterministicRun
<1> QED
    BY <1>2, <1>6, <1>7, <1>8, OneRunInOrder

LEMMA CancelInOrder ==
    ASSUME TypeOK, RunsPartitioned, StepsInOrder, NEW r \in RunIds, CancelRun(r)
    PROVE  StepsInOrder'
<1>1. PICK old : old = run[r]
    OBVIOUS
<1>2. PICK new : new = [old EXCEPT !.status = "Cancelled", !.age = 0]
    OBVIOUS
<1>3. old \in SopRun /\ old.status \in Live /\ InOrder(old) /\ run' = [run EXCEPT ![r] = new]
    BY <1>1, <1>2, RunFacts DEF CancelRun, FinishRun, RunsPartitioned, StepsInOrder
<1>4. /\ new \in SopRun /\ new.sop = old.sop /\ new.step = old.step /\ new.results = old.results
      /\ new.status = "Cancelled"
    BY <1>2, <1>3 DEF SopRun, Terminal
<1>5. InOrder(new)
    BY <1>3, <1>4, LiveInOrder
<1> QED
    BY <1>3, <1>4, <1>5, OneRunInOrder

LEMMA TimeoutsInOrder ==
    ASSUME TypeOK, RunsPartitioned, StepsInOrder, CheckApprovalTimeouts
    PROVE  StepsInOrder'
<1> DEFINE due == {r \in active : Overdue(r)}
<1>1. run' = [r \in RunIds |-> IF r \in due THEN Released(run[r]) ELSE run[r]]
    BY DEF CheckApprovalTimeouts
<1> HIDE DEF due
<1>2. RunIds' = RunIds
    BY <1>1 DEF RunIds
<1>3. due \subseteq active /\ active \subseteq RunIds
    BY DEF due, TypeOK
<1>4. ASSUME NEW r \in RunIds PROVE InOrder(run'[r])
    <2>1. PICK old, new : old = run[r] /\ new = Released(old)
        OBVIOUS
    <2>2. old \in SopRun /\ InOrder(old)
        BY <2>1, RunFacts DEF StepsInOrder
    <2>3. CASE r \in due
        <3>1. new \in SopRun /\ new.sop = old.sop /\ new.step = old.step /\ new.results = old.results /\ new.status \in Live
            BY <2>1, <2>2, ReleasedType DEF Released, SopRun, Live
        <3>2. old.status \in Live
            BY <1>3, <2>1, <2>3 DEF RunsPartitioned
        <3>3. InOrder(new)
            BY <2>2, <3>1, <3>2, LiveInOrder
        <3> QED
            BY <1>1, <2>1, <2>3, <3>3
    <2>4. CASE r \notin due
        BY <1>1, <2>1, <2>2, <2>4
    <2> QED
        BY <2>3, <2>4
<1> QED
    BY <1>2, <1>4 DEF StepsInOrder, InOrder, Total

(* advance_step, advance_deterministic_step, resume_deterministic_run: whoever of the  *)
(* two calls, the steps of a run are reported once each and in order, and its status   *)
(* agrees with them.                                                                   *)
THEOREM CallersKeepOrder == CallerSpec => []StepsInOrder
<1>1. Init => StepsInOrder
    <2> SUFFICES ASSUME Init PROVE StepsInOrder
        OBVIOUS
    <2>1. RunIds = {}
        BY DEF Init, RunIds
    <2> QED
        BY <2>1 DEF StepsInOrder
<1>2. ASSUME TypeOK, RunsPartitioned, StepsInOrder, [CallerNext]_callerVars PROVE StepsInOrder'
    <2>1. CASE [ToolNext]_vars
        BY <1>2, <2>1, InOrderStep
    <2>2. CASE ProtocolNext
        <3>1. ASSUME NEW s \in SOPs, NEW written \in WriteOutcomes, StartRun(s, written) PROVE ToolNext
            BY <3>1 DEF ToolNext, ExecuteTool
        <3>2. ASSUME NEW r \in RunIds, NEW outcome \in Outcomes, ObeyExecute(r, outcome) PROVE ToolNext
            BY <3>2 DEF ToolNext, AdvanceTool, ObeyExecute
        <3>3. ASSUME NEW r \in RunIds, ObeyWait(r) PROVE ToolNext
            BY <3>3 DEF ToolNext, ApproveTool, ObeyWait
        <3>4. CASE Tick
            BY <1>2, <3>4, InOrderStep DEF ToolNext
        <3>5. ASSUME NEW r \in RunIds, NEW written, ObeyDeterministic(r, written) PROVE StepsInOrder'
            BY <1>2, <3>5, AdvanceDetInOrder DEF ObeyDeterministic
        <3>6. ASSUME NEW p \in persisted, NEW written, ObeyCheckpoint(p, written) PROVE StepsInOrder'
            BY <1>2, <3>6, ObeyCheckpointInOrder
        <3>7. ASSUME NEW r \in RunIds, CancelRun(r) PROVE StepsInOrder'
            BY <1>2, <3>7, CancelInOrder
        <3>8. CASE CheckApprovalTimeouts
            BY <1>2, <3>8, TimeoutsInOrder
        <3> QED
            BY <1>2, <2>2, <3>1, <3>2, <3>3, <3>4, <3>5, <3>6, <3>7, <3>8, InOrderStep DEF ProtocolNext
    <2> QED
        BY <1>2, <2>1, <2>2 DEF CallerNext, callerVars
<1> QED
    BY <1>1, <1>2, CallersKeep, PTL DEF CallerSpec

=============================================================================

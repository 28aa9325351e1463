------------------------------ MODULE CronProofs ------------------------------
(***************************************************************************)
(* Theorems about Cron for any jobs, schedules, limits and faults.         *)
(***************************************************************************)
EXTENDS Cron, TLAPS, FiniteSetTheorems, InductionFacts

LEMMA NextFacts ==
    ASSUME NEW s, ScheduleShape(s), NEW from \in Nat, s.kind = "cron" => Later(s, from) # {}
    PROVE  /\ NextRun(s, from) \in Nat
           /\ s.kind # "every" => NextRun(s, from) \in s.times
           /\ s.kind # "at" => NextRun(s, from) > from
<1>1. The(s) \in s.times /\ s.times \subseteq Nat
    BY DEF ScheduleShape, The
<1>2. CASE s.kind = "every"
    <2>1. NextRun(s, from) = from + The(s) /\ The(s) # 0
        BY <1>1, <1>2 DEF NextRun, ScheduleShape
    <2> QED
        BY <1>1, <1>2, <2>1
<1>3. CASE s.kind = "at"
    <2>1. NextRun(s, from) = The(s)
        BY <1>3 DEF NextRun
    <2> QED
        BY <1>1, <1>3, <2>1
<1>4. CASE s.kind = "cron"
    <2>1. Later(s, from) \in SUBSET Nat /\ Later(s, from) # {}
        BY <1>1, <1>4 DEF Later
    <2>2. \E t \in Later(s, from) : \A u \in Later(s, from) : t <= u
        BY <2>1, LeastOf
    <2>3. NextRun(s, from) = CHOOSE t \in Later(s, from) : \A u \in Later(s, from) : t <= u
        BY <1>4 DEF NextRun
    <2>4. NextRun(s, from) \in Later(s, from)
        BY <2>2, <2>3
    <2> QED
        BY <1>1, <1>4, <2>4 DEF Later
<1> QED
    BY <1>2, <1>3, <1>4 DEF ScheduleShape

-----------------------------------------------------------------------------
(* The invariant. *)

LiveRec(j) ==
    [state : {"live"}, schedule : Schedules[j], enabled : BOOLEAN, deleteAfter : BOOLEAN,
     next : Nat, declared : BOOLEAN]
IsRow(j, row) == row = Unused \/ row = Gone \/ row \in LiveRec(j)
Pending(j) == work[j].stage \in {"ok", "failed"}
WorkRec(j) == [stage : Stages, row : LiveRec(j)]

\* A due time that is over is not due but for an excuse or until its result is written; and
\* as long as a run goes on its row stays due at that time, if nobody makes it due at another.
Settled(j) ==
    /\ Live(j) /\ rows[j].enabled /\ rows[j].next \in completed[j] \ excused[j] => Pending(j)
    /\ Live(j) /\ rows[j].enabled /\ Active(j) =>
          \/ rows[j].next = work[j].row.next
          \/ rows[j].next \in excused[j] \/ rows[j].next \notin completed[j]

\* What holds of one job as long as its row was not edited across a run.
Undisturbed(j) ==
    /\ Live(j) => Fits(rows[j])
    /\ Live(j) /\ Active(j) => rows[j].schedule = work[j].row.schedule
    /\ caughtUp /\ phase \in {"running", "idle"} /\ j \notin Orphans /\ DueAt(j, bootAt) => Active(j)

JobInv(j) ==
    /\ IsRow(j, rows[j])
    /\ Active(j) => work[j] \in WorkRec(j) /\ work[j].row.next <= now /\ rows[j] # Unused
    /\ completed[j] \subseteq 0..now
    /\ Settled(j)
    /\ j \notin disturbed => Undisturbed(j)

EditRec == UNION {[job : {j}, row : LiveRec(j)] : j \in JobIds}

EditInv ==
    edit # NoEdit =>
        /\ edit \in EditRec
        /\ edit.job \notin disturbed => Fits(edit.row)

SyncInv ==
    /\ sync = NoSync \/ (phase = "booting" /\ sync.config \in Configs /\ sync.left \subseteq JobIds /\ sync.left # {})
    /\ phase = "booting" => ~caughtUp

DaemonInv ==
    /\ now \in Time /\ bootAt \in 0..now /\ faults \in 0..MaxFaults /\ edits \in 0..MaxEdits /\ caughtUp \in BOOLEAN
    /\ DOMAIN rows = JobIds /\ DOMAIN work = JobIds /\ DOMAIN completed = JobIds /\ DOMAIN excused = JobIds
    /\ disturbed \subseteq JobIds
    /\ phase \in {"down", "booting", "idle", "running"}
    /\ phase = "running" <=> \E j \in JobIds : Active(j)

Slots == Cardinality(InFlight) <= MaxConcurrent

CronInv == DaemonInv /\ SyncInv /\ EditInv /\ Slots /\ \A j \in JobIds : JobInv(j)

LEMMA RowFacts ==
    ASSUME NEW j \in JobIds, NEW row, IsRow(j, row)
    PROVE  row.state = "live" <=> row \in LiveRec(j)
BY DEF IsRow, LiveRec, Unused, Gone

LEMMA LiveFacts ==
    ASSUME NEW j \in JobIds, NEW row \in LiveRec(j)
    PROVE  /\ row.state = "live" /\ row.schedule \in Schedules[j] /\ ScheduleShape(row.schedule)
           /\ row.enabled \in BOOLEAN /\ row.next \in Nat /\ row.declared \in BOOLEAN /\ row.deleteAfter \in BOOLEAN
           /\ \A n \in Nat : LET r == [row EXCEPT !.next = n] IN
                 r \in LiveRec(j) /\ r.next = n /\ r.schedule = row.schedule /\ r.enabled = row.enabled
           /\ \A b \in BOOLEAN : LET r == [row EXCEPT !.enabled = b] IN
                 r \in LiveRec(j) /\ r.next = row.next /\ r.schedule = row.schedule /\ r.enabled = b
BY CronAssumption DEF LiveRec

\* A job the step has nothing to do with.
LEMMA JobKept ==
    ASSUME DaemonInv, NEW j \in JobIds, JobInv(j),
           rows'[j] = rows[j], work'[j] = work[j], completed'[j] = completed[j], excused'[j] = excused[j],
           disturbed \subseteq disturbed', now' \in Nat, now <= now', bootAt' = bootAt,
           phase' \in {"running", "idle"} /\ caughtUp' => phase \in {"running", "idle"} /\ caughtUp
    PROVE  JobInv(j)'
<1>1. now \in Nat
    BY CronAssumption DEF DaemonInv, Time
<1>2. (Active(j)' <=> Active(j)) /\ (Live(j)' <=> Live(j)) /\ (DueAt(j, bootAt)' <=> DueAt(j, bootAt))
    BY DEF Active, Live, DueAt
<1>3. (Undisturbed(j) => Undisturbed(j)') /\ (Settled(j) => Settled(j)')
    BY <1>2 DEF Undisturbed, Settled, Pending
<1>4. Active(j) => work[j].row.next \in Nat
    BY LiveFacts DEF JobInv, WorkRec
<1>5. Active(j)' => work'[j] \in WorkRec(j) /\ work'[j].row.next <= now' /\ rows'[j] # Unused
    BY <1>1, <1>2, <1>4 DEF JobInv
<1>6. completed'[j] \subseteq 0..now'
    BY <1>1 DEF JobInv
<1> QED
    BY <1>3, <1>5, <1>6 DEF JobInv

LEMMA ScheduleFacts ==
    ASSUME NEW j \in JobIds, NEW s \in Schedules[j], now \in Nat
    PROVE  /\ ScheduleShape(s)
           /\ (s.kind = "cron" => Later(s, now) # {}) =>
                 /\ NextRun(s, now) \in Nat
                 /\ s.kind # "every" => NextRun(s, now) \in s.times
                 /\ s.kind # "at" => NextRun(s, now) > now
           /\ Valid(s) =>
                 /\ NextRun(s, now) \in Nat /\ NextRun(s, now) > now
                 /\ s.kind # "every" => NextRun(s, now) \in s.times
<1>1. ScheduleShape(s)
    BY CronAssumption
<1>2. Valid(s) /\ s.kind = "at" => NextRun(s, now) > now
    BY DEF Valid, NextRun
<1>3. Valid(s) => (s.kind = "cron" => Later(s, now) # {})
    BY DEF Valid, HasNext
<1> QED
    BY <1>1, <1>2, <1>3, NextFacts

LEMMA NewRowFacts ==
    ASSUME NEW j \in JobIds, NEW s \in Schedules[j], NEW from, NextRun(s, from) \in Nat,
           s.kind # "every" => NextRun(s, from) \in s.times
    PROVE  /\ NewRow(s, from) \in LiveRec(j) /\ Fits(NewRow(s, from))
           /\ NewRow(s, from).next = NextRun(s, from) /\ NewRow(s, from).schedule = s
BY DEF NewRow, LiveRec, Fits

\* A row somebody writes is due at a time that is excused, or to come, or was due before.
LEMMA PutBackSettles ==
    ASSUME NEW j \in JobIds, JobInv(j), now \in Nat, DOMAIN excused = JobIds, NEW row \in LiveRec(j), PutBack(j, row),
           rows'[j] = row, work'[j] = work[j], completed'[j] = completed[j]
    PROVE  /\ Settled(j)' /\ DOMAIN excused' = JobIds
           /\ \A k \in JobIds \ {j} : excused'[k] = excused[k]
<1> DEFINE due == {t \in {row.next} : row.enabled /\ t <= now /\ ~(Live(j) /\ rows[j].enabled /\ rows[j].next = t)}
<1>1. /\ excused'[j] = excused[j] \cup due /\ DOMAIN excused' = JobIds
      /\ \A k \in JobIds \ {j} : excused'[k] = excused[k]
    BY DEF PutBack
<1>2. row.next \in Nat /\ completed[j] \subseteq 0..now /\ (Active(j)' <=> Active(j)) /\ (Pending(j)' <=> Pending(j))
    BY LiveFacts DEF JobInv, Active, Pending
<1>3. CASE row.next > now
    BY <1>1, <1>2, <1>3 DEF Settled
<1>4. CASE row.next <= now /\ ~(Live(j) /\ rows[j].enabled /\ rows[j].next = row.next)
    BY <1>1, <1>4 DEF Settled
<1>5. CASE Live(j) /\ rows[j].enabled /\ rows[j].next = row.next
    BY <1>1, <1>2, <1>5 DEF Settled, JobInv
<1> QED
    BY <1>1, <1>2, <1>3, <1>4, <1>5

LEMMA NowNat == ASSUME DaemonInv PROVE now \in Nat /\ bootAt \in Nat /\ bootAt <= now
BY CronAssumption DEF DaemonInv, Time

LEMMA SameSlots == ASSUME Slots, work' = work PROVE Slots'
BY DEF Slots, InFlight, InStage

\* A step that leaves the batch and the daemon as they are and writes at most one row.
LEMMA RowStep ==
    ASSUME CronInv, NEW j \in JobIds, JobInv(j)', EditInv', SyncInv',
           \A k \in JobIds \ {j} : rows'[k] = rows[k] /\ excused'[k] = excused[k],
           DOMAIN rows' = JobIds, DOMAIN excused' = JobIds, disturbed \subseteq disturbed', disturbed' \subseteq JobIds,
           work' = work, phase' = phase, now' = now, bootAt' = bootAt, caughtUp' = caughtUp, completed' = completed,
           faults' = faults, edits' \in 0..MaxEdits
    PROVE  CronInv'
<1>1. \A k \in JobIds \ {j} : JobInv(k)'
    BY JobKept, NowNat DEF CronInv
<1>2. DaemonInv'
    BY DEF CronInv, DaemonInv, Active
<1>3. Slots'
    BY SameSlots DEF CronInv
<1> QED
    BY <1>1, <1>2, <1>3 DEF CronInv

LEMMA TickKeeps == ASSUME CronInv, Tick PROVE CronInv'
<1>1. now \in Nat /\ now < MaxTime /\ now' = now + 1 /\ MaxTime \in Nat /\ bootAt \in Nat /\ bootAt <= now
    BY NowNat, CronAssumption DEF CronInv, Tick
<1>2. UNCHANGED <<rows, phase, sync, work, edit, faults, edits, bootAt, caughtUp, completed, excused, disturbed>>
    BY DEF Tick, ghosts
<1>3. \A j \in JobIds : JobInv(j)'
    BY <1>1, <1>2, JobKept DEF CronInv
<1>4. DaemonInv'
    BY <1>1, <1>2 DEF CronInv, DaemonInv, Active, Time
<1>5. EditInv' /\ SyncInv'
    BY <1>2 DEF CronInv, EditInv, SyncInv
<1>6. Slots'
    BY <1>2, SameSlots DEF CronInv
<1> QED
    BY <1>3, <1>4, <1>5, <1>6 DEF CronInv

LEMMA AddKeeps == ASSUME CronInv, NEW j \in JobIds, AddJob(j) PROVE CronInv'
<1>1. PICK s \in Schedules[j] : Valid(s) /\ rows' = [rows EXCEPT ![j] = NewRow(s, now)]
    BY DEF AddJob
<1>2. UNCHANGED <<now, phase, sync, work, edit, faults, edits, bootAt, caughtUp, completed, excused, disturbed>>
    BY DEF AddJob, ghosts
<1>3. now \in Nat /\ bootAt \in Nat /\ bootAt <= now /\ DOMAIN rows = JobIds
    BY NowNat DEF CronInv, DaemonInv
<1>4. NextRun(s, now) \in Nat /\ NextRun(s, now) > now /\ (s.kind # "every" => NextRun(s, now) \in s.times)
    BY <1>1, <1>3, ScheduleFacts
<1> DEFINE row == NewRow(s, now)
<1>5. row \in LiveRec(j) /\ Fits(row) /\ row.next = NextRun(s, now)
    BY <1>4, NewRowFacts
<1> HIDE DEF row
<1>6. rows'[j] = row /\ \A k \in JobIds \ {j} : rows'[k] = rows[k]
    BY <1>1, <1>3 DEF row
<1>7. rows[j] = Unused /\ JobInv(j)
    BY DEF AddJob, CronInv
<1>8. ~Active(j) /\ completed[j] \subseteq 0..now
    BY <1>7 DEF JobInv
<1>9. row.next \notin completed[j]
    BY <1>3, <1>4, <1>5, <1>8
<1>10. JobInv(j)'
    <2>1. ~Active(j)' /\ ~DueAt(j, bootAt)'
        BY <1>2, <1>3, <1>4, <1>5, <1>6, <1>8 DEF Active, DueAt
    <2>2. Undisturbed(j)' /\ Settled(j)'
        BY <1>2, <1>5, <1>6, <1>9, <2>1 DEF Undisturbed, Settled
    <2> QED
        BY <1>2, <1>5, <1>6, <1>8, <2>1, <2>2 DEF JobInv, IsRow
<1>11. EditInv' /\ SyncInv'
    BY <1>2 DEF CronInv, EditInv, SyncInv
<1>12. DOMAIN rows' = JobIds /\ DOMAIN excused' = JobIds /\ disturbed' \subseteq JobIds /\ edits' \in 0..MaxEdits
    BY <1>1, <1>2 DEF CronInv, DaemonInv
<1> QED
    BY <1>2, <1>6, <1>10, <1>11, <1>12, RowStep

LEMMA RemoveKeeps == ASSUME CronInv, NEW j \in JobIds, RemoveJob(j) PROVE CronInv'
<1>1. rows' = [rows EXCEPT ![j] = Gone]
    BY DEF RemoveJob
<1>2. UNCHANGED <<now, phase, sync, work, edit, faults, edits, bootAt, caughtUp, completed, excused, disturbed>>
    BY DEF RemoveJob, ghosts
<1>3. DOMAIN rows = JobIds /\ DOMAIN excused = JobIds /\ disturbed \subseteq JobIds /\ edits \in 0..MaxEdits /\ JobInv(j)
    BY DEF CronInv, DaemonInv
<1>4. rows'[j] = Gone /\ \A k \in JobIds \ {j} : rows'[k] = rows[k]
    BY <1>1, <1>3
<1>5. ~Live(j)' /\ ~DueAt(j, bootAt)' /\ (Active(j)' <=> Active(j)) /\ Gone # Unused
    BY <1>2, <1>4 DEF Live, DueAt, Gone, Unused, Active
<1>6. JobInv(j)'
    BY <1>2, <1>3, <1>4, <1>5 DEF JobInv, Undisturbed, IsRow, Settled
<1>7. EditInv' /\ SyncInv'
    BY <1>2 DEF CronInv, EditInv, SyncInv
<1>8. DOMAIN rows' = JobIds
    BY <1>1, <1>3
<1> QED
    BY <1>2, <1>3, <1>4, <1>6, <1>7, <1>8, RowStep

LEMMA ReadKeeps == ASSUME CronInv, NEW j \in JobIds, ReadForEdit(j) PROVE CronInv'
<1>1. /\ Live(j) /\ edits < MaxEdits /\ edits' = edits + 1
      /\ edit' = [job |-> j, row |-> rows[j]]
    BY DEF ReadForEdit
<1>2. UNCHANGED <<now, rows, phase, sync, work, faults, bootAt, caughtUp, completed, excused, disturbed>>
    BY DEF ReadForEdit, ghosts
<1>3. rows[j] \in LiveRec(j) /\ JobInv(j)
    BY <1>1, RowFacts DEF CronInv, JobInv, Live
<1>4. EditInv'
    <2> DEFINE read == rows[j]
    <2>1. read \in LiveRec(j) /\ edit' = [job |-> j, row |-> read]
        BY <1>1, <1>3
    <2>2. j \notin disturbed => Fits(read)
        BY <1>1, <1>3 DEF JobInv, Undisturbed
    <2> HIDE DEF read
    <2>3. edit' \in [job : {j}, row : LiveRec(j)] /\ edit'.job = j /\ edit'.row = read
        BY <2>1
    <2>4. edit' \in EditRec
        BY <2>3 DEF EditRec
    <2> QED
        BY <1>2, <2>2, <2>3, <2>4 DEF EditInv
<1>5. /\ DOMAIN rows = JobIds /\ DOMAIN excused = JobIds /\ disturbed \subseteq JobIds /\ edits' \in 0..MaxEdits
      /\ SyncInv'
    BY <1>1, <1>2, CronAssumption DEF CronInv, DaemonInv, SyncInv
<1>6. JobInv(j)'
    BY <1>2, <1>3, JobKept, NowNat DEF CronInv
<1> QED
    BY <1>2, <1>4, <1>5, <1>6, RowStep

LEMMA WriteKeeps == ASSUME CronInv, WriteEdit PROVE CronInv'
<1>1. edit # NoEdit /\ edit' = NoEdit /\ edit \in EditRec
    BY DEF WriteEdit, CronInv, EditInv
<1>2. PICK j \in JobIds : edit \in [job : {j}, row : LiveRec(j)]
    BY <1>1 DEF EditRec
<1>3. edit.job = j /\ edit.row \in LiveRec(j) /\ JobInv(j)
    BY <1>2 DEF CronInv
<1>4. UNCHANGED <<now, phase, sync, work, faults, edits, bootAt, caughtUp, completed>>
    BY DEF WriteEdit
<1>5. EditInv' /\ SyncInv'
    BY <1>1, <1>4 DEF EditInv, SyncInv, CronInv
<1>6. /\ DOMAIN rows = JobIds /\ DOMAIN excused = JobIds /\ disturbed \subseteq JobIds /\ edits' \in 0..MaxEdits
      /\ now \in Nat /\ bootAt \in Nat /\ bootAt <= now
    BY <1>4, NowNat DEF CronInv, DaemonInv
<1>7. CASE ~Live(j)
    <2>1. UNCHANGED <<rows, excused, disturbed>>
        BY <1>3, <1>7 DEF WriteEdit
    <2>2. JobInv(j)'
        BY <1>3, <1>4, <1>6, <2>1, JobKept DEF CronInv
    <2> QED
        BY <1>4, <1>5, <1>6, <2>1, <2>2, RowStep
<1>8. CASE Live(j)
    <2>1. PICK row \in Enabling(edit.row) \cup Rescheduling(j, edit.row) :
             rows' = [rows EXCEPT ![j] = row] /\ PutBack(j, row)
        BY <1>3, <1>8 DEF WriteEdit
    <2>2. disturbed' = IF Active(j) \/ caughtUp THEN disturbed \cup {j} ELSE disturbed
        BY <1>3, <1>8 DEF WriteEdit
    \* Either only the switch is turned, or the next time is one in the future.
    <2>3. row \in LiveRec(j) /\ (Fits(edit.row) => Fits(row))
        <3>1. CASE row \in Enabling(edit.row)
            <4>1. PICK b \in BOOLEAN : row = [edit.row EXCEPT !.enabled = b]
                BY <3>1 DEF Enabling
            <4> QED
                BY <1>3, <4>1, LiveFacts DEF Fits
        <3>2. CASE row \in Rescheduling(j, edit.row)
            <4>1. PICK s \in Schedules[j] : Valid(s) /\ row = [edit.row EXCEPT !.schedule = s, !.next = NextRun(s, now)]
                BY <3>2 DEF Rescheduling
            <4>2. NextRun(s, now) \in Nat /\ (s.kind # "every" => NextRun(s, now) \in s.times)
                BY <1>6, <4>1, ScheduleFacts
            <4>3. PICK n \in Nat : n = NextRun(s, now)
                BY <4>2
            <4>4. row \in LiveRec(j) /\ row.schedule = s /\ row.next = n
                BY <1>3, <4>1, <4>3 DEF LiveRec
            <4> QED
                BY <4>2, <4>3, <4>4 DEF Fits
        <3> QED
            BY <2>1, <3>1, <3>2
    <2>4. rows'[j] = row /\ DOMAIN rows' = JobIds /\ \A k \in JobIds \ {j} : rows'[k] = rows[k]
        BY <1>6, <2>1
    <2>5. disturbed \subseteq disturbed' /\ disturbed' \subseteq JobIds
        BY <1>6, <2>2
    <2>6. row # Unused /\ (Active(j)' <=> Active(j))
        BY <1>4, <2>3 DEF LiveRec, Unused, Active
    <2>7. ASSUME j \notin disturbed' PROVE Undisturbed(j)'
        <3>1. j \notin disturbed /\ ~Active(j) /\ ~caughtUp
            BY <2>2, <2>7
        <3>2. Fits(row)
            BY <1>1, <1>3, <2>3, <3>1 DEF CronInv, EditInv
        <3> QED
            BY <1>4, <2>4, <2>6, <3>1, <3>2 DEF Undisturbed
    <2>8. Settled(j)' /\ DOMAIN excused' = JobIds /\ \A k \in JobIds \ {j} : excused'[k] = excused[k]
        BY <1>3, <1>4, <1>6, <2>1, <2>3, <2>4, PutBackSettles
    <2>9. JobInv(j)'
        BY <1>3, <1>4, <2>3, <2>4, <2>6, <2>7, <2>8 DEF JobInv, IsRow
    <2> QED
        BY <1>4, <1>5, <1>6, <2>4, <2>5, <2>8, <2>9, RowStep
<1> QED
    BY <1>7, <1>8

-----------------------------------------------------------------------------
(* The runs of a batch. *)

LEMMA InFlightFinite == IsFiniteSet(InFlight) /\ Cardinality(InFlight) \in Nat
<1>1. InFlight \subseteq JobIds /\ IsFiniteSet(JobIds)
    BY CronAssumption DEF InFlight, InStage
<1> QED
    BY <1>1, FS_Subset, FS_CardinalityType

LEMMA StageFacts ==
    ASSUME NEW j \in JobIds, JobInv(j)
    PROVE  /\ Active(j) <=> work[j].stage \in Stages
           /\ \A st \in Stages : Active(j) =>
                 LET w == [work[j] EXCEPT !.stage = st] IN
                 w \in WorkRec(j) /\ w.stage = st /\ w.row = work[j].row /\ w # NoWork
<1>1. CASE work[j] = NoWork
    BY <1>1 DEF Active, NoWork, Stages
<1>2. CASE work[j] # NoWork
    <2>1. work[j] \in WorkRec(j)
        BY <1>2 DEF JobInv, Active
    <2> QED
        BY <1>2, <2>1 DEF Active, WorkRec, NoWork, Stages
<1> QED
    BY <1>1, <1>2

\* A run that goes on to its next stage.
LEMMA StageStep ==
    ASSUME CronInv, NEW j \in JobIds, Active(j), NEW st \in Stages, work' = [work EXCEPT ![j].stage = st],
           UNCHANGED <<now, rows, phase, sync, edit, faults, edits, bootAt, caughtUp, disturbed>>, Slots',
           completed'[j] \subseteq 0..now, Settled(j)', DOMAIN completed' = JobIds, DOMAIN excused' = JobIds,
           \A k \in JobIds \ {j} : completed'[k] = completed[k] /\ excused'[k] = excused[k]
    PROVE  CronInv'
<1>1. DOMAIN work = JobIds /\ JobInv(j)
    BY DEF CronInv, DaemonInv
<1>2. PICK w \in WorkRec(j) : w = [work[j] EXCEPT !.stage = st] /\ w.row = work[j].row /\ w # NoWork
    BY <1>1, StageFacts
<1>3. work'[j] = w /\ (\A k \in JobIds \ {j} : work'[k] = work[k]) /\ DOMAIN work' = JobIds
    BY <1>1, <1>2
<1>4. \A k \in JobIds \ {j} : JobInv(k)'
    BY <1>3, JobKept, NowNat DEF CronInv
<1>5. Active(j)' /\ (Live(j)' <=> Live(j)) /\ (DueAt(j, bootAt)' <=> DueAt(j, bootAt))
    BY <1>2, <1>3 DEF Active, Live, DueAt
<1>6. Undisturbed(j) => Undisturbed(j)'
    BY <1>2, <1>3, <1>5 DEF Undisturbed
<1>7. JobInv(j)'
    BY <1>1, <1>2, <1>3, <1>5, <1>6 DEF JobInv
<1>8. \A k \in JobIds : Active(k)' <=> Active(k)
    BY <1>3, <1>5 DEF Active
<1>9. DaemonInv'
    BY <1>3, <1>8 DEF CronInv, DaemonInv
<1>10. EditInv' /\ SyncInv'
    BY DEF CronInv, EditInv, SyncInv
<1> QED
    BY <1>4, <1>7, <1>9, <1>10 DEF CronInv

LEMMA StartJobKeeps == ASSUME CronInv, NEW j \in JobIds, StartJob(j) PROVE CronInv'
<1>1. /\ work[j].stage = "queued" /\ SlotFree /\ work' = [work EXCEPT ![j].stage = "running"]
      /\ UNCHANGED <<now, rows, phase, sync, edit, faults, edits, bootAt, caughtUp, completed, excused, disturbed>>
      /\ JobInv(j) /\ DOMAIN work = JobIds
    BY DEF StartJob, ghosts, CronInv, DaemonInv
<1>2. Active(j) /\ "running" \in Stages
    BY <1>1, StageFacts DEF Stages
<1>3. work'[j].stage = "running" /\ \A k \in JobIds : k # j => work'[k] = work[k]
    <2>1. PICK w \in WorkRec(j) : w = [work[j] EXCEPT !.stage = "running"] /\ w.stage = "running"
        BY <1>1, <1>2, StageFacts
    <2> QED
        BY <1>1, <2>1
<1>4. InFlight' = InFlight \cup {j} /\ j \notin InFlight
    BY <1>1, <1>3 DEF InFlight, InStage
<1>5. Cardinality(InFlight') = Cardinality(InFlight) + 1
    BY <1>4, InFlightFinite, FS_AddElement
<1>6. Slots'
    BY <1>1, <1>5, InFlightFinite, CronAssumption DEF SlotFree, Slots
<1>7. Settled(j)' /\ completed'[j] \subseteq 0..now /\ DOMAIN completed' = JobIds /\ DOMAIN excused' = JobIds
    <2>1. work'[j].row = work[j].row /\ ~Pending(j)
        <3>1. PICK st \in Stages : st = "running"
            BY <1>2
        <3>2. JobInv(j) /\ Active(j)
            BY <1>1, <1>2
        <3>3. PICK w \in WorkRec(j) : w = [work[j] EXCEPT !.stage = st] /\ w.row = work[j].row /\ w # NoWork
            BY <3>2, StageFacts
        <3> QED
            BY <1>1, <3>1, <3>3 DEF Pending
    <2> QED
        BY <1>1, <1>2, <2>1 DEF CronInv, DaemonInv, JobInv, Settled, Live
<1> QED
    BY <1>1, <1>2, <1>6, <1>7, StageStep

LEMMA FinishKeeps == ASSUME CronInv, NEW j \in JobIds, Finish(j) PROVE CronInv'
<1>1. PICK st \in {"ok", "failed"} : work' = [work EXCEPT ![j].stage = st]
    BY DEF Finish
<1>2. /\ work[j].stage = "running"
      /\ UNCHANGED <<now, rows, phase, sync, edit, faults, edits, bootAt, caughtUp, disturbed>>
      /\ JobInv(j) /\ DOMAIN work = JobIds /\ DOMAIN completed = JobIds /\ DOMAIN excused = JobIds /\ now \in Nat
    BY NowNat DEF Finish, CronInv, DaemonInv
<1>3. Active(j) /\ st \in Stages
    BY <1>2, StageFacts DEF Stages
<1>4. PICK w \in WorkRec(j) : w = [work[j] EXCEPT !.stage = st] /\ w.stage = st /\ w.row = work[j].row
    BY <1>2, <1>3, StageFacts
<1>5. work'[j] = w /\ \A k \in JobIds : k # j => work'[k] = work[k]
    BY <1>1, <1>2, <1>4
<1>6. InFlight' = InFlight
    BY <1>2, <1>4, <1>5 DEF InFlight, InStage
<1>7. Slots'
    BY <1>6 DEF CronInv, Slots
<1>8. PICK t \in Nat : t = work[j].row.next /\ t <= now
    BY <1>2, <1>3, LiveFacts DEF JobInv, WorkRec
<1>9. /\ completed' = [completed EXCEPT ![j] = @ \cup {t}]
      /\ excused' = [excused EXCEPT ![j] = @ \ {t}]
    BY <1>8 DEF Finish
<1>10. /\ completed'[j] = completed[j] \cup {t} /\ excused'[j] = excused[j] \ {t}
       /\ DOMAIN completed' = JobIds /\ DOMAIN excused' = JobIds
       /\ \A k \in JobIds \ {j} : completed'[k] = completed[k] /\ excused'[k] = excused[k]
    BY <1>2, <1>9
<1>11. completed'[j] \subseteq 0..now
    BY <1>2, <1>8, <1>10 DEF JobInv
<1>12. Settled(j)'
    <2>1. Pending(j)' /\ work'[j].row.next = t /\ (Live(j)' <=> Live(j)) /\ rows'[j] = rows[j]
        BY <1>2, <1>4, <1>5, <1>8 DEF Pending, Live
    <2>2. Live(j) /\ rows[j].enabled => rows[j].next = t \/ rows[j].next \in excused[j] \/ rows[j].next \notin completed[j]
        BY <1>2, <1>3, <1>8 DEF JobInv, Settled
    <2> QED
        BY <1>10, <2>1, <2>2 DEF Settled
<1> QED
    BY <1>1, <1>2, <1>3, <1>7, <1>10, <1>11, <1>12, StageStep

\* What a run leaves of its row: moved on, switched off, gone, or as it was.
LEMMA CompletedFacts ==
    ASSUME CronInv, NEW j \in JobIds, Active(j), NEW row, row = work[j].row,
           NEW action \in {"reschedule", "disable", "delete"}, Applies(j, row, action),
           action = "reschedule" => row.schedule.kind # "at"
    PROVE  LET after == Completed(j, row, action) IN
           /\ Live(j) /\ rows[j] \in LiveRec(j) /\ row \in LiveRec(j)
           /\ \/ after = Gone
              \/ /\ after \in LiveRec(j) /\ after.schedule = rows[j].schedule
                 /\ \/ ~after.enabled /\ after.next = rows[j].next
                    \/ after.next > now /\ (row.schedule.kind # "every" => after.next \in row.schedule.times)
<1>1. Live(j) /\ rows[j] \in LiveRec(j)
    BY RowFacts DEF CronInv, JobInv, Applies, Live
<1>2. row \in LiveRec(j) /\ now \in Nat
    BY NowNat DEF CronInv, JobInv, WorkRec
<1>3. CASE action = "reschedule"
    <2>1. HasNext(row.schedule, now) /\ row.schedule.kind # "at" /\ row.schedule \in Schedules[j]
        BY <1>2, <1>3, LiveFacts DEF Applies
    <2>2. /\ NextRun(row.schedule, now) \in Nat /\ NextRun(row.schedule, now) > now
          /\ row.schedule.kind # "every" => NextRun(row.schedule, now) \in row.schedule.times
        BY <1>2, <2>1, ScheduleFacts DEF HasNext
    <2>3. PICK n \in Nat : n = NextRun(row.schedule, now)
        BY <2>2
    <2>4. Completed(j, row, action) = [rows[j] EXCEPT !.next = n]
        BY <1>3, <2>3 DEF Completed
    <2> QED
        BY <1>1, <1>2, <2>2, <2>3, <2>4, LiveFacts
<1>4. CASE action = "disable"
    <2>1. PICK after : after = Completed(j, row, action)
        OBVIOUS
    <2>2. after = [rows[j] EXCEPT !.enabled = FALSE]
        BY <1>4, <2>1 DEF Completed
    <2>3. after \in LiveRec(j) /\ after.schedule = rows[j].schedule /\ after.next = rows[j].next /\ ~after.enabled
        BY <1>1, <2>2 DEF LiveRec
    <2> QED
        BY <1>1, <1>2, <2>1, <2>3
<1>5. CASE action = "delete"
    BY <1>1, <1>2, <1>5 DEF Completed
<1> QED
    BY <1>3, <1>4, <1>5

\* The row and the faults after a run of which row was read.
Written(j, row) ==
    /\ DOMAIN rows' = JobIds /\ \A k \in JobIds \ {j} : rows'[k] = rows[k]
    /\ faults' \in 0..MaxFaults /\ disturbed \subseteq disturbed' /\ disturbed' \subseteq JobIds
    /\ rows[j] # Unused => rows'[j] # Unused
    /\ IsRow(j, rows'[j])
    /\ \/ rows' = rows /\ excused' = [excused EXCEPT ![j] = @ \cup {row.next}] /\ j \in disturbed'
       \/ /\ excused' = excused /\ disturbed' = disturbed
          /\ (rows'[j] \in LiveRec(j) /\ rows'[j].enabled => rows'[j].next > now)
    /\ j \notin disturbed' =>
          \/ rows'[j] = Gone
          \/ /\ rows'[j] \in LiveRec(j) /\ Live(j) /\ rows'[j].schedule = rows[j].schedule
             /\ \/ ~rows'[j].enabled /\ rows'[j].next = rows[j].next
                \/ rows'[j].next > now /\ (row.schedule.kind # "every" => rows'[j].next \in row.schedule.times)

LEMMA PersistKeeps == ASSUME CronInv, NEW j \in JobIds, Persist(j) PROVE CronInv'
<1>1. /\ work[j].stage \in {"ok", "failed"}
      /\ work' = [work EXCEPT ![j] = NoWork]
      /\ phase' = IF InStage(Stages) = {j} THEN "idle" ELSE "running"
      /\ UNCHANGED <<now, sync, edit, edits, bootAt, caughtUp, completed>>
    BY DEF Persist
<1>2. /\ JobInv(j) /\ DaemonInv /\ EditInv /\ SyncInv
      /\ DOMAIN work = JobIds /\ DOMAIN excused = JobIds /\ DOMAIN rows = JobIds /\ disturbed \subseteq JobIds
      /\ now \in Nat /\ bootAt \in Nat /\ bootAt <= now
    BY NowNat DEF CronInv, DaemonInv
<1>3. Active(j)
    BY <1>1, <1>2, StageFacts DEF Stages
<1>4. PICK row \in LiveRec(j) : row = work[j].row /\ row.next <= now /\ row.next \in Nat
    BY <1>2, <1>3, LiveFacts DEF JobInv, WorkRec
\* The row and the faults.
<1>5. Written(j, row)
    <2> DEFINE action == CompletionAction(work[j].row, work[j].stage)
               written == {a \in {action, Fallback(action)} : Applies(j, work[j].row, a)}
    <2>1. /\ action \in {"reschedule", "disable", "delete"} /\ Fallback(action) \in {"reschedule", "disable", "delete"}
          /\ action = "reschedule" => row.schedule.kind # "at"
          /\ Fallback(action) = "reschedule" => row.schedule.kind # "at"
        BY <1>4 DEF CompletionAction, Fallback
    <2>2. \/ \E a \in written :
                /\ rows' = [rows EXCEPT ![j] = Completed(j, work[j].row, a)]
                /\ UNCHANGED <<faults, excused, disturbed>>
          \/ /\ IF written = {} THEN UNCHANGED faults ELSE faults < MaxFaults /\ faults' = faults + 1
             /\ UNCHANGED rows
             /\ excused' = [excused EXCEPT ![j] = @ \cup {work[j].row.next}]
             /\ disturbed' = disturbed \cup {j}
        BY DEF Persist
    <2> HIDE DEF action
    <2>3. ASSUME NEW a \in written, rows' = [rows EXCEPT ![j] = Completed(j, work[j].row, a)],
                 UNCHANGED <<faults, excused, disturbed>>
          PROVE  Written(j, row)
        <3>1. a \in {"reschedule", "disable", "delete"} /\ Applies(j, row, a) /\ (a = "reschedule" => row.schedule.kind # "at")
            BY <1>4, <2>1, <2>3
        <3>2. PICK after : after = Completed(j, row, a)
            OBVIOUS
        <3>3. /\ Live(j)
              /\ \/ after = Gone
                 \/ /\ after \in LiveRec(j) /\ after.schedule = rows[j].schedule
                    /\ \/ ~after.enabled /\ after.next = rows[j].next
                       \/ after.next > now /\ (row.schedule.kind # "every" => after.next \in row.schedule.times)
            BY <1>3, <1>4, <3>1, <3>2, CompletedFacts
        <3>4. rows'[j] = after /\ DOMAIN rows' = JobIds /\ \A k \in JobIds \ {j} : rows'[k] = rows[k]
            BY <1>2, <1>4, <2>3, <3>2
        <3>5. after # Unused /\ IsRow(j, after)
            BY <3>3 DEF Gone, Unused, LiveRec, IsRow
        <3>6. faults' \in 0..MaxFaults
            BY <1>2, <2>3 DEF DaemonInv
        <3>7. after \in LiveRec(j) /\ after.enabled => after.next > now
            BY <3>3 DEF Gone, LiveRec
        <3> QED
            BY <1>2, <2>3, <3>3, <3>4, <3>5, <3>6, <3>7 DEF Written
    <2>4. ASSUME IF written = {} THEN UNCHANGED faults ELSE faults < MaxFaults /\ faults' = faults + 1,
                 UNCHANGED rows, disturbed' = disturbed \cup {j}, excused' = [excused EXCEPT ![j] = @ \cup {work[j].row.next}]
          PROVE  Written(j, row)
        <3>1. faults' \in 0..MaxFaults
            <4> HIDE DEF written
            <4> QED
                BY <1>2, <2>4, CronAssumption DEF DaemonInv
        <3> QED
            BY <1>2, <1>4, <2>4, <3>1 DEF JobInv, Written
    <2> QED
        BY <2>2, <2>3, <2>4
<1>6. /\ work'[j] = NoWork /\ DOMAIN work' = JobIds /\ \A k \in JobIds \ {j} : work'[k] = work[k]
      /\ DOMAIN excused' = JobIds /\ \A k \in JobIds \ {j} : excused'[k] = excused[k]
    BY <1>1, <1>2, <1>4, <1>5 DEF Written
<1>7. ~Active(j)' /\ \A k \in JobIds \ {j} : Active(k)' <=> Active(k)
    BY <1>6 DEF Active
\* The daemon is idle again after the last of the batch.
<1>8. /\ phase = "running" /\ phase' \in {"idle", "running"}
      /\ phase' = "running" <=> \E k \in JobIds : Active(k)'
    <2>1. InStage(Stages) = {k \in JobIds : Active(k)}
        BY StageFacts DEF InStage, CronInv
    <2>2. phase = "running"
        BY <1>2, <1>3 DEF DaemonInv
    <2>3. InStage(Stages) = {j} <=> ~\E k \in JobIds \ {j} : Active(k)
        BY <1>3, <2>1
    <2> QED
        BY <1>1, <1>7, <2>2, <2>3
<1>9. ASSUME NEW k \in JobIds \ {j} PROVE JobInv(k)'
    <2>1. JobInv(k) /\ rows'[k] = rows[k] /\ disturbed \subseteq disturbed'
        BY <1>5 DEF CronInv, Written
    <2> QED
        BY <1>1, <1>2, <1>6, <1>8, <2>1, JobKept
<1>10. completed'[j] \subseteq 0..now /\ Settled(j)'
    <2>1. completed[j] \subseteq 0..now /\ completed' = completed
        BY <1>1, <1>2 DEF JobInv
    <2>2. CASE rows' = rows /\ excused' = [excused EXCEPT ![j] = @ \cup {row.next}]
        <3>1. Live(j) /\ rows[j].enabled => rows[j].next = row.next \/ rows[j].next \in excused[j] \/ rows[j].next \notin completed[j]
            BY <1>2, <1>3, <1>4 DEF JobInv, Settled
        <3>2. excused'[j] = excused[j] \cup {row.next} /\ (Live(j)' <=> Live(j))
            BY <1>2, <2>2 DEF Live
        <3> QED
            BY <1>7, <2>1, <2>2, <3>1, <3>2 DEF Settled
    <2>3. CASE rows'[j] \in LiveRec(j) /\ rows'[j].enabled => rows'[j].next > now
        <3>1. Live(j)' => rows'[j] \in LiveRec(j)
            BY <1>5, RowFacts DEF Written, Live
        <3>2. rows'[j] \in LiveRec(j) => rows'[j].next \in Nat
            BY LiveFacts
        <3> QED
            BY <1>2, <1>7, <2>1, <2>3, <3>1, <3>2 DEF Settled
    <2> QED
        BY <1>5, <2>1, <2>2, <2>3 DEF Written
<1>11. ASSUME j \notin disturbed' PROVE Undisturbed(j)'
    <2>1. CASE rows'[j] = Gone
        BY <2>1 DEF Undisturbed, Live, DueAt, Gone
    <2>2. CASE rows'[j] # Gone
        <3>1. /\ rows'[j] \in LiveRec(j) /\ Live(j) /\ rows'[j].schedule = rows[j].schedule
              /\ \/ ~rows'[j].enabled /\ rows'[j].next = rows[j].next
                 \/ rows'[j].next > now /\ (row.schedule.kind # "every" => rows'[j].next \in row.schedule.times)
            BY <1>5, <1>11, <2>2 DEF Written
        <3>2. Fits(rows[j]) /\ rows[j].schedule = row.schedule
            BY <1>2, <1>3, <1>4, <1>5, <1>11, <3>1 DEF JobInv, Undisturbed, Written
        <3>3. Fits(rows'[j])
            BY <3>1, <3>2 DEF Fits
        <3>4. rows'[j].next \in Nat
            BY <3>1, LiveFacts
        <3>5. ~(rows'[j].enabled /\ rows'[j].next <= bootAt)
            BY <1>2, <3>1, <3>4
        <3> QED
            BY <1>1, <1>7, <3>3, <3>5 DEF Undisturbed, Live, DueAt
    <2> QED
        BY <2>1, <2>2
<1>12. JobInv(j)'
    BY <1>1, <1>5, <1>7, <1>10, <1>11 DEF JobInv, Written
<1>13. DaemonInv'
    BY <1>1, <1>2, <1>5, <1>6, <1>8 DEF DaemonInv, Written
<1>14. EditInv' /\ SyncInv'
    BY <1>1, <1>2, <1>5, <1>8 DEF EditInv, SyncInv, Written
<1>15. Slots'
    <2>1. InFlight' \subseteq InFlight
        BY <1>6 DEF InFlight, InStage, NoWork
    <2>2. Cardinality(InFlight') <= Cardinality(InFlight) /\ Cardinality(InFlight') \in Nat
        BY <2>1, InFlightFinite, FS_Subset, FS_CardinalityType
    <2> QED
        BY <2>2, InFlightFinite, CronAssumption DEF CronInv, Slots
<1> QED
    BY <1>9, <1>12, <1>13, <1>14, <1>15 DEF CronInv

-----------------------------------------------------------------------------
(* The daemon. *)

LEMMA CrashKeeps == ASSUME CronInv, Crash PROVE CronInv'
<1>1. /\ phase' = "down" /\ sync' = NoSync /\ work' = [j \in JobIds |-> NoWork] /\ faults < MaxFaults /\ faults' = faults + 1
      /\ excused' = [j \in JobIds |-> IF Pending(j) THEN excused[j] \cup {work[j].row.next} ELSE excused[j]]
      /\ UNCHANGED <<now, rows, edit, edits, bootAt, caughtUp, completed, disturbed>>
    BY DEF Crash, Pending
<1>2. \A j \in JobIds : ~Active(j)'
    BY <1>1 DEF Active
<1>3. ASSUME NEW j \in JobIds PROVE JobInv(j)'
    <2>1. JobInv(j) /\ (Live(j)' <=> Live(j)) /\ rows' = rows /\ completed' = completed
        BY <1>1 DEF CronInv, Live
    <2>2. Undisturbed(j) => Undisturbed(j)'
        BY <1>1, <1>2, <2>1 DEF Undisturbed
    <2>3. excused'[j] = IF Pending(j) THEN excused[j] \cup {work[j].row.next} ELSE excused[j]
        BY <1>1
    <2>4. Pending(j) => Active(j)
        BY DEF Pending, Active, NoWork
    <2>5. Settled(j)'
        BY <1>2, <2>1, <2>3, <2>4 DEF JobInv, Settled
    <2> QED
        BY <1>1, <1>2, <2>1, <2>2, <2>5 DEF JobInv
<1>4. DaemonInv'
    BY <1>1, <1>2, CronAssumption DEF CronInv, DaemonInv
<1>5. EditInv' /\ SyncInv'
    BY <1>1 DEF CronInv, EditInv, SyncInv
<1>6. Slots'
    <2>1. InFlight' = {}
        BY <1>1 DEF InFlight, InStage, NoWork
    <2> QED
        BY <2>1, FS_EmptySet, CronAssumption DEF Slots
<1> QED
    BY <1>3, <1>4, <1>5, <1>6 DEF CronInv

LEMMA EnqueueKeeps ==
    ASSUME CronInv, phase # "running", NEW jobs \in SUBSET {j \in JobIds : Due(j)}, Enqueue(jobs),
           UNCHANGED <<now, rows, sync, edit, edits, bootAt, completed, excused, disturbed>>, sync = NoSync,
           faults' \in 0..MaxFaults, caughtUp' \in BOOLEAN, caughtUp' => jobs = {j \in JobIds : Due(j)}
    PROVE  CronInv'
<1>1. /\ work' = [j \in JobIds |-> IF j \in Accepted(jobs) THEN [stage |-> "queued", row |-> rows[j]] ELSE NoWork]
      /\ phase' = IF Accepted(jobs) = {} THEN "idle" ELSE "running"
      /\ Accepted(jobs) = jobs \ Orphans
    BY DEF Enqueue, Accepted
<1>2. /\ DaemonInv /\ now \in Nat /\ bootAt \in Nat /\ bootAt <= now
      /\ \A j \in JobIds : ~Active(j) /\ JobInv(j)
    BY NowNat DEF CronInv, DaemonInv
<1>3. ASSUME NEW j \in jobs PROVE rows[j] \in LiveRec(j) /\ rows[j].next <= now /\ Live(j)
    <2>1. j \in JobIds /\ Due(j) /\ IsRow(j, rows[j])
        BY <1>2 DEF JobInv
    <2> QED
        BY <2>1, RowFacts DEF Due, DueAt, Live
<1>4. \A j \in JobIds : Active(j)' <=> j \in Accepted(jobs)
    BY <1>1 DEF Active, NoWork
<1>5. ASSUME NEW j \in JobIds PROVE JobInv(j)'
    <2>1. JobInv(j) /\ (Live(j)' <=> Live(j)) /\ (DueAt(j, bootAt)' <=> DueAt(j, bootAt))
        BY <1>2 DEF Live, DueAt
    <2>2. ASSUME Active(j)'
          PROVE  work'[j] \in WorkRec(j) /\ work'[j].row = rows[j] /\ rows[j].next <= now /\ rows[j] # Unused
        <3>1. j \in jobs /\ j \in Accepted(jobs)
            BY <1>1, <1>4, <2>2
        <3>2. PICK row \in LiveRec(j) : row = rows[j] /\ row.next <= now
            BY <1>3, <3>1
        <3>3. work'[j] = [stage |-> "queued", row |-> row]
            BY <1>1, <3>1, <3>2
        <3>4. row # Unused
            BY DEF Unused, LiveRec
        <3> QED
            BY <3>2, <3>3, <3>4 DEF WorkRec, Stages
    <2>3. ASSUME caughtUp', j \notin Orphans, DueAt(j, bootAt) PROVE Active(j)'
        <3>1. Due(j)
            <4>1. Live(j) /\ rows[j].enabled /\ rows[j].next <= bootAt
                BY <2>3 DEF DueAt
            <4>2. rows[j].next \in Nat
                BY <2>1, <4>1, RowFacts, LiveFacts DEF JobInv, Live
            <4> QED
                BY <1>2, <4>1, <4>2 DEF Due, DueAt
        <3> QED
            BY <1>1, <1>4, <2>3, <3>1
    <2>4. Undisturbed(j) => Undisturbed(j)'
        BY <2>1, <2>2, <2>3 DEF Undisturbed
    <2>5. Settled(j)'
        <3>1. ~Pending(j)
            BY <1>2 DEF Pending, Active, NoWork
        <3> QED
            BY <2>1, <2>2, <3>1 DEF JobInv, Settled
    <2> QED
        BY <2>1, <2>2, <2>4, <2>5 DEF JobInv
<1>6. DaemonInv'
    <2>1. phase' = "running" <=> \E j \in JobIds : Active(j)'
        BY <1>1, <1>4
    <2> QED
        BY <1>1, <1>2, <2>1 DEF DaemonInv
<1>7. EditInv' /\ SyncInv'
    BY <1>1 DEF CronInv, EditInv, SyncInv
<1>8. Slots'
    <2>1. InFlight' = {}
        BY <1>1 DEF InFlight, InStage, NoWork
    <2> QED
        BY <2>1, FS_EmptySet, CronAssumption DEF Slots
<1> QED
    BY <1>5, <1>6, <1>7, <1>8 DEF CronInv

LEMMA PollKeeps == ASSUME CronInv, Poll PROVE CronInv'
<1>1. PICK jobs \in OldestDue(MaxTasks) : Enqueue(jobs)
    BY DEF Poll
<1>2. jobs \in SUBSET {j \in JobIds : Due(j)}
    BY DEF OldestDue
<1>3. sync = NoSync /\ faults \in 0..MaxFaults
    BY DEF CronInv, DaemonInv, SyncInv, Poll
<1> QED
    BY <1>1, <1>2, <1>3, EnqueueKeeps DEF Poll

LEMMA CatchUpKeeps == ASSUME CronInv, CatchUpJobs PROVE CronInv'
<1>1. phase = "booting" /\ sync = NoSync /\ UNCHANGED <<now, rows, sync, edit, edits, bootAt, completed, excused, disturbed>>
    BY DEF CatchUpJobs
<1>2. DaemonInv /\ faults \in 0..MaxFaults /\ MaxFaults \in Nat
    BY CronAssumption DEF CronInv, DaemonInv
<1>3. CASE caughtUp' = TRUE /\ UNCHANGED faults /\ \E jobs \in MissedJobs : Enqueue(jobs)
    <2>1. Enqueue({j \in JobIds : Due(j)})
        BY <1>3 DEF MissedJobs
    <2> QED
        BY <1>1, <1>2, <1>3, <2>1, EnqueueKeeps
<1>4. CASE /\ IF CatchUp THEN faults < MaxFaults /\ faults' = faults + 1 ELSE UNCHANGED faults
           /\ phase' = "idle" /\ UNCHANGED <<work, caughtUp>>
    <2>1. phase' = "idle" /\ work' = work /\ caughtUp' = caughtUp /\ faults' \in 0..MaxFaults
        BY <1>2, <1>4
    <2>2. \A j \in JobIds : Active(j)' <=> Active(j)
        BY <2>1 DEF Active
    <2>3. DaemonInv'
        BY <1>1, <1>2, <2>1, <2>2 DEF DaemonInv
    <2>4. ~caughtUp
        BY <1>1 DEF CronInv, SyncInv
    <2>5. \A j \in JobIds : JobInv(j)'
        BY <1>1, <2>1, <2>4, NowNat, JobKept DEF CronInv
    <2>6. EditInv' /\ Slots' /\ SyncInv'
        BY <1>1, <2>1, SameSlots DEF CronInv, EditInv, SyncInv
    <2> QED
        BY <2>3, <2>5, <2>6 DEF CronInv
<1> QED
    BY <1>3, <1>4 DEF CatchUpJobs

\* A declaration and the next time it names.
LEMMA DeclaredFacts ==
    ASSUME DaemonInv, SyncInv, NEW j \in JobIds, sync # NoSync, j \in DOMAIN sync.config
    PROVE  /\ sync.config[j].schedule \in Schedules[j] /\ sync.config[j].enabled \in BOOLEAN
           /\ HasNext(sync.config[j].schedule, bootAt) =>
                 LET s == sync.config[j].schedule IN
                 NextRun(s, bootAt) \in Nat /\ (s.kind # "every" => NextRun(s, bootAt) \in s.times)
           /\ sync.config[j].schedule.kind # "every" =>
                 LET s == sync.config[j].schedule IN s.kind = "at" \/ s.kind = "cron"
<1>1. sync.config \in Configs /\ bootAt \in Nat
    BY NowNat DEF SyncInv
<1>2. sync.config[j].schedule \in Schedules[j] /\ sync.config[j].enabled \in BOOLEAN
    BY <1>1, CronAssumption
<1>3. PICK s \in Schedules[j] : s = sync.config[j].schedule /\ ScheduleShape(s)
    BY <1>2, CronAssumption
<1>4. HasNext(s, bootAt) => NextRun(s, bootAt) \in Nat /\ (s.kind # "every" => NextRun(s, bootAt) \in s.times)
    BY <1>1, <1>3, NextFacts DEF HasNext
<1> QED
    BY <1>2, <1>3, <1>4 DEF ScheduleShape

\* The row a declaration is laid over keeps a next time its schedule names.
LEMMA SyncedFacts ==
    ASSUME NEW j \in JobIds, NEW row \in LiveRec(j), NEW decl, decl.schedule \in Schedules[j], decl.enabled \in BOOLEAN,
           row.schedule # decl.schedule =>
              /\ NextRun(decl.schedule, bootAt) \in Nat
              /\ decl.schedule.kind # "every" => NextRun(decl.schedule, bootAt) \in decl.schedule.times
    PROVE  Synced(row, decl) \in LiveRec(j) /\ (Fits(row) => Fits(Synced(row, decl)))
<1>1. PICK n \in Nat : n = IF row.schedule # decl.schedule THEN NextRun(decl.schedule, bootAt) ELSE row.next
    BY LiveFacts
<1>2. PICK b \in BOOLEAN : b = (decl.schedule.kind = "at")
    OBVIOUS
<1>3. PICK s \in Schedules[j] : s = decl.schedule
    OBVIOUS
<1>4. PICK e \in BOOLEAN : e = decl.enabled
    OBVIOUS
<1>5. PICK new : new = Synced(row, decl)
    OBVIOUS
<1>6. new = [row EXCEPT !.schedule = s, !.enabled = e, !.deleteAfter = b, !.declared = TRUE, !.next = n]
    BY <1>1, <1>2, <1>3, <1>4, <1>5 DEF Synced
<1>7. new \in LiveRec(j) /\ new.schedule = s /\ new.next = n
    BY <1>6 DEF LiveRec
<1>8. Fits(row) => Fits(new)
    BY <1>1, <1>3, <1>7 DEF Fits
<1> QED
    BY <1>5, <1>7, <1>8

LEMMA SyncingFacts ==
    ASSUME NEW c \in Configs, NEW left \in SUBSET JobIds
    PROVE  \/ Syncing(c, left) = NoSync
           \/ /\ Syncing(c, left).config \in Configs /\ Syncing(c, left).left \subseteq JobIds
              /\ Syncing(c, left).left # {}
BY DEF Syncing

LEMMA StartKeeps == ASSUME CronInv, NEW c \in Configs, Start(c) PROVE CronInv'
<1>1. /\ phase = "down" /\ phase' = "booting" /\ bootAt' = now /\ caughtUp' = FALSE
      /\ sync' = Syncing(c, DOMAIN c \cup {j \in JobIds : Live(j) /\ rows[j].declared})
      /\ UNCHANGED <<now, rows, work, edit, faults, edits, completed, excused, disturbed>>
    BY DEF Start
<1>2. DaemonInv /\ now \in Nat /\ \A j \in JobIds : JobInv(j)
    BY NowNat DEF CronInv
<1>3. \A j \in JobIds : Active(j)' <=> Active(j)
    BY <1>1 DEF Active
<1>4. DaemonInv'
    <2>1. bootAt' \in 0..now'
        BY <1>1, <1>2
    <2> QED
        BY <1>1, <1>2, <1>3, <2>1 DEF DaemonInv
<1>5. ASSUME NEW j \in JobIds PROVE JobInv(j)'
    <2>1. JobInv(j) /\ (Live(j)' <=> Live(j)) /\ (Pending(j)' <=> Pending(j))
        BY <1>1, <1>2 DEF Live, Pending
    <2>2. (Undisturbed(j) => Undisturbed(j)') /\ (Settled(j) => Settled(j)')
        BY <1>1, <1>3, <2>1 DEF Undisturbed, Settled
    <2> QED
        BY <1>1, <1>3, <2>1, <2>2 DEF JobInv
<1>6. SyncInv'
    <2>1. DOMAIN c \cup {j \in JobIds : Live(j) /\ rows[j].declared} \in SUBSET JobIds
        BY CronAssumption
    <2> QED
        BY <1>1, <2>1, SyncingFacts DEF SyncInv
<1>7. EditInv' /\ Slots'
    BY <1>1, SameSlots DEF CronInv, EditInv
<1> QED
    BY <1>4, <1>5, <1>6, <1>7 DEF CronInv

LEMMA SyncJobKeeps == ASSUME CronInv, NEW j \in JobIds, SyncJob(j) PROVE CronInv'
<1>1. /\ sync # NoSync /\ j \in Turn /\ ~NoNextTime(j) /\ sync' = Syncing(sync.config, sync.left \ {j})
      /\ UNCHANGED <<now, phase, work, edit, faults, edits, bootAt, caughtUp, completed, disturbed>>
    BY DEF SyncJob
<1>2. /\ DaemonInv /\ SyncInv /\ EditInv /\ JobInv(j) /\ now \in Nat /\ bootAt \in Nat
      /\ phase = "booting" /\ ~caughtUp /\ ~Active(j)
      /\ DOMAIN rows = JobIds /\ DOMAIN excused = JobIds /\ disturbed \subseteq JobIds /\ edits \in 0..MaxEdits
    BY <1>1, NowNat DEF CronInv, DaemonInv, SyncInv
<1>3. SyncInv' /\ EditInv' /\ ~Active(j)'
    <2>1. sync.config \in Configs /\ sync.left \ {j} \in SUBSET JobIds
        BY <1>1, <1>2 DEF SyncInv
    <2> QED
        BY <1>1, <1>2, <2>1, SyncingFacts DEF SyncInv, EditInv, Active
\* Whatever row is written.
<1>4. ASSUME IsRow(j, rows'[j]), j \notin disturbed => (Live(j)' => Fits(rows'[j])), Settled(j)',
             DOMAIN rows' = JobIds, DOMAIN excused' = JobIds,
             \A k \in JobIds \ {j} : rows'[k] = rows[k] /\ excused'[k] = excused[k]
      PROVE  CronInv'
    <2>1. JobInv(j)'
        BY <1>1, <1>2, <1>3, <1>4 DEF JobInv, Undisturbed
    <2> QED
        BY <1>1, <1>2, <1>3, <1>4, <2>1, RowStep
<1>5. CASE rows' = rows /\ UNCHANGED excused
    <2>1. Settled(j)' /\ (Live(j)' <=> Live(j))
        BY <1>1, <1>2, <1>5 DEF JobInv, Settled, Live, Pending, Active
    <2> QED
        BY <1>2, <1>4, <1>5, <2>1 DEF JobInv, Undisturbed
<1>6. CASE j \notin DOMAIN sync.config
    <2>1. rows' = [rows EXCEPT ![j] = IF Live(j) THEN Gone ELSE @] /\ UNCHANGED excused
        BY <1>6 DEF SyncJob
    <2>2. CASE Live(j)
        <3>1. rows'[j] = Gone /\ (\A k \in JobIds \ {j} : rows'[k] = rows[k]) /\ DOMAIN rows' = JobIds
            BY <1>2, <2>1, <2>2
        <3>2. ~Live(j)'
            BY <3>1 DEF Live, Gone
        <3> QED
            BY <1>2, <1>4, <2>1, <3>1, <3>2 DEF IsRow, Settled
    <2>3. CASE ~Live(j)
        <3>1. rows'[j] = rows[j] /\ (\A k \in JobIds \ {j} : rows'[k] = rows[k]) /\ DOMAIN rows' = JobIds
            BY <1>2, <2>1, <2>3
        <3>2. ~Live(j)'
            BY <2>3, <3>1 DEF Live
        <3> QED
            BY <1>2, <1>4, <2>1, <3>1, <3>2 DEF JobInv, Settled
    <2> QED
        BY <2>2, <2>3
<1>7. CASE j \in DOMAIN sync.config /\ ~Live(j) /\ j \in Orphans
    <2>1. rows' = rows /\ UNCHANGED excused
        BY <1>7 DEF SyncJob
    <2> QED
        BY <1>5, <2>1
<1>8. CASE j \in DOMAIN sync.config /\ ~(~Live(j) /\ j \in Orphans)
    <2> DEFINE decl == sync.config[j]
               base == IF Live(j) THEN rows[j] ELSE NewRow(decl.schedule, bootAt)
    <2>1. PICK row : row = Synced(base, decl) /\ rows' = [rows EXCEPT ![j] = row] /\ PutBack(j, row)
        BY <1>8 DEF SyncJob
    <2>2. /\ decl.schedule \in Schedules[j] /\ decl.enabled \in BOOLEAN
          /\ HasNext(decl.schedule, bootAt) =>
                /\ NextRun(decl.schedule, bootAt) \in Nat
                /\ decl.schedule.kind # "every" => NextRun(decl.schedule, bootAt) \in decl.schedule.times
        BY <1>1, <1>2, <1>8, DeclaredFacts
    <2>3. base.schedule # decl.schedule => HasNext(decl.schedule, bootAt)
        <3>1. CASE Live(j)
            BY <1>1, <1>8, <3>1 DEF NoNextTime
        <3>2. CASE ~Live(j)
            BY <1>1, <1>8, <3>2 DEF NoNextTime
        <3> QED
            BY <3>1, <3>2
    <2>4. base \in LiveRec(j) /\ (j \notin disturbed => Fits(base))
        <3>1. CASE Live(j)
            BY <1>2, <3>1, RowFacts DEF JobInv, Undisturbed, Live
        <3>2. CASE ~Live(j)
            <4>1. HasNext(decl.schedule, bootAt)
                BY <1>1, <1>8, <3>2 DEF NoNextTime
            <4> QED
                BY <2>2, <3>2, <4>1, NewRowFacts
        <3> QED
            BY <3>1, <3>2
    <2>5. row \in LiveRec(j) /\ (j \notin disturbed => Fits(row))
        <3> HIDE DEF base, decl
        <3> QED
            BY <2>1, <2>2, <2>3, <2>4, SyncedFacts
    <2>6. rows'[j] = row /\ DOMAIN rows' = JobIds /\ \A k \in JobIds \ {j} : rows'[k] = rows[k]
        BY <1>2, <2>1
    <2>7. Settled(j)' /\ DOMAIN excused' = JobIds /\ \A k \in JobIds \ {j} : excused'[k] = excused[k]
        BY <1>1, <1>2, <2>1, <2>5, <2>6, PutBackSettles
    <2> QED
        BY <1>4, <2>5, <2>6, <2>7 DEF IsRow
<1> QED
    BY <1>6, <1>7, <1>8

LEMMA SyncFailsKeeps == ASSUME CronInv, SyncFails PROVE CronInv'
<1>1. /\ sync' = NoSync /\ faults' \in 0..MaxFaults
      /\ UNCHANGED <<now, rows, phase, work, edit, edits, bootAt, caughtUp, completed, excused, disturbed>>
    BY CronAssumption DEF SyncFails, ghosts, CronInv, DaemonInv
<1>2. \A j \in JobIds : JobInv(j)'
    BY <1>1, JobKept, NowNat DEF CronInv
<1>3. DaemonInv' /\ EditInv' /\ SyncInv'
    BY <1>1 DEF CronInv, DaemonInv, EditInv, SyncInv, Active
<1>4. Slots'
    BY <1>1, SameSlots DEF CronInv
<1> QED
    BY <1>2, <1>3, <1>4 DEF CronInv

LEMMA CronInit == ASSUME Init PROVE CronInv
<1>1. /\ now = 0 /\ faults = 0 /\ edits = 0 /\ phase = "down" /\ bootAt = 0 /\ caughtUp = FALSE /\ sync = NoSync
      /\ rows = [j \in JobIds |-> Unused] /\ work = [j \in JobIds |-> NoWork]
      /\ completed = [j \in JobIds |-> {}] /\ excused = completed /\ disturbed = {} /\ edit = NoEdit
    BY DEF Init
<1>2. \A j \in JobIds : ~Active(j) /\ ~Live(j) /\ rows[j] = Unused /\ completed[j] = {}
    BY <1>1 DEF Active, Live, Unused
<1>3. \A j \in JobIds : JobInv(j)
    BY <1>2 DEF JobInv, IsRow, Undisturbed, Settled, DueAt
<1>4. DaemonInv
    <2>1. 0 \in Time /\ 0 \in 0..0 /\ 0 \in 0..MaxFaults /\ 0 \in 0..MaxEdits
        BY CronAssumption DEF Time
    <2>2. /\ DOMAIN rows = JobIds /\ DOMAIN work = JobIds /\ DOMAIN completed = JobIds /\ DOMAIN excused = JobIds
          /\ disturbed \subseteq JobIds
        BY <1>1
    <2>3. now \in Time /\ bootAt \in 0..now /\ faults \in 0..MaxFaults /\ edits \in 0..MaxEdits /\ caughtUp \in BOOLEAN
        BY <1>1, <2>1
    <2> QED
        BY <1>1, <1>2, <2>2, <2>3 DEF DaemonInv
<1>5. EditInv /\ SyncInv
    BY <1>1 DEF EditInv, SyncInv
<1>6. InFlight = {}
    BY <1>1 DEF InFlight, InStage, NoWork
<1>7. Slots
    BY <1>6, FS_EmptySet, CronAssumption DEF Slots
<1> QED
    BY <1>3, <1>4, <1>5, <1>7 DEF CronInv

LEMMA CronNext == ASSUME CronInv, [Next]_vars PROVE CronInv'
<1>1. CASE Tick
    BY <1>1, TickKeeps
<1>2. CASE Daemon
    BY <1>2, StartKeeps, SyncJobKeeps, SyncFailsKeeps, CatchUpKeeps, PollKeeps DEF Daemon
<1>3. CASE Crash
    BY <1>3, CrashKeeps
<1>4. CASE Users
    BY <1>4, WriteKeeps, AddKeeps, RemoveKeeps, ReadKeeps DEF Users
<1>5. ASSUME NEW j \in JobIds, Run(j) PROVE CronInv'
    BY <1>5, StartJobKeeps, FinishKeeps, PersistKeeps DEF Run
<1>6. CASE UNCHANGED vars
    <2>1. UNCHANGED <<now, rows, phase, sync, work, edit, faults, edits, bootAt, caughtUp, completed, excused, disturbed>>
        BY <1>6 DEF vars, ghosts
    <2>2. \A j \in JobIds : JobInv(j)'
        BY <2>1, JobKept, NowNat DEF CronInv
    <2>3. DaemonInv' /\ EditInv' /\ SyncInv'
        BY <2>1 DEF CronInv, DaemonInv, EditInv, SyncInv, Active
    <2>4. Slots'
        BY <2>1, SameSlots DEF CronInv
    <2> QED
        BY <2>2, <2>3, <2>4 DEF CronInv
<1> QED
    BY <1>1, <1>2, <1>3, <1>4, <1>5, <1>6 DEF Next

LEMMA CronAlways == Spec => []CronInv
BY CronInit, CronNext, PTL DEF Spec

-----------------------------------------------------------------------------
(* The theorems. *)

GhostsTyped == completed \in [JobIds -> SUBSET Nat] /\ excused \in [JobIds -> SUBSET Nat]

LEMMA PutBackTyped ==
    ASSUME GhostsTyped, NEW j, NEW row, row.next \in Nat, PutBack(j, row), completed' = completed
    PROVE  GhostsTyped'
BY DEF GhostsTyped, PutBack

LEMMA GhostsTypedNext == ASSUME CronInv, CronInv', GhostsTyped, [Next]_vars PROVE GhostsTyped'
<1>1. CASE UNCHANGED <<completed, excused>>
    BY <1>1 DEF GhostsTyped
<1>2. ASSUME NEW j \in JobIds, NEW row, rows' = [rows EXCEPT ![j] = row], row.state = "live", PutBack(j, row), completed' = completed
      PROVE  GhostsTyped'
    <2>1. rows'[j] = row /\ IsRow(j, rows'[j])
        BY <1>2 DEF CronInv, DaemonInv, JobInv
    <2>2. row \in LiveRec(j)
        BY <1>2, <2>1, RowFacts
    <2> QED
        BY <1>2, <2>2, LiveFacts, PutBackTyped
<1>3. ASSUME NEW j \in JobIds, SyncJob(j) PROVE GhostsTyped'
    <2>1. completed' = completed /\ DOMAIN rows = JobIds
        BY <1>3 DEF SyncJob, CronInv, DaemonInv
    <2>2. CASE UNCHANGED excused
        BY <1>1, <2>1, <2>2
    <2>3. CASE j \in DOMAIN sync.config /\ ~(~Live(j) /\ j \in Orphans)
        <3>1. PICK base, row : /\ base = IF Live(j) THEN rows[j] ELSE NewRow(sync.config[j].schedule, bootAt)
                               /\ row = Synced(base, sync.config[j])
                               /\ rows' = [rows EXCEPT ![j] = row] /\ PutBack(j, row)
            BY <1>3, <2>3 DEF SyncJob
        <3>2. IsRow(j, rows[j]) /\ (Live(j) => rows[j] \in LiveRec(j))
            BY RowFacts DEF CronInv, JobInv, Live
        <3>3. row.state = "live"
            BY <3>1, <3>2 DEF Synced, NewRow, LiveRec
        <3> QED
            BY <1>2, <2>1, <3>1, <3>3
    <2> QED
        BY <1>3, <2>2, <2>3 DEF SyncJob
<1>4. CASE WriteEdit
    <2>1. edit # NoEdit /\ completed' = completed
        BY <1>4 DEF WriteEdit
    <2>2. PICK j \in JobIds : edit.job = j /\ edit.row \in LiveRec(j)
        BY <2>1 DEF CronInv, EditInv, EditRec
    <2>3. CASE ~Live(j)
        BY <1>1, <1>4, <2>1, <2>2, <2>3 DEF WriteEdit
    <2>4. CASE Live(j)
        <3>1. PICK row \in Enabling(edit.row) \cup Rescheduling(j, edit.row) : rows' = [rows EXCEPT ![j] = row] /\ PutBack(j, row)
            BY <1>4, <2>2, <2>4 DEF WriteEdit
        <3>2. row.state = "live"
            BY <2>2, <3>1 DEF Enabling, Rescheduling, LiveRec
        <3> QED
            BY <1>2, <2>1, <2>2, <3>1, <3>2
    <2> QED
        BY <2>3, <2>4
<1>5. ASSUME NEW j \in JobIds, Active(j) PROVE work[j].row.next \in Nat
    BY <1>5, LiveFacts DEF CronInv, JobInv, WorkRec
<1>6. ASSUME NEW j \in JobIds, Finish(j) \/ Persist(j) PROVE GhostsTyped'
    <2>1. Active(j)
        BY <1>6 DEF Finish, Persist, Active, NoWork
    <2>2. PICK t \in Nat : t = work[j].row.next
        BY <1>5, <2>1
    <2>3. CASE Finish(j)
        <3>1. completed' = [completed EXCEPT ![j] = @ \cup {t}] /\ excused' = [excused EXCEPT ![j] = @ \ {t}]
            BY <2>2, <2>3 DEF Finish
        <3> QED
            BY <3>1 DEF GhostsTyped
    <2>4. CASE Persist(j)
        <3>1. completed' = completed /\ (excused' = excused \/ excused' = [excused EXCEPT ![j] = @ \cup {t}])
            BY <2>2, <2>4 DEF Persist
        <3> QED
            BY <3>1 DEF GhostsTyped
    <2> QED
        BY <1>6, <2>3, <2>4
<1>7. CASE Crash
    <2>1. completed' = completed /\ excused' = [j \in JobIds |-> IF Pending(j) THEN excused[j] \cup {work[j].row.next} ELSE excused[j]]
        BY <1>7 DEF Crash, Pending
    <2>2. \A j \in JobIds : Pending(j) => work[j].row.next \in Nat
        BY <1>5 DEF Pending, Active, NoWork
    <2> QED
        BY <2>1, <2>2 DEF GhostsTyped
<1> QED
    BY <1>1, <1>3, <1>4, <1>6, <1>7
       DEF Next, Tick, Daemon, Start, SyncFails, CatchUpJobs, Poll, Users, AddJob, RemoveJob, ReadForEdit, Run, StartJob, ghosts, vars

(* Every row, batch and copy keeps its shape, whatever the schedules, the limits and the *)
(* faults are, and no more jobs are in flight than max_concurrent allows.                *)
THEOREM CronTyped == Spec => []TypeOK
<1>1. Init => GhostsTyped
    BY DEF Init, GhostsTyped
<1>2. Spec => []GhostsTyped
    BY <1>1, CronAlways, GhostsTypedNext, PTL DEF Spec
<1>3. ASSUME CronInv, GhostsTyped PROVE TypeOK
    <2>1. \A j \in JobIds : RowShape(j, rows[j])
        BY <1>3 DEF CronInv, JobInv, IsRow, RowShape, LiveRec
    <2>2. ASSUME NEW j \in JobIds PROVE work[j] = NoWork \/ (work[j].stage \in Stages /\ RowShape(j, work[j].row))
        BY <1>3 DEF CronInv, JobInv, Active, WorkRec, RowShape, LiveRec
    <2>3. phase = "running" <=> InStage(Stages) # {}
        <3>1. \A j \in JobIds : Active(j) <=> work[j].stage \in Stages
            BY <2>2 DEF Active, NoWork, Stages
        <3> QED
            BY <1>3, <3>1 DEF CronInv, DaemonInv, InStage
    <2>4. bootAt \in Time
        BY <1>3, NowNat, CronAssumption DEF CronInv, DaemonInv, Time
    <2> QED
        BY <1>3, <2>1, <2>2, <2>3, <2>4 DEF TypeOK, CronInv, DaemonInv, SyncInv, Slots, GhostsTyped
<1> QED
    BY <1>2, <1>3, CronAlways, PTL

(* persist_job_result: a due time whose run has ended is due again only until its result *)
(* is written, or for one of the excuses DoneIsDone names, however polls, failures of    *)
(* the history, crashes, half synchronised tables, restarts and edits interleave.        *)
THEOREM ADoneTimeIsNotDueAgain == Spec => []DoneIsDone
<1>1. CronInv => DoneIsDone
    BY DEF CronInv, JobInv, Settled, Pending, DoneIsDone
<1> QED
    BY <1>1, CronAlways, PTL

(* next_run_for_schedule, update_job, sync_declarative_jobs and the reschedule after a   *)
(* run keep the due time of a job one that its own schedule names.                       *)
THEOREM DueTimesAlwaysFit == Spec => []DueTimesFit
<1>1. CronInv => DueTimesFit
    BY DEF CronInv, JobInv, Undisturbed, DueTimesFit
<1> QED
    BY <1>1, CronAlways, PTL

(* catch_up_overdue_jobs: when the daemon is through with its catch-up, nothing that was *)
(* due when it started is due still, however many jobs there are.                        *)
THEOREM CatchUpIsComplete == Spec => []CatchUpMissesNone
<1>1. ASSUME CronInv PROVE CatchUpMissesNone
    <2>1. phase = "idle" => \A j \in JobIds : ~Active(j)
        BY <1>1 DEF CronInv, DaemonInv
    <2> QED
        BY <1>1, <2>1 DEF CronInv, JobInv, Undisturbed, CatchUpMissesNone
<1> QED
    BY <1>1, CronAlways, PTL

=============================================================================

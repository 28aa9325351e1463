------------------------ MODULE ChannelDispatchProofs ------------------------
(***************************************************************************)
(* Theorems about ChannelDispatch for every stream of messages, every set  *)
(* of places and every number of permits.                                  *)
(***************************************************************************)
EXTENDS ChannelDispatch, TLAPS, FiniteSetTheorems, SequenceTheorems

TaskRec ==
    [place : Places, kind : Kinds, phase : Phases, prev : Nat, cancelled : BOOLEAN,
     done : BOOLEAN, timer : Timers, parts : Seq(Nat)]
EntryRec == [parts : Seq(Nat), owner : Nat]

\* The variables but permits, whose bound follows from what is out.
Types ==
    /\ task \in Seq(TaskRec)
    /\ taken \in Nat /\ holding \in Nat /\ permits \in Nat
    /\ inFlight \in [Scopes -> Nat]
    /\ entry \in [Keys -> EntryRec]

-----------------------------------------------------------------------------
(* What a step does to the tasks, seen from one of them. *)

\* Where a message comes from and what it asks for never change.
Origins == Ids' = Ids /\ \A j \in Ids : task'[j].place = task[j].place /\ task'[j].kind = task[j].kind

LEMMA IdsFacts == ASSUME Types PROVE /\ Ids = 1..Len(task) /\ Len(task) \in Nat /\ Ids \subseteq Nat
                                     /\ \A i \in Ids : task[i] \in TaskRec /\ Scope(i) \in Scopes /\ Key(i) \in Keys
<1>1. task \in Seq(TaskRec)
    BY DEF Types
<1>2. Ids = 1..Len(task) /\ Len(task) \in Nat /\ Ids \subseteq Nat /\ \A i \in Ids : task[i] \in TaskRec
    BY <1>1 DEF Ids
<1>3. ASSUME NEW i \in Ids PROVE Scope(i) \in Scopes /\ Key(i) \in Keys
    BY <1>2, <1>3 DEF TaskRec, Scope, Key, Scopes, Keys
<1> QED
    BY <1>2, <1>3

\* A function on the same tasks whose values are tasks again is a sequence of tasks.
LEMMA StillTasks ==
    ASSUME Types, NEW t, DOMAIN t = Ids, t = [j \in Ids |-> t[j]], \A j \in Ids : t[j] \in TaskRec
    PROVE  t \in Seq(TaskRec)
<1>1. Ids = 1..Len(task) /\ Len(task) \in Nat
    BY IdsFacts
<1>2. t \in [1..Len(task) -> TaskRec]
    BY <1>1
<1> QED
    BY <1>1, <1>2, SeqDef

LEMMA MoveFacts ==
    ASSUME Types, NEW i \in Ids, NEW phase \in Phases, Move(i, phase)
    PROVE  /\ task' \in Seq(TaskRec) /\ Origins
           /\ task'[i] = [task[i] EXCEPT !.phase = phase]
           /\ \A j \in Ids : j # i => task'[j] = task[j]
           /\ \A j \in Ids : /\ task'[j].prev = task[j].prev /\ task'[j].cancelled = task[j].cancelled
                             /\ task'[j].done = task[j].done /\ task'[j].timer = task[j].timer
                             /\ task'[j].parts = task[j].parts
           /\ task'[i].phase = phase
<1>1. /\ task' = [task EXCEPT ![i].phase = phase] /\ task[i] \in TaskRec
      /\ \A j \in Ids : task[j] \in TaskRec
    BY IdsFacts DEF Move
<1>2. DOMAIN task' = Ids /\ Ids' = Ids
    BY <1>1 DEF Ids
<1>3. \A j \in Ids : j # i => task'[j] = task[j]
    BY <1>1 DEF Ids
<1>4. task'[i] = [task[i] EXCEPT !.phase = phase]
    BY <1>1 DEF Ids
<1>5. /\ task'[i] \in TaskRec /\ task'[i].phase = phase
      /\ task'[i].place = task[i].place /\ task'[i].kind = task[i].kind
      /\ task'[i].prev = task[i].prev /\ task'[i].cancelled = task[i].cancelled
      /\ task'[i].done = task[i].done /\ task'[i].timer = task[i].timer
      /\ task'[i].parts = task[i].parts
    BY <1>1, <1>4 DEF TaskRec
<1>6. task' \in Seq(TaskRec)
    <2>1. task' = [j \in Ids |-> task'[j]]
        BY <1>1, <1>2 DEF Ids
    <2>2. \A j \in Ids : task'[j] \in TaskRec
        BY <1>1, <1>3, <1>5
    <2> QED
        BY <1>2, <2>1, <2>2, StillTasks
<1> QED
    BY <1>2, <1>3, <1>4, <1>5, <1>6 DEF Origins

\* The rest of a task's record.
Rest(j) == task'[j].prev = task[j].prev /\ task'[j].cancelled = task[j].cancelled /\ task'[j].done = task[j].done

\* Who owns a window is waiting for it.
Owners ==
    \A k \in Keys : entry[k].owner # 0 =>
        entry[k].owner \in Ids /\ Key(entry[k].owner) = k /\ task[entry[k].owner].phase = "pending"

LEMMA StopFacts ==
    ASSUME Types, NEW i \in Ids, StopCommand(i)
    PROVE  /\ task' \in Seq(TaskRec) /\ Origins
           /\ task[i].phase = "queued" /\ task'[i].phase = "handled"
           /\ \A j \in Ids : j # i => task'[j].phase = task[j].phase
           /\ \A j \in Ids : /\ task'[j].prev = task[j].prev /\ task'[j].done = task[j].done
                             /\ task'[j].timer = task[j].timer /\ task'[j].parts = task[j].parts
           /\ \A j \in Ids : j # i /\ j = inFlight[Scope(i)] => task'[j].cancelled
           /\ \A j \in Ids : j # i /\ j # inFlight[Scope(i)] => task'[j].cancelled = task[j].cancelled
<1> DEFINE t(j) == IF j = i THEN [task[i] EXCEPT !.phase = "handled"]
                   ELSE IF j = inFlight[Scope(i)] THEN [task[j] EXCEPT !.cancelled = TRUE] ELSE task[j]
<1>1. task' = [j \in Ids |-> t(j)] /\ At(i, "queued")
    BY DEF StopCommand, Receives
<1>2. \A j \in Ids : task[j] \in TaskRec
    BY IdsFacts
<1>3. DOMAIN task' = Ids /\ Ids' = Ids /\ task' = [j \in Ids |-> task'[j]] /\ \A j \in Ids : task'[j] = t(j)
    BY <1>1 DEF Ids
<1>4. ASSUME NEW j \in Ids
      PROVE  /\ t(j) \in TaskRec /\ t(j).place = task[j].place /\ t(j).kind = task[j].kind
             /\ t(j).prev = task[j].prev /\ t(j).done = task[j].done
             /\ t(j).timer = task[j].timer /\ t(j).parts = task[j].parts
             /\ t(j).phase = (IF j = i THEN "handled" ELSE task[j].phase)
             /\ j # i /\ j = inFlight[Scope(i)] => t(j).cancelled
             /\ j # i /\ j # inFlight[Scope(i)] => t(j).cancelled = task[j].cancelled
    BY <1>2, <1>4 DEF TaskRec, Phases
<1> HIDE DEF t
<1>5. task' \in Seq(TaskRec)
    BY <1>3, <1>4, StillTasks
<1> QED
    BY <1>1, <1>3, <1>4, <1>5 DEF Origins, At

LEMMA DebounceFacts ==
    ASSUME Types, Owners, NEW i \in Ids, Debounce(i), NEW o, o = entry[Key(i)].owner
    PROVE  /\ task' \in Seq(TaskRec) /\ Origins
           /\ task[i].phase = "queued" /\ task'[i].phase = "pending" /\ i # o
           /\ o # 0 => o \in Ids /\ task[o].phase = "pending" /\ task'[o].phase = "superseded"
           /\ \A j \in Ids : j # i /\ j # o => task'[j].phase = task[j].phase
           /\ \A j \in Ids : Rest(j) /\ task'[j].parts = task[j].parts
<1>1. /\ At(i, "queued") /\ Key(i) \in Keys
      /\ \A j \in Ids : task[j] \in TaskRec
    BY IdsFacts DEF Debounce, GoesOn, Receives
<1>2. task[i].phase = "queued" /\ (o # 0 => o \in Ids /\ task[o].phase = "pending") /\ i # o
    <2>1. o # 0 => o \in Ids /\ task[o].phase = "pending"
        BY <1>1 DEF Owners
    <2>2. 0 \notin Ids
        BY IdsFacts
    <2> QED
        BY <1>1, <2>1, <2>2 DEF At
<1>3. CASE o = 0
    <2>1. task' = [task EXCEPT ![i].phase = "pending", ![i].timer = "asleep"]
        BY <1>3 DEF Debounce
    <2> DEFINE t(j) == IF j = i THEN [task[i] EXCEPT !.phase = "pending", !.timer = "asleep"] ELSE task[j]
    <2>2. DOMAIN task' = Ids /\ Ids' = Ids /\ task' = [j \in Ids |-> task'[j]] /\ \A j \in Ids : task'[j] = t(j)
        BY <2>1 DEF Ids
    <2>3. ASSUME NEW j \in Ids
          PROVE  /\ t(j) \in TaskRec /\ t(j).place = task[j].place /\ t(j).kind = task[j].kind
                 /\ t(j).prev = task[j].prev /\ t(j).done = task[j].done /\ t(j).cancelled = task[j].cancelled
                 /\ t(j).parts = task[j].parts
                 /\ t(j).phase = (IF j = i THEN "pending" ELSE task[j].phase)
        BY <1>1, <2>3 DEF TaskRec, Phases, Timers
    <2> HIDE DEF t
    <2>4. task' \in Seq(TaskRec)
        BY <2>2, <2>3, StillTasks
    <2> QED
        BY <1>2, <1>3, <2>2, <2>3, <2>4 DEF Origins, Rest
<1>4. CASE o # 0
    <2>1. PICK left \in AfterAbort(task[o].timer) :
             task' = [task EXCEPT ![i].phase = "pending", ![i].timer = "asleep",
                                  ![o].phase = "superseded", ![o].timer = left]
        BY <1>4 DEF Debounce
    <2> DEFINE t(j) == IF j = i THEN [task[i] EXCEPT !.phase = "pending", !.timer = "asleep"]
                       ELSE IF j = o THEN [task[o] EXCEPT !.phase = "superseded", !.timer = left] ELSE task[j]
    <2>2. DOMAIN task' = Ids /\ Ids' = Ids /\ task' = [j \in Ids |-> task'[j]]
        BY <2>1 DEF Ids
    <2>3. \A j \in Ids : task'[j] = t(j)
        BY <1>2, <1>4, <2>1 DEF Ids
    <2>4. left \in Timers
        BY <2>1 DEF AfterAbort, Timers
    <2>5. ASSUME NEW j \in Ids
          PROVE  /\ t(j) \in TaskRec /\ t(j).place = task[j].place /\ t(j).kind = task[j].kind
                 /\ t(j).prev = task[j].prev /\ t(j).done = task[j].done /\ t(j).cancelled = task[j].cancelled
                 /\ t(j).parts = task[j].parts
                 /\ t(j).phase = (IF j = i THEN "pending" ELSE IF j = o THEN "superseded" ELSE task[j].phase)
        <3>1. task[j] \in TaskRec
            BY <1>1, <2>5
        <3>2. CASE j = i
            <4>1. t(j) = [task[j] EXCEPT !.phase = "pending", !.timer = "asleep"]
                BY <3>2
            <4> HIDE DEF t
            <4> QED
                BY <3>1, <3>2, <4>1 DEF TaskRec, Phases, Timers
        <3>3. CASE j # i /\ j = o
            <4>1. t(j) = [task[j] EXCEPT !.phase = "superseded", !.timer = left]
                BY <3>3
            <4> HIDE DEF t
            <4> QED
                BY <2>4, <3>1, <3>3, <4>1 DEF TaskRec, Phases
        <3>4. CASE j # i /\ j # o
            <4>1. t(j) = task[j]
                BY <3>4
            <4> HIDE DEF t
            <4> QED
                BY <3>1, <3>4, <4>1
        <3> QED
            BY <3>2, <3>3, <3>4
    <2> HIDE DEF t
    <2>6. task' \in Seq(TaskRec)
        BY <2>2, <2>3, <2>5, StillTasks
    <2> QED
        BY <1>2, <1>4, <2>2, <2>3, <2>5, <2>6 DEF Origins, Rest
<1> QED
    BY <1>3, <1>4

WithText(r, phase, parts) == [r EXCEPT !.phase = phase, !.parts = parts]

LEMMA Texted ==
    ASSUME NEW r \in TaskRec, NEW phase \in Phases, NEW parts \in Seq(Nat)
    PROVE  LET n == WithText(r, phase, parts) IN
           /\ n \in TaskRec /\ n.place = r.place /\ n.kind = r.kind
           /\ n.prev = r.prev /\ n.done = r.done /\ n.cancelled = r.cancelled
           /\ n.phase = phase /\ n.parts = parts
BY DEF TaskRec, WithText

LEMMA HoldFacts ==
    ASSUME Types, NEW i \in Ids, Hold(i)
    PROVE  /\ task' \in Seq(TaskRec) /\ Origins
           /\ task[i].phase = "queued" /\ task'[i].phase = "held" /\ task'[i].parts = <<i>>
           /\ \A j \in Ids : Rest(j) /\ (j # i => task'[j] = task[j])
<1>1. /\ At(i, "queued") /\ i \in Nat /\ task' = [task EXCEPT ![i].phase = "held", ![i].parts = <<i>>]
      /\ \A j \in Ids : task[j] \in TaskRec
    BY IdsFacts DEF Hold, GoesOn, Receives
<1> DEFINE t(j) == IF j = i THEN [task[i] EXCEPT !.phase = "held", !.parts = <<i>>] ELSE task[j]
<1>2. DOMAIN task' = Ids /\ Ids' = Ids /\ task' = [j \in Ids |-> task'[j]] /\ \A j \in Ids : task'[j] = t(j)
    BY <1>1 DEF Ids
<1>3. <<i>> \in Seq(Nat)
    BY <1>1
<1>4. ASSUME NEW j \in Ids
      PROVE  /\ t(j) \in TaskRec /\ t(j).place = task[j].place /\ t(j).kind = task[j].kind
             /\ t(j).prev = task[j].prev /\ t(j).done = task[j].done /\ t(j).cancelled = task[j].cancelled
             /\ j = i => t(j).phase = "held" /\ t(j).parts = <<i>>
             /\ j # i => t(j) = task[j]
    <2>1. CASE j = i
        <3> DEFINE one == <<i>>
        <3>1. one \in Seq(Nat) /\ task[i] \in TaskRec
            BY <1>1, <1>3
        <3>2. t(j) = WithText(task[i], "held", one)
            BY <2>1 DEF WithText
        <3> HIDE DEF one, t
        <3>3. "held" \in Phases
            BY DEF Phases
        <3>4. /\ t(j) \in TaskRec /\ t(j).place = task[i].place /\ t(j).kind = task[i].kind
              /\ t(j).prev = task[i].prev /\ t(j).done = task[i].done /\ t(j).cancelled = task[i].cancelled
              /\ t(j).phase = "held" /\ t(j).parts = one
            BY <3>1, <3>2, <3>3, Texted
        <3> QED
            BY <2>1, <3>4 DEF one
    <2>2. CASE j # i
        BY <1>1, <1>4, <2>2
    <2> QED
        BY <2>1, <2>2
<1> HIDE DEF t
<1>5. task' \in Seq(TaskRec)
    BY <1>2, <1>4, StillTasks
<1>6. task[i].phase = "queued"
    BY DEF Hold, GoesOn, Receives, At
<1>7. /\ \A j \in Ids : task'[j].place = task[j].place /\ task'[j].kind = task[j].kind
      /\ \A j \in Ids : Rest(j) /\ (j # i => task'[j] = task[j])
      /\ task'[i].phase = "held" /\ task'[i].parts = <<i>>
    BY <1>2, <1>4 DEF Rest
<1> QED
    BY <1>2, <1>5, <1>6, <1>7 DEF Origins

LEMMA ElapseFacts ==
    ASSUME Types, NEW i \in Ids, Elapse(i)
    PROVE  /\ task' \in Seq(TaskRec) /\ Origins
           /\ \A j \in Ids : Rest(j) /\ task'[j].phase = task[j].phase /\ task'[j].parts = task[j].parts
<1>1. task' = [task EXCEPT ![i].timer = "firing"] /\ \A j \in Ids : task[j] \in TaskRec
    BY IdsFacts DEF Elapse
<1> DEFINE t(j) == IF j = i THEN [task[i] EXCEPT !.timer = "firing"] ELSE task[j]
<1>2. DOMAIN task' = Ids /\ Ids' = Ids /\ task' = [j \in Ids |-> task'[j]] /\ \A j \in Ids : task'[j] = t(j)
    BY <1>1 DEF Ids
<1>3. ASSUME NEW j \in Ids
      PROVE  /\ t(j) \in TaskRec /\ t(j).place = task[j].place /\ t(j).kind = task[j].kind
             /\ t(j).prev = task[j].prev /\ t(j).done = task[j].done /\ t(j).cancelled = task[j].cancelled
             /\ t(j).phase = task[j].phase /\ t(j).parts = task[j].parts
    BY <1>1, <1>3 DEF TaskRec, Timers
<1> HIDE DEF t
<1>4. task' \in Seq(TaskRec)
    BY <1>2, <1>3, StillTasks
<1> QED
    BY <1>2, <1>3, <1>4 DEF Origins, Rest

LEMMA FireFacts ==
    ASSUME Types, NEW i \in Ids, Fire(i), NEW e, e = entry[Key(i)]
    PROVE  /\ task' \in Seq(TaskRec) /\ Origins
           /\ \A j \in Ids : Rest(j)
           /\ \A j \in Ids : j = e.owner => task'[j].phase = "ready" /\ task'[j].parts = e.parts
           /\ \A j \in Ids : j # e.owner => task'[j].phase = task[j].phase /\ task'[j].parts = task[j].parts
           /\ entry' = IF e.owner = 0 THEN entry ELSE Cleared(Key(i))
<1>1. /\ \A j \in Ids : task[j] \in TaskRec
      /\ e.owner \in Nat /\ e.parts \in Seq(Nat) /\ 0 \notin Ids
    <2>1. Key(i) \in Keys /\ entry \in [Keys -> EntryRec] /\ 0 \notin Ids
        BY IdsFacts DEF Types
    <2>2. e \in EntryRec
        BY <2>1
    <2> QED
        BY <2>1, <2>2, IdsFacts DEF EntryRec
<1> DEFINE u(j) == [task[j] EXCEPT !.timer = IF j = i THEN "none" ELSE @,
                                   !.phase = IF j = e.owner THEN "ready" ELSE @,
                                   !.parts = IF j = e.owner THEN e.parts ELSE @]
           t(j) == IF e.owner = 0 THEN (IF j = i THEN [task[i] EXCEPT !.timer = "none"] ELSE task[j]) ELSE u(j)
<1>2. DOMAIN task' = Ids /\ Ids' = Ids /\ task' = [j \in Ids |-> task'[j]] /\ \A j \in Ids : task'[j] = t(j)
    <2>1. CASE e.owner = 0
        <3>1. task' = [task EXCEPT ![i].timer = "none"]
            BY <2>1 DEF Fire
        <3> QED
            BY <2>1, <3>1 DEF Ids
    <2>2. CASE e.owner # 0
        <3>1. task' = [j \in Ids |-> u(j)]
            BY <2>2 DEF Fire
        <3> HIDE DEF u
        <3> QED
            BY <2>2, <3>1 DEF Ids
    <2> QED
        BY <2>1, <2>2
<1>3. ASSUME NEW j \in Ids
      PROVE  /\ t(j) \in TaskRec /\ t(j).place = task[j].place /\ t(j).kind = task[j].kind
             /\ t(j).prev = task[j].prev /\ t(j).done = task[j].done /\ t(j).cancelled = task[j].cancelled
             /\ j = e.owner => t(j).phase = "ready" /\ t(j).parts = e.parts
             /\ j # e.owner => t(j).phase = task[j].phase /\ t(j).parts = task[j].parts
    <2>1. CASE e.owner = 0
        BY <1>1, <1>3, <2>1 DEF TaskRec, Timers
    <2>2. CASE e.owner # 0 /\ j # e.owner
        BY <1>1, <1>3, <2>2 DEF TaskRec, Timers
    <2>3. CASE e.owner # 0 /\ j = e.owner
        <3> DEFINE r == [task[j] EXCEPT !.timer = IF j = i THEN "none" ELSE @]
        <3>1. /\ r \in TaskRec /\ "ready" \in Phases /\ e.parts \in Seq(Nat)
              /\ r.place = task[j].place /\ r.kind = task[j].kind
              /\ r.prev = task[j].prev /\ r.done = task[j].done /\ r.cancelled = task[j].cancelled
            BY <1>1, <1>3 DEF TaskRec, Timers, Phases
        <3>2. t(j) = WithText(r, "ready", e.parts)
            BY <2>3 DEF WithText
        <3> HIDE DEF t, r
        <3>3. /\ t(j) \in TaskRec /\ t(j).place = task[j].place /\ t(j).kind = task[j].kind
              /\ t(j).prev = task[j].prev /\ t(j).done = task[j].done /\ t(j).cancelled = task[j].cancelled
              /\ t(j).phase = "ready" /\ t(j).parts = e.parts
            BY <3>1, <3>2, Texted
        <3> QED
            BY <2>3, <3>3
    <2> QED
        BY <2>1, <2>2, <2>3
<1> HIDE DEF t
<1>4. task' \in Seq(TaskRec)
    BY <1>2, <1>3, StillTasks
<1>5. entry' = IF e.owner = 0 THEN entry ELSE Cleared(Key(i))
    BY DEF Fire
<1> QED
    BY <1>2, <1>3, <1>4, <1>5 DEF Origins, Rest

LEMMA RegisterFacts ==
    ASSUME Types, NEW i \in Ids, Register(i), NEW previous, previous = inFlight[Scope(i)]
    PROVE  /\ task' \in Seq(TaskRec) /\ Origins
           /\ task[i].phase = "spawned" /\ ~task[i].place.cli
           /\ task'[i].phase = (IF Interrupts(i) /\ previous # 0 THEN "loading" ELSE "starting")
           /\ task'[i].prev = previous /\ task'[i].cancelled = task[i].cancelled
           /\ \A j \in Ids : j # i => task'[j].phase = task[j].phase /\ task'[j].prev = task[j].prev
           /\ \A j \in Ids : j # i /\ Interrupts(i) /\ j = previous => task'[j].cancelled
           /\ \A j \in Ids : j # i /\ ~(Interrupts(i) /\ j = previous) => task'[j].cancelled = task[j].cancelled
           /\ \A j \in Ids : /\ task'[j].done = task[j].done /\ task'[j].timer = task[j].timer
                             /\ task'[j].parts = task[j].parts
<1> DEFINE t(j) == IF j = i THEN [task[i] EXCEPT !.prev = previous, !.phase = AfterRegistering(i, previous)]
                   ELSE IF Interrupts(i) /\ j = previous THEN [task[j] EXCEPT !.cancelled = TRUE] ELSE task[j]
<1>1. task' = [j \in Ids |-> t(j)] /\ task[i].phase = "spawned" /\ ~task[i].place.cli
    BY DEF Register, At
<1>2. (\A j \in Ids : task[j] \in TaskRec) /\ previous \in Nat
    BY IdsFacts DEF Types
<1>3. DOMAIN task' = Ids /\ Ids' = Ids /\ task' = [j \in Ids |-> task'[j]] /\ \A j \in Ids : task'[j] = t(j)
    BY <1>1 DEF Ids
<1>4. ASSUME NEW j \in Ids
      PROVE  /\ t(j) \in TaskRec /\ t(j).place = task[j].place /\ t(j).kind = task[j].kind
             /\ t(j).done = task[j].done /\ t(j).timer = task[j].timer /\ t(j).parts = task[j].parts
             /\ t(j).phase = (IF j = i THEN AfterRegistering(i, previous) ELSE task[j].phase)
             /\ t(j).prev = (IF j = i THEN previous ELSE task[j].prev)
             /\ j = i => t(j).cancelled = task[j].cancelled
             /\ j # i /\ Interrupts(i) /\ j = previous => t(j).cancelled
             /\ j # i /\ ~(Interrupts(i) /\ j = previous) => t(j).cancelled = task[j].cancelled
    <2>1. AfterRegistering(i, previous) \in Phases
        BY DEF AfterRegistering, Phases
    <2> QED
        BY <1>2, <1>4, <2>1 DEF TaskRec
<1> HIDE DEF t
<1>5. task' \in Seq(TaskRec)
    BY <1>3, <1>4, StillTasks
<1> QED
    BY <1>1, <1>3, <1>4, <1>5 DEF Origins, AfterRegistering

LEMMA MarkDoneFacts ==
    ASSUME Types, NEW i \in Ids, MarkDone(i)
    PROVE  /\ task' \in Seq(TaskRec) /\ Origins
           /\ task[i].phase = "removed" /\ task'[i].phase = "ended"
           /\ \A j \in Ids : j # i /\ task[j].phase = "waiting" /\ task[j].prev = i => task'[j].phase = "starting"
           /\ \A j \in Ids : j # i /\ ~(task[j].phase = "waiting" /\ task[j].prev = i) => task'[j].phase = task[j].phase
           /\ \A j \in Ids : j # i => task'[j].done = task[j].done
           /\ \A j \in Ids : /\ task'[j].prev = task[j].prev /\ task'[j].cancelled = task[j].cancelled
                             /\ task'[j].timer = task[j].timer /\ task'[j].parts = task[j].parts
<1> DEFINE t(j) == IF j = i THEN [task[i] EXCEPT !.phase = "ended", !.done = TRUE]
                   ELSE IF task[j].phase = "waiting" /\ task[j].prev = i
                        THEN [task[j] EXCEPT !.phase = "starting"] ELSE task[j]
<1>1. task' = [j \in Ids |-> t(j)] /\ task[i].phase = "removed"
    BY DEF MarkDone, At
<1>2. \A j \in Ids : task[j] \in TaskRec
    BY IdsFacts
<1>3. DOMAIN task' = Ids /\ Ids' = Ids /\ task' = [j \in Ids |-> task'[j]] /\ \A j \in Ids : task'[j] = t(j)
    BY <1>1 DEF Ids
<1>4. ASSUME NEW j \in Ids
      PROVE  /\ t(j) \in TaskRec /\ t(j).place = task[j].place /\ t(j).kind = task[j].kind
             /\ t(j).prev = task[j].prev /\ t(j).cancelled = task[j].cancelled
             /\ t(j).timer = task[j].timer /\ t(j).parts = task[j].parts
             /\ t(j).phase = (IF j = i THEN "ended" ELSE IF task[j].phase = "waiting" /\ task[j].prev = i
                              THEN "starting" ELSE task[j].phase)
             /\ j # i => t(j).done = task[j].done
    BY <1>2, <1>4 DEF TaskRec, Phases
<1> HIDE DEF t
<1>5. task' \in Seq(TaskRec)
    BY <1>3, <1>4, StillTasks
<1> QED
    BY <1>1, <1>3, <1>4, <1>5 DEF Origins

-----------------------------------------------------------------------------
(* Every step is of one of ten sorts. *)

PlainMove(i, phase) ==
    /\ Move(i, phase) /\ UNCHANGED <<holding, permits, inFlight, entry>>
    /\ \/ task[i].phase = "queued" /\ phase = "dropped" /\ i = taken + 1 /\ taken' = i
       \/ /\ taken' = taken
          /\ \/ task[i].phase = "spawned" /\ phase = "starting" /\ task[i].place.cli
             \/ task[i].phase = "loading" /\ phase = "starting" /\ task[task[i].prev].done
             \/ task[i].phase = "loading" /\ phase = "subscribing"
             \/ task[i].phase = "subscribing" /\ phase = "waiting"
             \/ task[i].phase = "starting" /\ phase = "opening"
             \/ task[i].phase = "opening" /\ phase = "answering"
             \/ task[i].phase \in {"starting", "opening", "answering"} /\ phase = "leaving"

Admission(i) ==
    /\ Move(i, "spawned") /\ task[i].phase \in {"held", "ready"}
    /\ permits > 0 /\ permits' = permits - 1
    /\ holding' \in {holding, 0} /\ UNCHANGED <<taken, inFlight, entry>>

Sorts(i) ==
    \/ \E phase \in Phases : PlainMove(i, phase)
    \/ Admission(i) \/ Leave(i) \/ StopCommand(i) \/ Debounce(i) \/ Hold(i)
    \/ Elapse(i) \/ Fire(i) \/ Register(i) \/ MarkDone(i)

LEMMA NextSorts == ASSUME Next PROVE \E i \in Ids : Sorts(i)
<1>1. PICK i \in Ids : Loop(i) \/ Timer(i) \/ Around(i) \/ Body(i)
    BY DEF Next
<1>2. ASSUME NEW phase \in Phases, PlainMove(i, phase) PROVE Sorts(i)
    BY <1>2 DEF Sorts
<1>3. {"dropped", "starting", "subscribing", "waiting", "opening", "answering", "leaving"} \subseteq Phases
    BY DEF Phases
<1>4. CASE DropUnowned(i)
    <2>1. PlainMove(i, "dropped")
        BY <1>4 DEF DropUnowned, Receives, At, PlainMove
    <2> QED
        BY <1>2, <1>3, <2>1
<1>5. CASE AdmitHeld(i) \/ AdmitReady(i)
    <2>1. Admission(i)
        BY <1>5 DEF AdmitHeld, AdmitReady, Admission, At
    <2> QED
        BY <2>1 DEF Sorts
<1>6. CASE StartConsole(i)
    <2>1. PlainMove(i, "starting")
        BY <1>6 DEF StartConsole, At, PlainMove
    <2> QED
        BY <1>2, <1>3, <2>1
<1>7. CASE Load(i)
    <2>1. CASE task[task[i].prev].done
        <3>1. PlainMove(i, "starting")
            BY <1>7, <2>1 DEF Load, At, PlainMove
        <3> QED
            BY <1>2, <1>3, <3>1
    <2>2. CASE ~task[task[i].prev].done
        <3>1. PlainMove(i, "subscribing")
            BY <1>7, <2>2 DEF Load, At, PlainMove
        <3> QED
            BY <1>2, <1>3, <3>1
    <2> QED
        BY <2>1, <2>2
<1>8. CASE Subscribe(i)
    <2>1. PlainMove(i, "waiting")
        BY <1>8 DEF Subscribe, At, PlainMove
    <2> QED
        BY <1>2, <1>3, <2>1
<1>9. CASE Start(i)
    <2>1. PlainMove(i, "leaving") \/ PlainMove(i, "opening")
        BY <1>9 DEF Start, At, PlainMove
    <2> QED
        BY <1>2, <1>3, <2>1
<1>10. CASE Skip(i) \/ Answer(i)
    <2>1. PlainMove(i, "leaving")
        BY <1>10 DEF Skip, Answer, At, PlainMove
    <2> QED
        BY <1>2, <1>3, <2>1
<1>11. CASE Open(i)
    <2>1. PlainMove(i, "answering")
        BY <1>11 DEF Open, At, PlainMove
    <2> QED
        BY <1>2, <1>3, <2>1
<1>12. CASE StopCommand(i) \/ Debounce(i) \/ Hold(i) \/ Elapse(i) \/ Fire(i) \/ Register(i) \/ Leave(i) \/ MarkDone(i)
    BY <1>12 DEF Sorts
<1> QED
    BY <1>1, <1>4, <1>5, <1>6, <1>7, <1>8, <1>9, <1>10, <1>11, <1>12 DEF Loop, Timer, Around, Body

-----------------------------------------------------------------------------
(* Types and the owners of the windows. *)

Bounded == taken \in 0..Len(task) /\ holding \in 0..Len(task)

LEMMA SameLength ==
    ASSUME Types, task' \in Seq(TaskRec), Ids' = Ids
    PROVE  Len(task') = Len(task)
<1>1. /\ Ids = 1..Len(task) /\ Len(task) \in Nat
      /\ DOMAIN task' = 1..Len(task') /\ Len(task') \in Nat
    BY IdsFacts
<1>2. 1..Len(task') = 1..Len(task)
    BY <1>1 DEF Ids
<1> QED
    BY <1>1, <1>2

LEMMA TypesKept ==
    ASSUME Types, Owners, Bounded, NEW i \in Ids, Sorts(i)
    PROVE  Types' /\ Bounded' /\ Origins
<1>1. /\ i \in 1..Len(task) /\ Len(task) \in Nat /\ i \in Nat /\ Scope(i) \in Scopes /\ Key(i) \in Keys
      /\ taken \in Nat /\ holding \in Nat /\ permits \in Nat
      /\ inFlight \in [Scopes -> Nat] /\ entry \in [Keys -> EntryRec]
    BY IdsFacts DEF Types
<1>2. SUFFICES /\ task' \in Seq(TaskRec) /\ Origins
               /\ taken' \in {taken, i} /\ holding' \in {holding, 0, i} /\ permits' \in Nat
               /\ inFlight' \in [Scopes -> Nat] /\ entry' \in [Keys -> EntryRec]
    <2>1. Len(task') = Len(task)
        BY <1>2, SameLength DEF Origins
    <2>2. taken' \in Nat /\ holding' \in Nat
        BY <1>1, <1>2
    <2>3. Bounded'
        BY <1>1, <1>2, <2>1 DEF Bounded
    <2> QED
        BY <1>2, <2>2, <2>3 DEF Types
<1>3. ASSUME NEW phase \in Phases, PlainMove(i, phase)
      PROVE  task' \in Seq(TaskRec) /\ Origins
    BY <1>3, MoveFacts DEF PlainMove
<1>4. CASE \E phase \in Phases : PlainMove(i, phase)
    BY <1>1, <1>3, <1>4 DEF PlainMove
<1>5. CASE Admission(i)
    <2>1. "spawned" \in Phases
        BY DEF Phases
    <2>2. task' \in Seq(TaskRec) /\ Origins
        BY <1>5, <2>1, MoveFacts DEF Admission
    <2> QED
        BY <1>1, <1>5, <2>2 DEF Admission
<1>6. CASE Leave(i)
    <2>1. "removed" \in Phases
        BY DEF Phases
    <2>2. task' \in Seq(TaskRec) /\ Origins
        BY <1>6, <2>1, MoveFacts DEF Leave
    <2> QED
        BY <1>1, <1>6, <2>2 DEF Leave, Unregistered
<1>7. CASE StopCommand(i)
    <2>1. task' \in Seq(TaskRec) /\ Origins
        BY <1>7, StopFacts
    <2> QED
        BY <1>1, <1>7, <2>1 DEF StopCommand, Receives
<1>8. CASE Debounce(i)
    <2>1. task' \in Seq(TaskRec) /\ Origins
        BY <1>8, DebounceFacts
    <2>2. entry[Key(i)] \in EntryRec
        BY <1>1
    <2> DEFINE parts == Append(entry[Key(i)].parts, i)
    <2>3. parts \in Seq(Nat)
        <3>1. entry[Key(i)].parts \in Seq(Nat)
            BY <2>2 DEF EntryRec
        <3> QED
            BY <1>1, <3>1
    <2>4. Joined(entry[Key(i)], i) = [parts |-> parts, owner |-> i]
        BY DEF Joined
    <2> HIDE DEF parts
    <2>5. Joined(entry[Key(i)], i) \in EntryRec
        BY <1>1, <2>3, <2>4 DEF EntryRec
    <2>6. entry' \in [Keys -> EntryRec]
        BY <1>1, <1>8, <2>5 DEF Debounce
    <2> QED
        BY <1>1, <1>8, <2>1, <2>6 DEF Debounce, GoesOn, Receives
<1>9. CASE Hold(i)
    <2>1. task' \in Seq(TaskRec) /\ Origins
        BY <1>9, HoldFacts
    <2> QED
        BY <1>1, <1>9, <2>1 DEF Hold, GoesOn, Receives
<1>10. CASE Elapse(i)
    <2>1. task' \in Seq(TaskRec) /\ Origins
        BY <1>10, ElapseFacts
    <2> QED
        BY <1>1, <1>10, <2>1 DEF Elapse
<1>11. CASE Fire(i)
    <2>1. /\ task' \in Seq(TaskRec) /\ Origins
          /\ entry' = IF entry[Key(i)].owner = 0 THEN entry ELSE Cleared(Key(i))
        BY <1>11, FireFacts
    <2>2. NoEntry \in EntryRec
        <3>1. << >> \in Seq(Nat)
            OBVIOUS
        <3> DEFINE none == << >>
        <3>2. none \in Seq(Nat) /\ NoEntry = [parts |-> none, owner |-> 0]
            BY <3>1 DEF NoEntry
        <3> HIDE DEF none
        <3> QED
            BY <3>2 DEF EntryRec
    <2>3. entry' \in [Keys -> EntryRec]
        BY <1>1, <2>1, <2>2 DEF Cleared
    <2> QED
        BY <1>1, <1>11, <2>1, <2>3 DEF Fire
<1>12. CASE Register(i)
    <2>1. task' \in Seq(TaskRec) /\ Origins
        BY <1>12, RegisterFacts
    <2> QED
        BY <1>1, <1>12, <2>1 DEF Register
<1>13. CASE MarkDone(i)
    <2>1. task' \in Seq(TaskRec) /\ Origins
        BY <1>13, MarkDoneFacts
    <2> QED
        BY <1>1, <1>13, <2>1 DEF MarkDone, GivenBack
<1> QED
    BY <1>4, <1>5, <1>6, <1>7, <1>8, <1>9, <1>10, <1>11, <1>12, <1>13 DEF Sorts

-----------------------------------------------------------------------------
(* The same steps as the map, the permits and the turns see them: four sorts are left. *)


\* Nothing that concerns a task with a permit or one the loop has dealt with.
Outside ==
    /\ inFlight' = inFlight /\ permits' = permits
    /\ \A j \in Ids : /\ Rest(j)
                      /\ task[j].phase \in HoldsPermit \cup {"handled", "ended"} => task'[j].phase = task[j].phase
                      /\ task[j].phase \notin HoldsPermit => task'[j].phase \notin HoldsPermit

\* A registered task, or one about to start, goes on.
Inside(i) ==
    /\ inFlight' = inFlight /\ permits' = permits
    /\ \A j \in Ids : Rest(j) /\ (j # i => task'[j].phase = task[j].phase)
    /\ task'[i].phase \in Registered
    /\ \/ task[i].phase \in Registered
       \/ /\ task[i].phase = "spawned"
          /\ task[i].place.cli
    /\ task'[i].phase \in {"loading", "subscribing", "waiting"} =>
          task[i].phase \in {"loading", "subscribing", "waiting"}
    /\ task[i].phase \in {"loading", "subscribing", "waiting"} =>
          \/ task'[i].phase \in {"loading", "subscribing", "waiting"}
          \/ task[task[i].prev].done

Admitted(i) ==
    /\ inFlight' = inFlight /\ permits' = permits - 1 /\ permits > 0
    /\ \A j \in Ids : Rest(j) /\ (j # i => task'[j].phase = task[j].phase)
    /\ task[i].phase \in {"held", "ready"} /\ task'[i].phase = "spawned"

Coarse(i) == Outside \/ Inside(i) \/ Admitted(i) \/ Leave(i) \/ StopCommand(i) \/ Register(i) \/ MarkDone(i)

LEMMA CoarseSteps ==
    ASSUME Types, Owners, NEW i \in Ids, Sorts(i)
    PROVE  Coarse(i)
<1>1. ASSUME NEW phase \in Phases, PlainMove(i, phase) PROVE Outside \/ Inside(i)
    <2>1. /\ inFlight' = inFlight /\ permits' = permits /\ \A j \in Ids : Rest(j)
          /\ \A j \in Ids : j # i => task'[j].phase = task[j].phase
          /\ task'[i].phase = phase
        BY <1>1, MoveFacts DEF PlainMove, Rest
    <2>2. CASE task[i].phase = "queued"
        <3>1. phase = "dropped"
            BY <1>1, <2>2 DEF PlainMove
        <3> QED
            BY <2>1, <2>2, <3>1 DEF Outside, HoldsPermit, Registered, Working
    <2>3. CASE task[i].phase # "queued"
        <3>1. \/ task[i].phase = "spawned" /\ phase = "starting" /\ task[i].place.cli
              \/ task[i].phase = "loading" /\ phase = "starting" /\ task[task[i].prev].done
              \/ task[i].phase = "loading" /\ phase = "subscribing"
              \/ task[i].phase = "subscribing" /\ phase = "waiting"
              \/ task[i].phase = "starting" /\ phase = "opening"
              \/ task[i].phase = "opening" /\ phase = "answering"
              \/ task[i].phase \in {"starting", "opening", "answering"} /\ phase = "leaving"
            BY <1>1, <2>3 DEF PlainMove
        <3> QED
            BY <2>1, <3>1 DEF Inside, Registered, Working
    <2> QED
        BY <2>2, <2>3
<1>2. CASE \E phase \in Phases : PlainMove(i, phase)
    BY <1>1, <1>2 DEF Coarse
<1>3. CASE Admission(i)
    <2>1. "spawned" \in Phases
        BY DEF Phases
    <2>2. /\ \A j \in Ids : Rest(j)
          /\ \A j \in Ids : j # i => task'[j].phase = task[j].phase
          /\ task'[i].phase = "spawned"
        BY <1>3, <2>1, MoveFacts DEF Admission, Rest
    <2> QED
        BY <1>3, <2>2 DEF Admission, Admitted, Coarse
<1>4. CASE Debounce(i)
    <2> DEFINE o == entry[Key(i)].owner
    <2> HIDE DEF o
    <2>1. /\ task[i].phase = "queued" /\ task'[i].phase = "pending"
          /\ o # 0 => o \in Ids /\ task[o].phase = "pending" /\ task'[o].phase = "superseded"
          /\ \A j \in Ids : j # i /\ j # o => task'[j].phase = task[j].phase
          /\ \A j \in Ids : Rest(j)
        BY <1>4, DebounceFacts DEF o
    <2>2. inFlight' = inFlight /\ permits' = permits
        BY <1>4 DEF Debounce
    <2>3. 0 \notin Ids
        BY IdsFacts
    <2> QED
        BY <2>1, <2>2, <2>3 DEF Outside, Coarse, HoldsPermit, Registered, Working
<1>5. CASE Hold(i)
    <2>1. /\ task[i].phase = "queued" /\ task'[i].phase = "held"
          /\ \A j \in Ids : Rest(j) /\ (j # i => task'[j] = task[j])
        BY <1>5, HoldFacts
    <2>2. inFlight' = inFlight /\ permits' = permits
        BY <1>5 DEF Hold
    <2> QED
        BY <2>1, <2>2 DEF Outside, Coarse, HoldsPermit, Registered, Working
<1>6. CASE Elapse(i)
    <2>1. \A j \in Ids : Rest(j) /\ task'[j].phase = task[j].phase
        BY <1>6, ElapseFacts
    <2>2. inFlight' = inFlight /\ permits' = permits
        BY <1>6 DEF Elapse
    <2> QED
        BY <2>1, <2>2 DEF Outside, Coarse
<1>7. CASE Fire(i)
    <2> DEFINE e == entry[Key(i)]
    <2> HIDE DEF e
    <2>1. /\ \A j \in Ids : Rest(j)
          /\ \A j \in Ids : j = e.owner => task'[j].phase = "ready"
          /\ \A j \in Ids : j # e.owner => task'[j].phase = task[j].phase
        BY <1>7, FireFacts DEF e
    <2>2. inFlight' = inFlight /\ permits' = permits
        BY <1>7 DEF Fire
    <2>3. 0 \notin Ids /\ Key(i) \in Keys
        BY IdsFacts
    <2>4. e.owner # 0 => e.owner \in Ids /\ task[e.owner].phase = "pending"
        BY <2>3 DEF Owners, e
    <2> QED
        BY <2>1, <2>2, <2>3, <2>4 DEF Outside, Coarse, HoldsPermit, Registered, Working
<1>8. CASE Leave(i) \/ StopCommand(i) \/ Register(i) \/ MarkDone(i)
    BY <1>8 DEF Coarse
<1> QED
    BY <1>2, <1>3, <1>4, <1>5, <1>6, <1>7, <1>8 DEF Sorts

LEMMA LeaveFacts ==
    ASSUME Types, NEW i \in Ids, Leave(i)
    PROVE  /\ task[i].phase = "leaving" /\ task'[i].phase = "removed" /\ permits' = permits
           /\ \A j \in Ids : Rest(j) /\ (j # i => task'[j].phase = task[j].phase)
           /\ inFlight' = Unregistered(i)
<1>1. Move(i, "removed") /\ "removed" \in Phases
    BY DEF Leave, Phases
<1> QED
    BY <1>1, MoveFacts DEF Leave, At, Rest

-----------------------------------------------------------------------------
(* The windows' owners, the map and the flags of completion. *)

LEMMA OwnersKept ==
    ASSUME Types, Owners, NEW i \in Ids, Sorts(i), Origins
    PROVE  Owners'
<1>1. /\ Key(i) \in Keys /\ 0 \notin Ids /\ Ids' = Ids
      /\ entry \in [Keys -> EntryRec]
      /\ \A j \in Ids : Key(j)' = Key(j)
    BY IdsFacts DEF Types, Origins, Key
\* It is enough that the owners are the same and none of them moves.
<1>2. ASSUME \A k \in Keys : entry'[k].owner \in {entry[k].owner, 0},
             \A j \in Ids : /\ task[j].phase = "pending" /\ entry'[Key(j)].owner = j
                            => task'[j].phase = "pending"
      PROVE  Owners'
    BY <1>1, <1>2 DEF Owners
<1>3. CASE \E phase \in Phases : PlainMove(i, phase)
    <2>1. PICK phase \in Phases : PlainMove(i, phase)
        BY <1>3
    <2>2. task[i].phase # "pending" /\ entry' = entry
        BY <2>1 DEF PlainMove
    <2>3. \A j \in Ids : j # i => task'[j].phase = task[j].phase
        BY <2>1, MoveFacts DEF PlainMove
    <2> QED
        BY <1>2, <2>2, <2>3
<1>4. CASE Admission(i) \/ Leave(i)
    <2>1. PICK phase \in {"spawned", "removed"} : Move(i, phase)
        BY <1>4 DEF Admission, Leave
    <2>2. phase \in Phases
        BY DEF Phases
    <2>3. task[i].phase # "pending" /\ entry' = entry
        BY <1>4 DEF Admission, Leave, At
    <2>4. \A j \in Ids : j # i => task'[j].phase = task[j].phase
        BY <2>1, <2>2, MoveFacts
    <2> QED
        BY <1>2, <2>3, <2>4
<1>5. CASE StopCommand(i)
    <2>1. task[i].phase = "queued" /\ \A j \in Ids : j # i => task'[j].phase = task[j].phase
        BY <1>5, StopFacts
    <2> QED
        BY <1>2, <1>5, <2>1 DEF StopCommand
<1>6. CASE Hold(i)
    <2>1. task[i].phase = "queued" /\ \A j \in Ids : j # i => task'[j] = task[j]
        BY <1>6, HoldFacts
    <2> QED
        BY <1>2, <1>6, <2>1 DEF Hold
<1>7. CASE Elapse(i)
    <2>1. \A j \in Ids : task'[j].phase = task[j].phase
        BY <1>7, ElapseFacts
    <2> QED
        BY <1>2, <1>7, <2>1 DEF Elapse
<1>8. CASE Register(i)
    <2>1. task[i].phase = "spawned" /\ \A j \in Ids : j # i => task'[j].phase = task[j].phase
        BY <1>8, RegisterFacts
    <2> QED
        BY <1>2, <1>8, <2>1 DEF Register
<1>9. CASE MarkDone(i)
    <2>1. /\ task[i].phase = "removed"
          /\ \A j \in Ids : j # i /\ ~(task[j].phase = "waiting" /\ task[j].prev = i) => task'[j].phase = task[j].phase
        BY <1>9, MarkDoneFacts
    <2> QED
        BY <1>2, <1>9, <2>1 DEF MarkDone
<1>10. CASE Fire(i)
    <2> DEFINE e == entry[Key(i)]
    <2> HIDE DEF e
    <2>1. /\ \A j \in Ids : j # e.owner => task'[j].phase = task[j].phase
          /\ entry' = IF e.owner = 0 THEN entry ELSE Cleared(Key(i))
        BY <1>10, FireFacts DEF e
    <2>2. \A k \in Keys : entry'[k].owner \in {entry[k].owner, 0}
        BY <1>1, <2>1 DEF Cleared, NoEntry
    <2>3. ASSUME NEW j \in Ids, task[j].phase = "pending", entry'[Key(j)].owner = j
          PROVE  task'[j].phase = "pending"
        <3>1. CASE j # e.owner
            BY <2>1, <2>3, <3>1
        <3>2. CASE j = e.owner
            <4>1. Key(j) = Key(i) /\ e.owner # 0
                BY <1>1, <3>2 DEF Owners, e
            <4>2. entry'[Key(j)].owner = 0
                BY <1>1, <2>1, <4>1 DEF Cleared, NoEntry
            <4> QED
                BY <1>1, <2>3, <4>2
        <3> QED
            BY <3>1, <3>2
    <2> QED
        BY <1>2, <2>2, <2>3
<1>11. CASE Debounce(i)
    <2> DEFINE o == entry[Key(i)].owner
    <2> HIDE DEF o
    <2>1. /\ task[i].phase = "queued" /\ task'[i].phase = "pending"
          /\ \A j \in Ids : j # i /\ j # o => task'[j].phase = task[j].phase
        BY <1>11, DebounceFacts DEF o
    <2>2. entry' = [entry EXCEPT ![Key(i)] = Joined(entry[Key(i)], i)]
        BY <1>11 DEF Debounce
    <2>3. entry'[Key(i)].owner = i /\ \A k \in Keys : k # Key(i) => entry'[k] = entry[k]
        BY <1>1, <2>2 DEF Joined
    <2>4. ASSUME NEW k \in Keys, entry'[k].owner # 0
          PROVE  entry'[k].owner \in Ids /\ Key(entry'[k].owner) = k /\ task'[entry'[k].owner].phase = "pending"
        <3>1. CASE k = Key(i)
            BY <2>1, <2>3, <3>1
        <3>2. CASE k # Key(i)
            <4>1. entry'[k] = entry[k]
                BY <2>3, <3>2
            <4>2. entry[k].owner \in Ids /\ Key(entry[k].owner) = k /\ task[entry[k].owner].phase = "pending"
                BY <2>4, <4>1 DEF Owners
            <4>3. o # 0 => Key(o) = Key(i)
                BY <1>1 DEF Owners, o
            <4>4. entry[k].owner # i /\ entry[k].owner # o
                BY <1>1, <2>1, <3>2, <4>2, <4>3
            <4> QED
                BY <2>1, <4>1, <4>2, <4>4
        <3> QED
            BY <3>1, <3>2
    <2> QED
        BY <1>1, <2>4 DEF Owners
<1> QED
    BY <1>3, <1>4, <1>5, <1>6, <1>7, <1>8, <1>9, <1>10, <1>11 DEF Sorts

\* The map names a registered turn of the scope.
Listed ==
    \A s \in Scopes : inFlight[s] # 0 =>
        /\ inFlight[s] \in Ids /\ Scope(inFlight[s]) = s
        /\ task[inFlight[s]].phase \in Registered /\ ~task[inFlight[s]].place.cli

LEMMA ListedKept ==
    ASSUME Types, Listed, NEW i \in Ids, Coarse(i), Origins
    PROVE  Listed'
<1>1. /\ Scope(i) \in Scopes /\ 0 \notin Ids /\ Ids' = Ids
      /\ inFlight \in [Scopes -> Nat]
      /\ \A j \in Ids : Scope(j)' = Scope(j) /\ task'[j].place = task[j].place
    BY IdsFacts DEF Types, Origins, Scope
\* It is enough that no task enters the map and that those listed stay registered.
<1>2. ASSUME \A s \in Scopes : inFlight'[s] \in {inFlight[s], 0},
             \A j \in Ids : /\ task[j].phase \in Registered /\ inFlight'[Scope(j)] = j
                            /\ ~task[j].place.cli
                            => task'[j].phase \in Registered
      PROVE  Listed'
    BY <1>1, <1>2 DEF Listed
<1>3. CASE Outside
    <2>1. \A j \in Ids : task[j].phase \in Registered => task'[j].phase = task[j].phase
        BY <1>3 DEF Outside, HoldsPermit
    <2> QED
        BY <1>2, <1>3, <2>1 DEF Outside
<1>4. CASE Inside(i)
    BY <1>2, <1>4 DEF Inside
<1>5. CASE Admitted(i)
    <2>1. task[i].phase \notin Registered
        BY <1>5 DEF Admitted, Registered, Working
    <2> QED
        BY <1>2, <1>5, <2>1 DEF Admitted
<1>6. CASE Leave(i)
    <2>1. /\ \A j \in Ids : j # i => task'[j].phase = task[j].phase
          /\ inFlight' = Unregistered(i)
        BY <1>6, LeaveFacts
    <2>2. \A s \in Scopes : inFlight'[s] \in {inFlight[s], 0}
        BY <1>1, <2>1 DEF Unregistered
    <2>3. inFlight'[Scope(i)] # i
        BY <1>1, <2>1 DEF Unregistered
    <2> QED
        BY <1>2, <2>1, <2>2, <2>3
<1>7. CASE StopCommand(i)
    <2>1. task[i].phase = "queued" /\ \A j \in Ids : j # i => task'[j].phase = task[j].phase
        BY <1>7, StopFacts
    <2>2. \A s \in Scopes : inFlight'[s] \in {inFlight[s], 0}
        BY <1>1, <1>7 DEF StopCommand
    <2> QED
        BY <1>2, <2>1, <2>2 DEF Registered, Working
<1>8. CASE Register(i)
    <2>1. /\ \A j \in Ids : j # i => task'[j].phase = task[j].phase
          /\ task'[i].phase \in {"loading", "starting"} /\ ~task[i].place.cli
          /\ task[i].phase = "spawned"
        BY <1>8, RegisterFacts
    <2>2. inFlight' = [inFlight EXCEPT ![Scope(i)] = i]
        BY <1>8 DEF Register
    <2>3. ASSUME NEW s \in Scopes, inFlight'[s] # 0
          PROVE  /\ inFlight'[s] \in Ids /\ Scope(inFlight'[s]) = s
                 /\ task'[inFlight'[s]].phase \in Registered /\ ~task[inFlight'[s]].place.cli
        <3>1. CASE s = Scope(i)
            BY <1>1, <2>1, <2>2, <3>1 DEF Registered
        <3>2. CASE s # Scope(i)
            <4>1. inFlight'[s] = inFlight[s]
                BY <1>1, <2>2, <3>2
            <4> QED
                BY <2>1, <2>3, <3>2, <4>1 DEF Listed
        <3> QED
            BY <3>1, <3>2
    <2> QED
        BY <1>1, <2>3 DEF Listed
<1>9. CASE MarkDone(i)
    <2>1. /\ task[i].phase = "removed"
          /\ \A j \in Ids : j # i => task'[j].phase \in {task[j].phase, "starting"}
        BY <1>9, MarkDoneFacts
    <2> QED
        BY <1>2, <1>9, <2>1 DEF MarkDone, Registered, Working
<1> QED
    BY <1>3, <1>4, <1>5, <1>6, <1>7, <1>8, <1>9 DEF Coarse

\* A turn that has marked itself done has ended.
DoneEnded == \A i \in Ids : task[i].done => task[i].phase = "ended"

LEMMA DoneEndedKept ==
    ASSUME Types, DoneEnded, NEW i \in Ids, Coarse(i), Origins
    PROVE  DoneEnded'
<1>1. SUFFICES ASSUME NEW j \in Ids, task'[j].done PROVE task'[j].phase = "ended"
    BY DEF DoneEnded, Origins
<1>2. ASSUME task[j].done, task'[j].phase = task[j].phase PROVE task'[j].phase = "ended"
    BY <1>2 DEF DoneEnded
<1>3. CASE Outside
    BY <1>1, <1>3 DEF Outside, Rest, DoneEnded
<1>4. CASE Inside(i)
    BY <1>1, <1>2, <1>4 DEF Inside, Rest, DoneEnded, Registered, Working
<1>5. CASE Admitted(i)
    BY <1>1, <1>2, <1>5 DEF Admitted, Rest, DoneEnded
<1>6. CASE Leave(i)
    BY <1>1, <1>2, <1>6, LeaveFacts DEF Rest, DoneEnded
<1>7. CASE StopCommand(i)
    BY <1>1, <1>2, <1>7, StopFacts DEF DoneEnded
<1>8. CASE Register(i)
    BY <1>1, <1>2, <1>8, RegisterFacts DEF DoneEnded
<1>9. CASE MarkDone(i)
    BY <1>1, <1>2, <1>9, MarkDoneFacts DEF DoneEnded
<1> QED
    BY <1>3, <1>4, <1>5, <1>6, <1>7, <1>8, <1>9 DEF Coarse

-----------------------------------------------------------------------------
(* /stop reaches the turn of a scope. *)

LEMMA PlacesAgree ==
    ASSUME Types
    PROVE  /\ \A i \in Ids : Interrupts(i) => ~task[i].place.cli
           /\ \A i, j \in Ids : Scope(i) = Scope(j) => Interrupts(i) = Interrupts(j)
<1>1. \A i \in Ids : task[i].place \in Places
    BY IdsFacts DEF TaskRec
<1> QED
    BY <1>1, ChannelAssumption DEF PlaceShape, Interrupts, Scope

LEMMA StopReachesKept ==
    ASSUME Types, StopReaches, NEW i \in Ids, Coarse(i), Origins
    PROVE  StopReaches'
<1>1. /\ Scope(i) \in Scopes /\ 0 \notin Ids
      /\ inFlight \in [Scopes -> Nat]
    BY IdsFacts DEF Types
<1>2. SUFFICES ASSUME NEW j \in Ids, Interrupts(j), task'[j].phase \in Registered, ~task'[j].cancelled
               PROVE  inFlight'[Scope(j)] = j
    BY DEF StopReaches, Origins, Interrupts, Scope
<1>3. ASSUME task[j].phase \in Registered, ~task[j].cancelled PROVE inFlight[Scope(j)] = j
    BY <1>2, <1>3 DEF StopReaches
<1>4. CASE Outside
    BY <1>2, <1>3, <1>4 DEF Outside, Rest, HoldsPermit
<1>5. CASE Inside(i)
    <2>1. ~task[j].cancelled /\ (j # i => task[j].phase \in Registered)
        BY <1>2, <1>5 DEF Inside, Rest
    <2>2. task[j].phase \in Registered
        BY <1>2, <1>5, <2>1, PlacesAgree DEF Inside
    <2> QED
        BY <1>3, <1>5, <2>1, <2>2 DEF Inside
<1>6. CASE Admitted(i)
    BY <1>2, <1>3, <1>6 DEF Admitted, Rest, Registered, Working
<1>7. CASE Leave(i)
    <2>1. j # i /\ task[j].phase \in Registered /\ ~task[j].cancelled
        BY <1>2, <1>7, LeaveFacts DEF Rest, Registered, Working
    <2>2. inFlight[Scope(j)] = j /\ inFlight' = Unregistered(i)
        BY <1>3, <1>7, <2>1, LeaveFacts
    <2> QED
        BY <1>1, <2>1, <2>2 DEF Unregistered
<1>8. CASE StopCommand(i)
    <2>1. /\ j # i /\ task[j].phase \in Registered
          /\ j # inFlight[Scope(i)] /\ ~task[j].cancelled
        BY <1>2, <1>8, StopFacts DEF Registered, Working
    <2>2. inFlight[Scope(j)] = j /\ inFlight' = [inFlight EXCEPT ![Scope(i)] = 0]
        BY <1>3, <1>8, <2>1 DEF StopCommand
    <2> QED
        BY <1>1, <2>1, <2>2
<1>9. CASE Register(i)
    <2>1. inFlight' = [inFlight EXCEPT ![Scope(i)] = i]
        BY <1>9 DEF Register
    <2>2. CASE j = i
        BY <1>1, <2>1, <2>2
    <2>3. CASE j # i
        <3>1. task[j].phase \in Registered
            BY <1>2, <1>9, <2>3, RegisterFacts
        <3>2. ~(Interrupts(i) /\ j = inFlight[Scope(i)])
            BY <1>2, <1>9, <2>3, RegisterFacts
        <3>3. ~task[j].cancelled
            BY <1>2, <1>9, <2>3, <3>2, RegisterFacts
        <3>4. inFlight[Scope(j)] = j
            BY <1>3, <3>1, <3>3
        <3>5. Scope(j) # Scope(i)
            BY <1>2, <3>2, <3>4, PlacesAgree
        <3> QED
            BY <1>1, <2>1, <3>4, <3>5
    <2> QED
        BY <2>2, <2>3
<1>10. CASE MarkDone(i)
    <2>1. j # i /\ ~task[j].cancelled
        BY <1>2, <1>10, MarkDoneFacts DEF Registered, Working
    <2>2. task[j].phase \in Registered
        BY <1>2, <1>10, <2>1, MarkDoneFacts DEF Registered
    <2> QED
        BY <1>3, <1>10, <2>1, <2>2 DEF MarkDone
<1> QED
    BY <1>4, <1>5, <1>6, <1>7, <1>8, <1>9, <1>10 DEF Coarse

-----------------------------------------------------------------------------
(* The permits. *)

Holders == {j \in Ids : task[j].phase \in HoldsPermit}

LEMMA HoldersFinite == ASSUME Types PROVE IsFiniteSet(Holders) /\ Cardinality(Holders) \in Nat
<1>1. IsFiniteSet(1..Len(task))
    BY IdsFacts, FS_Interval
<1>2. Holders \subseteq 1..Len(task)
    BY IdsFacts DEF Holders
<1>3. IsFiniteSet(Holders)
    BY <1>1, <1>2, FS_Subset
<1> QED
    BY <1>3, FS_CardinalityType

LEMMA PermitsKept ==
    ASSUME Types, PermitsConserved, NEW i \in Ids, Coarse(i), Origins
    PROVE  PermitsConserved'
<1>1. /\ permits \in Nat /\ permits + Cardinality(Holders) = MaxInFlight
      /\ PermitsConserved' <=> permits' + Cardinality(Holders') = MaxInFlight
      /\ IsFiniteSet(Holders) /\ Cardinality(Holders) \in Nat
    BY HoldersFinite DEF Types, PermitsConserved, Holders
<1>2. ASSUME permits' = permits, \A j \in Ids : task'[j].phase \in HoldsPermit <=> task[j].phase \in HoldsPermit
      PROVE  PermitsConserved'
    <2>1. Holders' = Holders
        BY <1>2 DEF Holders, Origins
    <2> QED
        BY <1>1, <1>2, <2>1
<1>3. CASE Outside
    BY <1>2, <1>3 DEF Outside
<1>4. CASE Inside(i)
    BY <1>2, <1>4 DEF Inside, HoldsPermit
<1>5. CASE Admitted(i)
    <2>1. /\ task[i].phase \notin HoldsPermit /\ task'[i].phase \in HoldsPermit
          /\ \A j \in Ids : j # i => task'[j].phase = task[j].phase
        BY <1>5 DEF Admitted, HoldsPermit, Registered, Working
    <2>2. Holders' = Holders \cup {i} /\ i \notin Holders
        BY <2>1 DEF Holders, Origins
    <2>3. Cardinality(Holders') = Cardinality(Holders) + 1
        BY <1>1, <2>2, FS_AddElement
    <2> QED
        BY <1>1, <1>5, <2>3 DEF Admitted
<1>6. CASE Leave(i)
    BY <1>2, <1>6, LeaveFacts DEF HoldsPermit, Registered
<1>7. CASE StopCommand(i)
    <2>1. permits' = permits
        BY <1>7 DEF StopCommand
    <2> QED
        BY <1>2, <1>7, <2>1, StopFacts DEF HoldsPermit, Registered, Working
<1>8. CASE Register(i)
    <2>1. permits' = permits
        BY <1>8 DEF Register
    <2> QED
        BY <1>2, <1>8, <2>1, RegisterFacts DEF HoldsPermit, Registered, Working
<1>9. CASE MarkDone(i)
    <2>1. /\ task[i].phase \in HoldsPermit /\ task'[i].phase \notin HoldsPermit
          /\ \A j \in Ids : j # i => (task'[j].phase \in HoldsPermit <=> task[j].phase \in HoldsPermit)
        BY <1>9, MarkDoneFacts DEF HoldsPermit, Registered, Working
    <2>2. Holders' = Holders \ {i} /\ i \in Holders
        BY <2>1 DEF Holders, Origins
    <2>3. Cardinality(Holders') = Cardinality(Holders) - 1
        BY <1>1, <2>2, FS_RemoveElement
    <2>4. permits' = permits + 1
        BY <1>9 DEF MarkDone, GivenBack
    <2> QED
        BY <1>1, <2>3, <2>4
<1> QED
    BY <1>3, <1>4, <1>5, <1>6, <1>7, <1>8, <1>9 DEF Coarse

-----------------------------------------------------------------------------
(* One turn of a scope at a time: the turns that are registered stand in a chain, each  *)
(* behind the one it replaced in the map, and only the first of a chain is not waiting. *)

Queueing == {"loading", "subscribing", "waiting"}

Together(i) == Interrupts(i) /\ ~Stopped(Scope(i)) /\ task[i].phase \in Registered

\* r is the turns' place in the chain of their scope.
Distinct(r) ==
    \A i, j \in Ids : Together(i) /\ Together(j) /\ Scope(i) = Scope(j) /\ i # j => r[i] # r[j]
LastIsListed(r) ==
    \A i \in Ids : Together(i) => inFlight[Scope(i)] # 0 /\ r[i] <= r[inFlight[Scope(i)]]
BehindPrevious(r) ==
    \A i, j \in Ids : Together(i) /\ Together(j) /\ Scope(i) = Scope(j) /\ r[j] < r[i] =>
        /\ task[i].phase \in Queueing
        /\ task[i].prev \in Ids /\ Scope(task[i].prev) = Scope(i) /\ task[task[i].prev].phase \in Registered
        /\ r[j] <= r[task[i].prev] /\ r[task[i].prev] < r[i]
Chained(r) == r \in [Ids -> Nat] /\ Distinct(r) /\ LastIsListed(r) /\ BehindPrevious(r)

LEMMA StoppedStays ==
    ASSUME Types, NEW i \in Ids, Coarse(i), Origins, NEW j \in Ids, Stopped(Scope(j))
    PROVE  Stopped(Scope(j))'
<1>1. PICK h \in Ids : task[h].phase = "handled" /\ Scope(h) = Scope(j)
    BY DEF Stopped
<1>2. task'[h].phase = "handled"
    <2>1. CASE Outside
        BY <1>1, <2>1 DEF Outside
    <2>2. CASE Inside(i)
        BY <1>1, <2>2 DEF Inside, Registered, Working
    <2>3. CASE Admitted(i)
        BY <1>1, <2>3 DEF Admitted
    <2>4. CASE Leave(i)
        BY <1>1, <2>4, LeaveFacts
    <2>5. CASE StopCommand(i)
        BY <1>1, <2>5, StopFacts
    <2>6. CASE Register(i)
        BY <1>1, <2>6, RegisterFacts
    <2>7. CASE MarkDone(i)
        BY <1>1, <2>7, MarkDoneFacts
    <2> QED
        BY <2>1, <2>2, <2>3, <2>4, <2>5, <2>6, <2>7 DEF Coarse
<1> QED
    BY <1>1, <1>2 DEF Stopped, Origins, Scope

\* A step that registers nobody leaves every place as it is.
LEMMA SameChain ==
    ASSUME Types, Origins, NEW r, Chained(r),
           \A j \in Ids : Together(j)' => Together(j) /\ inFlight'[Scope(j)] = inFlight[Scope(j)],
           \A j, k \in Ids : /\ Together(j)' /\ Together(k)' /\ Scope(j) = Scope(k) /\ r[k] < r[j]
                             => /\ task'[j].phase \in Queueing /\ task'[j].prev = task[j].prev
                                /\ task'[task[j].prev].phase \in Registered
    PROVE  Chained(r)'
<1>1. /\ Ids' = Ids
      /\ \A j \in Ids : Scope(j)' = Scope(j)
    BY DEF Origins, Scope
<1>2. Distinct(r)'
    BY <1>1 DEF Chained, Distinct
<1>3. LastIsListed(r)'
    BY <1>1 DEF Chained, LastIsListed
<1>4. BehindPrevious(r)'
    BY <1>1 DEF Chained, BehindPrevious
<1> QED
    BY <1>1, <1>2, <1>3, <1>4 DEF Chained

LEMMA ChainKept ==
    ASSUME Types, Types', Listed, DoneEnded, NEW i \in Ids, Coarse(i), Origins, NEW r, Chained(r), ~Register(i)
    PROVE  Chained(r)'
<1>1. /\ Scope(i) \in Scopes /\ 0 \notin Ids /\ inFlight \in [Scopes -> Nat] /\ r \in [Ids -> Nat]
      /\ \A j \in Ids : Scope(j)' = Scope(j) /\ Interrupts(j)' = Interrupts(j)
    BY IdsFacts DEF Types, Origins, Scope, Interrupts, Chained
<1>2. ASSUME NEW j \in Ids, Together(j)', task[j].phase \in Registered PROVE Together(j)
    <2>1. ~Stopped(Scope(j))
        BY <1>1, <1>2, StoppedStays DEF Together
    <2> QED
        BY <1>1, <1>2, <2>1 DEF Together
<1>3. ASSUME NEW j \in Ids, NEW k \in Ids, Together(j), Together(k), Scope(j) = Scope(k), r[k] < r[j]
      PROVE  /\ task[j].phase \in Queueing
             /\ task[j].prev \in Ids /\ Scope(task[j].prev) = Scope(j) /\ task[task[j].prev].phase \in Registered
             /\ r[k] <= r[task[j].prev] /\ r[task[j].prev] < r[j] /\ ~task[task[j].prev].done
    <2>1. /\ task[j].phase \in Queueing
          /\ task[j].prev \in Ids /\ Scope(task[j].prev) = Scope(j) /\ task[task[j].prev].phase \in Registered
          /\ r[k] <= r[task[j].prev] /\ r[task[j].prev] < r[j]
        BY <1>3 DEF Chained, BehindPrevious
    <2>2. ~task[task[j].prev].done
        BY <2>1 DEF DoneEnded, Registered, Working
    <2> QED
        BY <2>1, <2>2
<1>4. CASE Outside
    <2>1. \A j \in Ids : Together(j)' => Together(j) /\ inFlight'[Scope(j)] = inFlight[Scope(j)]
        BY <1>2, <1>4 DEF Outside, Together, HoldsPermit
    <2>2. ASSUME NEW j \in Ids, NEW k \in Ids, Together(j)', Together(k)', Scope(j) = Scope(k), r[k] < r[j]
          PROVE  /\ task'[j].phase \in Queueing /\ task'[j].prev = task[j].prev
                 /\ task'[task[j].prev].phase \in Registered
        <3>1. task[j].phase \in Queueing /\ task[j].prev \in Ids /\ task[task[j].prev].phase \in Registered
            BY <1>3, <2>1, <2>2
        <3> QED
            BY <1>4, <3>1 DEF Outside, Rest, Queueing, HoldsPermit, Registered
    <2> QED
        BY <2>1, <2>2, SameChain
<1>5. CASE Inside(i)
    <2>1. ASSUME NEW j \in Ids, Together(j)' PROVE Together(j) /\ inFlight'[Scope(j)] = inFlight[Scope(j)]
        <3>1. task[j].phase \in Registered
            BY <1>1, <1>5, <2>1, PlacesAgree DEF Inside, Together
        <3> QED
            BY <1>2, <1>5, <2>1, <3>1 DEF Inside
    <2>2. ASSUME NEW j \in Ids, NEW k \in Ids, Together(j)', Together(k)', Scope(j) = Scope(k), r[k] < r[j]
          PROVE  /\ task'[j].phase \in Queueing /\ task'[j].prev = task[j].prev
                 /\ task'[task[j].prev].phase \in Registered
        <3>1. /\ task[j].phase \in Queueing /\ task[j].prev \in Ids /\ task[task[j].prev].phase \in Registered
              /\ ~task[task[j].prev].done
            BY <1>3, <2>1, <2>2
        <3>2. task'[task[j].prev].phase \in Registered /\ task'[j].prev = task[j].prev
            BY <1>5, <3>1 DEF Inside, Rest
        <3>3. task'[j].phase \in Queueing
            BY <1>5, <3>1 DEF Inside, Queueing
        <3> QED
            BY <3>2, <3>3
    <2> QED
        BY <2>1, <2>2, SameChain
<1>6. CASE Admitted(i)
    <2>1. \A j \in Ids : Together(j)' => j # i /\ Together(j) /\ inFlight'[Scope(j)] = inFlight[Scope(j)]
        BY <1>2, <1>6 DEF Admitted, Together, Registered, Working
    <2>2. ASSUME NEW j \in Ids, NEW k \in Ids, Together(j)', Together(k)', Scope(j) = Scope(k), r[k] < r[j]
          PROVE  /\ task'[j].phase \in Queueing /\ task'[j].prev = task[j].prev
                 /\ task'[task[j].prev].phase \in Registered
        <3>1. task[j].phase \in Queueing /\ task[j].prev \in Ids /\ task[task[j].prev].phase \in Registered
            BY <1>3, <2>1, <2>2
        <3>2. j # i /\ task[j].prev # i
            BY <1>6, <2>1, <2>2, <3>1 DEF Admitted, Registered, Working
        <3> QED
            BY <1>6, <3>1, <3>2 DEF Admitted, Rest
    <2> QED
        BY <2>1, <2>2, SameChain
<1>7. CASE Leave(i)
    <2>0. /\ task[i].phase = "leaving" /\ task'[i].phase = "removed" /\ inFlight' = Unregistered(i)
          /\ \A j \in Ids : Rest(j) /\ (j # i => task'[j].phase = task[j].phase)
        BY <1>7, LeaveFacts
    <2>1. ASSUME NEW j \in Ids, Together(j)' PROVE j # i /\ Together(j)
        BY <1>2, <2>0, <2>1 DEF Together, Registered, Working
    <2>2. ASSUME NEW j \in Ids, Together(j)', Scope(j) = Scope(i) PROVE Together(i)
        <3>1. Interrupts(i) /\ ~Stopped(Scope(i))
            BY <2>1, <2>2, PlacesAgree DEF Together
        <3> QED
            BY <2>0, <3>1 DEF Together, Registered
    <2>3. ASSUME NEW j \in Ids, Together(j)' PROVE inFlight'[Scope(j)] = inFlight[Scope(j)]
        <3>1. CASE inFlight[Scope(j)] = i
            <4>1. Scope(j) = Scope(i)
                BY <1>1, <3>1, IdsFacts DEF Listed
            <4>2. r[j] <= r[i] /\ r[j] # r[i]
                BY <2>1, <2>2, <2>3, <3>1, <4>1 DEF Chained, LastIsListed, Distinct
            <4>3. r[j] < r[i]
                BY <1>1, <4>2
            <4>4. task[i].phase \in Queueing
                BY <1>3, <2>1, <2>2, <2>3, <4>1, <4>3
            <4> QED
                BY <2>0, <4>4 DEF Queueing
        <3>2. CASE inFlight[Scope(j)] # i
            BY <1>1, <2>0, <3>2 DEF Unregistered
        <3> QED
            BY <3>1, <3>2
    <2>4. ASSUME NEW j \in Ids, NEW k \in Ids, Together(j)', Together(k)', Scope(j) = Scope(k), r[k] < r[j]
          PROVE  /\ task'[j].phase \in Queueing /\ task'[j].prev = task[j].prev
                 /\ task'[task[j].prev].phase \in Registered
        <3>1. /\ task[j].phase \in Queueing /\ task[j].prev \in Ids /\ task[task[j].prev].phase \in Registered
              /\ Scope(task[j].prev) = Scope(j) /\ r[k] <= r[task[j].prev]
            BY <1>3, <2>1, <2>4
        <3>2. task[j].prev # i
            <4>1. SUFFICES ASSUME task[j].prev = i PROVE FALSE
                OBVIOUS
            <4>2. Together(i) /\ Together(k) /\ k # i /\ Scope(i) = Scope(k) /\ r[k] <= r[i]
                BY <2>1, <2>2, <2>4, <3>1, <4>1
            <4>3. r[k] # r[i]
                BY <4>2 DEF Chained, Distinct
            <4>4. r[k] < r[i]
                BY <1>1, <4>2, <4>3
            <4>5. task[i].phase \in Queueing
                BY <1>3, <4>2, <4>4
            <4> QED
                BY <2>0, <4>5 DEF Queueing
        <3>3. j # i
            BY <2>1, <2>4
        <3> QED
            BY <2>0, <3>1, <3>2, <3>3 DEF Rest
    <2> QED
        BY <2>1, <2>3, <2>4, SameChain
<1>8. CASE StopCommand(i)
    <2>0. /\ task[i].phase = "queued" /\ task'[i].phase = "handled"
          /\ \A j \in Ids : j # i => task'[j].phase = task[j].phase
          /\ \A j \in Ids : task'[j].prev = task[j].prev
          /\ inFlight' = [inFlight EXCEPT ![Scope(i)] = 0]
        BY <1>8, StopFacts DEF StopCommand
    <2>1. Stopped(Scope(i))'
        BY <1>1, <2>0 DEF Stopped, Origins
    <2>2. ASSUME NEW j \in Ids, Together(j)'
          PROVE  j # i /\ Together(j) /\ inFlight'[Scope(j)] = inFlight[Scope(j)]
        <3>1. j # i /\ task[j].phase \in Registered
            BY <2>0, <2>2 DEF Together, Registered, Working
        <3>2. Scope(j) # Scope(i)
            BY <1>1, <2>1, <2>2 DEF Together, Stopped
        <3> QED
            BY <1>1, <1>2, <2>0, <2>2, <3>1, <3>2
    <2>3. ASSUME NEW j \in Ids, NEW k \in Ids, Together(j)', Together(k)', Scope(j) = Scope(k), r[k] < r[j]
          PROVE  /\ task'[j].phase \in Queueing /\ task'[j].prev = task[j].prev
                 /\ task'[task[j].prev].phase \in Registered
        <3>1. task[j].phase \in Queueing /\ task[j].prev \in Ids /\ task[task[j].prev].phase \in Registered
            BY <1>3, <2>2, <2>3
        <3>2. task[j].prev # i
            BY <2>0, <3>1 DEF Registered, Working
        <3> QED
            BY <2>0, <2>2, <2>3, <3>1, <3>2
    <2> QED
        BY <2>2, <2>3, SameChain
<1>9. CASE MarkDone(i)
    <2>0. /\ task[i].phase = "removed" /\ task'[i].phase = "ended" /\ inFlight' = inFlight
          /\ \A j \in Ids : j # i /\ task[j].phase = "waiting" /\ task[j].prev = i => task'[j].phase = "starting"
          /\ \A j \in Ids : j # i /\ ~(task[j].phase = "waiting" /\ task[j].prev = i) => task'[j].phase = task[j].phase
          /\ \A j \in Ids : task'[j].prev = task[j].prev
        BY <1>9, MarkDoneFacts DEF MarkDone
    <2>1. ASSUME NEW j \in Ids, Together(j)'
          PROVE  j # i /\ Together(j) /\ inFlight'[Scope(j)] = inFlight[Scope(j)]
        <3>1. j # i /\ task[j].phase \in Registered
            BY <2>0, <2>1 DEF Together, Registered, Working
        <3> QED
            BY <1>2, <2>0, <2>1, <3>1
    <2>2. ASSUME NEW j \in Ids, NEW k \in Ids, Together(j)', Together(k)', Scope(j) = Scope(k), r[k] < r[j]
          PROVE  /\ task'[j].phase \in Queueing /\ task'[j].prev = task[j].prev
                 /\ task'[task[j].prev].phase \in Registered
        <3>1. task[j].phase \in Queueing /\ task[j].prev \in Ids /\ task[task[j].prev].phase \in Registered
            BY <1>3, <2>1, <2>2
        <3>2. task[j].prev # i
            BY <2>0, <3>1 DEF Registered, Working
        <3>3. task'[j].phase \in Queueing
            BY <2>0, <2>1, <2>2, <3>1, <3>2
        <3>4. task'[task[j].prev].phase \in Registered
            BY <2>0, <3>1, <3>2 DEF Registered
        <3> QED
            BY <2>0, <3>3, <3>4
    <2> QED
        BY <2>1, <2>2, SameChain
<1> QED
    BY <1>4, <1>5, <1>6, <1>7, <1>8, <1>9 DEF Coarse

LEMMA ChainGrows ==
    ASSUME Types, Types', Listed, NEW i \in Ids, Register(i), Origins, NEW r, Chained(r)
    PROVE  \E q : Chained(q)'
<1>0. PICK p : p = inFlight[Scope(i)]
    OBVIOUS
<1>1. /\ Scope(i) \in Scopes /\ 0 \notin Ids /\ Ids' = Ids /\ inFlight \in [Scopes -> Nat] /\ r \in [Ids -> Nat]
      /\ \A j \in Ids : Scope(j)' = Scope(j) /\ Interrupts(j)' = Interrupts(j)
    BY IdsFacts DEF Types, Origins, Scope, Interrupts, Chained
<1>2. p # 0 => p \in Ids /\ Scope(p) = Scope(i) /\ task[p].phase \in Registered
    BY <1>0, <1>1 DEF Listed
<1>3. PICK q \in [Ids -> Nat] :
      /\ \A j \in Ids : j # i => q[j] = r[j]
      /\ p = 0 => q[i] = 0
      /\ p # 0 => q[i] = r[p] + 1
    <2> DEFINE next == [j \in Ids |-> IF j = i THEN (IF p = 0 THEN 0 ELSE r[p] + 1) ELSE r[j]]
    <2>1. /\ next \in [Ids -> Nat]
          /\ \A j \in Ids : j # i => next[j] = r[j]
          /\ p = 0 => next[i] = 0
          /\ p # 0 => next[i] = r[p] + 1
        BY <1>1, <1>2
    <2> QED
        BY <2>1
<1>4. /\ task[i].phase = "spawned" /\ task'[i].prev = p
      /\ task'[i].phase = (IF Interrupts(i) /\ p # 0 THEN "loading" ELSE "starting")
      /\ \A j \in Ids : j # i => task'[j].phase = task[j].phase /\ task'[j].prev = task[j].prev
      /\ inFlight' = [inFlight EXCEPT ![Scope(i)] = i]
    <2>1. inFlight' = [inFlight EXCEPT ![Scope(i)] = i]
        BY DEF Register
    <2> QED
        BY <1>0, <2>1, RegisterFacts
<1>5. p # i
    BY <1>1, <1>2, <1>4 DEF Registered, Working
<1>6. ASSUME NEW j \in Ids, Together(j)', j # i PROVE Together(j)
    <2>1. ~Stopped(Scope(j))
        BY <1>1, <1>6, StoppedStays DEF Together, Coarse
    <2> QED
        BY <1>1, <1>4, <1>6, <2>1 DEF Together
\* The task that registers is put behind the listed one, which has the last place.
<1>7. ASSUME NEW j \in Ids, Together(j)', j # i, Scope(j) = Scope(i)
      PROVE  p # 0 /\ r[j] <= r[p] /\ q[j] < q[i]
    <2>1. p # 0 /\ r[j] <= r[p]
        BY <1>0, <1>6, <1>7 DEF Chained, LastIsListed
    <2>2. q[j] = r[j] /\ q[i] = r[p] + 1 /\ r[j] \in Nat /\ r[p] \in Nat
        BY <1>1, <1>2, <1>3, <1>7, <2>1
    <2> QED
        BY <2>1, <2>2
<1>8. Distinct(q)'
    <2>1. ASSUME NEW j \in Ids, NEW k \in Ids, Together(j)', Together(k)', Scope(j) = Scope(k), j # k
          PROVE  q[j] # q[k]
        <3>1. CASE j = i
            BY <1>3, <1>7, <2>1, <3>1
        <3>2. CASE k = i
            BY <1>3, <1>7, <2>1, <3>2
        <3>3. CASE j # i /\ k # i
            <4>1. r[j] # r[k]
                BY <1>6, <2>1, <3>3 DEF Chained, Distinct
            <4> QED
                BY <1>3, <3>3, <4>1
        <3> QED
            BY <3>1, <3>2, <3>3
    <2> QED
        BY <1>1, <2>1 DEF Distinct
<1>9. LastIsListed(q)'
    <2>1. ASSUME NEW j \in Ids, Together(j)'
          PROVE  inFlight'[Scope(j)] # 0 /\ q[j] <= q[inFlight'[Scope(j)]]
        <3>1. CASE Scope(j) = Scope(i)
            <4>1. inFlight'[Scope(j)] = i
                BY <1>1, <1>4, <3>1
            <4>2. q[j] <= q[i]
                BY <1>3, <1>7, <2>1, <3>1
            <4> QED
                BY <1>1, <4>1, <4>2
        <3>2. CASE Scope(j) # Scope(i)
            <4>1. inFlight'[Scope(j)] = inFlight[Scope(j)] /\ j # i /\ Scope(j) \in Scopes
                BY <1>1, <1>4, <3>2, IdsFacts
            <4>2. inFlight[Scope(j)] # 0 /\ r[j] <= r[inFlight[Scope(j)]]
                BY <1>6, <2>1, <4>1 DEF Chained, LastIsListed
            <4>3. inFlight[Scope(j)] \in Ids /\ inFlight[Scope(j)] # i
                BY <3>2, <4>1, <4>2 DEF Listed
            <4> QED
                BY <1>3, <4>1, <4>2, <4>3
        <3> QED
            BY <3>1, <3>2
    <2> QED
        BY <1>1, <2>1 DEF LastIsListed
<1>10. BehindPrevious(q)'
    <2>1. ASSUME NEW j \in Ids, NEW k \in Ids, Together(j)', Together(k)', Scope(j) = Scope(k), q[k] < q[j]
          PROVE  /\ task'[j].phase \in Queueing
                 /\ task'[j].prev \in Ids /\ Scope(task'[j].prev) = Scope(j)
                 /\ task'[task'[j].prev].phase \in Registered
                 /\ q[k] <= q[task'[j].prev] /\ q[task'[j].prev] < q[j]
        <3>1. CASE j = i
            <4>1. k # i
                BY <1>3, <2>1, <3>1
            <4>2. p # 0 /\ r[k] <= r[p]
                BY <1>7, <2>1, <3>1, <4>1
            <4>3. Interrupts(i)
                BY <1>1, <2>1, <3>1 DEF Together
            <4>4. task'[i].phase \in Queueing /\ task'[i].prev = p /\ p \in Ids /\ Scope(p) = Scope(i)
                BY <1>2, <1>4, <4>2, <4>3 DEF Queueing
            <4>5. task'[p].phase \in Registered
                BY <1>2, <1>4, <1>5, <4>2
            <4>6. q[k] = r[k] /\ q[p] = r[p] /\ q[i] = r[p] + 1 /\ r[p] \in Nat
                BY <1>1, <1>2, <1>3, <1>5, <4>1, <4>2
            <4> QED
                BY <3>1, <4>2, <4>4, <4>5, <4>6
        <3>2. CASE j # i /\ k = i
            <4>1. q[j] < q[i] /\ q[j] \in Nat /\ q[i] \in Nat
                BY <1>3, <1>7, <2>1, <3>2
            <4> QED
                BY <2>1, <3>2, <4>1
        <3>3. CASE j # i /\ k # i
            <4>1. Together(j) /\ Together(k) /\ r[k] < r[j]
                BY <1>3, <1>6, <2>1, <3>3
            <4>2. /\ task[j].phase \in Queueing
                  /\ task[j].prev \in Ids /\ Scope(task[j].prev) = Scope(j) /\ task[task[j].prev].phase \in Registered
                  /\ r[k] <= r[task[j].prev] /\ r[task[j].prev] < r[j]
                BY <2>1, <4>1 DEF Chained, BehindPrevious
            <4>3. task[j].prev # i
                BY <1>4, <4>2 DEF Registered, Working
            <4> QED
                BY <1>3, <1>4, <3>3, <4>2, <4>3
        <3> QED
            BY <3>1, <3>2, <3>3
    <2> QED
        BY <1>1, <2>1 DEF BehindPrevious
<1>11. Chained(q)'
    BY <1>1, <1>3, <1>8, <1>9, <1>10 DEF Chained
<1> QED
    BY <1>11

\* Nobody who runs stands behind another.
LEMMA ChainSuffices == ASSUME Types, NEW r, Chained(r) PROVE OneAtATime
<1>1. SUFFICES ASSUME NEW i \in Ids, NEW j \in Ids, Interrupts(i), Scope(i) = Scope(j), ~Stopped(Scope(i)),
                      task[i].phase \in Working, task[j].phase \in Working, i # j
               PROVE  FALSE
    BY DEF OneAtATime
<1>2. Together(i) /\ Together(j)
    BY <1>1, PlacesAgree DEF Together, Registered
<1>3. r[i] # r[j] /\ r[i] \in Nat /\ r[j] \in Nat
    BY <1>1, <1>2 DEF Chained, Distinct
<1>4. task[i].phase \notin Queueing /\ task[j].phase \notin Queueing
    BY <1>1 DEF Working, Queueing
<1>5. ~(r[i] < r[j]) /\ ~(r[j] < r[i])
    BY <1>1, <1>2, <1>4 DEF Chained, BehindPrevious
<1> QED
    BY <1>3, <1>5

-----------------------------------------------------------------------------
(* Where the texts are. *)

Passed(n) == n \in Ids /\ task[n].phase \notin {"queued", "dropped", "handled"}

\* In one worker and no window, or in one window and no worker.
Once(n) ==
    \/ /\ \E j \in Ids : Carriers(n) = {j}
       /\ Windows(n) = {}
    \/ /\ Carriers(n) = {}
       /\ \E k \in Keys : Windows(n) = {k}

Rising(parts) == \A m, n \in DOMAIN parts : m < n => parts[m] < parts[n]

PlacedOnce == \A n \in Nat : Passed(n) \/ Carriers(n) # {} \/ Windows(n) # {} => Once(n)
InOrder ==
    /\ \A j \in Ids : Rising(task[j].parts) /\ Texts(task[j].parts) \subseteq 0..taken
    /\ \A k \in Keys : Rising(entry[k].parts) /\ Texts(entry[k].parts) \subseteq 0..taken
Received == \A j \in Ids : task[j].phase = "queued" => taken < j
NothingYet == \A j \in Ids : task[j].phase \in {"queued", "pending"} => task[j].parts = << >>

TextInv == PlacedOnce /\ InOrder /\ Received /\ NothingYet

LEMMA TextsOfAppend ==
    ASSUME NEW parts \in Seq(Nat), NEW i \in Nat
    PROVE  Texts(Append(parts, i)) = Texts(parts) \cup {i}
<1>1. /\ DOMAIN parts = 1..Len(parts) /\ Len(parts) \in Nat
      /\ DOMAIN Append(parts, i) = 1..(Len(parts) + 1)
      /\ \A n \in 1..Len(parts) : Append(parts, i)[n] = parts[n]
      /\ Append(parts, i)[Len(parts) + 1] = i
    OBVIOUS
<1> DEFINE longer == Append(parts, i)
<1> HIDE DEF longer
<1>2. /\ DOMAIN longer = 1..(Len(parts) + 1)
      /\ \A n \in 1..Len(parts) : longer[n] = parts[n]
      /\ longer[Len(parts) + 1] = i
    BY <1>1 DEF longer
<1>3. Texts(longer) = Texts(parts) \cup {i}
    <2>1. ASSUME NEW x \in Texts(longer) PROVE x \in Texts(parts) \cup {i}
        <3>1. PICK n \in 1..(Len(parts) + 1) : x = longer[n]
            BY <1>2 DEF Texts
        <3>2. n \in 1..Len(parts) \/ n = Len(parts) + 1
            BY <1>1
        <3> QED
            BY <1>1, <1>2, <3>1, <3>2 DEF Texts
    <2>2. ASSUME NEW x \in Texts(parts) PROVE x \in Texts(longer)
        <3>1. PICK n \in 1..Len(parts) : x = parts[n]
            BY <1>1 DEF Texts
        <3>2. n \in 1..(Len(parts) + 1)
            BY <1>1
        <3> QED
            BY <1>2, <3>1, <3>2 DEF Texts
    <2>3. i \in Texts(longer)
        <3>1. Len(parts) + 1 \in 1..(Len(parts) + 1)
            BY <1>1
        <3> QED
            BY <1>2, <3>1 DEF Texts
    <2> QED
        BY <2>1, <2>2, <2>3
<1> QED
    BY <1>3 DEF longer

LEMMA RisingAppend ==
    ASSUME NEW parts \in Seq(Nat), NEW i \in Nat, Rising(parts), \A x \in Texts(parts) : x < i
    PROVE  Rising(Append(parts, i))
<1> DEFINE longer == Append(parts, i)
<1>1. /\ DOMAIN parts = 1..Len(parts) /\ Len(parts) \in Nat
      /\ DOMAIN longer = 1..(Len(parts) + 1)
      /\ \A n \in 1..Len(parts) : longer[n] = parts[n]
      /\ longer[Len(parts) + 1] = i
    OBVIOUS
<1> HIDE DEF longer
<1>2. SUFFICES ASSUME NEW m \in 1..(Len(parts) + 1), NEW n \in 1..(Len(parts) + 1), m < n
               PROVE  longer[m] < longer[n]
    BY <1>1 DEF Rising, longer
<1>3. m \in 1..Len(parts) /\ (n \in 1..Len(parts) \/ n = Len(parts) + 1)
    BY <1>1, <1>2
<1>4. parts[m] \in Texts(parts)
    BY <1>1, <1>3 DEF Texts
<1> QED
    BY <1>1, <1>2, <1>3, <1>4 DEF Rising

LEMMA SeenNext ==
    ASSUME Origins, NEW n
    PROVE  /\ Carriers(n)' = {j \in Ids : n \in Texts(task'[j].parts)}
           /\ Windows(n)' = {k \in Keys : n \in Texts(entry'[k].parts)}
BY DEF Carriers, Windows, Texts, Origins

\* A step that moves no text.
LEMMA SameTexts ==
    ASSUME Types, Types', TextInv, NEW i \in Ids, Origins, entry' = entry, taken' \in {taken, i},
           taken' # taken => task[i].phase = "queued" /\ i = taken + 1 /\ task'[i].phase \in {"dropped", "handled"},
           \A j \in Ids : task'[j].parts = task[j].parts,
           \A j \in Ids : task'[j].phase \in {"queued", "pending"} => task'[j].phase = task[j].phase,
           \A j \in Ids : task[j].phase \in {"queued", "dropped", "handled"}
                          => task'[j].phase \in {"queued", "dropped", "handled"}
    PROVE  TextInv'
<1>1. /\ Ids' = Ids /\ taken \in Nat /\ i \in Nat /\ Ids \subseteq Nat
    BY IdsFacts DEF Types, Origins
<1>2. ASSUME NEW n \in Nat
      PROVE  Carriers(n)' = Carriers(n) /\ Windows(n)' = Windows(n) /\ (Once(n)' <=> Once(n))
    <2>1. Carriers(n)' = Carriers(n) /\ Windows(n)' = Windows(n)
        BY SeenNext DEF Carriers, Windows
    <2> QED
        BY <1>1, <2>1 DEF Once
<1>3. \A n \in Nat : Passed(n)' => Passed(n)
    BY <1>1 DEF Passed
<1>4. PlacedOnce'
    BY <1>2, <1>3 DEF PlacedOnce, TextInv
<1>5. 0..taken \subseteq 0..taken'
    BY <1>1
<1>6. InOrder'
    BY <1>1, <1>5 DEF InOrder, TextInv
<1>7. Received'
    <2>1. ASSUME NEW j \in Ids, task'[j].phase = "queued" PROVE taken' < j
        <3>1. task[j].phase = "queued" /\ taken < j /\ j \in Nat
            BY <1>1, <2>1 DEF Received, TextInv
        <3>2. CASE taken' = taken
            BY <3>1, <3>2
        <3>3. CASE taken' # taken
            <4>1. taken' = taken + 1 /\ j # i /\ i = taken + 1
                BY <2>1, <3>3
            <4> QED
                BY <1>1, <3>1, <4>1
        <3> QED
            BY <3>2, <3>3
    <2> QED
        BY <1>1, <2>1 DEF Received
<1>8. NothingYet'
    BY <1>1 DEF NothingYet, TextInv
<1> QED
    BY <1>4, <1>6, <1>7, <1>8 DEF TextInv

LEMMA HoldKeepsTexts ==
    ASSUME Types, TextInv, NEW i \in Ids, Hold(i), Origins
    PROVE  TextInv'
<1>1. /\ taken \in Nat /\ i \in Nat /\ Ids \subseteq Nat /\ Ids' = Ids
      /\ i = taken + 1 /\ taken' = i /\ entry' = entry
    BY IdsFacts DEF Types, Origins, Hold, GoesOn, Receives
<1>2. /\ task[i].phase = "queued" /\ task'[i].phase = "held" /\ task'[i].parts = <<i>>
      /\ \A j \in Ids : j # i => task'[j] = task[j]
    BY HoldFacts
<1>3. Texts(<<i>>) = {i} /\ Rising(<<i>>) /\ Texts(<< >>) = {}
    BY <1>1 DEF Texts, Rising
<1>4. task[i].parts = << >>
    BY <1>2 DEF TextInv, NothingYet
<1>5. i \notin 0..taken /\ 0..taken \subseteq 0..i /\ i \in 0..i
    BY <1>1
<1>6. ASSUME NEW n \in Nat, n # i PROVE Carriers(n)' = Carriers(n) /\ Windows(n)' = Windows(n)
    <2>1. \A j \in Ids : n \in Texts(task'[j].parts) <=> n \in Texts(task[j].parts)
        BY <1>2, <1>3, <1>4, <1>6
    <2> QED
        BY <1>1, <2>1, SeenNext DEF Carriers, Windows
<1>7. Carriers(i)' = {i} /\ Windows(i)' = {}
    <2>1. \A j \in Ids : i \in Texts(task'[j].parts) <=> j = i
        BY <1>2, <1>3, <1>5 DEF TextInv, InOrder
    <2>2. \A k \in Keys : i \notin Texts(entry'[k].parts)
        BY <1>1, <1>5 DEF TextInv, InOrder
    <2> QED
        BY <2>1, <2>2, SeenNext
<1>8. PlacedOnce'
    <2>1. ASSUME NEW n \in Nat, Passed(n)' \/ Carriers(n)' # {} \/ Windows(n)' # {} PROVE Once(n)'
        <3>1. CASE n = i
            BY <1>1, <1>7, <3>1 DEF Once
        <3>2. CASE n # i
            <4>1. Passed(n)' => Passed(n)
                BY <1>1, <1>2, <3>2 DEF Passed
            <4>2. Once(n)
                BY <1>6, <2>1, <3>2, <4>1 DEF TextInv, PlacedOnce
            <4> QED
                BY <1>1, <1>6, <3>2, <4>2 DEF Once
        <3> QED
            BY <3>1, <3>2
    <2> QED
        BY <2>1 DEF PlacedOnce
<1>9. InOrder'
    <2>1. \A j \in Ids : Rising(task'[j].parts) /\ Texts(task'[j].parts) \subseteq 0..i
        BY <1>2, <1>3, <1>5 DEF TextInv, InOrder
    <2>2. \A k \in Keys : Rising(entry'[k].parts) /\ Texts(entry'[k].parts) \subseteq 0..i
        BY <1>1, <1>5 DEF TextInv, InOrder
    <2> QED
        BY <1>1, <2>1, <2>2 DEF InOrder, Rising, Texts
<1>10. Received'
    BY <1>1, <1>2 DEF TextInv, Received
<1>11. NothingYet'
    BY <1>1, <1>2 DEF TextInv, NothingYet
<1> QED
    BY <1>8, <1>9, <1>10, <1>11 DEF TextInv

LEMMA DebounceKeepsTexts ==
    ASSUME Types, Owners, TextInv, NEW i \in Ids, Debounce(i), Origins
    PROVE  TextInv'
<1>0. PICK o : o = entry[Key(i)].owner
    OBVIOUS
<1>1. /\ taken \in Nat /\ i \in Nat /\ Ids \subseteq Nat /\ Ids' = Ids /\ Key(i) \in Keys
      /\ i = taken + 1 /\ taken' = i /\ entry \in [Keys -> EntryRec] /\ 0 \notin Ids
    BY IdsFacts DEF Types, Origins, Debounce, GoesOn, Receives
<1>2. /\ task[i].phase = "queued" /\ task'[i].phase = "pending" /\ i # o
      /\ o # 0 => o \in Ids /\ task[o].phase = "pending" /\ task'[o].phase = "superseded"
      /\ \A j \in Ids : j # i /\ j # o => task'[j].phase = task[j].phase
      /\ \A j \in Ids : task'[j].parts = task[j].parts
    BY <1>0, DebounceFacts
<1>3. PICK parts \in Seq(Nat) : parts = entry[Key(i)].parts
    BY <1>1 DEF EntryRec
<1>4. entry'[Key(i)].parts = Append(parts, i) /\ \A k \in Keys : k # Key(i) => entry'[k] = entry[k]
    <2>1. entry' = [entry EXCEPT ![Key(i)] = Joined(entry[Key(i)], i)]
        BY DEF Debounce
    <2>2. Joined(entry[Key(i)], i).parts = Append(parts, i)
        BY <1>3 DEF Joined
    <2> QED
        BY <1>1, <2>1, <2>2
<1>5. i \notin 0..taken /\ 0..taken \subseteq 0..i /\ i \in 0..i
    BY <1>1
<1>6. Texts(Append(parts, i)) = Texts(parts) \cup {i} /\ Rising(Append(parts, i))
    <2>1. Rising(parts) /\ Texts(parts) \subseteq 0..taken
        BY <1>1, <1>3 DEF TextInv, InOrder
    <2>2. \A x \in 0..taken : x < i
        BY <1>1
    <2> QED
        BY <1>1, <2>1, <2>2, TextsOfAppend, RisingAppend
<1> DEFINE longer == Append(parts, i)
<1>7. /\ Texts(longer) = Texts(parts) \cup {i} /\ Rising(longer)
      /\ entry'[Key(i)].parts = longer
    BY <1>4, <1>6
<1> HIDE DEF longer
<1>8. ASSUME NEW n \in Nat, n # i PROVE Carriers(n)' = Carriers(n) /\ Windows(n)' = Windows(n)
    <2>1. \A k \in Keys : n \in Texts(entry'[k].parts) <=> n \in Texts(entry[k].parts)
        BY <1>3, <1>4, <1>7, <1>8
    <2> QED
        BY <1>2, <2>1, SeenNext DEF Carriers, Windows
<1>9. Carriers(i)' = {} /\ Windows(i)' = {Key(i)}
    <2>1. \A j \in Ids : i \notin Texts(task'[j].parts)
        BY <1>2, <1>5 DEF TextInv, InOrder
    <2>2. \A k \in Keys : i \in Texts(entry'[k].parts) <=> k = Key(i)
        BY <1>4, <1>5, <1>7 DEF TextInv, InOrder
    <2>3. /\ Carriers(i)' = {j \in Ids : i \in Texts(task'[j].parts)}
          /\ Windows(i)' = {k \in Keys : i \in Texts(entry'[k].parts)}
        BY SeenNext
    <2>4. Carriers(i)' = {}
        BY <2>1, <2>3
    <2>5. Windows(i)' = {Key(i)}
        BY <1>1, <2>2, <2>3
    <2> QED
        BY <2>4, <2>5
<1>10. PlacedOnce'
    <2>1. ASSUME NEW n \in Nat, Passed(n)' \/ Carriers(n)' # {} \/ Windows(n)' # {} PROVE Once(n)'
        <3>1. CASE n = i
            BY <1>1, <1>9, <3>1 DEF Once
        <3>2. CASE n # i
            <4>1. Passed(n)' => Passed(n)
                BY <1>1, <1>2, <3>2 DEF Passed
            <4>2. Once(n)
                BY <1>8, <2>1, <3>2, <4>1 DEF TextInv, PlacedOnce
            <4> QED
                BY <1>1, <1>8, <3>2, <4>2 DEF Once
        <3> QED
            BY <3>1, <3>2
    <2> QED
        BY <2>1 DEF PlacedOnce
<1>11. InOrder'
    <2>1. \A j \in Ids : Rising(task'[j].parts) /\ Texts(task'[j].parts) \subseteq 0..i
        BY <1>2, <1>5 DEF TextInv, InOrder
    <2>2. \A k \in Keys : Rising(entry'[k].parts) /\ Texts(entry'[k].parts) \subseteq 0..i
        BY <1>3, <1>4, <1>5, <1>7 DEF TextInv, InOrder
    <2> QED
        BY <1>1, <2>1, <2>2 DEF InOrder, Rising, Texts
<1>12. Received'
    <2>1. ASSUME NEW j \in Ids, task'[j].phase = "queued" PROVE i < j
        <3>1. task[j].phase = "queued" /\ j # i
            BY <1>1, <1>2, <2>1
        <3> QED
            BY <1>1, <3>1 DEF TextInv, Received
    <2> QED
        BY <1>1, <2>1 DEF Received
<1>13. NothingYet'
    BY <1>1, <1>2 DEF TextInv, NothingYet
<1> QED
    BY <1>10, <1>11, <1>12, <1>13 DEF TextInv

LEMMA FireKeepsTexts ==
    ASSUME Types, Owners, TextInv, NEW i \in Ids, Fire(i), Origins
    PROVE  TextInv'
<1>0. PICK e \in EntryRec : e = entry[Key(i)]
    BY IdsFacts DEF Types
<1>1. /\ taken \in Nat /\ Ids \subseteq Nat /\ Ids' = Ids /\ Key(i) \in Keys /\ taken' = taken
      /\ entry \in [Keys -> EntryRec] /\ 0 \notin Ids
    <2>1. taken' = taken
        BY DEF Fire
    <2> QED
        BY <2>1, IdsFacts DEF Types, Origins
<1>2. /\ \A j \in Ids : j = e.owner => task'[j].phase = "ready" /\ task'[j].parts = e.parts
      /\ \A j \in Ids : j # e.owner => task'[j].phase = task[j].phase /\ task'[j].parts = task[j].parts
      /\ entry' = IF e.owner = 0 THEN entry ELSE Cleared(Key(i))
    BY <1>0, FireFacts
<1>3. CASE e.owner = 0
    <2>1. \A n \in Nat : Carriers(n)' = Carriers(n) /\ Windows(n)' = Windows(n)
        BY <1>1, <1>2, <1>3, SeenNext DEF Carriers, Windows
    <2>2. \A n \in Nat : (Passed(n)' <=> Passed(n)) /\ (Once(n)' <=> Once(n))
        BY <1>1, <1>2, <1>3, <2>1 DEF Passed, Once
    <2>3. PlacedOnce'
        BY <2>1, <2>2 DEF TextInv, PlacedOnce
    <2> QED
        BY <1>1, <1>2, <1>3, <2>3 DEF TextInv, InOrder, Received, NothingYet
<1>4. CASE e.owner # 0
    <2>1. PICK o \in Ids : o = e.owner /\ task[o].phase = "pending" /\ Key(o) = Key(i)
        BY <1>0, <1>1, <1>4 DEF Owners
    <2>2. task[o].parts = << >> /\ Texts(<< >>) = {} /\ Rising(<< >>)
        BY <2>1 DEF TextInv, NothingYet, Texts, Rising
    <2>3. entry'[Key(i)].parts = << >> /\ \A k \in Keys : k # Key(i) => entry'[k] = entry[k]
        BY <1>1, <1>2, <1>4 DEF Cleared, NoEntry
    <2>4. task'[o].phase = "ready" /\ task'[o].parts = e.parts
        BY <1>2, <2>1
    <2>5. ASSUME NEW n \in Nat, n \notin Texts(e.parts)
          PROVE  Carriers(n)' = Carriers(n) /\ Windows(n)' = Windows(n)
        <3>1. \A j \in Ids : n \in Texts(task'[j].parts) <=> n \in Texts(task[j].parts)
            BY <1>2, <2>1, <2>2, <2>4, <2>5
        <3>2. \A k \in Keys : n \in Texts(entry'[k].parts) <=> n \in Texts(entry[k].parts)
            BY <1>0, <2>2, <2>3, <2>5
        <3> QED
            BY <3>1, <3>2, SeenNext DEF Carriers, Windows
    <2>6. ASSUME NEW n \in Nat, n \in Texts(e.parts)
          PROVE  Carriers(n)' = {o} /\ Windows(n)' = {}
        <3>1. Key(i) \in Windows(n)
            BY <1>0, <1>1, <2>6 DEF Windows
        <3>2. Carriers(n) = {} /\ Windows(n) = {Key(i)}
            BY <3>1 DEF TextInv, PlacedOnce, Once
        <3>3. \A j \in Ids : n \in Texts(task'[j].parts) <=> j = o
            BY <1>2, <2>1, <2>4, <2>6, <3>2 DEF Carriers
        <3>4. \A k \in Keys : n \notin Texts(entry'[k].parts)
            BY <2>2, <2>3, <3>2 DEF Windows
        <3> QED
            BY <3>3, <3>4, SeenNext
    <2>7. PlacedOnce'
        <3>1. ASSUME NEW n \in Nat, Passed(n)' \/ Carriers(n)' # {} \/ Windows(n)' # {} PROVE Once(n)'
            <4>1. CASE n \in Texts(e.parts)
                BY <1>1, <2>6, <4>1 DEF Once
            <4>2. CASE n \notin Texts(e.parts)
                <5>1. Passed(n)' => Passed(n)
                    BY <1>1, <1>2, <2>1 DEF Passed
                <5>2. Once(n)
                    BY <2>5, <3>1, <4>2, <5>1 DEF TextInv, PlacedOnce
                <5> QED
                    BY <1>1, <2>5, <4>2, <5>2 DEF Once
            <4> QED
                BY <4>1, <4>2
        <3> QED
            BY <3>1 DEF PlacedOnce
    <2>8. InOrder'
        <3>1. \A j \in Ids : Rising(task'[j].parts) /\ Texts(task'[j].parts) \subseteq 0..taken
            BY <1>0, <1>1, <1>2, <2>1, <2>4 DEF TextInv, InOrder
        <3>2. \A k \in Keys : Rising(entry'[k].parts) /\ Texts(entry'[k].parts) \subseteq 0..taken
            BY <2>2, <2>3 DEF TextInv, InOrder
        <3> QED
            BY <1>1, <3>1, <3>2 DEF InOrder, Rising, Texts
    <2>9. Received'
        BY <1>1, <1>2, <2>1, <2>4 DEF TextInv, Received
    <2>10. NothingYet'
        BY <1>1, <1>2, <2>1, <2>4 DEF TextInv, NothingYet
    <2> QED
        BY <2>7, <2>8, <2>9, <2>10 DEF TextInv
<1> QED
    BY <1>3, <1>4

LEMMA TextsKept ==
    ASSUME Types, Types', Owners, TextInv, NEW i \in Ids, Sorts(i), Origins
    PROVE  TextInv'
<1> DEFINE early == {"queued", "dropped", "handled"}
<1>1. CASE \E phase \in Phases : PlainMove(i, phase)
    <2>1. PICK phase \in Phases : PlainMove(i, phase)
        BY <1>1
    <2>2. /\ \A j \in Ids : task'[j].parts = task[j].parts
          /\ \A j \in Ids : j # i => task'[j].phase = task[j].phase
          /\ task'[i].phase = phase
        BY <2>1, MoveFacts DEF PlainMove
    <2>3. /\ entry' = entry /\ phase \notin {"queued", "pending"} /\ taken' \in {taken, i}
          /\ task[i].phase \in early => phase = "dropped"
          /\ taken' # taken => task[i].phase = "queued" /\ i = taken + 1 /\ phase = "dropped"
        BY <2>1 DEF PlainMove
    <2> QED
        BY <2>2, <2>3, SameTexts
<1>2. CASE Admission(i) \/ Leave(i)
    <2>1. PICK phase \in {"spawned", "removed"} : Move(i, phase)
        BY <1>2 DEF Admission, Leave
    <2>2. phase \in Phases
        BY DEF Phases
    <2>3. task[i].phase \notin early /\ entry' = entry /\ taken' = taken
        BY <1>2 DEF Admission, Leave, At
    <2>4. /\ \A j \in Ids : task'[j].parts = task[j].parts
          /\ \A j \in Ids : j # i => task'[j].phase = task[j].phase
          /\ task'[i].phase = phase
        BY <2>1, <2>2, MoveFacts
    <2> QED
        BY <2>1, <2>3, <2>4, SameTexts
<1>3. CASE StopCommand(i)
    <2>1. /\ task[i].phase = "queued" /\ task'[i].phase = "handled"
          /\ \A j \in Ids : j # i => task'[j].phase = task[j].phase
          /\ \A j \in Ids : task'[j].parts = task[j].parts
        BY <1>3, StopFacts
    <2>2. entry' = entry /\ taken' = i /\ i = taken + 1
        BY <1>3 DEF StopCommand, Receives
    <2> QED
        BY <2>1, <2>2, SameTexts
<1>4. CASE Elapse(i)
    <2>1. \A j \in Ids : task'[j].phase = task[j].phase /\ task'[j].parts = task[j].parts
        BY <1>4, ElapseFacts
    <2>2. entry' = entry /\ taken' = taken
        BY <1>4 DEF Elapse
    <2> QED
        BY <2>1, <2>2, SameTexts
<1>5. CASE Register(i)
    <2>1. /\ task[i].phase = "spawned" /\ task'[i].phase \in {"loading", "starting"}
          /\ \A j \in Ids : j # i => task'[j].phase = task[j].phase
          /\ \A j \in Ids : task'[j].parts = task[j].parts
        BY <1>5, RegisterFacts
    <2>2. entry' = entry /\ taken' = taken
        BY <1>5 DEF Register
    <2> QED
        BY <2>1, <2>2, SameTexts
<1>6. CASE MarkDone(i)
    <2>1. /\ task[i].phase = "removed" /\ task'[i].phase = "ended"
          /\ \A j \in Ids : j # i /\ task[j].phase = "waiting" /\ task[j].prev = i => task'[j].phase = "starting"
          /\ \A j \in Ids : j # i /\ ~(task[j].phase = "waiting" /\ task[j].prev = i) => task'[j].phase = task[j].phase
          /\ \A j \in Ids : task'[j].parts = task[j].parts
        BY <1>6, MarkDoneFacts
    <2>2. entry' = entry /\ taken' = taken
        BY <1>6 DEF MarkDone
    <2>3. \A j \in Ids : task'[j].phase \in {"queued", "pending"} => task'[j].phase = task[j].phase
        BY <2>1
    <2>4. \A j \in Ids : task[j].phase \in early => task'[j].phase \in early
        BY <2>1
    <2> QED
        BY <2>1, <2>2, <2>3, <2>4, SameTexts
<1>7. CASE Hold(i) \/ Debounce(i) \/ Fire(i)
    BY <1>7, HoldKeepsTexts, DebounceKeepsTexts, FireKeepsTexts
<1> QED
    BY <1>1, <1>2, <1>3, <1>4, <1>5, <1>6, <1>7 DEF Sorts

LEMMA TextsSuffice == ASSUME Types, TextInv PROVE EachTextOnce
<1>1. ASSUME NEW n \in Ids, task[n].phase \notin {"queued", "dropped", "handled"}
      PROVE  Cardinality(Carriers(n)) + Cardinality(Windows(n)) = 1
    <2>1. Once(n)
        BY <1>1, IdsFacts DEF TextInv, PlacedOnce, Passed
    <2>2. CASE (\E j \in Ids : Carriers(n) = {j}) /\ Windows(n) = {}
        <3>1. PICK j \in Ids : Carriers(n) = {j}
            BY <2>2
        <3>2. Cardinality({j}) = 1 /\ Cardinality({}) = 0
            BY FS_Singleton, FS_EmptySet
        <3> QED
            BY <2>2, <3>1, <3>2
    <2>3. CASE Carriers(n) = {} /\ \E k \in Keys : Windows(n) = {k}
        <3>1. PICK k \in Keys : Windows(n) = {k}
            BY <2>3
        <3>2. Cardinality({k}) = 1 /\ Cardinality({}) = 0
            BY FS_Singleton, FS_EmptySet
        <3> QED
            BY <2>3, <3>1, <3>2
    <2> QED
        BY <2>1, <2>2, <2>3 DEF Once
<1>2. \A j \in Ids : Rising(task[j].parts)
    BY DEF TextInv, InOrder
<1> QED
    BY <1>1, <1>2 DEF EachTextOnce, Rising

-----------------------------------------------------------------------------
(* The invariant and the theorems. *)

DispatchInv ==
    /\ Types /\ Bounded /\ Owners /\ Listed /\ DoneEnded
    /\ StopReaches /\ PermitsConserved
    /\ \E r : Chained(r)
    /\ TextInv

LEMMA InitTypes ==
    ASSUME Init
    PROVE  /\ Types /\ Bounded
           /\ \A i \in Ids : task[i].phase = "queued" /\ ~task[i].done /\ task[i].parts = << >>
<1>1. PICK script \in Scripts : task = [i \in DOMAIN script |-> NewTask(script[i])]
    BY DEF Init
<1>2. script \in Seq(Messages) /\ MaxInFlight \in Nat
    BY ChannelAssumption
<1>3. DOMAIN script = 1..Len(script) /\ Len(script) \in Nat /\ \A i \in DOMAIN script : script[i] \in Messages
    BY <1>2
<1> DEFINE none == << >>
<1>4. none \in Seq(Nat)
    OBVIOUS
<1>5. ASSUME NEW m \in Messages
      PROVE  /\ NewTask(m) \in TaskRec /\ NewTask(m).phase = "queued"
             /\ ~NewTask(m).done /\ NewTask(m).parts = none
    <2>1. NewTask(m) = [place |-> m.place, kind |-> m.kind, phase |-> "queued", prev |-> 0, cancelled |-> FALSE,
                        done |-> FALSE, timer |-> "none", parts |-> none]
        BY DEF NewTask
    <2>2. m.place \in Places /\ m.kind \in Kinds
        BY DEF Messages
    <2> HIDE DEF none
    <2> QED
        BY <1>4, <2>1, <2>2 DEF TaskRec, Phases, Timers
<1>6. Ids = 1..Len(script)
    BY <1>1, <1>3 DEF Ids
<1>7. ASSUME NEW i \in Ids
      PROVE  /\ task[i] \in TaskRec /\ task[i].phase = "queued"
             /\ ~task[i].done /\ task[i].parts = << >>
    <2>1. task[i] = NewTask(script[i]) /\ script[i] \in Messages
        BY <1>1, <1>3, <1>6
    <2> QED
        BY <1>5, <2>1
<1>8. task \in Seq(TaskRec)
    <2>1. task \in [1..Len(script) -> TaskRec]
        BY <1>1, <1>3, <1>6, <1>7
    <2> QED
        BY <1>3, <2>1, SeqDef
<1>9. Len(task) \in Nat
    BY <1>8
<1>10. entry \in [Keys -> EntryRec]
    <2>1. NoEntry = [parts |-> none, owner |-> 0]
        BY DEF NoEntry
    <2> HIDE DEF none
    <2>2. NoEntry \in EntryRec
        BY <1>4, <2>1 DEF EntryRec
    <2> QED
        BY <2>2 DEF Init
<1>11. taken = 0 /\ holding = 0 /\ permits \in Nat /\ inFlight \in [Scopes -> Nat]
    BY <1>2 DEF Init
<1>12. Types
    BY <1>8, <1>10, <1>11 DEF Types
<1>13. Bounded
    BY <1>9, <1>11 DEF Bounded
<1> QED
    BY <1>7, <1>12, <1>13

LEMMA DispatchInit == ASSUME Init PROVE DispatchInv
<1>1. /\ Types /\ Bounded
      /\ \A i \in Ids : task[i].phase = "queued" /\ ~task[i].done /\ task[i].parts = << >>
    BY InitTypes
<1>2. Owners
    <2>1. \A k \in Keys : entry[k].owner = 0
        BY DEF Init, NoEntry
    <2> QED
        BY <2>1 DEF Owners
<1>3. Listed
    BY DEF Init, Listed
<1>4. DoneEnded /\ StopReaches
    BY <1>1 DEF DoneEnded, StopReaches, Registered, Working
<1>5. PermitsConserved
    <2>1. {i \in Ids : task[i].phase \in HoldsPermit} = {}
        BY <1>1 DEF HoldsPermit, Registered, Working
    <2>2. permits = MaxInFlight /\ MaxInFlight \in Nat
        BY ChannelAssumption DEF Init
    <2> QED
        BY <2>1, <2>2, FS_EmptySet DEF PermitsConserved
<1>6. Chained([i \in Ids |-> 0])
    <2>1. \A i \in Ids : ~Together(i)
        BY <1>1 DEF Together, Registered, Working
    <2> QED
        BY <2>1 DEF Chained, Distinct, LastIsListed, BehindPrevious
<1>7. TextInv
    <2>1. /\ \A k \in Keys : entry[k].parts = << >>
          /\ taken = 0 /\ 0 \notin Ids /\ Ids \subseteq Nat
        BY <1>1, IdsFacts DEF Init, NoEntry
    <2>2. Texts(<< >>) = {} /\ Rising(<< >>)
        BY DEF Texts, Rising
    <2>3. \A n \in Nat : Carriers(n) = {} /\ Windows(n) = {} /\ ~Passed(n)
        BY <1>1, <2>1, <2>2 DEF Carriers, Windows, Passed
    <2>4. PlacedOnce
        BY <2>3 DEF PlacedOnce
    <2>5. InOrder
        BY <1>1, <2>1, <2>2 DEF InOrder
    <2>6. Received
        <3>1. taken = 0
            BY <2>1
        <3>2. ASSUME NEW j \in Ids PROVE 0 < j
            <4>1. j \in Nat /\ j # 0
                BY <2>1
            <4> QED
                BY <4>1
        <3> QED
            BY <3>1, <3>2 DEF Received
    <2>7. NothingYet
        BY <1>1 DEF NothingYet
    <2> QED
        BY <2>4, <2>5, <2>6, <2>7 DEF TextInv
<1>8. \E r : Chained(r)
    BY <1>6
<1> QED
    BY <1>1, <1>2, <1>3, <1>4, <1>5, <1>7, <1>8 DEF DispatchInv

LEMMA DispatchNext == ASSUME DispatchInv, [Next]_vars PROVE DispatchInv'
<1>1. CASE Next
    <2>1. PICK i \in Ids : Sorts(i)
        BY <1>1, NextSorts
    <2>2. Types' /\ Bounded' /\ Origins
        BY <2>1, TypesKept DEF DispatchInv
    <2>3. Coarse(i)
        BY <2>1, CoarseSteps DEF DispatchInv
    <2>4. Owners' /\ Listed' /\ DoneEnded' /\ StopReaches' /\ PermitsConserved'
        BY <2>1, <2>2, <2>3, OwnersKept, ListedKept, DoneEndedKept, StopReachesKept, PermitsKept DEF DispatchInv
    <2>5. PICK r : Chained(r)
        BY DEF DispatchInv
    <2>6. \E q : Chained(q)'
        <3>1. CASE Register(i)
            BY <2>2, <2>5, <3>1, ChainGrows DEF DispatchInv
        <3>2. CASE ~Register(i)
            BY <2>2, <2>3, <2>5, <3>2, ChainKept DEF DispatchInv
        <3> QED
            BY <3>1, <3>2
    <2>7. TextInv'
        BY <2>1, <2>2, TextsKept DEF DispatchInv
    <2> QED
        BY <2>2, <2>4, <2>6, <2>7 DEF DispatchInv
<1>2. CASE UNCHANGED vars
    <2>1. Types' /\ Bounded' /\ Owners' /\ Listed' /\ DoneEnded' /\ StopReaches' /\ PermitsConserved'
        BY <1>2 DEF vars, DispatchInv, Types, Bounded, Owners, Listed, DoneEnded, StopReaches, PermitsConserved,
                    Ids, Key, Scope, Interrupts
    <2>2. PICK r : Chained(r)
        BY DEF DispatchInv
    <2>3. Chained(r)'
        BY <1>2, <2>2 DEF vars, Chained, Distinct, LastIsListed, BehindPrevious, Together, Stopped, Ids, Scope, Interrupts
    <2>4. TextInv'
        <3>1. /\ task' = task /\ entry' = entry /\ taken' = taken /\ Ids' = Ids
              /\ TextInv /\ Origins
            BY <1>2 DEF vars, Ids, Origins, DispatchInv
        <3>2. \A n \in Nat : Carriers(n)' = Carriers(n) /\ Windows(n)' = Windows(n)
            BY <3>1, SeenNext DEF Carriers, Windows
        <3>3. \A n \in Nat : (Passed(n)' <=> Passed(n)) /\ (Once(n)' <=> Once(n))
            BY <3>1, <3>2 DEF Passed, Once
        <3>4. PlacedOnce'
            BY <3>1, <3>2, <3>3 DEF TextInv, PlacedOnce
        <3>5. InOrder'
            BY <3>1 DEF TextInv, InOrder
        <3> QED
            BY <3>1, <3>4, <3>5 DEF TextInv, Received, NothingYet
    <2> QED
        BY <2>1, <2>3, <2>4 DEF DispatchInv
<1> QED
    BY <1>1, <1>2

LEMMA DispatchAlways == Spec => []DispatchInv
BY DispatchInit, DispatchNext, PTL DEF Spec

LEMMA InvTypes == ASSUME DispatchInv PROVE TypeOK
<1>1. Types /\ Bounded /\ Owners /\ Listed
    BY DEF DispatchInv
<1>2. Ids = 1..Len(task) /\ Len(task) \in Nat /\ \A i \in Ids : task[i] \in TaskRec
    BY <1>1, IdsFacts
<1>3. \A i \in Ids : TaskShape(task[i])
    BY <1>2 DEF TaskRec, TaskShape
<1>4. permits \in 0..MaxInFlight
    <2>1. permits \in Nat /\ Cardinality(Holders) \in Nat /\ permits + Cardinality(Holders) = MaxInFlight
        BY <1>1, HoldersFinite DEF Types, DispatchInv, PermitsConserved, Holders
    <2> QED
        BY <2>1, ChannelAssumption
<1>5. inFlight \in [Scopes -> 0..Len(task)]
    <2>1. inFlight \in [Scopes -> Nat]
        BY <1>1 DEF Types
    <2>2. \A s \in Scopes : inFlight[s] \in 0..Len(task)
        BY <1>1, <1>2 DEF Listed
    <2> QED
        BY <2>1, <2>2
<1>6. ASSUME NEW k \in Keys PROVE entry[k].owner \in 0..Len(task) /\ entry[k].parts \in Seq(Nat)
    <2>1. entry[k] \in EntryRec
        BY <1>1 DEF Types
    <2>2. entry[k].parts \in Seq(Nat)
        BY <2>1 DEF EntryRec
    <2>3. entry[k].owner = 0 \/ entry[k].owner \in Ids
        BY <1>1 DEF Owners
    <2> QED
        BY <1>2, <2>2, <2>3
<1> QED
    BY <1>1, <1>2, <1>3, <1>4, <1>5, <1>6 DEF TypeOK, Bounded

(* Whatever the stream, its origins and the permits: the loop, the timers and the       *)
(* workers keep every variable in its type.                                             *)
THEOREM DispatchTyped == Spec => []TypeOK
BY DispatchAlways, InvTypes, PTL

(* The semaphore of the dispatch loop: as many permits are out as there are workers.    *)
THEOREM PermitsAreConserved == Spec => []PermitsConserved
<1>1. DispatchInv => PermitsConserved
    BY DEF DispatchInv
<1> QED
    BY <1>1, DispatchAlways, PTL

(* in_flight_by_sender: on a channel that interrupts, a registered turn that nobody has *)
(* cancelled is the one /stop and the next message find.                                *)
THEOREM StopAlwaysReaches == Spec => []StopReaches
<1>1. DispatchInv => StopReaches
    BY DEF DispatchInv
<1> QED
    BY <1>1, DispatchAlways, PTL

(* dispatch_worker waits for the turn it interrupts: unless a /stop has taken a turn of *)
(* the scope out of the map, two turns of a scope are never under way at once.          *)
THEOREM OneTurnAtATime == Spec => []OneAtATime
<1>1. DispatchInv => OneAtATime
    BY ChainSuffices DEF DispatchInv
<1> QED
    BY <1>1, DispatchAlways, PTL

(* MessageDebouncer and its timers: a text is in one window or one worker, in the order *)
(* of arrival, for every race of a timer with the loop.                                 *)
THEOREM NoTextIsLostOrDoubled == Spec => []EachTextOnce
<1>1. DispatchInv => EachTextOnce
    BY TextsSuffice DEF DispatchInv
<1> QED
    BY <1>1, DispatchAlways, PTL

=============================================================================

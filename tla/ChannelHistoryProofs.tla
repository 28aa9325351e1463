------------------------- MODULE ChannelHistoryProofs -------------------------
(***************************************************************************)
(* Theorems about ChannelHistory: with the conversations added, the        *)
(* dispatch loop still does what ChannelDispatch says, a new session is    *)
(* empty, and a restart sees what memory held, for every stream and all    *)
(* limits.                                                                 *)
(***************************************************************************)
EXTENDS ChannelHistory, ChannelDispatchProofs, InductionFacts

-----------------------------------------------------------------------------
(* Every step of a worker on its conversation is one of the dispatch loop, or none. *)

LEMMA StepIsDispatch ==
    ASSUME HistNext
    PROVE  Next \/ UNCHANGED vars
<1>1. PICK i \in Ids : Beside(Loop(i) \/ Timer(i) \/ Around(i)) \/ FullBody(i)
    BY DEF HistNext
<1>2. CASE Beside(Loop(i) \/ Timer(i) \/ Around(i))
    BY <1>2 DEF Beside, Next
<1>3. CASE Dropped(i) \/ NewSession(i)
    BY <1>3 DEF Dropped, NewSession, Body, Next
<1>4. CASE PushUserTurn(i)
    BY <1>4 DEF PushUserTurn, Body, Next
<1>5. CASE Unanswered(i) \/ PushAnswer(i) \/ Overflow(i) \/ RollBack(i)
    BY <1>5 DEF Unanswered, PushAnswer, Overflow, RollBack, Body, Next
<1>6. CASE SaveUserTurn(i) \/ SaveAnswer(i)
    BY <1>6 DEF SaveUserTurn, SaveAnswer
<1> QED
    BY <1>1, <1>2, <1>3, <1>4, <1>5, <1>6 DEF FullBody

(* The workers of process_channel_message, with their conversations, are workers of the *)
(* dispatch loop: what is shown of the loop alone holds of the whole.                   *)
THEOREM HistoryImplementsDispatch == HistSpec => Spec
<1>1. HistInit => Init
    BY DEF HistInit
<1>2. [HistNext]_allVars => [Next]_vars
    BY StepIsDispatch DEF allVars
<1> QED
    BY <1>1, <1>2, PTL DEF HistSpec, Spec

-----------------------------------------------------------------------------
(* What the loop, the timers and the rest of a worker do to those at work. *)

Apart ==
    \A j \in Ids : /\ task[j].phase \in Working => /\ task'[j].phase = task[j].phase
                                                  /\ task'[j].parts = task[j].parts
                   /\ task'[j].phase = "answering" => task[j].phase = "answering"

LEMMA MoveApart ==
    ASSUME Types, NEW i \in Ids, NEW phase \in Phases \ {"answering"}, Move(i, phase), task[i].phase \notin Working
    PROVE  Apart
<1>1. /\ \A j \in Ids : j # i => task'[j].phase = task[j].phase
      /\ \A j \in Ids : task'[j].parts = task[j].parts
      /\ task'[i].phase = phase
    BY MoveFacts
<1> QED
    BY <1>1 DEF Apart

LEMMA BesideApart ==
    ASSUME Types, Owners, NEW i \in Ids, Loop(i) \/ Timer(i) \/ Around(i)
    PROVE  Apart
<1> USE DEF Working
<1>1. {"dropped", "spawned", "starting", "subscribing", "waiting", "opening", "leaving", "removed"}
         \subseteq Phases \ {"answering"}
    BY DEF Phases
<1>2. CASE DropUnowned(i) \/ AdmitHeld(i) \/ AdmitReady(i)
    <2>1. /\ \E phase \in {"dropped", "spawned"} : Move(i, phase)
          /\ task[i].phase \in {"queued", "held", "ready"}
        BY <1>2 DEF DropUnowned, Receives, AdmitHeld, AdmitReady, At
    <2> QED
        BY <1>1, <2>1, MoveApart
<1>3. CASE StartConsole(i) \/ Load(i) \/ Subscribe(i) \/ Start(i) \/ Leave(i)
    <2>1. /\ \E phase \in {"starting", "subscribing", "waiting", "opening", "leaving", "removed"} : Move(i, phase)
          /\ task[i].phase \in {"spawned", "loading", "subscribing", "starting", "leaving"}
        BY <1>3 DEF StartConsole, Load, Subscribe, Start, Leave, At
    <2> QED
        BY <1>1, <2>1, MoveApart
<1>4. CASE StopCommand(i)
    BY <1>4, StopFacts DEF Apart
<1>5. CASE Debounce(i)
    <2>1. PICK o : o = entry[Key(i)].owner
        OBVIOUS
    <2>2. /\ task[i].phase = "queued" /\ task'[i].phase = "pending"
          /\ o # 0 => o \in Ids /\ task[o].phase = "pending" /\ task'[o].phase = "superseded"
          /\ \A j \in Ids : j # i /\ j # o => task'[j].phase = task[j].phase
          /\ \A j \in Ids : task'[j].parts = task[j].parts
        BY <1>5, <2>1, DebounceFacts
    <2> QED
        BY <2>2, IdsFacts DEF Apart
<1>6. CASE Hold(i)
    BY <1>6, HoldFacts DEF Apart
<1>7. CASE Elapse(i)
    BY <1>7, ElapseFacts DEF Apart
<1>8. CASE Fire(i)
    <2>1. PICK e : e = entry[Key(i)]
        OBVIOUS
    <2>2. /\ \A j \in Ids : j = e.owner => task'[j].phase = "ready"
          /\ \A j \in Ids : j # e.owner => task'[j].phase = task[j].phase /\ task'[j].parts = task[j].parts
        BY <1>8, <2>1, FireFacts
    <2>3. 0 \notin Ids /\ Key(i) \in Keys
        BY IdsFacts
    <2>4. \A j \in Ids : j = e.owner => task[j].phase = "pending"
        BY <2>1, <2>3 DEF Owners
    <2> QED
        BY <2>2, <2>4 DEF Apart
<1>9. CASE Register(i)
    BY <1>9, RegisterFacts DEF Apart
<1>10. CASE MarkDone(i)
    BY <1>10, MarkDoneFacts DEF Apart
<1> QED
    BY <1>2, <1>3, <1>4, <1>5, <1>6, <1>7, <1>8, <1>9, <1>10 DEF Loop, Timer, Around

-----------------------------------------------------------------------------
(* A session just begun. *)

Shapes ==
    /\ Ids \subseteq 1..MaxMessages /\ fresh \subseteq Keys
    /\ DOMAIN writing = 1..MaxMessages /\ DOMAIN hist = Keys /\ DOMAIN stored = Keys

WritersWork == \A i \in Ids : writing[i] # "none" => task[i].phase \in Working

Unspoken(k) ==
    /\ hist[k] = << >> /\ stored[k] = << >>
    /\ \A i \in Ids : Key(i) = k => writing[i] = "none" /\ task[i].phase # "answering"

FreshInv == \A k \in fresh : Serial(k) => Unspoken(k)

SessionInv == DispatchInv /\ Shapes /\ WritersWork /\ FreshInv

LEMMA SameOrigins ==
    ASSUME DispatchInv, Next \/ UNCHANGED vars
    PROVE  Origins /\ \A k \in Keys : Serial(k)' => Serial(k)
<1>1. CASE Next
    <2>1. PICK i \in Ids : Sorts(i)
        BY <1>1, NextSorts
    <2>2. Origins /\ Coarse(i)
        BY <2>1, TypesKept, CoarseSteps DEF DispatchInv
    <2>3. ASSUME NEW k \in Keys, Serial(k)', NEW p \in Places, p.key = k PROVE ~Stopped(p.scope)
        <3>1. SUFFICES ASSUME Stopped(p.scope) PROVE FALSE
            OBVIOUS
        <3>2. PICK h \in Ids : task[h].phase = "handled" /\ Scope(h) = p.scope
            BY <3>1 DEF Stopped
        <3>3. Stopped(Scope(h))'
            BY <2>2, <3>1, <3>2, StoppedStays DEF DispatchInv
        <3>4. Scope(h)' = p.scope
            BY <2>2, <3>2 DEF Origins, Scope
        <3> QED
            BY <2>3, <3>3, <3>4 DEF Serial
    <2> QED
        BY <2>2, <2>3 DEF Serial
<1>2. CASE UNCHANGED vars
    BY <1>2 DEF vars, Origins, Serial, Stopped, Ids, Scope
<1> QED
    BY <1>1, <1>2

\* Of the workers of such a conversation at most one is at work.
LEMMA OneWorks ==
    ASSUME DispatchInv, NEW i \in Ids, NEW j \in Ids, Key(i) = Key(j), Serial(Key(i)),
           task[i].phase \in Working, task[j].phase \in Working
    PROVE  i = j
<1>1. OneAtATime
    BY ChainSuffices DEF DispatchInv
<1>2. task[i].place \in Places /\ task[j].place \in Places
    BY IdsFacts DEF DispatchInv, TaskRec
<1>3. /\ task[i].place.interrupts /\ task[i].place.scope = task[j].place.scope
      /\ ~Stopped(task[i].place.scope)
    BY <1>2 DEF Serial, Key
<1> QED
    BY <1>1, <1>3 DEF OneAtATime, Interrupts, Scope

\* A step of worker i that leaves the others alone.
Alone(i) ==
    /\ \A j \in Ids : j # i => task'[j].phase = task[j].phase /\ writing'[j] = writing[j]
    /\ \A k \in Keys : k # Key(i) => (hist[k] = << >> => hist'[k] = << >>) /\ stored'[k] = stored[k]
    /\ fresh' \subseteq fresh \cup {Key(i)}

LEMMA AloneKeeps ==
    ASSUME SessionInv, Origins, \A k \in Keys : Serial(k)' => Serial(k),
           NEW i \in Ids, Alone(i),
           writing'[i] # "none" => task'[i].phase \in Working,
           Key(i) \in fresh' /\ Serial(Key(i)) => Unspoken(Key(i))'
    PROVE  WritersWork' /\ FreshInv'
<1>1. Key(i) \in Keys /\ fresh \subseteq Keys /\ Ids' = Ids /\ \A j \in Ids : Key(j)' = Key(j)
    BY IdsFacts DEF SessionInv, DispatchInv, Shapes, Origins, Key
<1>2. WritersWork'
    BY <1>1 DEF SessionInv, WritersWork, Alone
<1>3. ASSUME NEW k \in fresh', Serial(k)' PROVE Unspoken(k)'
    <2>1. k \in Keys /\ Serial(k)
        BY <1>1, <1>3 DEF Alone
    <2>2. CASE k = Key(i)
        <3>1. Unspoken(Key(i))' /\ Key(i)' = k
            BY <1>1, <1>3, <2>1, <2>2
        <3> QED
            BY <3>1 DEF Unspoken
    <2>3. CASE k # Key(i)
        <3>1. Unspoken(k)
            BY <1>3, <2>1, <2>3 DEF SessionInv, FreshInv, Alone
        <3>2. hist'[k] = << >> /\ stored'[k] = << >>
            BY <2>1, <2>3, <3>1 DEF Alone, Unspoken
        <3>3. ASSUME NEW j \in Ids, Key(j) = k PROVE writing'[j] = "none" /\ task'[j].phase # "answering"
            BY <2>3, <3>1, <3>3 DEF Alone, Unspoken
        <3> QED
            BY <1>1, <3>2, <3>3 DEF Unspoken
    <2> QED
        BY <2>2, <2>3
<1> QED
    BY <1>2, <1>3 DEF FreshInv

LEMMA SessionNext == ASSUME SessionInv, [HistNext]_allVars PROVE SessionInv'
<1>1. Next \/ UNCHANGED vars
    BY StepIsDispatch DEF allVars
<1>2. DispatchInv' /\ Origins /\ \A k \in Keys : Serial(k)' => Serial(k)
    BY <1>1, DispatchNext, SameOrigins DEF SessionInv
<1>3. CASE UNCHANGED allVars
    <2>1. /\ task' = task /\ hist' = hist /\ stored' = stored /\ fresh' = fresh /\ writing' = writing
          /\ Ids' = Ids
        BY <1>3 DEF allVars, vars, histVars, Ids
    <2>2. Shapes' /\ WritersWork'
        BY <2>1 DEF SessionInv, Shapes, WritersWork
    <2>3. \A k \in Keys : Unspoken(k)' <=> Unspoken(k)
        BY <2>1 DEF Unspoken, Key
    <2>4. fresh \subseteq Keys
        BY DEF SessionInv, Shapes
    <2>5. FreshInv'
        BY <1>2, <2>1, <2>3, <2>4 DEF SessionInv, FreshInv
    <2> QED
        BY <1>2, <2>2, <2>5 DEF SessionInv
<1>4. CASE HistNext
    <2>1. PICK i \in Ids : Beside(Loop(i) \/ Timer(i) \/ Around(i)) \/ FullBody(i)
        BY <1>4 DEF HistNext
    <2>2. /\ i \in 1..MaxMessages /\ Key(i) \in Keys /\ Types /\ Owners
          /\ DOMAIN writing = 1..MaxMessages /\ DOMAIN hist = Keys /\ DOMAIN stored = Keys /\ fresh \subseteq Keys
          /\ Ids' = Ids /\ \A j \in Ids : Key(j)' = Key(j) /\ j \in 1..MaxMessages
          /\ Ids \subseteq 1..MaxMessages
        BY <1>2, IdsFacts DEF SessionInv, DispatchInv, Shapes, Origins, Key
    <2>3. ASSUME NEW k \in Keys, k \in fresh, Serial(k) PROVE Unspoken(k)
        BY <2>3 DEF SessionInv, FreshInv
    <2>4. "leaving" \in Phases /\ "answering" \in Phases
        BY DEF Phases
    <2>5. CASE Beside(Loop(i) \/ Timer(i) \/ Around(i))
        <3>1. Apart /\ hist' = hist /\ stored' = stored /\ fresh' = fresh /\ writing' = writing
            BY <2>2, <2>5, BesideApart DEF Beside, histVars
        <3>2. WritersWork'
            BY <2>2, <3>1 DEF SessionInv, WritersWork, Apart
        <3>3. \A k \in Keys : Unspoken(k) => Unspoken(k)'
            BY <2>2, <3>1 DEF Unspoken, Apart
        <3>4. FreshInv'
            BY <1>2, <2>2, <2>3, <3>1, <3>3 DEF FreshInv
        <3>5. Shapes'
            BY <2>2, <3>1 DEF Shapes
        <3> QED
            BY <1>2, <3>2, <3>4, <3>5 DEF SessionInv
    <2>6. CASE Dropped(i) \/ Unanswered(i)
        <3>1. /\ Move(i, "leaving") /\ writing[i] = "none"
              /\ hist' = hist /\ stored' = stored /\ fresh' = fresh /\ writing' = writing
            BY <2>6 DEF Dropped, Unanswered, Skip, Answer, histVars
        <3>2. (\A j \in Ids : j # i => task'[j] = task[j]) /\ task'[i].phase = "leaving"
            BY <2>2, <2>4, <3>1, MoveFacts
        <3>3. Alone(i) /\ Shapes'
            BY <2>2, <3>1, <3>2 DEF Alone, Shapes
        <3>4. Unspoken(Key(i)) => Unspoken(Key(i))'
            BY <2>2, <3>1, <3>2 DEF Unspoken
        <3> QED
            BY <1>2, <2>2, <2>3, <3>1, <3>3, <3>4, AloneKeeps DEF SessionInv
    <2>7. CASE NewSession(i)
        <3>1. /\ Move(i, "leaving") /\ writing[i] = "none" /\ writing' = writing /\ task[i].phase = "opening"
              /\ hist' = [hist EXCEPT ![Key(i)] = << >>] /\ stored' = [stored EXCEPT ![Key(i)] = << >>]
              /\ fresh' = fresh \cup {Key(i)}
            BY <2>7 DEF NewSession, Skip, At, Forgotten
        <3>2. (\A j \in Ids : j # i => task'[j] = task[j]) /\ task'[i].phase = "leaving"
            BY <2>2, <2>4, <3>1, MoveFacts
        <3>3. Alone(i) /\ Shapes'
            BY <2>2, <3>1, <3>2 DEF Alone, Shapes
        <3>4. ASSUME Serial(Key(i)) PROVE Unspoken(Key(i))'
            <4>1. ASSUME NEW j \in Ids, Key(j) = Key(i), j # i
                  PROVE  writing[j] = "none" /\ task[j].phase # "answering"
                <5>1. task[j].phase \notin Working
                    BY <3>1, <3>4, <4>1, OneWorks DEF SessionInv, Working
                <5> QED
                    BY <5>1 DEF SessionInv, WritersWork, Working
            <4> QED
                BY <2>2, <3>1, <3>2, <4>1 DEF Unspoken
        <3> QED
            BY <1>2, <3>1, <3>3, <3>4, AloneKeeps DEF SessionInv
    <2>8. CASE SaveUserTurn(i)
        <3>1. /\ task' = task /\ task[i].phase = "opening" /\ fresh' = fresh \ {Key(i)}
              /\ hist' = IF Key(i) \in fresh THEN [hist EXCEPT ![Key(i)] = << >>] ELSE hist
              /\ writing' = [writing EXCEPT ![i] = "user"]
              /\ \E text : stored' = [stored EXCEPT ![Key(i)] = text]
            BY <2>8 DEF SaveUserTurn, Save, At, vars
        <3>2. Alone(i) /\ Shapes'
            BY <2>2, <3>1 DEF Alone, Shapes
        <3> QED
            BY <1>2, <3>1, <3>2, AloneKeeps DEF SessionInv, Working
    <2>9. CASE PushUserTurn(i) \/ PushAnswer(i)
        <3>1. PICK phase \in {"answering", "leaving"} :
                 /\ Move(i, phase) /\ writing[i] # "none" /\ writing' = [writing EXCEPT ![i] = "none"]
                 /\ \E out, text : hist' = [l \in Keys |-> IF l = Key(i) THEN text
                                                          ELSE IF l \in out THEN << >> ELSE hist[l]]
                 /\ stored' = stored /\ fresh' = fresh
            <4>1. PICK role \in {"user", "assistant"} : Push(i, role)
                BY <2>9 DEF PushUserTurn, PushAnswer
            <4>2. PICK out :
                     hist' = [l \in Keys |-> IF l = Key(i) THEN Newest(Append(hist[Key(i)], Turn(i, role)), MaxHistory)
                                             ELSE IF l \in out THEN << >> ELSE hist[l]]
                BY <4>1, Zenon DEF Push
            <4>3. \E phase \in {"answering", "leaving"} : Move(i, phase)
                BY <2>9 DEF PushUserTurn, PushAnswer, Open, Answer
            <4>4. /\ writing[i] # "none" /\ writing' = [writing EXCEPT ![i] = "none"]
                  /\ stored' = stored /\ fresh' = fresh
                BY <4>1 DEF Push
            <4> QED
                BY <4>2, <4>3, <4>4, Zenon
        <3>2. \A j \in Ids : j # i => task'[j] = task[j]
            BY <2>2, <2>4, <3>1, MoveFacts
        <3>3. Alone(i) /\ Shapes'
            BY <2>2, <3>1, <3>2 DEF Alone, Shapes
        <3>4. ~Unspoken(Key(i))
            BY <3>1 DEF Unspoken
        <3>5. writing'[i] = "none"
            BY <2>2, <3>1
        <3> QED
            BY <1>2, <2>2, <2>3, <3>1, <3>3, <3>4, <3>5, AloneKeeps DEF SessionInv
    <2>10. CASE SaveAnswer(i)
        <3>1. /\ task' = task /\ task[i].phase = "answering" /\ fresh' = fresh /\ hist' = hist
              /\ writing' = [writing EXCEPT ![i] = "assistant"]
              /\ \E text : stored' = [stored EXCEPT ![Key(i)] = text]
            BY <2>10 DEF SaveAnswer, Save, At, vars
        <3>2. Alone(i) /\ Shapes'
            BY <2>2, <3>1 DEF Alone, Shapes
        <3>3. ~Unspoken(Key(i))
            BY <3>1 DEF Unspoken
        <3> QED
            BY <1>2, <2>2, <2>3, <3>1, <3>2, <3>3, AloneKeeps DEF SessionInv, Working
    <2>11. CASE Overflow(i) \/ RollBack(i)
        <3>1. /\ Move(i, "leaving") /\ writing[i] = "none" /\ writing' = writing /\ task[i].phase = "answering"
              /\ fresh' = fresh
              /\ \E text : hist' = [hist EXCEPT ![Key(i)] = text]
              /\ stored' = stored \/ \E text : stored' = [stored EXCEPT ![Key(i)] = text]
            BY <2>11 DEF Overflow, RollBack, Answer, At, Shortened
        <3>2. \A j \in Ids : j # i => task'[j] = task[j]
            BY <2>2, <2>4, <3>1, MoveFacts
        <3>3. Alone(i) /\ Shapes'
            BY <2>2, <3>1, <3>2 DEF Alone, Shapes
        <3>4. ~Unspoken(Key(i))
            BY <3>1 DEF Unspoken
        <3> QED
            BY <1>2, <2>2, <2>3, <3>1, <3>3, <3>4, AloneKeeps DEF SessionInv
    <2> QED
        BY <2>1, <2>5, <2>6, <2>7, <2>8, <2>9, <2>10, <2>11 DEF FullBody
<1> QED
    BY <1>3, <1>4

LEMMA SessionInit == ASSUME HistInit PROVE SessionInv
<1>1. Init
    BY DEF HistInit
<1>2. DispatchInv
    BY <1>1, DispatchInit
<1>3. Ids \subseteq 1..MaxMessages
    <2>1. PICK script \in Scripts : task = [i \in DOMAIN script |-> NewTask(script[i])]
        BY <1>1 DEF Init
    <2>2. script \in Seq(Messages) /\ Len(script) <= MaxMessages /\ MaxMessages \in Nat
        BY ChannelAssumption
    <2>3. Ids = 1..Len(script)
        BY <2>1, <2>2 DEF Ids
    <2> QED
        BY <2>2, <2>3
<1>4. /\ writing = [i \in 1..MaxMessages |-> "none"]
      /\ hist = [k \in Keys |-> << >>] /\ stored = [k \in Keys |-> << >>]
      /\ fresh = {}
    BY DEF HistInit
<1>5. Shapes /\ WritersWork /\ FreshInv
    BY <1>3, <1>4 DEF Shapes, WritersWork, FreshInv
<1> QED
    BY <1>2, <1>5 DEF SessionInv

(* /new: on a channel that interrupts and where no /stop has split the turns, nothing   *)
(* of the old session is in memory, in the store, or on its way to them until the next  *)
(* turn of the sender.                                                                  *)
THEOREM NewSessionStaysEmpty == HistSpec => []NewSessionIsEmpty
<1>1. SessionInv => NewSessionIsEmpty
    BY DEF SessionInv, FreshInv, Unspoken, NewSessionIsEmpty
<1>2. HistSpec => []SessionInv
    BY SessionInit, SessionNext, PTL DEF HistSpec
<1> QED
    BY <1>1, <1>2, PTL

-----------------------------------------------------------------------------
(* The words of a conversation: what Words computes along a sequence of turns. *)

TurnRec == [role : {"user", "assistant"}, text : Seq(Int)]

WordsAlong(f, s) ==
    /\ f \in [0..Len(s) -> Seq(Int)]
    /\ f[0] = << >> /\ \A k \in 1..Len(s) : f[k] = f[k - 1] \o s[k].text
    /\ Words(s) = f[Len(s)]

LEMMA WordsRun == ASSUME NEW s, s \in Seq(TurnRec) PROVE \E f : WordsAlong(f, s)
<1> DEFINE step == [p \in Seq(Int) \X TurnRec |-> p[1] \o p[2].text]
           upTo[n \in 0..Len(s)] == IF n = 0 THEN << >> ELSE upTo[n - 1] \o s[n].text
<1>1. Len(s) \in Nat /\ DOMAIN s = 1..Len(s) /\ \A k \in 1..Len(s) : s[k] \in TurnRec
    OBVIOUS
<1>2. PICK f : IsRun(f, Seq(Int), << >>, step, s)
    <2>1. << >> \in Seq(Int) /\ IsStep(step, Seq(Int), TurnRec)
        BY DEF TurnRec, IsStep
    <2> HIDE DEF step
    <2> QED
        BY <2>1, RunExists
<1>3. ASSUME NEW k \in 1..Len(s) PROVE f[k] = f[k - 1] \o s[k].text
    <2>1. <<f[k - 1], s[k]>> \in Seq(Int) \X TurnRec
        BY <1>1, <1>2, k - 1 \in 0..Len(s) DEF IsRun
    <2> QED
        BY <1>2, <2>1 DEF IsRun
<1>4. f = [n \in 0..Len(s) |-> IF n = 0 THEN << >> ELSE f[n - 1] \o s[n].text]
    <2>1. ASSUME NEW n \in 0..Len(s) PROVE f[n] = IF n = 0 THEN << >> ELSE f[n - 1] \o s[n].text
        <3>1. CASE n = 0
            BY <1>2, <3>1 DEF IsRun
        <3>2. CASE n # 0
            BY <1>1, <1>3, <3>2, n \in 1..Len(s)
        <3> QED
            BY <3>1, <3>2
    <2> QED
        BY <1>2, <2>1, Zenon DEF IsRun
<1>5. upTo = [n \in 0..Len(s) |-> IF n = 0 THEN << >> ELSE upTo[n - 1] \o s[n].text]
    BY <1>4, Zenon
<1>6. Words(s) = upTo[Len(s)]
    BY Zenon DEF Words
<1> HIDE DEF upTo
<1>7. StepAlike(upTo, f, Len(s))
    <2>1. upTo[0] = << >> /\ f[0] = << >>
        BY <1>1, <1>2, <1>5 DEF IsRun
    <2>2. ASSUME NEW k \in 1..Len(s), upTo[k - 1] = f[k - 1] PROVE upTo[k] = f[k]
        <3>1. k \in 0..Len(s) /\ k # 0
            BY <1>1, <2>2
        <3>2. upTo[k] = upTo[k - 1] \o s[k].text
            BY <1>5, <3>1, Zenon
        <3> QED
            BY <1>3, <2>2, <3>2
    <2> QED
        BY <2>1, <2>2 DEF StepAlike
<1>8. Words(s) = f[Len(s)]
    <2>1. Agree(upTo, f, Len(s))
        BY <1>1, <1>7, RunsAgree
    <2> QED
        BY <1>1, <1>6, <2>1 DEF Agree
<1> QED
    BY <1>2, <1>3, <1>8, Zenon DEF IsRun, WordsAlong

LEMMA WordsOfNone == Words(<< >>) = << >>
<1>1. << >> \in Seq(TurnRec) /\ Len(<< >>) = 0
    OBVIOUS
<1>2. PICK f : WordsAlong(f, << >>)
    BY <1>1, WordsRun
<1> QED
    BY <1>1, <1>2 DEF WordsAlong

LEMMA WordsType == ASSUME NEW s, s \in Seq(TurnRec) PROVE Words(s) \in Seq(Int)
<1>1. PICK f : WordsAlong(f, s)
    BY WordsRun
<1> QED
    BY <1>1, Len(s) \in 0..Len(s) DEF WordsAlong

LEMMA WordsOfAppend ==
    ASSUME NEW s, s \in Seq(TurnRec), NEW t, t \in TurnRec
    PROVE  Words(Append(s, t)) = Words(s) \o t.text
<1> DEFINE longer == Append(s, t)
<1>1. /\ longer \in Seq(TurnRec) /\ Len(longer) = Len(s) + 1 /\ Len(s) \in Nat
      /\ \A k \in 1..Len(s) : longer[k] = s[k]
      /\ longer[Len(s) + 1] = t
    BY AppendProperties
<1> HIDE DEF longer
<1>2. PICK f : WordsAlong(f, s)
    BY WordsRun
<1>3. PICK g : WordsAlong(g, longer)
    BY <1>1, WordsRun
<1>4. StepAlike(f, g, Len(s))
    <2>1. ASSUME NEW k \in 1..Len(s), f[k - 1] = g[k - 1] PROVE f[k] = g[k]
        <3>1. k \in 1..Len(longer) /\ longer[k] = s[k]
            BY <1>1
        <3> QED
            BY <1>2, <1>3, <2>1, <3>1, Zenon DEF WordsAlong
    <2> QED
        BY <1>2, <1>3, <2>1, Zenon DEF StepAlike, WordsAlong
<1>5. g[Len(s) + 1] = g[Len(s)] \o t.text
    <2>1. Len(s) + 1 \in 1..Len(longer) /\ (Len(s) + 1) - 1 = Len(s)
        BY <1>1
    <2>2. g[Len(s) + 1] = g[(Len(s) + 1) - 1] \o longer[Len(s) + 1].text
        BY <1>3, <2>1, Zenon DEF WordsAlong
    <2> QED
        BY <1>1, <2>1, <2>2
<1>6. f[Len(s)] = g[Len(s)]
    <2>1. Agree(f, g, Len(s))
        BY <1>1, <1>4, RunsAgree
    <2> QED
        BY <1>1, <2>1 DEF Agree
<1>7. Words(longer) = g[Len(s) + 1] /\ Words(s) = f[Len(s)]
    BY <1>1, <1>2, <1>3, Zenon DEF WordsAlong
<1> QED
    BY <1>5, <1>6, <1>7 DEF longer

Associate(a, b, c) == (a \o b) \o c = a \o (b \o c)

LEMMA JoinsAssociate ==
    ASSUME NEW a, a \in Seq(Int), NEW b, b \in Seq(Int), NEW c, c \in Seq(Int)
    PROVE  Associate(a, b, c)
BY ConcatAssociative DEF Associate

LEMMA WordsOfTwo ==
    ASSUME NEW s, s \in Seq(TurnRec), NEW t, t \in Seq(TurnRec)
    PROVE  Words(s \o t) = Words(s) \o Words(t)
<1> DEFINE Good == {u \in Seq(TurnRec) : Words(s \o u) = Words(s) \o Words(u)}
<1>1. << >> \in Good
    <2>1. Words(s) \o << >> = Words(s)
        BY WordsType, ConcatEmptySeq
    <2>2. s \o << >> = s /\ << >> \in Seq(TurnRec)
        BY ConcatEmptySeq
    <2> QED
        BY <2>1, <2>2, WordsOfNone, Zenon
<1>2. ASSUME NEW u, u \in Seq(TurnRec), NEW e, e \in TurnRec, u \in Good PROVE Append(u, e) \in Good
    <2>1. /\ s \o u \in Seq(TurnRec) /\ Append(u, e) \in Seq(TurnRec)
          /\ s \o Append(u, e) = Append(s \o u, e)
        BY <1>2, ConcatProperties, AppendProperties
    <2>2. Words(s) \in Seq(Int) /\ Words(u) \in Seq(Int) /\ e.text \in Seq(Int)
        BY <1>2, WordsType DEF TurnRec
    <2>3. /\ Words(Append(u, e)) = Words(u) \o e.text
          /\ Words(Append(s \o u, e)) = Words(s \o u) \o e.text
        BY <1>2, <2>1, WordsOfAppend, Zenon
    <2>4. (Words(s) \o Words(u)) \o e.text = Words(s) \o (Words(u) \o e.text)
        <3>1. Associate(Words(s), Words(u), e.text)
            BY <2>2, JoinsAssociate
        <3> QED
            BY <3>1, Zenon DEF Associate
    <2> QED
        BY <1>2, <2>1, <2>3, <2>4, Zenon
<1>3. Seq(TurnRec) \subseteq Good
    <2> HIDE DEF Good
    <2> QED
        BY <1>1, <1>2, AllSequences
<1> QED
    BY <1>3

-----------------------------------------------------------------------------
(* One text ends with another. *)

TailOf(a, b) ==
    /\ a \in Seq(Int) /\ b \in Seq(Int) /\ Len(a) <= Len(b)
    /\ \A n \in 1..Len(a) : a[n] = b[Len(b) - Len(a) + n]

LEMMA TailOfItself == ASSUME NEW a, a \in Seq(Int) PROVE TailOf(a, a) /\ TailOf(<< >>, a)
<1>1. Len(a) \in Nat /\ << >> \in Seq(Int) /\ Len(<< >>) = 0
    OBVIOUS
<1>2. \A n \in 1..Len(a) : Len(a) - Len(a) + n = n
    BY <1>1
<1> QED
    BY <1>1, <1>2 DEF TailOf

LEMMA TailOfJoin == ASSUME NEW w, w \in Seq(Int), NEW a, a \in Seq(Int) PROVE TailOf(a, w \o a)
<1> DEFINE b == w \o a
<1>1. /\ b \in Seq(Int) /\ Len(b) = Len(w) + Len(a) /\ Len(w) \in Nat /\ Len(a) \in Nat
      /\ \A n \in 1..(Len(w) + Len(a)) : b[n] = IF n <= Len(w) THEN w[n] ELSE a[n - Len(w)]
    BY ConcatProperties
<1> HIDE DEF b
<1>2. ASSUME NEW n \in 1..Len(a) PROVE a[n] = b[Len(b) - Len(a) + n]
    <2>1. Len(b) - Len(a) + n = Len(w) + n /\ Len(w) + n \in 1..(Len(w) + Len(a)) /\ ~ (Len(w) + n <= Len(w))
          /\ (Len(w) + n) - Len(w) = n
        BY <1>1
    <2> QED
        BY <1>1, <2>1
<1>3. TailOf(a, b)
    BY <1>1, <1>2 DEF TailOf
<1> QED
    BY <1>3 DEF b

LEMMA TailsJoin == ASSUME NEW a, NEW b, TailOf(a, b), NEW c, c \in Seq(Int) PROVE TailOf(a \o c, b \o c)
<1> DEFINE x == a \o c
           y == b \o c
<1>1. a \in Seq(Int) /\ b \in Seq(Int) /\ Len(a) \in Nat /\ Len(b) \in Nat /\ Len(c) \in Nat /\ Len(a) <= Len(b)
    BY DEF TailOf
<1>2. /\ x \in Seq(Int) /\ Len(x) = Len(a) + Len(c)
      /\ \A n \in 1..(Len(a) + Len(c)) : x[n] = IF n <= Len(a) THEN a[n] ELSE c[n - Len(a)]
      /\ y \in Seq(Int) /\ Len(y) = Len(b) + Len(c)
      /\ \A n \in 1..(Len(b) + Len(c)) : y[n] = IF n <= Len(b) THEN b[n] ELSE c[n - Len(b)]
    BY <1>1, ConcatProperties
<1> HIDE DEF x, y
<1>3. ASSUME NEW n \in 1..Len(x) PROVE x[n] = y[Len(y) - Len(x) + n]
    <2> DEFINE m == Len(y) - Len(x) + n
    <2>1. m = Len(b) - Len(a) + n /\ m \in 1..(Len(b) + Len(c))
        BY <1>1, <1>2
    <2> HIDE DEF m
    <2>2. CASE n <= Len(a)
        <3>1. n \in 1..Len(a) /\ m <= Len(b)
            BY <1>1, <1>2, <2>1, <2>2
        <3>2. a[n] = b[m]
            BY <2>1, <3>1 DEF TailOf
        <3> QED
            BY <1>2, <2>1, <2>2, <3>1, <3>2 DEF m
    <2>3. CASE ~ (n <= Len(a))
        <3>1. ~ (m <= Len(b)) /\ m - Len(b) = n - Len(a) /\ n \in 1..(Len(a) + Len(c))
            BY <1>1, <1>2, <2>1, <2>3
        <3> QED
            BY <1>2, <2>1, <2>3, <3>1 DEF m
    <2> QED
        BY <2>2, <2>3
<1>4. TailOf(x, y)
    BY <1>1, <1>2, <1>3 DEF TailOf
<1> QED
    BY <1>4 DEF x, y

LEMMA TailsCut ==
    ASSUME NEW a, a \in Seq(Int), NEW b, b \in Seq(Int), NEW c, c \in Seq(Int), TailOf(a \o c, b \o c)
    PROVE  TailOf(a, b)
<1> DEFINE x == a \o c
           y == b \o c
<1>1. Len(a) \in Nat /\ Len(b) \in Nat /\ Len(c) \in Nat
    OBVIOUS
<1>2. /\ Len(x) = Len(a) + Len(c)
      /\ \A n \in 1..(Len(a) + Len(c)) : x[n] = IF n <= Len(a) THEN a[n] ELSE c[n - Len(a)]
      /\ Len(y) = Len(b) + Len(c)
      /\ \A n \in 1..(Len(b) + Len(c)) : y[n] = IF n <= Len(b) THEN b[n] ELSE c[n - Len(b)]
    BY <1>1, ConcatProperties
<1>3. TailOf(x, y)
    OBVIOUS
<1> HIDE DEF x, y
<1>4. Len(a) <= Len(b)
    BY <1>1, <1>2, <1>3 DEF TailOf
<1>5. ASSUME NEW n \in 1..Len(a) PROVE a[n] = b[Len(b) - Len(a) + n]
    <2> DEFINE m == Len(b) - Len(a) + n
    <2>1. m = Len(y) - Len(x) + n /\ n \in 1..Len(x) /\ n <= Len(a) /\ m <= Len(b)
          /\ m \in 1..(Len(b) + Len(c)) /\ n \in 1..(Len(a) + Len(c))
        BY <1>1, <1>2, <1>4
    <2> HIDE DEF m
    <2>2. x[n] = y[m]
        BY <1>3, <2>1 DEF TailOf
    <2> QED
        BY <1>2, <2>1, <2>2 DEF m
<1> QED
    BY <1>4, <1>5 DEF TailOf

LEMMA TailOfTail == ASSUME NEW a, NEW b, NEW c, TailOf(a, b), TailOf(b, c) PROVE TailOf(a, c)
<1>1. /\ a \in Seq(Int) /\ b \in Seq(Int) /\ c \in Seq(Int)
      /\ Len(a) \in Nat /\ Len(b) \in Nat /\ Len(c) \in Nat /\ Len(a) <= Len(b) /\ Len(b) <= Len(c)
    BY DEF TailOf
<1>2. ASSUME NEW n \in 1..Len(a) PROVE a[n] = c[Len(c) - Len(a) + n]
    <2> DEFINE m == Len(b) - Len(a) + n
    <2>1. m \in 1..Len(b) /\ Len(c) - Len(b) + m = Len(c) - Len(a) + n
        BY <1>1
    <2>2. a[n] = b[m]
        BY DEF TailOf
    <2> HIDE DEF m
    <2>3. b[m] = c[Len(c) - Len(b) + m]
        BY <2>1 DEF TailOf
    <2> QED
        BY <2>1, <2>2, <2>3
<1> QED
    BY <1>1, <1>2 DEF TailOf

LEMMA TailIsEnd == ASSUME NEW a, NEW b, TailOf(a, b) PROVE EndsWith(b, a)
<1>1. a \in Seq(Int) /\ b \in Seq(Int) /\ Len(a) \in Nat /\ Len(b) \in Nat /\ Len(a) <= Len(b)
    BY DEF TailOf
<1>2. CASE Len(b) <= Len(a)
    <2>1. Len(a) = Len(b) /\ \A n \in 1..Len(a) : a[n] = b[n]
        <3>1. Len(a) = Len(b) /\ \A n \in 1..Len(a) : Len(b) - Len(a) + n = n
            BY <1>1, <1>2
        <3> QED
            BY <3>1 DEF TailOf
    <2>2. a = b
        BY <1>1, <2>1, SeqEqual
    <2> QED
        BY <1>1, <1>2, <2>2 DEF EndsWith, Newest
<1>3. CASE ~ (Len(b) <= Len(a))
    <2> DEFINE first == Len(b) - Len(a) + 1
               end == SubSeq(b, first, Len(b))
    <2>1. first \in 1..(Len(b) + 1) /\ Len(b) - first + 1 = Len(a) /\ first <= Len(b) + 1
        BY <1>1, <1>3
    <2>2. /\ end \in Seq(Int) /\ Len(end) = Len(a)
          /\ \A n \in 1..Len(a) : end[n] = b[first + n - 1]
        <3>1. \A n \in first..Len(b) : b[n] \in Int
            BY <1>1, <2>1
        <3>2. first \in Int /\ Len(b) \in Int /\ (first <= Len(b) => Len(b) - first + 1 = Len(a))
              /\ (~ (first <= Len(b)) => Len(a) = 0)
            BY <1>1, <2>1
        <3> HIDE DEF first
        <3> QED
            BY <2>1, <3>1, <3>2, SubSeqProperties
    <2>3. \A n \in 1..Len(a) : a[n] = end[n]
        <3>1. ASSUME NEW n \in 1..Len(a) PROVE a[n] = end[n]
            <4>1. first + n - 1 = Len(b) - Len(a) + n
                BY <1>1
            <4> HIDE DEF end, first
            <4> QED
                BY <2>2, <4>1 DEF TailOf
        <3> QED
            BY <3>1
    <2>4. a = end
        <3> HIDE DEF end
        <3> QED
            BY <1>1, <2>2, <2>3, SeqEqual
    <2> QED
        BY <1>1, <1>3, <2>4 DEF EndsWith, Newest
<1> QED
    BY <1>2, <1>3

LEMMA TailsCompare == ASSUME NEW a, NEW b, NEW c, TailOf(a, c), TailOf(b, c) PROVE EndsWith(a, b) \/ EndsWith(b, a)
<1>1. ASSUME NEW x, NEW y, TailOf(x, c), TailOf(y, c), Len(y) <= Len(x) PROVE TailOf(y, x)
    <2>1. /\ x \in Seq(Int) /\ y \in Seq(Int) /\ Len(x) \in Nat /\ Len(y) \in Nat /\ Len(c) \in Nat
          /\ Len(x) <= Len(c)
        BY <1>1 DEF TailOf
    <2>2. ASSUME NEW n \in 1..Len(y) PROVE y[n] = x[Len(x) - Len(y) + n]
        <3> DEFINE m == Len(x) - Len(y) + n
        <3>1. m \in 1..Len(x) /\ Len(c) - Len(x) + m = Len(c) - Len(y) + n
            BY <1>1, <2>1
        <3> HIDE DEF m
        <3>2. x[m] = c[Len(c) - Len(x) + m] /\ y[n] = c[Len(c) - Len(y) + n]
            BY <1>1, <2>2, <3>1 DEF TailOf
        <3> QED
            BY <3>1, <3>2 DEF m
    <2> QED
        BY <1>1, <2>1, <2>2 DEF TailOf
<1>2. Len(a) \in Nat /\ Len(b) \in Nat
    BY DEF TailOf
<1>3. CASE Len(b) <= Len(a)
    BY <1>1, <1>3, TailIsEnd
<1>4. CASE Len(a) <= Len(b)
    BY <1>1, <1>4, TailIsEnd
<1> QED
    BY <1>2, <1>3, <1>4

-----------------------------------------------------------------------------
(* What is kept of a conversation: its newest turns, normalized. *)

LEMMA LastTurn ==
    ASSUME NEW s, s \in Seq(TurnRec), s # << >>
    PROVE  /\ ButLast(s) \in Seq(TurnRec) /\ LastOf(s) \in TurnRec
           /\ s = Append(ButLast(s), LastOf(s)) /\ Len(ButLast(s)) = Len(s) - 1 /\ Len(s) \in Nat \ {0}
<1>1. Len(s) \in Nat \ {0} /\ \A n \in 1..Len(s) : s[n] \in TurnRec
    BY EmptySeq
<1> DEFINE front == SubSeq(s, 1, Len(s) - 1)
<1>2. front \in Seq(TurnRec) /\ Len(front) = Len(s) - 1 /\ \A n \in 1..(Len(s) - 1) : front[n] = s[n]
    <2>1. PICK l : l = Len(s)
        OBVIOUS
    <2>2. /\ l \in Nat /\ l # 0 /\ 1 \in Int /\ l - 1 \in Int /\ (l - 1) - 1 + 1 = l - 1
          /\ ~ (1 <= l - 1) => l - 1 = 0
        BY <1>1, <2>1
    <2>3. (\A n \in 1..(l - 1) : s[n] \in TurnRec) /\ \A n \in 1..(l - 1) : 1 + n - 1 = n
        BY <1>1, <2>1
    <2>4. front = SubSeq(s, 1, l - 1)
        BY <2>1
    <2>5. /\ front \in Seq(TurnRec) /\ Len(front) = IF 1 <= l - 1 THEN (l - 1) - 1 + 1 ELSE 0
          /\ \A n \in 1..((l - 1) - 1 + 1) : front[n] = s[1 + n - 1]
        BY <2>2, <2>3, <2>4, SubSeqProperties
    <2> QED
        BY <2>1, <2>2, <2>3, <2>5
<1> HIDE DEF front
<1>3. s[Len(s)] \in TurnRec
    BY <1>1
<1>4. s = Append(front, s[Len(s)])
    <2> DEFINE whole == Append(front, s[Len(s)])
    <2>1. /\ whole \in Seq(TurnRec) /\ Len(whole) = Len(s)
          /\ \A n \in 1..Len(front) : whole[n] = front[n]
          /\ whole[Len(front) + 1] = s[Len(s)]
        BY <1>1, <1>2, <1>3, AppendProperties
    <2> HIDE DEF whole
    <2>2. ASSUME NEW n \in 1..Len(s) PROVE s[n] = whole[n]
        <3>1. CASE n = Len(s)
            BY <1>1, <1>2, <2>1, <3>1
        <3>2. CASE n \in 1..(Len(s) - 1)
            BY <1>1, <1>2, <2>1, <3>2
        <3> QED
            BY <1>1, <3>1, <3>2
    <2>3. s = whole
        BY <1>1, <2>1, <2>2, SeqEqual
    <2> QED
        BY <2>3 DEF whole
<1> QED
    BY <1>1, <1>2, <1>3, <1>4 DEF front, ButLast, LastOf

LEMMA NewestTurns ==
    ASSUME NEW s, s \in Seq(TurnRec), NEW n, n \in Nat \ {0}
    PROVE  /\ Newest(s, n) \in Seq(TurnRec)
           /\ Len(Newest(s, n)) = IF Len(s) <= n THEN Len(s) ELSE n
           /\ TailOf(Words(Newest(s, n)), Words(s))
           /\ s # << >> => Newest(s, n) # << >> /\ LastOf(Newest(s, n)) = LastOf(s)
<1>1. Len(s) \in Nat /\ \A k \in 1..Len(s) : s[k] \in TurnRec
    OBVIOUS
<1>2. Words(s) \in Seq(Int)
    BY WordsType
<1>3. CASE Len(s) <= n
    <2>1. Newest(s, n) = s
        BY <1>3 DEF Newest
    <2> QED
        BY <1>1, <1>2, <1>3, <2>1, TailOfItself
<1>4. CASE ~ (Len(s) <= n)
    <2> DEFINE cut == Len(s) - n
               kept == SubSeq(s, cut + 1, Len(s))
               old == SubSeq(s, 1, cut)
    <2>1. cut \in 1..Len(s) /\ Len(s) - (cut + 1) + 1 = n /\ cut + 1 \in 1..Len(s) /\ cut < Len(s)
          /\ cut + 1 = Len(s) - n + 1
        BY <1>1, <1>4
    <2>2. /\ kept \in Seq(TurnRec) /\ Len(kept) = n
          /\ \A k \in 1..n : kept[k] = s[cut + 1 + k - 1]
        <3>1. \A k \in (cut + 1)..Len(s) : s[k] \in TurnRec
            BY <1>1, <2>1
        <3>2. cut + 1 \in Int /\ Len(s) \in Int /\ cut + 1 <= Len(s)
            BY <1>1, <2>1
        <3> HIDE DEF cut
        <3> QED
            BY <2>1, <3>1, <3>2, SubSeqProperties
    <2>3. kept # << >> /\ LastOf(kept) = LastOf(s)
        <3>1. kept # << >>
            BY <2>2
        <3>2. kept[n] = s[Len(s)]
            <4>1. n \in 1..n /\ cut + 1 + n - 1 = Len(s)
                BY <1>1
            <4> HIDE DEF kept, cut
            <4> QED
                BY <2>2, <4>1
        <3> QED
            BY <2>2, <3>1, <3>2 DEF LastOf
    <2>4. old \in Seq(TurnRec)
        <3>1. \A k \in 1..cut : s[k] \in TurnRec
            BY <1>1, <2>1
        <3>2. 1 \in Int /\ cut \in Int
            BY <1>1, <2>1
        <3> HIDE DEF cut
        <3> QED
            BY <3>1, <3>2, SubSeqProperties
    <2>5. s = old \o kept
        <3>1. old \o kept = SubSeq(s, 1, Len(s))
            <4>1. 1 \in 1..(Len(s) + 1) /\ cut \in (1 - 1)..Len(s) /\ Len(s) \in cut..Len(s)
                BY <1>1, <2>1
            <4> HIDE DEF cut
            <4> QED
                BY <4>1, ConcatAdjacentSubSeq
        <3> QED
            BY <3>1, SubSeqFull
    <2>6. Newest(s, n) = kept
        BY <1>4, <2>1, Zenon DEF Newest
    <2> HIDE DEF old, kept, cut
    <2>7. TailOf(Words(kept), Words(s))
        <3>1. Words(s) = Words(old) \o Words(kept)
            BY <2>2, <2>4, <2>5, WordsOfTwo
        <3>2. Words(old) \in Seq(Int) /\ Words(kept) \in Seq(Int)
            BY <2>2, <2>4, WordsType
        <3>3. TailOf(Words(kept), Words(old) \o Words(kept))
            BY <3>2, TailOfJoin
        <3> QED
            BY <3>1, <3>3, Zenon
    <2> QED
        BY <1>4, <2>2, <2>3, <2>6, <2>7
<1> QED
    BY <1>3, <1>4

\* One step of normalize_cached_channel_turns.
Fits(acc, t) == t.role = (IF acc = << >> \/ LastOf(acc).role = "assistant" THEN "user" ELSE "assistant")
Add(acc, t) ==
    IF Fits(acc, t) THEN Append(acc, t)
    ELSE IF acc = << >> THEN acc
    ELSE [acc EXCEPT ![Len(acc)].text = @ \o t.text]

\* A turn joined to the last one.
LEMMA Merged ==
    ASSUME NEW acc, acc \in Seq(TurnRec), acc # << >>, NEW t, t \in TurnRec
    PROVE  LET new == [acc EXCEPT ![Len(acc)].text = @ \o t.text]
           IN  /\ new \in Seq(TurnRec) /\ Len(new) = Len(acc) /\ new # << >>
               /\ Words(new) = Words(acc) \o t.text
<1> DEFINE last == [LastOf(acc) EXCEPT !.text = @ \o t.text]
           new == [acc EXCEPT ![Len(acc)].text = @ \o t.text]
           front == ButLast(acc)
<1>1. /\ front \in Seq(TurnRec) /\ LastOf(acc) \in TurnRec
      /\ acc = Append(front, LastOf(acc)) /\ Len(front) = Len(acc) - 1 /\ Len(acc) \in Nat \ {0}
    BY LastTurn
<1>2. last \in TurnRec /\ last.text = LastOf(acc).text \o t.text
    <2>1. LastOf(acc).text \o t.text \in Seq(Int)
        BY <1>1, ConcatProperties DEF TurnRec
    <2> QED
        BY <1>1, <2>1 DEF TurnRec
<1>3. new = [acc EXCEPT ![Len(acc)] = last]
    BY <1>1 DEF LastOf
<1> HIDE DEF last, new, front
<1>4. new \in Seq(TurnRec) /\ Len(new) = Len(acc) /\ \A j \in 1..Len(acc) : new[j] = IF j = Len(acc) THEN last ELSE acc[j]
    BY <1>1, <1>2, <1>3, ExceptSeq, Len(acc) \in 1..Len(acc)
<1>5. new = Append(front, last)
    <2> DEFINE whole == Append(front, last)
    <2>1. /\ whole \in Seq(TurnRec) /\ Len(whole) = Len(acc)
          /\ \A j \in 1..Len(front) : whole[j] = front[j]
          /\ whole[Len(front) + 1] = last
        BY <1>1, <1>2, AppendProperties
    <2> HIDE DEF whole
    <2>2. \A j \in 1..Len(front) : acc[j] = front[j]
        BY <1>1, AppendProperties
    <2>3. ASSUME NEW j \in 1..Len(acc) PROVE new[j] = whole[j]
        <3>1. CASE j = Len(acc)
            BY <1>1, <1>4, <2>1, <3>1
        <3>2. CASE j # Len(acc)
            <4>1. j \in 1..Len(front)
                BY <1>1, <3>2
            <4> QED
                BY <1>4, <2>1, <2>2, <3>2, <4>1
        <3> QED
            BY <3>1, <3>2
    <2>4. new = whole
        BY <1>1, <1>4, <2>1, <2>3, SeqEqual
    <2> QED
        BY <2>4 DEF whole
<1>6. Words(new) = Words(front) \o last.text /\ Words(acc) = Words(front) \o LastOf(acc).text
    BY <1>1, <1>2, <1>5, WordsOfAppend, Zenon
<1>7. Associate(Words(front), LastOf(acc).text, t.text)
    BY <1>1, WordsType, JoinsAssociate DEF TurnRec
<1>8. Words(new) = Words(acc) \o t.text
    BY <1>2, <1>6, <1>7, Zenon DEF Associate
<1>9. new # << >>
    BY <1>1, <1>4
<1> QED
    BY <1>4, <1>8, <1>9 DEF new

LEMMA AddFacts ==
    ASSUME NEW acc, acc \in Seq(TurnRec), NEW t, t \in TurnRec
    PROVE  /\ Add(acc, t) \in Seq(TurnRec) /\ Len(Add(acc, t)) <= Len(acc) + 1
           /\ TailOf(Words(Add(acc, t)), Words(acc) \o t.text)
           /\ acc # << >> \/ t.role = "user" => Add(acc, t) # << >>
<1>1. Words(acc) \in Seq(Int) /\ t.text \in Seq(Int) /\ Words(acc) \o t.text \in Seq(Int) /\ Len(acc) \in Nat
    <2>1. Words(acc) \in Seq(Int) /\ t.text \in Seq(Int)
        BY WordsType DEF TurnRec
    <2> QED
        BY <2>1, ConcatProperties
<1>2. CASE Fits(acc, t)
    <2>1. Append(acc, t) \in Seq(TurnRec) /\ Append(acc, t) # << >> /\ Len(Append(acc, t)) = Len(acc) + 1
        BY AppendProperties
    <2>2. Words(Append(acc, t)) = Words(acc) \o t.text
        BY WordsOfAppend
    <2>3. Add(acc, t) = Append(acc, t)
        BY <1>2 DEF Add
    <2>4. TailOf(Words(Append(acc, t)), Words(acc) \o t.text)
        BY <1>1, <2>2, TailOfItself, Zenon
    <2>5. Len(Add(acc, t)) <= Len(acc) + 1
        BY <1>1, <2>1, <2>3
    <2> QED
        BY <2>1, <2>3, <2>4, <2>5, Zenon
<1>3. CASE ~Fits(acc, t) /\ acc = << >>
    <2>1. Add(acc, t) = << >>
        BY <1>3 DEF Add
    <2>2. t.role # "user"
        BY <1>3 DEF Fits
    <2>3. TailOf(<< >>, Words(acc) \o t.text)
        BY <1>1, TailOfItself, Zenon
    <2>4. Len(<< >>) = 0
        OBVIOUS
    <2>5. Len(Add(acc, t)) <= Len(acc) + 1
        BY <1>1, <2>1, <2>4
    <2> QED
        BY <1>3, <2>1, <2>2, <2>3, <2>5, WordsOfNone, Zenon
<1>4. CASE ~Fits(acc, t) /\ acc # << >>
    <2> DEFINE new == [acc EXCEPT ![Len(acc)].text = @ \o t.text]
    <2>1. /\ new \in Seq(TurnRec) /\ Len(new) = Len(acc) /\ new # << >>
          /\ Words(new) = Words(acc) \o t.text
        BY <1>4, Merged
    <2>2. Add(acc, t) = new
        BY <1>4, Zenon DEF Add
    <2> HIDE DEF new
    <2>3. TailOf(Words(new), Words(acc) \o t.text)
        BY <1>1, <2>1, TailOfItself, Zenon
    <2>4. Len(Add(acc, t)) <= Len(acc) + 1
        BY <1>1, <2>1, <2>2
    <2> QED
        BY <2>1, <2>2, <2>3, <2>4, Zenon
<1> QED
    BY <1>2, <1>3, <1>4

NormalizedAlong(f, s) ==
    /\ f \in [0..Len(s) -> Seq(TurnRec)]
    /\ f[0] = << >> /\ \A k \in 1..Len(s) : f[k] = Add(f[k - 1], s[k])
    /\ Normalized(s) = f[Len(s)]

LEMMA NormalizedRun == ASSUME NEW s, s \in Seq(TurnRec) PROVE \E f : NormalizedAlong(f, s)
<1> DEFINE V == Seq(TurnRec)
           step == [p \in V \X TurnRec |-> Add(p[1], p[2])]
           upTo[n \in 0..Len(s)] == IF n = 0 THEN << >> ELSE Add(upTo[n - 1], s[n])
<1>1. Len(s) \in Nat /\ DOMAIN s = 1..Len(s) /\ \A k \in 1..Len(s) : s[k] \in TurnRec
    OBVIOUS
<1>2. PICK f : IsRun(f, V, << >>, step, s)
    <2>1. << >> \in V
        OBVIOUS
    <2>2. IsStep(step, V, TurnRec)
        <3>1. ASSUME NEW p \in V \X TurnRec PROVE Add(p[1], p[2]) \in V
            <4>1. p[1] \in V /\ p[2] \in TurnRec
                OBVIOUS
            <4> QED
                BY <4>1, AddFacts
        <3> QED
            BY <3>1 DEF IsStep
    <2> HIDE DEF step, V
    <2>3. s \in Seq(TurnRec)
        OBVIOUS
    <2> QED
        BY <2>1, <2>2, <2>3, RunExists
<1>3. ASSUME NEW k \in 1..Len(s) PROVE f[k] = Add(f[k - 1], s[k])
    <2>1. <<f[k - 1], s[k]>> \in V \X TurnRec
        BY <1>1, <1>2, k - 1 \in 0..Len(s) DEF IsRun
    <2>2. step[<<f[k - 1], s[k]>>] = Add(f[k - 1], s[k])
        BY <2>1
    <2> QED
        BY <1>2, <2>2, Zenon DEF IsRun
<1>4. f = [n \in 0..Len(s) |-> IF n = 0 THEN << >> ELSE Add(f[n - 1], s[n])]
    <2>1. ASSUME NEW n \in 0..Len(s) PROVE f[n] = IF n = 0 THEN << >> ELSE Add(f[n - 1], s[n])
        <3>1. CASE n = 0
            BY <1>2, <3>1 DEF IsRun
        <3>2. CASE n # 0
            BY <1>1, <1>3, <3>2, n \in 1..Len(s)
        <3> QED
            BY <3>1, <3>2
    <2> QED
        BY <1>2, <2>1, Zenon DEF IsRun
<1>5. upTo = [n \in 0..Len(s) |-> IF n = 0 THEN << >> ELSE Add(upTo[n - 1], s[n])]
    BY <1>4, Zenon
<1>6. Normalized(s) = upTo[Len(s)]
    BY Zenon DEF Normalized, Add, Fits
<1> HIDE DEF upTo, step, V
<1>7. StepAlike(upTo, f, Len(s))
    <2>1. upTo[0] = << >> /\ f[0] = << >>
        BY <1>1, <1>2, <1>5 DEF IsRun
    <2>2. ASSUME NEW k \in 1..Len(s), upTo[k - 1] = f[k - 1] PROVE upTo[k] = f[k]
        <3>1. k \in 0..Len(s) /\ k # 0
            BY <1>1, <2>2
        <3>2. upTo[k] = Add(upTo[k - 1], s[k])
            BY <1>5, <3>1, Zenon
        <3> QED
            BY <1>3, <2>2, <3>2
    <2> QED
        BY <2>1, <2>2 DEF StepAlike
<1>8. Normalized(s) = f[Len(s)]
    <2>1. Agree(upTo, f, Len(s))
        BY <1>1, <1>7, RunsAgree
    <2> QED
        BY <1>1, <1>6, <2>1 DEF Agree
<1> QED
    BY <1>2, <1>3, <1>8, Zenon DEF IsRun, NormalizedAlong, V

LEMMA NormalizedOfNone == Normalized(<< >>) = << >>
<1>1. << >> \in Seq(TurnRec) /\ Len(<< >>) = 0
    OBVIOUS
<1>2. PICK f : NormalizedAlong(f, << >>)
    BY <1>1, NormalizedRun
<1> QED
    BY <1>1, <1>2 DEF NormalizedAlong

LEMMA NormalizedOfAppend ==
    ASSUME NEW s, s \in Seq(TurnRec), NEW t, t \in TurnRec
    PROVE  Normalized(s) \in Seq(TurnRec) /\ Normalized(Append(s, t)) = Add(Normalized(s), t)
<1> DEFINE longer == Append(s, t)
<1>1. /\ longer \in Seq(TurnRec) /\ Len(longer) = Len(s) + 1 /\ Len(s) \in Nat
      /\ \A k \in 1..Len(s) : longer[k] = s[k]
      /\ longer[Len(s) + 1] = t
    BY AppendProperties
<1> HIDE DEF longer
<1>2. PICK f : NormalizedAlong(f, s)
    BY NormalizedRun
<1>3. PICK g : NormalizedAlong(g, longer)
    BY <1>1, NormalizedRun
<1>4. StepAlike(f, g, Len(s))
    <2>1. ASSUME NEW k \in 1..Len(s), f[k - 1] = g[k - 1] PROVE f[k] = g[k]
        <3>1. k \in 1..Len(longer) /\ longer[k] = s[k]
            BY <1>1
        <3> QED
            BY <1>2, <1>3, <2>1, <3>1, Zenon DEF NormalizedAlong
    <2> QED
        BY <1>2, <1>3, <2>1, Zenon DEF StepAlike, NormalizedAlong
<1>5. g[Len(s) + 1] = Add(g[Len(s)], t)
    <2>1. Len(s) + 1 \in 1..Len(longer) /\ (Len(s) + 1) - 1 = Len(s)
        BY <1>1
    <2>2. g[Len(s) + 1] = Add(g[(Len(s) + 1) - 1], longer[Len(s) + 1])
        BY <1>3, <2>1, Zenon DEF NormalizedAlong
    <2> QED
        BY <1>1, <2>1, <2>2
<1>6. f[Len(s)] = g[Len(s)]
    <2>1. Agree(f, g, Len(s))
        BY <1>1, <1>4, RunsAgree
    <2> QED
        BY <1>1, <2>1 DEF Agree
<1>7. Normalized(longer) = g[Len(s) + 1] /\ Normalized(s) = f[Len(s)]
    BY <1>1, <1>2, <1>3, Zenon DEF NormalizedAlong
<1>8. f[Len(s)] \in Seq(TurnRec)
    BY <1>1, <1>2, Len(s) \in 0..Len(s) DEF NormalizedAlong
<1> QED
    BY <1>5, <1>6, <1>7, <1>8 DEF longer

\* Normalizing takes words from the front at most.
LEMMA NormalizedTail ==
    ASSUME NEW s, s \in Seq(TurnRec)
    PROVE  Normalized(s) \in Seq(TurnRec) /\ TailOf(Words(Normalized(s)), Words(s))
<1> DEFINE Good == {u \in Seq(TurnRec) : Normalized(u) \in Seq(TurnRec) /\ TailOf(Words(Normalized(u)), Words(u))}
<1>1. << >> \in Good
    <2>1. << >> \in Seq(TurnRec) /\ << >> \in Seq(Int)
        OBVIOUS
    <2>2. TailOf(<< >>, << >>)
        BY <2>1, TailOfItself
    <2> QED
        BY <2>1, <2>2, NormalizedOfNone, WordsOfNone, Zenon
<1>2. ASSUME NEW u, u \in Seq(TurnRec), NEW e, e \in TurnRec, u \in Good PROVE Append(u, e) \in Good
    <2>1. Append(u, e) \in Seq(TurnRec)
        BY <1>2, AppendProperties
    <2>2. Normalized(u) \in Seq(TurnRec) /\ Normalized(Append(u, e)) = Add(Normalized(u), e)
        BY <1>2, NormalizedOfAppend
    <2>3. /\ Add(Normalized(u), e) \in Seq(TurnRec)
          /\ TailOf(Words(Add(Normalized(u), e)), Words(Normalized(u)) \o e.text)
        BY <1>2, <2>2, AddFacts
    <2>4. TailOf(Words(Normalized(u)) \o e.text, Words(u) \o e.text)
        <3>1. e.text \in Seq(Int)
            BY <1>2 DEF TurnRec
        <3>2. TailOf(Words(Normalized(u)), Words(u))
            BY <1>2
        <3> QED
            BY <3>1, <3>2, TailsJoin
    <2>5. TailOf(Words(Add(Normalized(u), e)), Words(u) \o e.text)
        BY <2>3, <2>4, TailOfTail
    <2>6. Words(Append(u, e)) = Words(u) \o e.text
        BY <1>2, WordsOfAppend
    <2>7. TailOf(Words(Normalized(Append(u, e))), Words(Append(u, e)))
        BY <2>2, <2>5, <2>6, Zenon
    <2>8. Normalized(Append(u, e)) \in Seq(TurnRec)
        BY <2>2, <2>3, Zenon
    <2> QED
        BY <2>1, <2>7, <2>8, Zenon
<1>3. Seq(TurnRec) \subseteq Good
    <2> HIDE DEF Good
    <2> QED
        BY <1>1, <1>2, AllSequences
<1> QED
    BY <1>3

LEMMA NormalizedStays ==
    ASSUME NEW s, s \in Seq(TurnRec), s # << >>, LastOf(s).role = "user"
    PROVE  Normalized(s) # << >>
<1>1. /\ ButLast(s) \in Seq(TurnRec) /\ LastOf(s) \in TurnRec
      /\ s = Append(ButLast(s), LastOf(s))
    BY LastTurn
<1>2. /\ Normalized(ButLast(s)) \in Seq(TurnRec)
      /\ Normalized(Append(ButLast(s), LastOf(s))) = Add(Normalized(ButLast(s)), LastOf(s))
    BY <1>1, NormalizedOfAppend
<1>3. Add(Normalized(ButLast(s)), LastOf(s)) # << >>
    BY <1>1, <1>2, AddFacts
<1> QED
    BY <1>1, <1>2, <1>3, Zenon

-----------------------------------------------------------------------------
(* Memory and store. *)

\* What memory holds of conversation k, h, is the end of what is stored, s; the senders
\* in lost have been pushed out of memory.
Agrees(h, s, k, lost) ==
    /\ TailOf(Words(h), Words(s))
    /\ h = << >> /\ k \notin lost /\ MaxHistory > 1 => s = << >>

\* The turn t is stored and not yet pushed.
Half(h, s, t, k, lost) == \E before \in Seq(TurnRec) : s = Append(before, t) /\ Agrees(h, before, k, lost)

\* The turn t is the newest of both.
Asked(h, s, t, k, lost) ==
    /\ s # << >> /\ LastOf(s) = t
    /\ h = << >> => k \in lost
    /\ h # << >> => LastOf(h) = t
    /\ Len(h) = 1 /\ k \notin lost /\ MaxHistory > 1 => Len(s) = 1

\* A conversation pushed out of memory, or left as it is.
Lessened(h, new, k, lost, after) ==
    /\ k \in lost => k \in after
    /\ new = h \/ (new = << >> /\ k \in after)

LEMMA StaysTrue ==
    ASSUME NEW h, NEW new, NEW k, NEW lost, NEW after, Lessened(h, new, k, lost, after), NEW s, NEW t
    PROVE  /\ Agrees(h, s, k, lost) => Agrees(new, s, k, after)
           /\ Half(h, s, t, k, lost) => Half(new, s, t, k, after)
           /\ Asked(h, s, t, k, lost) => Asked(new, s, t, k, after)
<1>1. ASSUME NEW u, Agrees(h, u, k, lost) PROVE Agrees(new, u, k, after)
    <2>1. TailOf(Words(h), Words(u))
        BY <1>1 DEF Agrees
    <2>2. Words(u) \in Seq(Int)
        BY <2>1 DEF TailOf
    <2>3. TailOf(<< >>, Words(u))
        BY <2>2, TailOfItself
    <2>4. CASE new = h
        BY <1>1, <2>4 DEF Agrees, Lessened
    <2>5. CASE new = << >> /\ k \in after
        <3>1. TailOf(Words(new), Words(u))
            BY <2>3, <2>5, WordsOfNone, Zenon
        <3> QED
            BY <2>5, <3>1 DEF Agrees
    <2> QED
        BY <2>4, <2>5 DEF Lessened
<1>2. Half(h, s, t, k, lost) => Half(new, s, t, k, after)
    BY <1>1 DEF Half
<1>3. ASSUME Asked(h, s, t, k, lost) PROVE Asked(new, s, t, k, after)
    <2>1. CASE new = h
        BY <1>3, <2>1 DEF Asked, Lessened
    <2>2. CASE new = << >> /\ k \in after
        BY <1>3, <2>2 DEF Asked
    <2> QED
        BY <2>1, <2>2 DEF Lessened
<1> QED
    BY <1>1, <1>2, <1>3

LEMMA TurnTyped ==
    ASSUME Types, NEW i \in Ids, NEW role \in {"user", "assistant"}
    PROVE  Turn(i, role) \in TurnRec /\ Turn(i, role).role = role
<1>1. i \in Nat /\ task[i].parts \in Seq(Nat)
    BY IdsFacts DEF TaskRec
<1>2. task[i].parts \in Seq(Int)
    <2>1. PICK p : p = task[i].parts
        OBVIOUS
    <2>2. p \in Seq(Nat)
        BY <1>1, <2>1
    <2>3. Len(p) \in Nat /\ p = [n \in 1..Len(p) |-> p[n]] /\ \A n \in 1..Len(p) : p[n] \in Int
        BY <2>2
    <2>4. p \in Seq(Int)
        BY <2>3, IsASeq
    <2> QED
        BY <2>1, <2>4
<1>3. <<-i>> \in Seq(Int)
    BY <1>1
<1> QED
    BY <1>2, <1>3 DEF Turn, TurnRec

LEMMA Pushed ==
    ASSUME NEW h, h \in Seq(TurnRec), NEW s, NEW t, t \in TurnRec,
           NEW k, NEW lost, Half(h, s, t, k, lost)
    PROVE  LET new == Newest(Append(h, t), MaxHistory)
           IN  /\ new \in Seq(TurnRec) /\ s \in Seq(TurnRec)
               /\ Agrees(new, s, k, lost) /\ Asked(new, s, t, k, lost)
<1> DEFINE longer == Append(h, t)
           new == Newest(longer, MaxHistory)
<1>1. PICK before \in Seq(TurnRec) : s = Append(before, t) /\ Agrees(h, before, k, lost)
    BY DEF Half
<1>2. /\ longer \in Seq(TurnRec) /\ longer # << >> /\ Len(longer) = Len(h) + 1 /\ longer[Len(h) + 1] = t
      /\ Words(longer) = Words(h) \o t.text
    BY AppendProperties, WordsOfAppend
<1>3. /\ s \in Seq(TurnRec) /\ s # << >> /\ Len(s) = Len(before) + 1 /\ s[Len(before) + 1] = t
      /\ Words(s) = Words(before) \o t.text
    BY <1>1, AppendProperties, WordsOfAppend
<1>4. t.text \in Seq(Int) /\ Len(h) \in Nat /\ Len(before) \in Nat
    BY DEF TurnRec
<1>5. MaxHistory \in Nat \ {0}
    BY HistoryAssumption
<1>6. LastOf(longer) = t /\ LastOf(s) = t
    BY <1>2, <1>3, Zenon DEF LastOf
<1> HIDE DEF longer
<1>7. /\ new \in Seq(TurnRec) /\ Len(new) = (IF Len(longer) <= MaxHistory THEN Len(longer) ELSE MaxHistory)
      /\ TailOf(Words(new), Words(longer)) /\ new # << >> /\ LastOf(new) = t
    <2>1. longer \in Seq(TurnRec) /\ longer # << >>
        BY <1>2
    <2> QED
        BY <1>5, <1>6, <2>1, NewestTurns
<1> HIDE DEF new
<1>8. Agrees(new, s, k, lost)
    <2>1. TailOf(Words(h), Words(before))
        BY <1>1 DEF Agrees
    <2>2. TailOf(Words(h) \o t.text, Words(before) \o t.text)
        BY <1>4, <2>1, TailsJoin
    <2>3. TailOf(Words(longer), Words(s))
        BY <1>2, <1>3, <2>2, Zenon
    <2>4. TailOf(Words(new), Words(s))
        BY <1>7, <2>3, TailOfTail
    <2> QED
        BY <1>7, <2>4 DEF Agrees
<1>9. ASSUME Len(new) = 1, k \notin lost, MaxHistory > 1 PROVE Len(s) = 1
    <2>1. Len(h) = 0
        <3>1. PICK l : l = Len(h)
            OBVIOUS
        <3>2. PICK m : m = Len(new)
            OBVIOUS
        <3>3. l \in Nat /\ m = (IF l + 1 <= MaxHistory THEN l + 1 ELSE MaxHistory) /\ m = 1
            BY <1>2, <1>4, <1>7, <1>9, <3>1, <3>2, Zenon
        <3> QED
            BY <1>5, <1>9, <3>1, <3>3
    <2>2. h = << >>
        BY <2>1, EmptySeq
    <2>3. before = << >>
        BY <1>1, <1>9, <2>2 DEF Agrees
    <2> QED
        BY <1>3, <2>3
<1>10. Asked(new, s, t, k, lost)
    BY <1>3, <1>6, <1>7, <1>9 DEF Asked
<1> QED
    BY <1>3, <1>7, <1>8, <1>10 DEF new, longer

LEMMA Compacted ==
    ASSUME NEW h, h \in Seq(TurnRec), NEW s, NEW t, t.role = "user",
           NEW k, NEW lost, Agrees(h, s, k, lost), Asked(h, s, t, k, lost)
    PROVE  LET new == Normalized(Newest(h, CompactKeep))
           IN  new \in Seq(TurnRec) /\ Agrees(new, s, k, lost)
<1> DEFINE kept == Newest(h, CompactKeep)
           new == Normalized(kept)
<1>1. CompactKeep \in Nat \ {0}
    BY HistoryAssumption
<1>2. CASE h = << >>
    <2>1. Len(<< >>) = 0
        OBVIOUS
    <2>2. kept = << >>
        BY <1>1, <1>2, <2>1 DEF Newest
    <2>3. new = h
        BY <1>2, <2>2, NormalizedOfNone, Zenon
    <2> QED
        BY <2>3
<1>3. CASE h # << >>
    <2>1. LastOf(h) = t
        BY <1>3 DEF Asked
    <2>2. kept \in Seq(TurnRec) /\ TailOf(Words(kept), Words(h)) /\ kept # << >> /\ LastOf(kept) = t
        BY <1>1, <1>3, <2>1, NewestTurns
    <2> HIDE DEF kept
    <2>3. new \in Seq(TurnRec) /\ TailOf(Words(new), Words(kept))
        BY <2>2, NormalizedTail
    <2>4. new # << >>
        BY <2>2, NormalizedStays
    <2> HIDE DEF new
    <2>5. TailOf(Words(h), Words(s))
        BY DEF Agrees
    <2>6. TailOf(Words(new), Words(s))
        <3>1. TailOf(Words(new), Words(h))
            BY <2>2, <2>3, TailOfTail
        <3> QED
            BY <2>5, <3>1, TailOfTail
    <2>7. Agrees(new, s, k, lost)
        BY <2>4, <2>6 DEF Agrees
    <2> QED
        BY <2>3, <2>7 DEF new, kept
<1> QED
    BY <1>2, <1>3

LEMMA RolledBack ==
    ASSUME NEW h, h \in Seq(TurnRec), h # << >>, NEW s, s \in Seq(TurnRec), NEW t,
           NEW k, NEW lost, Agrees(h, s, k, lost), Asked(h, s, t, k, lost)
    PROVE  ButLast(h) \in Seq(TurnRec) /\ ButLast(s) \in Seq(TurnRec) /\ Agrees(ButLast(h), ButLast(s), k, lost)
<1>1. h # << >> /\ s # << >> /\ LastOf(h) = t /\ LastOf(s) = t
    BY DEF Asked
<1>2. /\ ButLast(h) \in Seq(TurnRec) /\ t \in TurnRec
      /\ h = Append(ButLast(h), t) /\ Len(ButLast(h)) = Len(h) - 1 /\ Len(h) \in Nat \ {0}
    <2>1. h \in Seq(TurnRec) /\ h # << >>
        BY <1>1
    <2>2. /\ ButLast(h) \in Seq(TurnRec) /\ LastOf(h) \in TurnRec
          /\ h = Append(ButLast(h), LastOf(h)) /\ Len(ButLast(h)) = Len(h) - 1 /\ Len(h) \in Nat \ {0}
        BY <2>1, LastTurn
    <2> QED
        BY <1>1, <2>2, Zenon
<1>3. /\ ButLast(s) \in Seq(TurnRec)
      /\ s = Append(ButLast(s), t) /\ Len(ButLast(s)) = Len(s) - 1 /\ Len(s) \in Nat \ {0}
    <2>1. s \in Seq(TurnRec) /\ s # << >>
        BY <1>1
    <2>2. /\ ButLast(s) \in Seq(TurnRec) /\ LastOf(s) \in TurnRec
          /\ s = Append(ButLast(s), LastOf(s)) /\ Len(ButLast(s)) = Len(s) - 1 /\ Len(s) \in Nat \ {0}
        BY <2>1, LastTurn
    <2> QED
        BY <1>1, <2>2, Zenon
<1>4. TailOf(Words(ButLast(h)), Words(ButLast(s)))
    <2>1. Words(h) = Words(ButLast(h)) \o t.text /\ Words(s) = Words(ButLast(s)) \o t.text
        <3>1. /\ Words(Append(ButLast(h), t)) = Words(ButLast(h)) \o t.text
              /\ Words(Append(ButLast(s), t)) = Words(ButLast(s)) \o t.text
            BY <1>2, <1>3, WordsOfAppend
        <3> QED
            BY <1>2, <1>3, <3>1, Zenon
    <2>2. TailOf(Words(ButLast(h)) \o t.text, Words(ButLast(s)) \o t.text)
        BY <2>1, Zenon DEF Agrees
    <2>3. t.text \in Seq(Int)
        BY <1>2 DEF TurnRec
    <2>4. Words(ButLast(h)) \in Seq(Int) /\ Words(ButLast(s)) \in Seq(Int)
        BY <1>2, <1>3, WordsType
    <2> QED
        BY <2>2, <2>3, <2>4, TailsCut
<1>5. ASSUME ButLast(h) = << >>, k \notin lost, MaxHistory > 1 PROVE ButLast(s) = << >>
    <2>1. Len(<< >>) = 0
        OBVIOUS
    <2>2. Len(h) = 1
        BY <1>2, <1>5, <2>1
    <2>3. Len(s) = 1
        BY <1>5, <2>2 DEF Asked
    <2>4. Len(ButLast(s)) = 0
        BY <1>3, <2>3
    <2> QED
        BY <1>3, <2>4, EmptySeq
<1> QED
    BY <1>2, <1>3, <1>4, <1>5 DEF Agrees

Turns == \A k \in Keys : hist[k] \in Seq(TurnRec) /\ stored[k] \in Seq(TurnRec)

Roles ==
    \A i \in Ids : /\ writing[i] \in {"none", "user", "assistant"}
                   /\ writing[i] = "user" => task[i].phase = "opening"
                   /\ writing[i] = "assistant" => task[i].phase = "answering"

Kept(k) ==
    /\ Idle(k) => Agrees(hist[k], stored[k], k, evicted)
    /\ \A i \in Ids : Key(i) = k =>
          /\ writing[i] # "none" => Half(hist[k], stored[k], Turn(i, writing[i]), k, evicted)
          /\ task[i].phase = "answering" /\ writing[i] = "none" => Asked(hist[k], stored[k], Turn(i, "user"), k, evicted)

MemoryInv == SessionInv /\ Roles /\ Turns /\ \A k \in Keys : Serial(k) => Kept(k)

\* What a step leaves alone, or pushes out of memory, stays kept.
LEMMA KeptElsewhere ==
    ASSUME WritersWork, Origins, NEW k, Kept(k),
           Lessened(hist[k], hist'[k], k, evicted, evicted'), stored'[k] = stored[k],
           \A j \in Ids : Key(j) = k =>
              /\ writing'[j] = writing[j]
              /\ task'[j].phase = "answering" => task[j].phase = "answering"
              /\ task[j].phase \in Working => task'[j].parts = task[j].parts
    PROVE  Kept(k)'
<1>1. Ids' = Ids /\ \A j \in Ids : Key(j)' = Key(j)
    BY DEF Origins, Key
<1>2. Idle(k)' => Idle(k)
    BY <1>1 DEF Idle
<1>3. \A t : /\ Agrees(hist[k], stored[k], k, evicted) => Agrees(hist'[k], stored'[k], k, evicted')
             /\ Half(hist[k], stored[k], t, k, evicted) => Half(hist'[k], stored'[k], t, k, evicted')
             /\ Asked(hist[k], stored[k], t, k, evicted) => Asked(hist'[k], stored'[k], t, k, evicted')
    <2>1. ASSUME NEW t
          PROVE  /\ Agrees(hist[k], stored[k], k, evicted) => Agrees(hist'[k], stored[k], k, evicted')
                 /\ Half(hist[k], stored[k], t, k, evicted) => Half(hist'[k], stored[k], t, k, evicted')
                 /\ Asked(hist[k], stored[k], t, k, evicted) => Asked(hist'[k], stored[k], t, k, evicted')
        BY StaysTrue
    <2> QED
        BY <2>1, Zenon
<1>4. ASSUME NEW j \in Ids, Key(j) = k
      PROVE  /\ writing'[j] # "none" => Half(hist'[k], stored'[k], Turn(j, writing[j])', k, evicted')
             /\ task'[j].phase = "answering" /\ writing'[j] = "none"
                   => Asked(hist'[k], stored'[k], Turn(j, "user")', k, evicted')
    <2>1. writing'[j] = writing[j]
        BY <1>4
    <2>2. CASE writing'[j] # "none"
        <3>1. task[j].phase \in Working
            BY <2>1, <2>2 DEF WritersWork
        <3>2. Turn(j, writing[j])' = Turn(j, writing[j])
            <4>1. task'[j].parts = task[j].parts
                BY <1>4, <3>1
            <4> QED
                BY <2>1, <4>1 DEF Turn
        <3>3. Half(hist[k], stored[k], Turn(j, writing[j]), k, evicted)
            BY <1>4, <2>1, <2>2 DEF Kept
        <3> QED
            BY <1>3, <2>2, <3>2, <3>3, Zenon
    <2>3. CASE task'[j].phase = "answering" /\ writing'[j] = "none"
        <3>1. task[j].phase = "answering" /\ task[j].phase \in Working
            BY <1>4, <2>3 DEF Working
        <3>2. Turn(j, "user")' = Turn(j, "user")
            <4>1. task'[j].parts = task[j].parts
                BY <1>4, <3>1
            <4> QED
                BY <4>1 DEF Turn
        <3>3. Asked(hist[k], stored[k], Turn(j, "user"), k, evicted)
            BY <1>4, <2>1, <2>3, <3>1 DEF Kept
        <3> QED
            BY <1>3, <2>3, <3>2, <3>3, Zenon
    <2> QED
        BY <2>2, <2>3
<1>5. Idle(k)' => Agrees(hist'[k], stored'[k], k, evicted')
    <2>1. Idle(k)' => Agrees(hist[k], stored[k], k, evicted)
        BY <1>2 DEF Kept
    <2> QED
        BY <1>3, <2>1, Zenon
<1>6. ASSUME NEW j \in Ids', Key(j)' = k
      PROVE  /\ writing'[j] # "none" => Half(hist'[k], stored'[k], Turn(j, writing[j])', k, evicted')
             /\ task'[j].phase = "answering" /\ writing'[j] = "none"
                   => Asked(hist'[k], stored'[k], Turn(j, "user")', k, evicted')
    <2>1. j \in Ids /\ Key(j) = k
        BY <1>1, <1>6
    <2> QED
        BY <1>4, <2>1, Zenon
<1> QED
    BY <1>5, <1>6, Zenon DEF Kept

\* While one is at work, the others of its conversation have nothing to write.
LEMMA OthersRest ==
    ASSUME SessionInv, NEW i \in Ids, task[i].phase \in Working, Serial(Key(i))
    PROVE  \A j \in Ids : Key(j) = Key(i) /\ j # i => writing[j] = "none" /\ task[j].phase # "answering"
<1> SUFFICES ASSUME NEW j \in Ids, Key(j) = Key(i), j # i PROVE writing[j] = "none" /\ task[j].phase # "answering"
    OBVIOUS
<1>1. task[j].phase \notin Working
    BY OneWorks DEF SessionInv
<1> QED
    BY <1>1 DEF SessionInv, WritersWork, Working

\* A step of worker i on its conversation.
LEMMA KeptHere ==
    ASSUME SessionInv, Origins, NEW i \in Ids, task[i].phase \in Working, NEW k, k = Key(i), Serial(k),
           \A j \in Ids : j # i => task'[j].phase = task[j].phase /\ writing'[j] = writing[j],
           writing'[i] = "none" => Agrees(hist'[k], stored'[k], k, evicted'),
           writing'[i] # "none" => Half(hist'[k], stored'[k], Turn(i, writing[i])', k, evicted'),
           task'[i].phase = "answering" /\ writing'[i] = "none" => Asked(hist'[k], stored'[k], Turn(i, "user")', k, evicted')
    PROVE  Kept(k)'
<1>1. Ids' = Ids /\ \A j \in Ids : Key(j)' = Key(j)
    BY DEF Origins, Key
<1>2. \A j \in Ids : Key(j) = k /\ j # i => writing'[j] = "none" /\ task'[j].phase # "answering"
    BY OthersRest
<1>3. Idle(k)' => Agrees(hist'[k], stored'[k], k, evicted')
    BY <1>1 DEF Idle
<1>4. ASSUME NEW j \in Ids', Key(j)' = k
      PROVE  /\ writing'[j] # "none" => Half(hist'[k], stored'[k], Turn(j, writing[j])', k, evicted')
             /\ task'[j].phase = "answering" /\ writing'[j] = "none" => Asked(hist'[k], stored'[k], Turn(j, "user")', k, evicted')
    <2>1. CASE j = i
        BY <2>1, Zenon
    <2>2. CASE j # i
        BY <1>1, <1>2, <1>4, <2>2
    <2> QED
        BY <2>1, <2>2
<1> QED
    BY <1>3, <1>4, Zenon DEF Kept

\* A step of worker i on its conversation, that may push others out of memory.
LEMMA StepKeeps ==
    ASSUME MemoryInv, SessionInv', Origins, \A k \in Keys : Serial(k)' => Serial(k),
           NEW i \in Ids, task[i].phase \in Working,
           \A j \in Ids : j # i => task'[j] = task[j] /\ writing'[j] = writing[j],
           \A k \in Keys : k # Key(i) => Lessened(hist[k], hist'[k], k, evicted, evicted') /\ stored'[k] = stored[k],
           /\ writing'[i] \in {"none", "user", "assistant"}
           /\ writing'[i] = "user" => task'[i].phase = "opening"
           /\ writing'[i] = "assistant" => task'[i].phase = "answering",
           hist'[Key(i)] \in Seq(TurnRec) /\ stored'[Key(i)] \in Seq(TurnRec),
           Serial(Key(i)) => Kept(Key(i))'
    PROVE  MemoryInv'
<1>1. /\ Ids' = Ids /\ \A j \in Ids : Key(j)' = Key(j)
      /\ Key(i) \in Keys
    BY IdsFacts DEF Origins, Key, MemoryInv, SessionInv, DispatchInv
<1>2. Roles'
    BY <1>1 DEF MemoryInv, Roles
<1>3. Turns'
    <2>1. ASSUME NEW k \in Keys, k # Key(i) PROVE hist'[k] \in Seq(TurnRec) /\ stored'[k] \in Seq(TurnRec)
        <3>1. << >> \in Seq(TurnRec)
            OBVIOUS
        <3>2. hist[k] \in Seq(TurnRec) /\ stored[k] \in Seq(TurnRec)
            BY DEF MemoryInv, Turns
        <3>3. hist'[k] = hist[k] \/ hist'[k] = << >>
            BY <2>1 DEF Lessened
        <3> QED
            BY <2>1, <3>1, <3>2, <3>3
    <2>2. ASSUME NEW k \in Keys PROVE hist'[k] \in Seq(TurnRec) /\ stored'[k] \in Seq(TurnRec)
        BY <2>1
    <2> QED
        BY <2>2 DEF Turns
<1>4. ASSUME NEW k \in Keys, Serial(k)' PROVE Kept(k)'
    <2>1. Serial(k)
        BY <1>4
    <2>2. CASE k = Key(i)
        <3>1. Kept(Key(i))'
            BY <2>1, <2>2
        <3>2. Key(i)' = k
            BY <1>1, <2>2
        <3> QED
            BY <3>1, <3>2, Zenon DEF Kept, Idle
    <2>3. CASE k # Key(i)
        <3>1. Kept(k) /\ WritersWork
            BY <2>1 DEF MemoryInv, SessionInv
        <3>2. Lessened(hist[k], hist'[k], k, evicted, evicted') /\ stored'[k] = stored[k]
            BY <2>3
        <3>3. \A j \in Ids : Key(j) = k =>
                 /\ writing'[j] = writing[j]
                 /\ task'[j].phase = "answering" => task[j].phase = "answering"
                 /\ task[j].phase \in Working => task'[j].parts = task[j].parts
            BY <2>3
        <3> QED
            BY <3>1, <3>2, <3>3, KeptElsewhere
    <2> QED
        BY <2>2, <2>3
<1> QED
    BY <1>2, <1>3, <1>4 DEF MemoryInv

LEMMA MemoryNext == ASSUME MemoryInv, [HistNext]_allVars PROVE MemoryInv'
<1>1. Next \/ UNCHANGED vars
    BY StepIsDispatch DEF allVars
<1>2. /\ SessionInv' /\ SessionInv
      /\ Origins /\ \A k \in Keys : Serial(k)' => Serial(k)
    BY <1>1, SessionNext, SameOrigins DEF MemoryInv, SessionInv
<1>3. /\ Types /\ Owners /\ WritersWork /\ Ids' = Ids
      /\ \A j \in Ids : Key(j)' = Key(j) /\ j \in 1..MaxMessages /\ Key(j) \in Keys
      /\ DOMAIN writing = 1..MaxMessages /\ DOMAIN hist = Keys /\ DOMAIN stored = Keys
    BY <1>2, IdsFacts DEF SessionInv, DispatchInv, Shapes, Origins, Key
<1>4. ASSUME hist' = hist, evicted' = evicted, stored' = stored, writing' = writing,
             \A j \in Ids : /\ task[j].phase \in Working => task'[j].parts = task[j].parts
                            /\ writing[j] # "none" => task'[j].phase = task[j].phase
                            /\ task'[j].phase = "answering" => task[j].phase = "answering"
      PROVE  MemoryInv'
    <2>1. Turns'
        BY <1>4 DEF MemoryInv, Turns
    <2>2. Roles'
        <3>1. ASSUME NEW j \in Ids
              PROVE  /\ writing'[j] \in {"none", "user", "assistant"}
                     /\ writing'[j] = "user" => task'[j].phase = "opening"
                     /\ writing'[j] = "assistant" => task'[j].phase = "answering"
            <4>1. /\ writing[j] \in {"none", "user", "assistant"}
                  /\ writing[j] = "user" => task[j].phase = "opening"
                  /\ writing[j] = "assistant" => task[j].phase = "answering"
                BY DEF MemoryInv, Roles
            <4> QED
                BY <1>4, <4>1
        <3> QED
            BY <1>3, <3>1, Zenon DEF Roles
    <2>3. ASSUME NEW k \in Keys, Serial(k)' PROVE Kept(k)'
        <3>1. Kept(k)
            BY <1>2, <2>3 DEF MemoryInv
        <3>2. \A j \in Ids : Key(j) = k =>
                 /\ writing'[j] = writing[j]
                 /\ task'[j].phase = "answering" => task[j].phase = "answering"
                 /\ task[j].phase \in Working => task'[j].parts = task[j].parts
            BY <1>4
        <3>3. Lessened(hist[k], hist'[k], k, evicted, evicted') /\ stored'[k] = stored[k]
            BY <1>4 DEF Lessened
        <3> QED
            BY <1>2, <1>3, <3>1, <3>2, <3>3, KeptElsewhere
    <2> QED
        BY <1>2, <2>1, <2>2, <2>3 DEF MemoryInv
<1>5. CASE UNCHANGED allVars
    <2>1. hist' = hist /\ evicted' = evicted /\ stored' = stored /\ writing' = writing /\ task' = task
        BY <1>5 DEF allVars, vars, histVars
    <2> QED
        BY <1>4, <2>1
<1>6. CASE HistNext
    <2>1. PICK i \in Ids : Beside(Loop(i) \/ Timer(i) \/ Around(i)) \/ FullBody(i)
        BY <1>6 DEF HistNext
    <2>2. Key(i) \in Keys /\ i \in DOMAIN writing
        BY <1>3
    <2>3. hist[Key(i)] \in Seq(TurnRec) /\ stored[Key(i)] \in Seq(TurnRec)
        BY <2>2 DEF MemoryInv, Turns
    <2>4. "leaving" \in Phases /\ "answering" \in Phases
        BY DEF Phases
    <2>5. Turn(i, "user") \in TurnRec /\ Turn(i, "assistant") \in TurnRec /\ Turn(i, "user").role = "user"
        BY <1>3, TurnTyped
    <2>6. ASSUME Serial(Key(i)), task[i].phase \in Working
          PROVE  /\ Kept(Key(i)) /\ (writing[i] = "none" => Agrees(hist[Key(i)], stored[Key(i)], Key(i), evicted))
                 /\ writing[i] # "none" => Half(hist[Key(i)], stored[Key(i)], Turn(i, writing[i]), Key(i), evicted)
                 /\ task[i].phase = "answering" /\ writing[i] = "none"
                       => Asked(hist[Key(i)], stored[Key(i)], Turn(i, "user"), Key(i), evicted)
        <3>1. Kept(Key(i))
            BY <2>2, <2>6 DEF MemoryInv
        <3>2. \A j \in Ids : Key(j) = Key(i) /\ j # i => writing[j] = "none"
            BY <1>2, <2>6, OthersRest
        <3> QED
            BY <3>1, <3>2 DEF Kept, Idle
    <2>7. CASE Beside(Loop(i) \/ Timer(i) \/ Around(i))
        <3>1. Apart /\ hist' = hist /\ evicted' = evicted /\ stored' = stored /\ writing' = writing
            BY <1>3, <2>7, BesideApart DEF Beside, histVars
        <3>2. \A j \in Ids : writing[j] # "none" => task[j].phase \in Working
            BY <1>3 DEF WritersWork
        <3> QED
            BY <1>4, <3>1, <3>2 DEF Apart
    <2>8. CASE Dropped(i) \/ Unanswered(i)
        <3>1. /\ Move(i, "leaving") /\ writing[i] = "none"
              /\ hist' = hist /\ evicted' = evicted /\ stored' = stored /\ writing' = writing
            BY <2>8 DEF Dropped, Unanswered, Skip, Answer, histVars
        <3>2. /\ \A j \in Ids : j # i => task'[j] = task[j]
              /\ \A j \in Ids : task'[j].parts = task[j].parts
              /\ task'[i].phase = "leaving"
            BY <1>3, <2>4, <3>1, MoveFacts
        <3> QED
            BY <1>4, <3>1, <3>2
    <2>9. CASE NewSession(i)
        <3>1. /\ Move(i, "leaving") /\ writing[i] = "none" /\ writing' = writing /\ task[i].phase = "opening"
              /\ hist' = [hist EXCEPT ![Key(i)] = << >>] /\ stored' = [stored EXCEPT ![Key(i)] = << >>]
              /\ evicted' = evicted \ {Key(i)}
            BY <2>9 DEF NewSession, Skip, At, Forgotten
        <3>2. (\A j \in Ids : j # i => task'[j] = task[j]) /\ task'[i].phase = "leaving"
            BY <1>3, <2>4, <3>1, MoveFacts
        <3>3. /\ hist'[Key(i)] = << >> /\ stored'[Key(i)] = << >> /\ task[i].phase \in Working
              /\ \A k \in Keys : k # Key(i) => Lessened(hist[k], hist'[k], k, evicted, evicted') /\ stored'[k] = stored[k]
            BY <1>3, <2>2, <3>1 DEF Working, Lessened
        <3>4. Agrees(<< >>, << >>, Key(i), evicted') /\ << >> \in Seq(TurnRec)
            <4>1. TailOf(<< >>, << >>)
                BY TailOfItself, << >> \in Seq(Int)
            <4>2. Agrees(<< >>, << >>, Key(i), evicted')
                BY <4>1, WordsOfNone, Zenon DEF Agrees
            <4> QED
                BY <4>2
        <3>5. Serial(Key(i)) => Kept(Key(i))'
            <4>1. SUFFICES ASSUME Serial(Key(i)) PROVE Kept(Key(i))'
                OBVIOUS
            <4>2. Agrees(hist'[Key(i)], stored'[Key(i)], Key(i), evicted')
                BY <3>3, <3>4, Zenon
            <4>3. PICK k : k = Key(i)
                OBVIOUS
            <4>4. Kept(k)'
                BY <1>2, <3>1, <3>2, <3>3, <4>1, <4>2, <4>3, KeptHere
            <4>5. k = Key(i)'
                BY <1>3, <4>3
            <4> QED
                BY <4>4, <4>5, Zenon DEF Kept, Idle
        <3>6. writing'[i] = "none"
            BY <3>1
        <3>7. hist'[Key(i)] \in Seq(TurnRec) /\ stored'[Key(i)] \in Seq(TurnRec)
            BY <3>3, <3>4, Zenon
        <3> QED
            BY <1>2, <3>1, <3>2, <3>3, <3>5, <3>6, <3>7, StepKeeps
    <2>10. CASE SaveUserTurn(i)
        <3>1. /\ task' = task /\ task[i].phase = "opening" /\ writing[i] = "none"
              /\ hist' = IF Key(i) \in fresh THEN [hist EXCEPT ![Key(i)] = << >>] ELSE hist
              /\ writing' = [writing EXCEPT ![i] = "user"]
              /\ stored' = [stored EXCEPT ![Key(i)] = Append(@, Turn(i, "user"))] /\ evicted' = evicted
            BY <2>10 DEF SaveUserTurn, Save, At, vars
        <3>2. /\ task[i].phase \in Working
              /\ stored'[Key(i)] = Append(stored[Key(i)], Turn(i, "user"))
              /\ hist'[Key(i)] = IF Key(i) \in fresh THEN << >> ELSE hist[Key(i)]
              /\ \A k \in Keys : k # Key(i) => Lessened(hist[k], hist'[k], k, evicted, evicted') /\ stored'[k] = stored[k]
              /\ writing'[i] = "user" /\ \A j \in Ids : j # i => writing'[j] = writing[j]
            BY <1>3, <2>2, <3>1 DEF Working, Lessened
        <3>3. hist'[Key(i)] \in Seq(TurnRec) /\ stored'[Key(i)] \in Seq(TurnRec)
            <4>1. << >> \in Seq(TurnRec) /\ Append(stored[Key(i)], Turn(i, "user")) \in Seq(TurnRec)
                BY <2>3, <2>5, AppendProperties
            <4> QED
                BY <2>3, <3>2, <4>1
        <3>4. Serial(Key(i)) => Kept(Key(i))'
            <4>1. SUFFICES ASSUME Serial(Key(i)) PROVE Kept(Key(i))'
                OBVIOUS
            <4>2. hist'[Key(i)] = hist[Key(i)]
                <5>1. Key(i) \in fresh => hist[Key(i)] = << >>
                    BY <1>2, <4>1 DEF SessionInv, FreshInv, Unspoken
                <5> QED
                    BY <3>2, <5>1
            <4>3. Agrees(hist[Key(i)], stored[Key(i)], Key(i), evicted)
                BY <2>6, <3>1, <3>2, <4>1
            <4>4. Half(hist'[Key(i)], stored'[Key(i)], Turn(i, "user"), Key(i), evicted)
                BY <2>3, <3>2, <4>2, <4>3 DEF Half
            <4>5. Turn(i, writing[i])' = Turn(i, "user")
                BY <3>1, <3>2 DEF Turn
            <4>6. Half(hist'[Key(i)], stored'[Key(i)], Turn(i, writing[i])', Key(i), evicted')
                BY <3>1, <4>4, <4>5, Zenon
            <4>7. PICK k : k = Key(i)
                OBVIOUS
            <4>8. Kept(k)'
                BY <1>2, <3>1, <3>2, <4>1, <4>6, <4>7, KeptHere
            <4>9. k = Key(i)'
                BY <1>3, <4>7
            <4> QED
                BY <4>8, <4>9, Zenon DEF Kept, Idle
        <3> QED
            BY <1>2, <3>1, <3>2, <3>3, <3>4, StepKeeps
    <2>11. ASSUME NEW role \in {"user", "assistant"}, NEW phase \in {"answering", "leaving"},
                  Push(i, role), Move(i, phase), task[i].phase \in Working,
                  phase = "answering" => role = "user"
           PROVE  MemoryInv'
        <3> DEFINE new == Newest(Append(hist[Key(i)], Turn(i, role)), MaxHistory)
        <3>1. PICK out :
                 /\ writing[i] = role /\ writing' = [writing EXCEPT ![i] = "none"]
                 /\ hist' = [l \in Keys |-> IF l = Key(i) THEN new ELSE IF l \in out THEN << >> ELSE hist[l]]
                 /\ evicted' = evicted \cup out /\ stored' = stored
            BY <2>11, Zenon DEF Push
        <3>2. (\A j \in Ids : j # i => task'[j] = task[j]) /\ task'[i].phase = phase /\ task'[i].parts = task[i].parts
            BY <1>3, <2>4, <2>11, MoveFacts
        <3> HIDE DEF new
        <3>3. /\ hist'[Key(i)] = new /\ stored'[Key(i)] = stored[Key(i)]
              /\ \A k \in Keys : k # Key(i) => Lessened(hist[k], hist'[k], k, evicted, evicted') /\ stored'[k] = stored[k]
              /\ writing'[i] = "none" /\ \A j \in Ids : j # i => writing'[j] = writing[j]
            BY <1>3, <2>2, <3>1 DEF Lessened
        <3>4. Turn(i, role) \in TurnRec
            BY <2>5
        <3>5. new \in Seq(TurnRec)
            <4>1. /\ Append(hist[Key(i)], Turn(i, role)) \in Seq(TurnRec)
                  /\ MaxHistory \in Nat \ {0}
                BY <2>3, <3>4, AppendProperties, HistoryAssumption
            <4>2. Newest(Append(hist[Key(i)], Turn(i, role)), MaxHistory) \in Seq(TurnRec)
                BY <4>1, NewestTurns
            <4> QED
                BY <4>2 DEF new
        <3>6. Serial(Key(i)) => Kept(Key(i))'
            <4>1. SUFFICES ASSUME Serial(Key(i)) PROVE Kept(Key(i))'
                OBVIOUS
            <4>2. Half(hist[Key(i)], stored[Key(i)], Turn(i, role), Key(i), evicted)
                BY <2>6, <2>11, <3>1, <4>1
            <4>3. Agrees(new, stored[Key(i)], Key(i), evicted') /\ Asked(new, stored[Key(i)], Turn(i, role), Key(i), evicted')
                <5>1. Agrees(new, stored[Key(i)], Key(i), evicted) /\ Asked(new, stored[Key(i)], Turn(i, role), Key(i), evicted)
                    BY <2>3, <3>4, <4>2, Pushed DEF new
                <5>2. Lessened(new, new, Key(i), evicted, evicted')
                    BY <3>1 DEF Lessened
                <5> QED
                    BY <5>1, <5>2, StaysTrue
            <4>4. Agrees(hist'[Key(i)], stored'[Key(i)], Key(i), evicted')
                BY <3>3, <4>3, Zenon
            <4>5. task'[i].phase = "answering" => Asked(hist'[Key(i)], stored'[Key(i)], Turn(i, "user")', Key(i), evicted')
                <5>1. Turn(i, "user")' = Turn(i, "user")
                    BY <3>2 DEF Turn
                <5>2. task'[i].phase = "answering" => role = "user"
                    BY <2>11, <3>2
                <5> QED
                    BY <3>3, <4>3, <5>1, <5>2, Zenon
            <4>7. PICK k : k = Key(i)
                OBVIOUS
            <4>8. Kept(k)'
                BY <1>2, <2>11, <3>2, <3>3, <4>1, <4>4, <4>5, <4>7, KeptHere
            <4>9. k = Key(i)'
                BY <1>3, <4>7
            <4> QED
                BY <4>8, <4>9, Zenon DEF Kept, Idle
        <3>7. hist'[Key(i)] \in Seq(TurnRec) /\ stored'[Key(i)] \in Seq(TurnRec)
            BY <2>3, <3>3, <3>5, Zenon
        <3> QED
            BY <1>2, <2>11, <3>2, <3>3, <3>6, <3>7, StepKeeps
    <2>12. CASE PushUserTurn(i) \/ PushAnswer(i)
        BY <2>11, <2>12 DEF PushUserTurn, PushAnswer, Open, Answer, At, Working
    <2>13. CASE SaveAnswer(i)
        <3>1. /\ task' = task /\ task[i].phase = "answering" /\ writing[i] = "none"
              /\ hist' = hist
              /\ writing' = [writing EXCEPT ![i] = "assistant"]
              /\ stored' = [stored EXCEPT ![Key(i)] = Append(@, Turn(i, "assistant"))] /\ evicted' = evicted
            BY <2>13 DEF SaveAnswer, Save, At, vars
        <3>2. /\ task[i].phase \in Working
              /\ stored'[Key(i)] = Append(stored[Key(i)], Turn(i, "assistant"))
              /\ hist'[Key(i)] = hist[Key(i)]
              /\ \A k \in Keys : k # Key(i) => Lessened(hist[k], hist'[k], k, evicted, evicted') /\ stored'[k] = stored[k]
              /\ writing'[i] = "assistant" /\ \A j \in Ids : j # i => writing'[j] = writing[j]
            BY <1>3, <2>2, <3>1 DEF Working, Lessened
        <3>3. hist'[Key(i)] \in Seq(TurnRec) /\ stored'[Key(i)] \in Seq(TurnRec)
            <4>1. Append(stored[Key(i)], Turn(i, "assistant")) \in Seq(TurnRec)
                BY <2>3, <2>5, AppendProperties
            <4> QED
                BY <2>3, <3>2, <4>1
        <3>4. Serial(Key(i)) => Kept(Key(i))'
            <4>1. SUFFICES ASSUME Serial(Key(i)) PROVE Kept(Key(i))'
                OBVIOUS
            <4>3. Agrees(hist[Key(i)], stored[Key(i)], Key(i), evicted)
                BY <2>6, <3>1, <3>2, <4>1
            <4>4. Half(hist'[Key(i)], stored'[Key(i)], Turn(i, "assistant"), Key(i), evicted)
                BY <2>3, <3>2, <4>3 DEF Half
            <4>5. Turn(i, writing[i])' = Turn(i, "assistant")
                BY <3>1, <3>2 DEF Turn
            <4>6. Half(hist'[Key(i)], stored'[Key(i)], Turn(i, writing[i])', Key(i), evicted')
                BY <3>1, <4>4, <4>5, Zenon
            <4>7. PICK k : k = Key(i)
                OBVIOUS
            <4>8. Kept(k)'
                BY <1>2, <3>1, <3>2, <4>1, <4>6, <4>7, KeptHere
            <4>9. k = Key(i)'
                BY <1>3, <4>7
            <4> QED
                BY <4>8, <4>9, Zenon DEF Kept, Idle
        <3> QED
            BY <1>2, <3>1, <3>2, <3>3, <3>4, StepKeeps
    <2>14. CASE Overflow(i) \/ RollBack(i)
        <3> DEFINE k == Key(i)
        <3>1. /\ Move(i, "leaving") /\ writing[i] = "none" /\ writing' = writing /\ task[i].phase = "answering"
              /\ task[i].phase \in Working /\ evicted' = evicted
            BY <2>14 DEF Overflow, RollBack, Answer, At, Working
        <3>2. (\A j \in Ids : j # i => task'[j] = task[j]) /\ task'[i].phase = "leaving"
            BY <1>3, <2>4, <3>1, MoveFacts
        <3>3. PICK h, s :
                 /\ hist'[k] = h /\ stored'[k] = s /\ h \in Seq(TurnRec) /\ s \in Seq(TurnRec)
                 /\ \A l \in Keys : l # k => hist'[l] = hist[l] /\ stored'[l] = stored[l]
                 /\ Serial(k) => Agrees(h, s, k, evicted)
            <4>1. Serial(k) => Agrees(hist[k], stored[k], k, evicted) /\ Asked(hist[k], stored[k], Turn(i, "user"), k, evicted)
                BY <2>6, <3>1
            <4>2. CASE Overflow(i)
                <5> DEFINE h == Normalized(Newest(hist[k], CompactKeep))
                <5>1. hist' = [hist EXCEPT ![k] = h] /\ stored' = stored
                    BY <4>2 DEF Overflow
                <5>2. h \in Seq(TurnRec)
                    BY <2>3, HistoryAssumption, NewestTurns, NormalizedTail
                <5>3. Serial(k) => Agrees(h, stored[k], k, evicted)
                    <6>1. SUFFICES ASSUME Serial(k) PROVE Agrees(h, stored[k], k, evicted)
                        OBVIOUS
                    <6> QED
                        BY <2>3, <2>5, <4>1, <6>1, Compacted
                <5> HIDE DEF h
                <5> QED
                    BY <1>3, <2>2, <2>3, <5>1, <5>2, <5>3
            <4>3. CASE RollBack(i)
                <5>1. /\ hist[k] # << >> /\ hist' = [hist EXCEPT ![k] = ButLast(hist[k])]
                      /\ stored' = IF stored[k] = << >> THEN stored ELSE [stored EXCEPT ![k] = ButLast(stored[k])]
                    BY <4>3 DEF RollBack, Shortened
                <5>2. ButLast(hist[k]) \in Seq(TurnRec) /\ (stored[k] # << >> => ButLast(stored[k]) \in Seq(TurnRec))
                    BY <2>3, <5>1, LastTurn
                <5>3. Serial(k) => Agrees(ButLast(hist[k]), ButLast(stored[k]), k, evicted) /\ stored[k] # << >>
                    BY <2>3, <4>1, <5>1, RolledBack DEF Asked
                <5> QED
                    BY <1>3, <2>2, <2>3, <5>1, <5>2, <5>3
            <4> QED
                BY <2>14, <4>2, <4>3
        <3>4. Serial(Key(i)) => Kept(Key(i))'
            <4>1. SUFFICES ASSUME Serial(Key(i)) PROVE Kept(Key(i))'
                OBVIOUS
            <4>2. Agrees(hist'[Key(i)], stored'[Key(i)], Key(i), evicted')
                BY <3>1, <3>3, <4>1, Zenon
            <4>7. PICK l : l = Key(i)
                OBVIOUS
            <4>8. Kept(l)'
                BY <1>2, <3>1, <3>2, <4>1, <4>2, <4>7, KeptHere
            <4>9. l = Key(i)'
                BY <1>3, <4>7
            <4> QED
                BY <4>8, <4>9, Zenon DEF Kept, Idle
        <3>5. hist'[Key(i)] \in Seq(TurnRec) /\ stored'[Key(i)] \in Seq(TurnRec)
            BY <3>3, Zenon
        <3>6. \A l \in Keys : l # Key(i) => Lessened(hist[l], hist'[l], l, evicted, evicted') /\ stored'[l] = stored[l]
            BY <3>1, <3>3 DEF Lessened
        <3> HIDE DEF k
        <3> QED
            BY <1>2, <3>1, <3>2, <3>4, <3>5, <3>6, StepKeeps
    <2> QED
        BY <2>1, <2>7, <2>8, <2>9, <2>10, <2>12, <2>13, <2>14 DEF FullBody
<1> QED
    BY <1>5, <1>6

LEMMA MemoryInit == ASSUME HistInit PROVE MemoryInv
<1>1. SessionInv /\ Ids \subseteq 1..MaxMessages
    BY SessionInit DEF SessionInv, Shapes
<1>2. /\ writing = [i \in 1..MaxMessages |-> "none"]
      /\ hist = [k \in Keys |-> << >>] /\ stored = [k \in Keys |-> << >>]
    BY DEF HistInit
<1>3. \A i \in Ids : task[i].phase = "queued"
    <2>1. PICK script \in Scripts : task = [i \in DOMAIN script |-> NewTask(script[i])]
        BY DEF HistInit, Init
    <2> QED
        BY <2>1 DEF Ids, NewTask
<1>4. \A k \in Keys : Agrees(<< >>, << >>, k, evicted)
    <2>1. TailOf(<< >>, << >>)
        BY TailOfItself, << >> \in Seq(Int)
    <2> QED
        BY <2>1, WordsOfNone, Zenon DEF Agrees
<1>5. \A i \in Ids : writing[i] = "none"
    BY <1>1, <1>2
<1>6. Roles
    BY <1>5 DEF Roles
<1>7. Turns
    BY <1>2 DEF Turns
<1>8. ASSUME NEW k \in Keys PROVE Kept(k)
    <2>1. hist[k] = << >> /\ stored[k] = << >>
        BY <1>2
    <2>2. Agrees(hist[k], stored[k], k, evicted)
        BY <1>4, <2>1, Zenon
    <2> QED
        BY <1>3, <1>5, <2>2 DEF Kept
<1> QED
    BY <1>1, <1>6, <1>7, <1>8 DEF MemoryInv

LEMMA MemorySuffices == ASSUME MemoryInv PROVE RestartSeesMemory
<1> SUFFICES ASSUME NEW k \in Keys, Serial(k), Idle(k), NEW turns \in Hydrated(k)
             PROVE  LET loaded == Words(turns)
                        held == Words(hist[k] \o Closure(k))
                    IN  /\ EndsWith(loaded, held) \/ EndsWith(held, loaded)
                        /\ hist[k] = << >> /\ k \notin evicted /\ MaxHistory > 1 => turns = << >>
    BY DEF RestartSeesMemory
<1> DEFINE all == Loaded(k) \o Closure(k)
<1>1. /\ hist[k] \in Seq(TurnRec) /\ stored[k] \in Seq(TurnRec)
      /\ Agrees(hist[k], stored[k], k, evicted)
    BY DEF MemoryInv, Turns, Kept
<1>2. MaxLoaded \in Nat \ {0}
    BY HistoryAssumption
<1>3. Loaded(k) \in Seq(TurnRec) /\ TailOf(Words(Loaded(k)), Words(stored[k]))
    BY <1>1, <1>2, NewestTurns DEF Loaded
<1>4. Closure(k) \in Seq(TurnRec)
    <2>1. <<0>> \in Seq(Int)
        OBVIOUS
    <2>2. [role |-> "assistant", text |-> <<0>>] \in TurnRec
        BY <2>1 DEF TurnRec
    <2>3. <<[role |-> "assistant", text |-> <<0>>]>> \in Seq(TurnRec) /\ << >> \in Seq(TurnRec)
        BY <2>2
    <2> QED
        BY <2>3 DEF Closure
<1>5. /\ Words(all) = Words(Loaded(k)) \o Words(Closure(k))
      /\ Words(hist[k] \o Closure(k)) = Words(hist[k]) \o Words(Closure(k))
      /\ Words(Closure(k)) \in Seq(Int)
    BY <1>1, <1>3, <1>4, WordsOfTwo, WordsType
<1>6. /\ TailOf(Words(all), Words(stored[k]) \o Words(Closure(k)))
      /\ TailOf(Words(hist[k] \o Closure(k)), Words(stored[k]) \o Words(Closure(k)))
    <2>1. TailOf(Words(hist[k]), Words(stored[k]))
        BY <1>1 DEF Agrees
    <2>2. /\ TailOf(Words(Loaded(k)) \o Words(Closure(k)), Words(stored[k]) \o Words(Closure(k)))
          /\ TailOf(Words(hist[k]) \o Words(Closure(k)), Words(stored[k]) \o Words(Closure(k)))
        BY <1>3, <1>5, <2>1, TailsJoin
    <2> QED
        BY <1>5, <2>2, Zenon
<1>7. CASE turns = << >>
    <2>1. TailOf(<< >>, Words(stored[k]) \o Words(Closure(k)))
        BY <1>6, TailOfItself DEF TailOf
    <2>2. TailOf(Words(turns), Words(stored[k]) \o Words(Closure(k)))
        BY <1>7, <2>1, WordsOfNone, Zenon
    <2>3. \/ EndsWith(Words(turns), Words(hist[k] \o Closure(k)))
          \/ EndsWith(Words(hist[k] \o Closure(k)), Words(turns))
        BY <1>6, <2>2, TailsCompare
    <2> QED
        BY <1>7, <2>3, Zenon
<1>8. ASSUME hist[k] = << >>, k \notin evicted, MaxHistory > 1 PROVE all = << >>
    <2>1. stored[k] = << >>
        BY <1>1, <1>8 DEF Agrees
    <2>2. Len(<< >>) = 0
        OBVIOUS
    <2>3. Loaded(k) = << >>
        BY <1>2, <2>1, <2>2 DEF Loaded, Newest
    <2>4. Closure(k) = << >>
        BY <2>3 DEF Closure
    <2> QED
        BY <2>3, <2>4
<1>9. CASE turns = all
    <2>1. \/ EndsWith(Words(turns), Words(hist[k] \o Closure(k)))
          \/ EndsWith(Words(hist[k] \o Closure(k)), Words(turns))
        <3>1. TailOf(Words(turns), Words(stored[k]) \o Words(Closure(k)))
            BY <1>6, <1>9, Zenon
        <3> QED
            BY <1>6, <3>1, TailsCompare
    <2> HIDE DEF all
    <2> QED
        BY <1>8, <1>9, <2>1, Zenon
<1>10. turns = << >> \/ turns = all
    BY DEF Hydrated
<1> QED
    BY <1>7, <1>9, <1>10

(* A restart: on a channel that interrupts and where no /stop has split the turns,      *)
(* whatever was answered, rolled back, compacted, cleared, cut or pushed out before,    *)
(* what the daemon loads when it starts and what memory held agree word for word from   *)
(* the end; and where memory held nothing, for a limit of more than one turn, it loads  *)
(* nothing, unless another sender pushed the conversation out.                          *)
THEOREM RestartIsFaithful == HistSpec => []RestartSeesMemory
<1>1. HistSpec => []MemoryInv
    BY MemoryInit, MemoryNext, PTL DEF HistSpec
<1> QED
    BY <1>1, MemorySuffices, PTL

=============================================================================

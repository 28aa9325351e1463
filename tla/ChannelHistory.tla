--------------------------- MODULE ChannelHistory ---------------------------
(***************************************************************************)
(* What the workers of ChannelDispatch do to a sender's conversation:      *)
(* process_channel_message_body of zeroclaw-channels/src/orchestrator/     *)
(* mod.rs and the helpers it calls.  A conversation is kept twice, in      *)
(* memory and in a session store that a restart reads back.                *)
(*                                                                         *)
(* Memory keeps a bounded number of senders, an LRU: a sender it has no    *)
(* room for pushes another out.  Which one was used least recently is left *)
(* open here.                                                              *)
(*                                                                         *)
(* Appending a turn is two steps, the store and then the memory, with      *)
(* other workers between them; the locks a worker otherwise takes without  *)
(* an await in between are one step.  A text is the sequence of what it    *)
(* was joined from: i for message i, -i for the answer to it, whether that *)
(* is a reply or the marker of a failure.  Turns of tools and the cutting  *)
(* of long texts are left out, and what is written to the store arrives.   *)
(***************************************************************************)
EXTENDS ChannelDispatch

CONSTANTS
    MaxHistory,   \* max_history_messages
    CompactKeep,  \* CHANNEL_HISTORY_COMPACT_KEEP_MESSAGES
    MaxSenders,   \* MAX_CONVERSATION_SENDERS
    MaxLoaded     \* MAX_CHANNEL_HISTORY: what a restart loads of a conversation

ASSUME HistoryAssumption ==
    /\ MaxHistory \in Nat \ {0} /\ CompactKeep \in Nat \ {0}
    /\ MaxSenders \in Nat \ {0} /\ MaxLoaded \in Nat \ {0}

VARIABLES
    hist,     \* conversation_histories: the turns, none for a sender without an entry
    cached,   \* its keys
    evicted,  \* history: the keys pushed out since they last began anew
    stored,   \* the session store
    fresh,    \* pending_new_sessions
    writing   \* the turn a worker has stored and not yet pushed: its role, or "none"

histVars == <<hist, cached, evicted, stored, fresh, writing>>
allVars == <<vars, histVars>>

Turn(i, role) == [role |-> role, text |-> IF role = "user" THEN task[i].parts ELSE <<-i>>]

HistInit ==
    /\ Init
    /\ hist = [k \in Keys |-> << >>] /\ stored = [k \in Keys |-> << >>]
    /\ cached = {} /\ evicted = {} /\ fresh = {}
    /\ writing = [i \in 1..MaxMessages |-> "none"]

LastOf(s) == s[Len(s)]
Newest(s, n) == IF Len(s) <= n THEN s ELSE SubSeq(s, Len(s) - n + 1, Len(s))

\* normalize_cached_channel_turns: user and assistant alternate, beginning with a user; a
\* turn out of place is joined to the one before it.
Normalized(turns) ==
    LET add(acc, t) ==
            IF t.role = (IF acc = << >> \/ LastOf(acc).role = "assistant" THEN "user" ELSE "assistant")
            THEN Append(acc, t)
            ELSE IF acc = << >> THEN acc
            ELSE [acc EXCEPT ![Len(acc)].text = @ \o t.text]
        upTo[n \in 0..Len(turns)] == IF n = 0 THEN << >> ELSE add(upTo[n - 1], turns[n])
    IN  upTo[Len(turns)]

\* What an entry for k pushes out of a full memory.
Evictions(k) ==
    IF k \in cached \/ Cardinality(cached) < MaxSenders THEN {{}} ELSE {{l} : l \in cached}

\* The two halves of append_sender_turn.
Save(i, role) ==
    /\ writing[i] = "none" /\ writing' = [writing EXCEPT ![i] = role]
    /\ stored' = [stored EXCEPT ![Key(i)] = Append(@, Turn(i, role))]

Push(i, role) ==
    /\ writing[i] = role /\ writing' = [writing EXCEPT ![i] = "none"]
    /\ LET k == Key(i) IN \E out \in Evictions(k) :
          /\ hist' = [l \in Keys |-> IF l = k THEN Newest(Append(hist[k], Turn(i, role)), MaxHistory)
                                     ELSE IF l \in out THEN << >> ELSE hist[l]]
          /\ cached' = (cached \ out) \cup {k}
          /\ evicted' = evicted \cup out
    /\ UNCHANGED <<stored, fresh>>

-----------------------------------------------------------------------------
(* The body.                                                                        *)

Dropped(i) == Skip(i) /\ writing[i] = "none" /\ UNCHANGED histVars

\* Deviation: the session file stays.
Forgotten_Memory(k) == stored

Forgotten(k) == [stored EXCEPT ![k] = << >>]

\* /new
NewSession(i) ==
    /\ Skip(i) /\ IsNew(i) /\ writing[i] = "none"
    /\ hist' = [hist EXCEPT ![Key(i)] = << >>]
    /\ cached' = cached \ {Key(i)} /\ evicted' = evicted \ {Key(i)}
    /\ stored' = Forgotten(Key(i))
    /\ fresh' = fresh \cup {Key(i)}
    /\ UNCHANGED writing

\* The first turn after /new clears the memory again before it is added.
SaveUserTurn(i) ==
    /\ At(i, "opening") /\ ~IsNew(i)
    /\ hist' = IF Key(i) \in fresh THEN [hist EXCEPT ![Key(i)] = << >>] ELSE hist
    /\ cached' = IF Key(i) \in fresh THEN cached \ {Key(i)} ELSE cached
    /\ fresh' = fresh \ {Key(i)}
    /\ Save(i, "user")
    /\ UNCHANGED <<vars, evicted>>

PushUserTurn(i) == Open(i) /\ Push(i, "user")

\* Cancelled, or a hook keeps the reply back: the user's turn stays as it is.
Unanswered(i) == Answer(i) /\ writing[i] = "none" /\ UNCHANGED histVars

\* The reply, or the marker of a request that failed, timed out or wants no reply.
SaveAnswer(i) ==
    /\ At(i, "answering") /\ Save(i, "assistant")
    /\ UNCHANGED <<vars, hist, cached, evicted, fresh>>

PushAnswer(i) == Answer(i) /\ Push(i, "assistant")

\* The context window overflowed: compact_sender_history.
Overflow(i) ==
    /\ Answer(i) /\ writing[i] = "none"
    /\ hist' = [hist EXCEPT ![Key(i)] = Normalized(Newest(@, CompactKeep))]
    /\ UNCHANGED <<cached, evicted, stored, fresh, writing>>

ButLast(s) == SubSeq(s, 1, Len(s) - 1)

\* Deviation: the persisted turn is left where it is.
Shortened_Memory(k) == stored

Shortened(k) ==
    IF stored[k] = << >> THEN stored ELSE [stored EXCEPT ![k] = ButLast(@)]

\* An error that is not worth another try: rollback_orphan_user_turn.
RollBack(i) ==
    /\ Answer(i) /\ writing[i] = "none"
    /\ LET h == hist[Key(i)] IN
       /\ h # << >> /\ LastOf(h) = Turn(i, "user")
       /\ hist' = [hist EXCEPT ![Key(i)] = ButLast(h)]
       /\ cached' = IF ButLast(h) = << >> THEN cached \ {Key(i)} ELSE cached
    /\ stored' = Shortened(Key(i))
    /\ UNCHANGED <<evicted, fresh, writing>>

FullBody(i) ==
    \/ Dropped(i) \/ NewSession(i) \/ SaveUserTurn(i) \/ PushUserTurn(i)
    \/ Unanswered(i) \/ SaveAnswer(i) \/ PushAnswer(i) \/ Overflow(i) \/ RollBack(i)

Beside(A) == A /\ UNCHANGED histVars

HistNext == \E i \in Ids : Beside(Loop(i) \/ Timer(i) \/ Around(i)) \/ FullBody(i)

HistSpec == HistInit /\ [][HistNext]_allVars

FairHistSpec ==
    /\ HistSpec
    /\ \A i \in 1..MaxMessages :
          /\ WF_allVars(Beside(Loop(i))) /\ WF_allVars(Beside(Timer(i)))
          /\ WF_allVars(Beside(Around(i)) \/ FullBody(i))

-----------------------------------------------------------------------------
(* Properties.                                                                      *)

\* What the daemon may load for a conversation when it starts: its newest turns, with the
\* marker of an interrupted request (0) if the last is a user's, or nothing, when no agent
\* owns its channel, the budget of sessions is spent, or another session pushes it out.
Loaded(k) == Newest(stored[k], MaxLoaded)
Closure(k) ==
    IF Loaded(k) # << >> /\ LastOf(Loaded(k)).role = "user"
    THEN <<[role |-> "assistant", text |-> <<0>>]>> ELSE << >>
Hydrated(k) == {<< >>, Loaded(k) \o Closure(k)}

\* Conversations of one interrupting scope that no /stop has split.
Serial(k) ==
    /\ \A p, q \in Places : p.key = k /\ q.key = k => p.interrupts /\ p.scope = q.scope
    /\ \A p \in Places : p.key = k => ~Stopped(p.scope)

EndsWith(s, t) == Len(t) <= Len(s) /\ Newest(s, Len(t)) = t

Words(turns) ==
    LET upTo[n \in 0..Len(turns)] == IF n = 0 THEN << >> ELSE upTo[n - 1] \o turns[n].text
    IN  upTo[Len(turns)]

Idle(k) == \A i \in Ids : Key(i) = k => writing[i] = "none"

(* "so it doesn't resurface after a daemon restart": where turns do not overlap, what a *)
(* restart would load and what memory holds agree from the end as far back as both go,  *)
(* after any sequence of answers, failures, roll-backs, compactions, new sessions and   *)
(* evictions; and where memory holds nothing, nothing is loaded, but of a conversation  *)
(* that another sender has pushed out of memory since it began.                         *)
RestartSeesMemory ==
    \A k \in Keys : Serial(k) /\ Idle(k) =>
        \A turns \in Hydrated(k) :
            LET loaded == Words(turns)
                held == Words(hist[k] \o Closure(k))
            IN  /\ EndsWith(loaded, held) \/ EndsWith(held, loaded)
                /\ hist[k] = << >> /\ k \notin evicted /\ MaxHistory > 1 => turns = << >>

(* "fresh even if older cached turns reappear": where turns do not overlap, nothing of  *)
(* the old session comes back between /new and the next turn.                           *)
NewSessionIsEmpty ==
    \A k \in fresh : Serial(k) =>
        /\ hist[k] = << >> /\ \A i \in Ids : Key(i) = k => writing[i] = "none"
        /\ stored[k] = << >>
=============================================================================

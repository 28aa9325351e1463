----------------------------- MODULE MCChannels -----------------------------
(* Small instances of ChannelDispatch and ChannelHistory. *)
EXTENDS ChannelHistory

CONSTANTS chat, room, console

Place(s, k) == [scope |-> s, key |-> k, cli |-> FALSE, owned |-> TRUE,
                interrupts |-> FALSE, debounced |-> FALSE]
Chat == [Place(chat, chat) EXCEPT !.interrupts = TRUE]
Burst == [Chat EXCEPT !.debounced = TRUE]
Room == Place(room, room)
Console == [Place(console, console) EXCEPT !.cli = TRUE]
Stranger == [Place(room, room) EXCEPT !.owned = FALSE]

MCPlaces == {Chat, Burst, Room, Console, Stranger}

Of(p, kinds) == [place : {p}, kind : kinds]
Streams(ms) == [1..MaxMessages -> ms]
\* Turns that are interrupted, stopped and begun anew; bursts; turns side by side; a sender
\* who pushes another out of memory.
MCScripts ==
    {s \in Streams(Of(Chat, {"talk", "new", "stop"})) : s[1].kind = "talk"}
    \cup Streams(Of(Burst, {"talk", "new"}))
    \cup {s \in Streams(Of(Room, {"talk", "new"})) : s[2].kind # s[3].kind}
    \cup {<<[place |-> Chat, kind |-> "talk"], [place |-> Room, kind |-> "talk"],
            [place |-> Chat, kind |-> last]>> : last \in {"talk", "new"}}
    \cup {<<[place |-> Stranger, kind |-> "talk"], [place |-> Console, kind |-> "stop"],
            [place |-> Burst, kind |-> "talk"]>>}

\* A message and one that interrupts it.
Pair == {[i \in 1..2 |-> [place |-> Chat, kind |-> "talk"]]}
=============================================================================

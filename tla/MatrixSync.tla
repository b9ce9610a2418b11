----------------------------- MODULE MatrixSync -----------------------------
(***************************************************************************)
(* The life of the Matrix bridge: connect, sync until something fails,     *)
(* close, sleep, connect again.  A new connection knows nothing of what    *)
(* the last one has read: its first sync brings some of the latest events  *)
(* again, and only their age tells the bridge which ones to pass over.     *)
(* The age is the difference of two clocks, the homeserver's and the       *)
(* bot's.  Every person writes in a room of his own, and a sync response   *)
(* is handled room by room: of two rooms, the one with the later events    *)
(* may come first.  BotProcess composes these actions with the process     *)
(* that runs the bridge as a task.                                         *)
(***************************************************************************)
EXTENDS Integers, Sequences, FiniteSets

CONSTANTS
    Rooms,               \* the direct rooms of the people with a Matrix id
    MinDelay, MaxDelay,  \* _RECONNECT_MIN and _RECONNECT_MAX
    Skews,               \* by how much the homeserver's clock may be ahead
    MaxEvents,           \* bound on the events people send
    MaxClock             \* bound: then nothing fails any more, and after it nothing is sent

ASSUME SyncAssumption ==
    /\ MinDelay \in Nat \ {0} /\ MaxDelay \in Nat /\ MinDelay <= MaxDelay
    /\ Skews \subseteq Int
    /\ MaxEvents \in Nat /\ MaxClock \in Nat

VARIABLES
    clock,      \* the bot's clock
    skew,       \* by how much the homeserver's is ahead of it
    serverUp,   \* the homeserver can be reached
    conn,       \* "closed", "up" or "sleeping"
    delay,      \* the backoff
    started,    \* started_ms
    events,     \* by room: server_ts of what its owner sent to the bot
    upto,       \* by room: how far the sync responses of the connection go
    pos,        \* by room: how far its callbacks have come
    reading,    \* the room of the response in the midst of which they are
    since,      \* history, by room: events sent before the connection
    done        \* history, by room: the events acted upon, in their order

world == <<clock, skew, serverUp>>
history == <<since, done>>
reads == <<upto, pos, reading>>
syncVars == <<world, conn, delay, started, events, reads, history>>

Nothing == [r \in Rooms |-> 0]

SyncInit ==
    /\ clock = 0
    /\ skew \in Skews
    /\ serverUp = TRUE
    /\ conn = "closed"
    /\ delay = MinDelay
    /\ started = 0
    /\ events = [r \in Rooms |-> <<>>]
    /\ upto = Nothing
    /\ pos = Nothing
    /\ reading = {}
    /\ since = Nothing
    /\ done = [r \in Rooms |-> <<>>]

----------------------------------------------------------------------------

\* At least d units of time pass; when nothing fails any more they do not matter.
Pass(d) == clock' = IF clock <= MaxClock THEN clock + d ELSE clock

Tick ==
    /\ clock < MaxClock
    /\ Pass(1)
    /\ UNCHANGED <<skew, serverUp, conn, delay, started, events, reads, history>>

Sent == UNION {{r} \X DOMAIN events[r] : r \in Rooms}
Ends == [r \in Rooms |-> Len(events[r])]

\* The homeserver stamps what people send.
SendEvent ==
    /\ Cardinality(Sent) < MaxEvents /\ clock <= MaxClock
    /\ \E r \in Rooms : events' = [events EXCEPT ![r] = Append(@, clock + skew)]
    /\ UNCHANGED <<world, conn, delay, started, reads, history>>

ServerTurns ==
    /\ clock < MaxClock \/ ~serverUp
    /\ serverUp' = ~serverUp
    /\ UNCHANGED <<clock, skew, conn, delay, started, events, reads, history>>

\* Mutant: the start is remembered from the first connection.
StartOf_First == IF started = 0 THEN clock ELSE started

StartOf == clock

\* connect: login and whoami; the first sync brings the events of a room after
\* the first n[r] ones.  The backoff is reset.
Connect ==
    /\ conn = "closed"
    /\ serverUp
    /\ conn' = "up"
    /\ delay' = MinDelay
    /\ started' = StartOf
    /\ \E n \in [Rooms -> UNION {0 .. Ends[r] : r \in Rooms}] :
          /\ \A r \in Rooms : n[r] <= Ends[r]
          /\ upto' = n /\ pos' = n
    /\ since' = Ends
    /\ UNCHANGED <<world, events, reading, done>>

\* What the connection has read is known to it alone.
Leave(c) ==
    /\ conn' = c
    /\ upto' = Nothing /\ pos' = Nothing /\ reading' = {}
    /\ since' = Nothing

\* connect returns False or raises.
ConnectFails ==
    /\ conn = "closed"
    /\ ~serverUp
    /\ conn' = "sleeping"
    /\ UNCHANGED <<world, delay, started, events, reads, history>>

\* The next sync response, once the callbacks of the last one have run.
Receive ==
    /\ conn = "up"
    /\ pos = upto /\ upto # Ends
    /\ upto' = Ends
    /\ UNCHANGED <<world, conn, delay, started, events, pos, reading, history>>

\* Mutant: an event of the very millisecond of the start is old.
Old_Inclusive(ts) == ts <= started

\* handle_event returns at once.
Old(ts) == ts < started

\* The callback of the next event of the room; the rooms' order is any.
Turn(r) == conn = "up" /\ pos[r] < upto[r] /\ reading \subseteq {r}
Event(r) == events[r][pos[r] + 1]

Read(r) ==
    /\ pos' = [pos EXCEPT ![r] = @ + 1]
    /\ reading' = IF pos'[r] = upto[r] THEN {} ELSE {r}
    /\ UNCHANGED upto

\* One event of a sync response is passed over ...
SkipEvent ==
    /\ \E r \in Rooms : Turn(r) /\ Old(Event(r)) /\ Read(r)
    /\ UNCHANGED <<world, conn, delay, started, events, history>>

Act(r) == done' = [done EXCEPT ![r] = Append(@, pos[r] + 1)]

\* ... or acted upon (_handle).
HandleEvent ==
    /\ \E r \in Rooms : Turn(r) /\ ~Old(Event(r)) /\ Act(r) /\ Read(r)
    /\ UNCHANGED <<world, conn, delay, started, events, since>>

\* _handle raises, before or after the action has committed: the exception
\* leaves the callback and ends sync_forever with the rest of the response.
HandlerRaises ==
    /\ \E r \in Rooms : Turn(r) /\ ~Old(Event(r)) /\ (Act(r) \/ UNCHANGED done)
    /\ Leave("sleeping")
    /\ UNCHANGED <<world, delay, started, events>>

\* sync_forever fails.
SyncFails ==
    /\ clock < MaxClock \/ ~serverUp
    /\ conn = "up"
    /\ Leave("sleeping")
    /\ UNCHANGED <<world, delay, started, events, done>>

Doubled == IF 2 * delay < MaxDelay THEN 2 * delay ELSE MaxDelay

\* The connection is closed, the bridge sleeps and goes round again.
Sleep ==
    /\ conn = "sleeping"
    /\ conn' = "closed"
    /\ Pass(delay)
    /\ delay' = Doubled
    /\ UNCHANGED <<skew, serverUp, started, events, reads, history>>

----------------------------------------------------------------------------

\* Types of the variables.
SyncTypeOK ==
    /\ clock \in Nat
    /\ skew \in Skews
    /\ serverUp \in BOOLEAN
    /\ conn \in {"closed", "up", "sleeping"}
    /\ delay \in MinDelay .. MaxDelay
    /\ started \in 0 .. clock
    /\ events \in [Rooms -> Seq(Int)] /\ done \in [Rooms -> Seq(Nat)]
    /\ upto \in [Rooms -> Nat] /\ pos \in [Rooms -> Nat] /\ since \in [Rooms -> Nat]
    /\ reading \subseteq Rooms
    /\ \A r \in Rooms : /\ pos[r] <= upto[r] /\ upto[r] <= Len(events[r])
                       /\ since[r] <= Len(events[r])
                       /\ \A j \in DOMAIN done[r] : done[r][j] \in 1 .. Len(events[r])

=============================================================================

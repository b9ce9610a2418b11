-------------------------- MODULE BotProcessProofs --------------------------
(***************************************************************************)
(* Proofs about BotProcess, and MatrixSync in it, for any delays, clocks,  *)
(* events, revisions and retries.                                          *)
(***************************************************************************)
EXTENDS BotProcess, SequenceTheorems, TLAPS

(* Assumption on the constants, for both modules. *)
LEMMA Constants ==
    /\ MinDelay \in Nat \ {0} /\ MaxDelay \in Nat /\ MinDelay <= MaxDelay
    /\ Skews \subseteq Int /\ MaxEvents \in Nat /\ MaxClock \in Nat
    /\ LastRevision \in Nat /\ Retries \in Nat \ {0} /\ RestartTime \in Nat
  BY SyncAssumption, ProcessAssumption

----------------------------------------------------------------------------
(* The inductive invariant.                                                *)

\* Time stops counting after the bound; from then on nothing more is sent.
Late == clock > MaxClock

\* The homeserver's clock is not so far ahead that a restart or a reconnect
\* could not tell what came before it.
Ahead == skew < MinDelay /\ skew < RestartTime

DoneBefore(c) == \A r \in Rooms : \A j \in DOMAIN done[r] : events[r][done[r][j]] < c
SentBefore(c) == \A r \in Rooms : \A i \in DOMAIN events[r] : events[r][i] < c

\* What main has reached tells what there is to be released.
PhaseFits ==
    /\ phase \in {"down", "migrate", "wait", "start"} => bridge = "none" /\ ~updating
    /\ phase \in {"migrate", "wait", "start"} => open = {} /\ exit = "none"
    /\ phase = "wait" => attempt < Retries
    /\ phase \in {"start", "listen", "serve"} \cup Stopping => schema = LastRevision
    /\ phase \in Stopping => exit # "none"
    /\ bridge = "cancelled" => phase = "await"
    /\ phase \in Releases => bridge \in {"none", "ended"}
    /\ bridge \in {"none", "ended"} => conn = "closed"
    /\ phase = "down" /\ exit = "none" => done = [r \in Rooms |-> <<>>]

\* What is closed stays closed when no update is under way.
ReleasesFit ==
    exit \in {"stopped", "failed"} =>
        /\ phase = "closeRedis" => ~updating /\ "session" \notin open
        /\ phase = "disposeEngine" => ~updating /\ open \cap {"session", "redis"} = {}
        /\ phase = "down" => open = {}

\* The homeserver's stamps are in the order of what it received.
StampsFit ==
    \A r \in Rooms :
        /\ \A i, j \in DOMAIN events[r] : i < j => events[r][i] <= events[r][j]
        /\ \A i \in DOMAIN events[r] : events[r][i] <= clock + skew
        /\ conn = "up" => \A i \in since[r] + 1 .. Len(events[r]) : started + skew <= events[r][i]

\* A room's events are acted upon in their order, each once.
Ordered ==
    \A r \in Rooms : \A i, j \in DOMAIN done[r] : i < j => done[r][i] < done[r][j]

\* A connection passes over what an earlier one has acted upon.
Over ==
    conn = "up" => \A r \in Rooms : \A j \in DOMAIN done[r] :
                      done[r][j] <= pos[r] \/ events[r][done[r][j]] < started

\* The bridge is about to connect, or will be when main has started.
Idle == conn = "closed" /\ (bridge = "running" \/ phase \in {"migrate", "wait", "start"})

ReadOnce == Ahead => Ordered /\ Over /\ (Idle => DoneBefore(clock))

\* When time has stopped, connections end only before they have acted, or when
\* nothing that was sent could still be acted upon.
LateFits ==
    Ahead /\ Late =>
        /\ conn # "up" \/ ~dbUp => DoneBefore(clock)
        /\ conn = "up" => serverUp
        /\ phase \in Stopping \/ exit = "stuck" => SentBefore(clock)

IInv ==
    /\ TypeOK
    /\ PhaseFits
    /\ ReleasesFit
    /\ StampsFit
    /\ SentWhileUpIsHandled
    /\ ReadOnce
    /\ LateFits

----------------------------------------------------------------------------

LEMMA IInvInit == Init => IInv
  <1> SUFFICES ASSUME Init PROVE IInv
    OBVIOUS
  <1> USE Constants DEF Init, SyncInit
  <1>1. TypeOK
    <2>1. SyncTypeOK
      BY EmptySeq DEF SyncTypeOK, Nothing
    <2>2. attempt \in 0 .. Retries
      OBVIOUS
    <2>3. schema \in 0 .. LastRevision
      OBVIOUS
    <2>4. phase \in Phases
      BY DEF Phases
    <2>5. open \subseteq Resources
      OBVIOUS
    <2> QED BY <2>1, <2>2, <2>3, <2>4, <2>5 DEF TypeOK
  <1>2. PhaseFits /\ ReleasesFit
    BY DEF PhaseFits, ReleasesFit, Stopping, Releases
  <1>3. /\ \A r \in Rooms : DOMAIN events[r] = {} /\ DOMAIN done[r] = {}
        /\ conn = "closed"
    BY EmptySeq
  <1>4. StampsFit /\ SentWhileUpIsHandled
    BY <1>3 DEF StampsFit, SentWhileUpIsHandled
  <1>5. ReadOnce
    BY <1>3 DEF ReadOnce, Ordered, Over, Idle, DoneBefore
  <1>6. LateFits
    BY DEF LateFits, Late
  <1> QED BY <1>1, <1>2, <1>4, <1>5, <1>6 DEF IInv

(* Acting on an event puts it at the end of its room's history. *)
LEMMA DoneGrows ==
    ASSUME done \in [Rooms -> Seq(Nat)], NEW r \in Rooms, NEW n \in Nat,
           done' = [done EXCEPT ![r] = Append(@, n)]
    PROVE  /\ done' \in [Rooms -> Seq(Nat)] /\ Len(done[r]) \in Nat
           /\ \A q \in Rooms \ {r} : done'[q] = done[q]
           /\ DOMAIN done[r] = 1 .. Len(done[r]) /\ DOMAIN done'[r] = 1 .. Len(done[r]) + 1
           /\ \A j \in 1 .. Len(done[r]) : done'[r][j] = done[r][j]
           /\ done'[r][Len(done[r]) + 1] = n
  <1>1. done[r] \in Seq(Nat) /\ done'[r] = Append(done[r], n)
    OBVIOUS
  <1>2. /\ Append(done[r], n) \in Seq(Nat) /\ Len(done[r]) \in Nat
        /\ DOMAIN done[r] = 1 .. Len(done[r])
        /\ DOMAIN Append(done[r], n) = 1 .. Len(done[r]) + 1
        /\ \A j \in 1 .. Len(done[r]) : Append(done[r], n)[j] = done[r][j]
        /\ Append(done[r], n)[Len(done[r]) + 1] = n
    BY <1>1, AppendProperties, LenProperties
  <1>3. done' \in [Rooms -> Seq(Nat)] /\ \A q \in Rooms \ {r} : done'[q] = done[q]
    BY <1>1, <1>2
  <1> QED BY <1>1, <1>2, <1>3

(* Sending puts one event more after the others of the room. *)
LEMMA EventsGrow ==
    ASSUME events \in [Rooms -> Seq(Int)], NEW r \in Rooms, NEW ts \in Int,
           events' = [events EXCEPT ![r] = Append(@, ts)]
    PROVE  /\ events' \in [Rooms -> Seq(Int)] /\ Len(events[r]) \in Nat
           /\ \A q \in Rooms \ {r} : events'[q] = events[q]
           /\ DOMAIN events[r] = 1 .. Len(events[r])
           /\ Len(events'[r]) = Len(events[r]) + 1
           /\ DOMAIN events'[r] = 1 .. Len(events[r]) + 1
           /\ \A i \in 1 .. Len(events[r]) : events'[r][i] = events[r][i] /\ events[r][i] \in Int
           /\ events'[r][Len(events[r]) + 1] = ts
  <1>1. events[r] \in Seq(Int) /\ events'[r] = Append(events[r], ts)
    OBVIOUS
  <1>2. /\ Append(events[r], ts) \in Seq(Int) /\ Len(events[r]) \in Nat
        /\ DOMAIN events[r] = 1 .. Len(events[r])
        /\ Len(Append(events[r], ts)) = Len(events[r]) + 1
        /\ DOMAIN Append(events[r], ts) = 1 .. Len(events[r]) + 1
        /\ \A i \in 1 .. Len(events[r]) : Append(events[r], ts)[i] = events[r][i]
        /\ Append(events[r], ts)[Len(events[r]) + 1] = ts
    BY <1>1, AppendProperties, LenProperties
  <1>3. \A i \in 1 .. Len(events[r]) : events[r][i] \in Int
    BY <1>1, <1>2, ElementOfSeq
  <1>4. events' \in [Rooms -> Seq(Int)] /\ \A q \in Rooms \ {r} : events'[q] = events[q]
    BY <1>1, <1>2
  <1> QED BY <1>1, <1>2, <1>3, <1>4

(* What the rooms hold, in numbers. *)
LEMMA RoomNumbers ==
    ASSUME SyncTypeOK, NEW r \in Rooms
    PROVE  /\ events[r] \in Seq(Int) /\ Len(events[r]) \in Nat
           /\ DOMAIN events[r] = 1 .. Len(events[r])
           /\ \A i \in 1 .. Len(events[r]) : events[r][i] \in Int
           /\ done[r] \in Seq(Nat) /\ Len(done[r]) \in Nat
           /\ DOMAIN done[r] = 1 .. Len(done[r])
           /\ \A j \in DOMAIN done[r] : done[r][j] \in 1 .. Len(events[r])
           /\ pos[r] \in Nat /\ upto[r] \in Nat /\ since[r] \in Nat
           /\ pos[r] <= upto[r] /\ upto[r] <= Len(events[r]) /\ since[r] <= Len(events[r])
  <1>1. events[r] \in Seq(Int) /\ done[r] \in Seq(Nat)
    BY DEF SyncTypeOK
  <1>2. \A i \in 1 .. Len(events[r]) : events[r][i] \in Int
    BY <1>1, ElementOfSeq
  <1> QED BY <1>1, <1>2, LenProperties DEF SyncTypeOK

(* The types of what the bridge reads and acts upon, when its events stay. *)
LEMMA ReadTypes ==
    ASSUME SyncTypeOK, NEW r \in Rooms, Turn(r)
    PROVE  /\ pos[r] + 1 \in 1 .. Len(events[r])
           /\ Read(r) => /\ pos' \in [Rooms -> Nat] /\ reading' \subseteq Rooms /\ upto' = upto
                         /\ pos'[r] = pos[r] + 1
                         /\ \A q \in Rooms : (q # r => pos'[q] = pos[q]) /\ pos'[q] <= upto[q]
           /\ Act(r) => /\ done' \in [Rooms -> Seq(Nat)]
                        /\ \A q \in Rooms : \A j \in DOMAIN done'[q] : done'[q][j] \in 1 .. Len(events[q])
  <1>1. pos[r] + 1 \in 1 .. Len(events[r])
    BY RoomNumbers DEF Turn
  <1>2. ASSUME Read(r)
        PROVE  /\ pos' \in [Rooms -> Nat] /\ reading' \subseteq Rooms /\ upto' = upto
               /\ pos'[r] = pos[r] + 1
               /\ \A q \in Rooms : (q # r => pos'[q] = pos[q]) /\ pos'[q] <= upto[q]
    <2>1. pos \in [Rooms -> Nat] /\ \A q \in Rooms : pos[q] <= upto[q] /\ upto[q] \in Nat
      BY DEF SyncTypeOK
    <2>2. pos' = [pos EXCEPT ![r] = @ + 1] /\ upto' = upto /\ reading' \subseteq {r}
      BY <1>2 DEF Read
    <2> QED BY <2>1, <2>2 DEF Turn
  <1>3. ASSUME Act(r)
        PROVE  /\ done' \in [Rooms -> Seq(Nat)]
               /\ \A q \in Rooms : \A j \in DOMAIN done'[q] : done'[q][j] \in 1 .. Len(events[q])
    <2>1. done \in [Rooms -> Seq(Nat)] /\ pos[r] + 1 \in Nat
      BY <1>1, RoomNumbers DEF SyncTypeOK
    <2>2. /\ done' \in [Rooms -> Seq(Nat)] /\ Len(done[r]) \in Nat
          /\ \A q \in Rooms \ {r} : done'[q] = done[q]
          /\ DOMAIN done'[r] = 1 .. Len(done[r]) + 1 /\ DOMAIN done[r] = 1 .. Len(done[r])
          /\ \A j \in 1 .. Len(done[r]) : done'[r][j] = done[r][j]
          /\ done'[r][Len(done[r]) + 1] = pos[r] + 1
      BY <1>3, <2>1, DoneGrows DEF Act
    <2>3. \A q \in Rooms : \A j \in DOMAIN done[q] : done[q][j] \in 1 .. Len(events[q])
      BY RoomNumbers
    <2>4. \A j \in DOMAIN done'[r] : done'[r][j] \in 1 .. Len(events[r])
      <3> SUFFICES ASSUME NEW j \in DOMAIN done'[r] PROVE done'[r][j] \in 1 .. Len(events[r])
        OBVIOUS
      <3>1. CASE j = Len(done[r]) + 1
        BY <1>1, <2>2, <3>1
      <3>2. CASE j # Len(done[r]) + 1
        <4>1. j \in 1 .. Len(done[r])
          BY <2>2, <3>2
        <4> QED BY <2>2, <2>3, <4>1
      <3> QED BY <3>1, <3>2
    <2> QED BY <2>2, <2>3, <2>4
  <1> QED BY <1>1, <1>2, <1>3

(* What the bridge's actions do to the types, whoever takes them. *)
LEMMA SyncTypes ==
    ASSUME SyncTypeOK
    PROVE  /\ UNCHANGED syncVars => SyncTypeOK'
           /\ Connect \/ ConnectFails \/ Receive \/ SkipEvent \/ SyncFails \/ Sleep \/ HandleEvent
                \/ HandlerRaises \/ Tick \/ SendEvent \/ ServerTurns
              => SyncTypeOK'
  <1> USE Constants DEF world, history, reads, Nothing, Ends
  <1>0. \A r \in Rooms : Len(events[r]) \in Nat
    BY RoomNumbers
  <1>1. ASSUME UNCHANGED syncVars PROVE SyncTypeOK'
    BY <1>1 DEF syncVars, SyncTypeOK
  <1>2. ASSUME Connect PROVE SyncTypeOK'
    <2>1. PICK n \in [Rooms -> UNION {0 .. Ends[r] : r \in Rooms}] :
             (\A r \in Rooms : n[r] <= Ends[r]) /\ upto' = n /\ pos' = n
      BY <1>2 DEF Connect
    <2>2. n \in [Rooms -> Nat]
      BY <1>0
    <2>3. /\ upto' = n /\ pos' = n /\ since' = [r \in Rooms |-> Len(events[r])]
          /\ conn' = "up" /\ delay' = MinDelay /\ started' = clock
          /\ UNCHANGED <<clock, skew, serverUp, events, reading, done>>
      BY <1>2, <2>1 DEF Connect, StartOf
    <2>4. /\ upto' \in [Rooms -> Nat] /\ pos' \in [Rooms -> Nat] /\ since' \in [Rooms -> Nat]
          /\ \A r \in Rooms : /\ pos'[r] <= upto'[r] /\ upto'[r] <= Len(events[r])
                             /\ since'[r] <= Len(events[r])
      BY <1>0, <2>1, <2>2, <2>3
    <2> HIDE DEF Ends
    <2> QED BY <2>3, <2>4 DEF SyncTypeOK
  <1>3. ASSUME ConnectFails PROVE SyncTypeOK'
    BY <1>3 DEF ConnectFails, SyncTypeOK
  <1>4. ASSUME Receive PROVE SyncTypeOK'
    BY <1>0, <1>4 DEF Receive, SyncTypeOK
  <1>5. ASSUME SkipEvent PROVE SyncTypeOK'
    <2>1. PICK r \in Rooms : Turn(r) /\ Read(r)
      BY <1>5 DEF SkipEvent
    <2>2. /\ pos' \in [Rooms -> Nat] /\ reading' \subseteq Rooms /\ upto' = upto
          /\ \A q \in Rooms : pos'[q] <= upto[q]
      BY <2>1, ReadTypes
    <2> QED BY <1>5, <2>2 DEF SkipEvent, SyncTypeOK
  <1>6. ASSUME SyncFails PROVE SyncTypeOK'
    BY <1>0, <1>6 DEF SyncFails, Leave, SyncTypeOK
  <1>7. ASSUME Sleep PROVE SyncTypeOK'
    BY <1>7 DEF Sleep, Pass, Doubled, SyncTypeOK
  <1>8. ASSUME HandleEvent PROVE SyncTypeOK'
    <2>1. PICK r \in Rooms : Turn(r) /\ Act(r) /\ Read(r)
      BY <1>8 DEF HandleEvent
    <2>2. /\ pos' \in [Rooms -> Nat] /\ reading' \subseteq Rooms /\ upto' = upto
          /\ \A q \in Rooms : pos'[q] <= upto[q]
          /\ done' \in [Rooms -> Seq(Nat)]
          /\ \A q \in Rooms : \A j \in DOMAIN done'[q] : done'[q][j] \in 1 .. Len(events[q])
      BY <2>1, ReadTypes
    <2> QED BY <1>8, <2>2 DEF HandleEvent, SyncTypeOK
  <1>9. ASSUME HandlerRaises PROVE SyncTypeOK'
    <2>1. PICK r \in Rooms : Turn(r) /\ (Act(r) \/ UNCHANGED done)
      BY <1>9 DEF HandlerRaises
    <2>2. /\ done' \in [Rooms -> Seq(Nat)]
          /\ \A q \in Rooms : \A j \in DOMAIN done'[q] : done'[q][j] \in 1 .. Len(events[q])
      <3>1. CASE Act(r)
        BY <2>1, <3>1, ReadTypes
      <3>2. CASE UNCHANGED done
        BY <3>2 DEF SyncTypeOK
      <3> QED BY <2>1, <3>1, <3>2
    <2>3. /\ UNCHANGED <<clock, skew, serverUp, delay, started, events>> /\ conn' = "sleeping"
          /\ upto' = Nothing /\ pos' = Nothing /\ since' = Nothing /\ reading' = {}
      BY <1>9 DEF HandlerRaises, Leave
    <2> QED BY <1>0, <2>2, <2>3 DEF SyncTypeOK
  <1>10. ASSUME Tick PROVE SyncTypeOK'
    BY <1>10 DEF Tick, Pass, SyncTypeOK
  <1>11. ASSUME SendEvent PROVE SyncTypeOK'
    <2>1. clock + skew \in Int /\ events \in [Rooms -> Seq(Int)]
      BY DEF SyncTypeOK
    <2>2. PICK r \in Rooms : events' = [events EXCEPT ![r] = Append(@, clock + skew)]
      BY <1>11 DEF SendEvent
    <2>3. /\ events' \in [Rooms -> Seq(Int)]
          /\ \A q \in Rooms : Len(events'[q]) \in Nat /\ Len(events[q]) <= Len(events'[q])
      BY <1>0, <2>1, <2>2, EventsGrow
    <2>4. UNCHANGED <<clock, skew, serverUp, conn, delay, started, upto, pos, reading, since, done>>
      BY <1>11 DEF SendEvent
    <2>5. \A q \in Rooms : /\ pos[q] <= upto[q] /\ upto[q] <= Len(events'[q])
                          /\ since[q] <= Len(events'[q])
                          /\ \A j \in DOMAIN done[q] : done[q][j] \in 1 .. Len(events'[q])
      <3> SUFFICES ASSUME NEW q \in Rooms
                   PROVE  /\ pos[q] <= upto[q] /\ upto[q] <= Len(events'[q])
                          /\ since[q] <= Len(events'[q])
                          /\ \A j \in DOMAIN done[q] : done[q][j] \in 1 .. Len(events'[q])
        OBVIOUS
      <3>1. Len(events'[q]) \in Nat /\ Len(events[q]) <= Len(events'[q])
        BY <2>3
      <3>2. /\ pos[q] <= upto[q] /\ upto[q] <= Len(events[q]) /\ since[q] <= Len(events[q])
            /\ upto[q] \in Nat /\ since[q] \in Nat /\ Len(events[q]) \in Nat
            /\ \A j \in DOMAIN done[q] : done[q][j] \in 1 .. Len(events[q])
        BY RoomNumbers
      <3> QED BY <3>1, <3>2
    <2> QED BY <2>3, <2>4, <2>5 DEF SyncTypeOK
  <1>12. ASSUME ServerTurns PROVE SyncTypeOK'
    BY <1>12 DEF ServerTurns, SyncTypeOK
  <1> QED BY <1>1, <1>2, <1>3, <1>4, <1>5, <1>6, <1>7, <1>8, <1>9, <1>10, <1>11, <1>12

LEMMA TypeNext == TypeOK /\ PhaseFits /\ [Next]_vars => TypeOK'
  <1> SUFFICES ASSUME TypeOK, PhaseFits, [Next]_vars PROVE TypeOK'
    OBVIOUS
  <1> DEFINE Process == /\ phase' \in Phases /\ attempt' \in 0 .. Retries
                        /\ schema' \in 0 .. LastRevision /\ dbUp' \in BOOLEAN
                        /\ bridge' \in {"none", "running", "cancelled", "ended"}
                        /\ open' \subseteq Resources /\ updating' \in BOOLEAN
                        /\ exit' \in {"none", "failed", "stopped", "updating", "stuck", "killed"}
  <1> USE Constants DEF TypeOK
  <1>1. SyncTypeOK'
    <2>1. CASE Start
      BY <2>1 DEF Start, Pass, SyncTypeOK, history, reads
    <2>2. CASE Retry
      BY <2>2 DEF Retry, Pass, SyncTypeOK, history, reads
    <2>3. CASE BridgeActs \/ BridgeGoesOn
      BY <2>3, SyncTypes DEF BridgeActs, BridgeGoesOn
    <2>4. CASE BridgeEnds \/ CancelLost \/ Kill
      <3>1. \A r \in Rooms : Len(events[r]) \in Nat
        BY RoomNumbers
      <3> QED BY <2>4, <3>1 DEF BridgeEnds, CancelLost, Kill, Leave, Nothing, SyncTypeOK, world
    <2>5. CASE World
      BY <2>5, SyncTypes DEF World
    <2>6. CASE UNCHANGED syncVars
      BY <2>6, SyncTypes
    <2> QED BY <2>1, <2>2, <2>3, <2>4, <2>5, <2>6
            DEF Next, Main, Bridge, Migrate, MigrateFails, StartUp, Listen, Shutdown, Cancel,
                Awaited, ReleaseAll, Release, DatabaseTurns, StartUpFails, Stop, UpdateComes,
                UpdateGoesOn, UpdateEnds, vars
  <1>2. Process
    <2> USE DEF Phases, Stopping, Releases, Resources
    <2>1. CASE Start
      BY <2>1 DEF Start
    <2>2. CASE Migrate
      BY <2>2 DEF Migrate
    <2>3. CASE MigrateFails
      BY <2>3 DEF MigrateFails, AfterFailure
    <2>4. CASE Retry
      BY <2>4 DEF Retry, PhaseFits
    <2>5. CASE StartUp \/ Listen
      BY <2>5 DEF StartUp, Listen
    <2>6. CASE Shutdown \/ Cancel \/ Awaited
      BY <2>6 DEF Shutdown, Cancel, Awaited
    <2>7. CASE ReleaseAll
      BY <2>7 DEF ReleaseAll, Release
    <2>8. CASE BridgeActs
      BY <2>8 DEF BridgeActs
    <2>9. CASE BridgeGoesOn \/ World \/ UNCHANGED vars
      <3>1. UNCHANGED processVars
        BY <2>9 DEF BridgeGoesOn, World, vars
      <3> QED BY <3>1 DEF processVars
    <2>10. CASE BridgeEnds \/ CancelLost
      BY <2>10 DEF BridgeEnds, CancelLost
    <2>11. CASE DatabaseTurns \/ StartUpFails \/ Stop
      BY <2>11 DEF DatabaseTurns, StartUpFails, Stop
    <2>12. CASE Kill
      <3>1. attempt' \in 0 .. Retries
        BY <2>12 DEF Kill
      <3>2. open' \subseteq Resources /\ updating' \in BOOLEAN
        BY <2>12 DEF Kill
      <3>3. schema' = schema /\ dbUp' = dbUp
        BY <2>12 DEF Kill
      <3>4. phase' = "down" /\ bridge' = "none" /\ exit' = "killed"
        BY <2>12 DEF Kill
      <3> QED BY <3>1, <3>2, <3>3, <3>4
    <2>13. CASE UpdateComes \/ UpdateGoesOn \/ UpdateEnds
      BY <2>13 DEF UpdateComes, UpdateGoesOn, UpdateEnds
    <2> QED BY <2>1, <2>2, <2>3, <2>4, <2>5, <2>6, <2>7, <2>8, <2>9, <2>10, <2>11, <2>12, <2>13
            DEF Next, Main, Bridge
  <1> QED BY <1>1, <1>2

----------------------------------------------------------------------------
(* The process.                                                            *)

LEMMA PhaseNext == IInv /\ [Next]_vars => PhaseFits'
  <1> SUFFICES ASSUME IInv, [Next]_vars PROVE PhaseFits'
    OBVIOUS
  <1> USE Constants DEF IInv, TypeOK, PhaseFits, Stopping, Releases
  <1>1. CASE Start
    BY <1>1 DEF Start
  <1>2. CASE Migrate
    BY <1>2 DEF Migrate, syncVars
  <1>3. CASE MigrateFails
    BY <1>3 DEF MigrateFails, AfterFailure, syncVars
  <1>4. CASE Retry
    BY <1>4 DEF Retry
  <1>5. CASE StartUp \/ Listen
    BY <1>5 DEF StartUp, Listen, syncVars
  <1>6. CASE StartUpFails \/ Stop \/ DatabaseTurns
    <2>1. CASE StartUpFails
      BY <2>1 DEF StartUpFails, syncVars
    <2>2. CASE Stop
      BY <2>2 DEF Stop, syncVars
    <2>3. CASE DatabaseTurns
      <3>1. UNCHANGED <<syncVars, phase, attempt, schema, bridge, open, updating, exit>>
        BY <2>3 DEF DatabaseTurns
      <3> QED BY <3>1 DEF syncVars, history
    <2> QED BY <1>6, <2>1, <2>2, <2>3
  <1>7. CASE Shutdown \/ Cancel \/ Awaited
    BY <1>7 DEF Shutdown, Cancel, Awaited, syncVars
  <1>8. CASE ReleaseAll
    BY <1>8 DEF ReleaseAll, Release, syncVars
  <1>9. CASE BridgeActs
    BY <1>9 DEF BridgeActs
  <1>10. CASE BridgeGoesOn
    BY <1>10 DEF BridgeGoesOn, processVars
  <1>11. CASE BridgeEnds
    BY <1>11 DEF BridgeEnds, Leave
  <1>12. CASE CancelLost
    BY <1>12 DEF CancelLost, Leave
  <1>13. CASE Kill
    BY <1>13 DEF Kill, Leave
  <1>14. CASE UpdateComes \/ UpdateGoesOn \/ UpdateEnds
    BY <1>14 DEF UpdateComes, UpdateGoesOn, UpdateEnds, syncVars
  <1>15. CASE World
    BY <1>15 DEF World, Tick, SendEvent, ServerTurns, processVars, history
  <1>16. CASE UNCHANGED vars
    BY <1>16 DEF vars, syncVars, processVars, history
  <1> QED BY <1>1, <1>2, <1>3, <1>4, <1>5, <1>6, <1>7, <1>8, <1>9, <1>10, <1>11, <1>12, <1>13,
             <1>14, <1>15, <1>16 DEF Next, Main, Bridge

LEMMA ReleasesNext == IInv /\ [Next]_vars => ReleasesFit'
  <1> SUFFICES ASSUME IInv, [Next]_vars PROVE ReleasesFit'
    OBVIOUS
  <1> USE DEF IInv, TypeOK, PhaseFits, ReleasesFit, Stopping, Releases
  <1>1. CASE Start
    BY <1>1 DEF Start
  <1>2. CASE Migrate \/ Retry
    BY <1>2 DEF Migrate, Retry
  <1>3. CASE MigrateFails
    BY <1>3 DEF MigrateFails, AfterFailure
  <1>4. CASE StartUp \/ Listen
    BY <1>4 DEF StartUp, Listen
  <1>5. CASE StartUpFails \/ Stop \/ DatabaseTurns
    BY <1>5 DEF StartUpFails, Stop, DatabaseTurns
  <1>6. CASE Shutdown \/ Cancel \/ Awaited
    BY <1>6 DEF Shutdown, Cancel, Awaited
  <1>7. CASE ReleaseAll
    BY <1>7 DEF ReleaseAll, Release, Resources
  <1>8. CASE BridgeActs
    BY <1>8 DEF BridgeActs
  <1>9. CASE BridgeGoesOn \/ World \/ UNCHANGED vars
    BY <1>9 DEF BridgeGoesOn, World, vars, processVars
  <1>10. CASE BridgeEnds \/ CancelLost
    BY <1>10 DEF BridgeEnds, CancelLost
  <1>11. CASE Kill
    BY <1>11 DEF Kill
  <1>12. CASE UpdateComes \/ UpdateGoesOn \/ UpdateEnds
    BY <1>12 DEF UpdateComes, UpdateGoesOn, UpdateEnds
  <1> QED BY <1>1, <1>2, <1>3, <1>4, <1>5, <1>6, <1>7, <1>8, <1>9, <1>10, <1>11, <1>12
          DEF Next, Main, Bridge

----------------------------------------------------------------------------
(* The bridge.                                                             *)

(* What every step of the process is to the bridge. *)
LEMMA SyncSteps ==
    ASSUME IInv, [Next]_vars
    PROVE  \/ Start \/ Retry
           \/ Connect \/ ConnectFails \/ Receive \/ SkipEvent \/ SyncFails \/ Sleep
           \/ HandleEvent \/ HandlerRaises
           \/ BridgeEnds \/ CancelLost \/ Kill
           \/ Tick \/ SendEvent \/ ServerTurns
           \/ UNCHANGED syncVars
  BY DEF Next, Main, Bridge, World, Migrate, MigrateFails, StartUp, Listen, StartUpFails, Stop,
         DatabaseTurns, Shutdown, Cancel, Awaited, ReleaseAll, Release, UpdateComes, UpdateGoesOn,
         UpdateEnds, BridgeActs, BridgeGoesOn, vars

(* The numbers of a room and of the clocks, from the invariant. *)
LEMMA Numbers ==
    ASSUME IInv
    PROVE  /\ SyncTypeOK
           /\ clock \in Nat /\ skew \in Int /\ started \in 0 .. clock /\ delay \in MinDelay .. MaxDelay
           /\ events \in [Rooms -> Seq(Int)] /\ done \in [Rooms -> Seq(Nat)]
           /\ pos \in [Rooms -> Nat] /\ since \in [Rooms -> Nat]
           /\ \A r \in Rooms :
                 /\ Len(events[r]) \in Nat /\ DOMAIN events[r] = 1 .. Len(events[r])
                 /\ \A i \in 1 .. Len(events[r]) : events[r][i] \in Int /\ events[r][i] <= clock + skew
                 /\ Len(done[r]) \in Nat /\ DOMAIN done[r] = 1 .. Len(done[r])
                 /\ \A j \in DOMAIN done[r] : done[r][j] \in 1 .. Len(events[r])
                 /\ pos[r] \in 0 .. Len(events[r]) /\ since[r] \in 0 .. Len(events[r])
  <1>1. SyncTypeOK /\ StampsFit
    BY DEF IInv, TypeOK
  <1>2. /\ clock \in Nat /\ skew \in Int /\ started \in 0 .. clock /\ delay \in MinDelay .. MaxDelay
        /\ events \in [Rooms -> Seq(Int)] /\ done \in [Rooms -> Seq(Nat)]
        /\ pos \in [Rooms -> Nat] /\ since \in [Rooms -> Nat]
    BY <1>1, Constants DEF SyncTypeOK
  <1>3. ASSUME NEW r \in Rooms
        PROVE  /\ Len(events[r]) \in Nat /\ DOMAIN events[r] = 1 .. Len(events[r])
               /\ \A i \in 1 .. Len(events[r]) : events[r][i] \in Int
               /\ Len(done[r]) \in Nat /\ DOMAIN done[r] = 1 .. Len(done[r])
               /\ \A j \in DOMAIN done[r] : done[r][j] \in 1 .. Len(events[r])
               /\ pos[r] \in 0 .. Len(events[r]) /\ since[r] \in 0 .. Len(events[r])
    <2>1. /\ Len(events[r]) \in Nat /\ DOMAIN events[r] = 1 .. Len(events[r])
          /\ \A i \in 1 .. Len(events[r]) : events[r][i] \in Int
          /\ Len(done[r]) \in Nat /\ DOMAIN done[r] = 1 .. Len(done[r])
          /\ \A j \in DOMAIN done[r] : done[r][j] \in 1 .. Len(events[r])
      BY <1>1, RoomNumbers
    <2>2. pos[r] \in Nat /\ upto[r] \in Nat /\ pos[r] <= upto[r] /\ upto[r] <= Len(events[r])
      BY <1>1, RoomNumbers
    <2>3. since[r] \in Nat /\ since[r] <= Len(events[r])
      BY <1>1, RoomNumbers
    <2> QED BY <2>1, <2>2, <2>3
  <1> QED BY <1>1, <1>2, <1>3 DEF StampsFit

(* The events of a room after one is sent. *)
LEMMA EventSent ==
    ASSUME IInv, SendEvent
    PROVE  \E r \in Rooms :
              /\ \A q \in Rooms \ {r} : events'[q] = events[q]
              /\ Len(events'[r]) = Len(events[r]) + 1
              /\ DOMAIN events'[r] = 1 .. Len(events[r]) + 1
              /\ \A i \in 1 .. Len(events[r]) : events'[r][i] = events[r][i]
              /\ events'[r][Len(events[r]) + 1] = clock + skew
  <1>1. PICK r \in Rooms : events' = [events EXCEPT ![r] = Append(@, clock + skew)]
    BY DEF SendEvent
  <1>2. events \in [Rooms -> Seq(Int)] /\ clock + skew \in Int
    BY Numbers
  <1>3. /\ \A q \in Rooms \ {r} : events'[q] = events[q]
        /\ Len(events'[r]) = Len(events[r]) + 1
        /\ DOMAIN events'[r] = 1 .. Len(events[r]) + 1
        /\ \A i \in 1 .. Len(events[r]) : events'[r][i] = events[r][i]
        /\ events'[r][Len(events[r]) + 1] = clock + skew
    BY <1>1, <1>2, EventsGrow
  <1> QED BY <1>3

(* The next event of a room, and the history once it is acted upon. *)
LEMMA EventActed ==
    ASSUME IInv, NEW r \in Rooms, Turn(r), Act(r)
    PROVE  /\ \A q \in Rooms \ {r} : done'[q] = done[q]
           /\ DOMAIN done'[r] = 1 .. Len(done[r]) + 1
           /\ \A j \in 1 .. Len(done[r]) : done'[r][j] = done[r][j]
           /\ done'[r][Len(done[r]) + 1] = pos[r] + 1
  <1>1. done \in [Rooms -> Seq(Nat)] /\ pos[r] + 1 \in Nat
    BY Numbers
  <1> QED BY <1>1, DoneGrows DEF Act

LEMMA StampsNext == IInv /\ [Next]_vars => StampsFit'
  <1> SUFFICES ASSUME IInv, [Next]_vars PROVE StampsFit'
    OBVIOUS
  <1>0. /\ SyncTypeOK /\ StampsFit /\ skew \in Int /\ clock \in Nat /\ started \in 0 .. clock
        /\ \A r \in Rooms : /\ Len(events[r]) \in Nat /\ DOMAIN events[r] = 1 .. Len(events[r])
                            /\ \A i \in DOMAIN events[r] : events[r][i] \in Int
                            /\ since[r] \in 0 .. Len(events[r])
        /\ conn = "up" => bridge \in {"running", "cancelled"}
    BY Numbers DEF IInv, TypeOK, PhaseFits
  <1> USE Constants DEF world, history
  <1>s. ASSUME UNCHANGED <<events, skew>>, NEW c \in Int, clock' = c, clock <= c,
               conn' # "up" \/ UNCHANGED <<conn, since, started>>
        PROVE  StampsFit'
    BY <1>0, <1>s DEF StampsFit
  <1>1. CASE Start
    <2>1. conn = "closed"
      BY <1>1 DEF Start, IInv, PhaseFits
    <2>2. clock' \in Int /\ clock <= clock'
      BY <1>0, <1>1 DEF Start, Pass
    <2> QED BY <1>1, <1>s, <2>1, <2>2 DEF Start
  <1>2. CASE Retry
    <2>1. clock' \in Int /\ clock <= clock'
      BY <1>0, <1>2 DEF Retry, Pass
    <2> QED BY <1>2, <1>s, <2>1 DEF Retry
  <1>3. CASE Connect
    BY <1>0, <1>3 DEF Connect, Ends, StampsFit
  <1>4. CASE ConnectFails \/ Receive \/ SkipEvent \/ SyncFails \/ HandleEvent \/ HandlerRaises
    <2>1. UNCHANGED <<events, skew, clock>> /\ (conn' # "up" \/ UNCHANGED <<conn, since, started>>)
      BY <1>4 DEF ConnectFails, Receive, SkipEvent, SyncFails, HandleEvent, HandlerRaises, Leave
    <2> QED BY <1>0, <1>s, <2>1
  <1>5. CASE Sleep
    <2>1. clock' \in Int /\ clock <= clock'
      BY <1>0, <1>5 DEF Sleep, Pass, SyncTypeOK
    <2> QED BY <1>5, <1>s, <2>1 DEF Sleep
  <1>6. CASE BridgeEnds \/ CancelLost \/ Kill
    <2>1. UNCHANGED <<events, skew, clock>> /\ conn' # "up"
      BY <1>6 DEF BridgeEnds, CancelLost, Kill, Leave
    <2> QED BY <1>0, <1>s, <2>1
  <1>7. CASE Tick \/ ServerTurns
    <2>1. clock' \in Int /\ clock <= clock' /\ UNCHANGED <<events, skew, conn, since, started>>
      BY <1>0, <1>7 DEF Tick, ServerTurns, Pass
    <2> QED BY <1>s, <2>1
  <1>8. CASE SendEvent
    <2>1. PICK r \in Rooms :
             /\ \A q \in Rooms \ {r} : events'[q] = events[q]
             /\ Len(events'[r]) = Len(events[r]) + 1
             /\ DOMAIN events'[r] = 1 .. Len(events[r]) + 1
             /\ \A i \in 1 .. Len(events[r]) : events'[r][i] = events[r][i]
             /\ events'[r][Len(events[r]) + 1] = clock + skew
      BY <1>8, EventSent
    <2>2. UNCHANGED <<clock, skew, conn, started, since>>
      BY <1>8 DEF SendEvent
    <2>3. /\ \A i, j \in DOMAIN events'[r] : i < j => events'[r][i] <= events'[r][j]
          /\ \A i \in DOMAIN events'[r] : events'[r][i] <= clock + skew
          /\ conn = "up" => \A i \in since[r] + 1 .. Len(events'[r]) : started + skew <= events'[r][i]
      <3>1. /\ \A i, j \in 1 .. Len(events[r]) : i < j => events[r][i] <= events[r][j]
            /\ \A i \in 1 .. Len(events[r]) : events[r][i] <= clock + skew
            /\ conn = "up" => \A i \in since[r] + 1 .. Len(events[r]) : started + skew <= events[r][i]
        BY <1>0 DEF StampsFit
      <3>2. started + skew <= clock + skew
        BY <1>0
      <3>3. /\ Len(events[r]) \in Nat /\ since[r] \in 0 .. Len(events[r])
            /\ \A i \in 1 .. Len(events[r]) : events[r][i] \in Int
        BY <1>0
      <3>4. ASSUME NEW i \in DOMAIN events'[r], NEW j \in DOMAIN events'[r], i < j
            PROVE  events'[r][i] <= events'[r][j]
        <4>1. i \in 1 .. Len(events[r]) /\ events'[r][i] = events[r][i]
          BY <2>1, <3>3, <3>4
        <4>2. CASE j = Len(events[r]) + 1
          BY <2>1, <3>1, <4>1, <4>2
        <4>3. CASE j # Len(events[r]) + 1
          BY <2>1, <3>1, <3>3, <3>4, <4>1, <4>3
        <4> QED BY <4>2, <4>3
      <3>5. ASSUME NEW i \in DOMAIN events'[r]
            PROVE  /\ events'[r][i] <= clock + skew
                   /\ conn = "up" /\ i > since[r] => started + skew <= events'[r][i]
        <4>1. CASE i = Len(events[r]) + 1
          BY <1>0, <2>1, <3>2, <4>1
        <4>2. CASE i # Len(events[r]) + 1
          <5>1. i \in 1 .. Len(events[r]) /\ events'[r][i] = events[r][i]
            BY <2>1, <3>3, <4>2
          <5> QED BY <3>1, <3>3, <5>1
        <4> QED BY <4>1, <4>2
      <3>6. \A i \in since[r] + 1 .. Len(events'[r]) : i \in DOMAIN events'[r] /\ i > since[r]
        BY <2>1, <3>3
      <3> QED BY <3>4, <3>5, <3>6
    <2>4. ASSUME NEW q \in Rooms
          PROVE  /\ \A i, j \in DOMAIN events'[q] : i < j => events'[q][i] <= events'[q][j]
                 /\ \A i \in DOMAIN events'[q] : events'[q][i] <= clock + skew
                 /\ conn = "up" => \A i \in since[q] + 1 .. Len(events'[q]) : started + skew <= events'[q][i]
      <3>1. CASE q = r
        BY <2>3, <3>1
      <3>2. CASE q # r
        <4>1. events'[q] = events[q]
          BY <2>1, <3>2
        <4> QED BY <1>0, <4>1 DEF StampsFit
      <3> QED BY <3>1, <3>2
    <2> QED BY <2>2, <2>4 DEF StampsFit
  <1>9. CASE UNCHANGED syncVars
    BY <1>0, <1>9, <1>s DEF syncVars
  <1> QED BY <1>1, <1>2, <1>3, <1>4, <1>5, <1>6, <1>7, <1>8, <1>9, SyncSteps

LEMMA SentNext == IInv /\ [Next]_vars => SentWhileUpIsHandled'
  <1> SUFFICES ASSUME IInv, [Next]_vars PROVE SentWhileUpIsHandled'
    OBVIOUS
  <1>0. SyncTypeOK /\ SentWhileUpIsHandled
    BY DEF IInv, TypeOK
  <1> USE DEF world, history, reads
  <1>s. ASSUME conn' # "up" \/ UNCHANGED <<conn, skew, since, pos, done>>
        PROVE  SentWhileUpIsHandled'
    BY <1>0, <1>s DEF SentWhileUpIsHandled
  <1>r. ASSUME NEW r \in Rooms, Turn(r), Read(r), UNCHANGED <<conn, skew, since>>,
               \A q \in Rooms \ {r} : done'[q] = done[q],
               \A i : (\E j \in DOMAIN done[r] : done[r][j] = i) => (\E j \in DOMAIN done'[r] : done'[r][j] = i),
               skew >= 0 /\ pos[r] + 1 > since[r] => \E j \in DOMAIN done'[r] : done'[r][j] = pos[r] + 1
        PROVE  SentWhileUpIsHandled'
    <2>1. /\ pos'[r] = pos[r] + 1 /\ \A q \in Rooms \ {r} : pos'[q] = pos[q]
          /\ pos[r] \in Nat /\ since[r] \in Nat
      BY <1>0, <1>r, ReadTypes, RoomNumbers
    <2> SUFFICES ASSUME conn = "up", skew >= 0, NEW q \in Rooms, NEW i \in since[q] + 1 .. pos'[q]
                 PROVE  \E j \in DOMAIN done'[q] : done'[q][j] = i
      BY <1>r DEF SentWhileUpIsHandled
    <2>2. CASE q # r
      BY <1>0, <1>r, <2>1, <2>2 DEF SentWhileUpIsHandled
    <2>3. CASE q = r /\ i = pos[r] + 1
      BY <1>r, <2>1, <2>3
    <2>4. CASE q = r /\ i # pos[r] + 1
      <3>1. i \in since[r] + 1 .. pos[r]
        BY <2>1, <2>4
      <3>2. \E j \in DOMAIN done[r] : done[r][j] = i
        BY <1>0, <3>1 DEF SentWhileUpIsHandled
      <3> QED BY <1>r, <2>4, <3>2
    <2> QED BY <2>2, <2>3, <2>4
  <1>1. CASE Start \/ Retry
    <2>1. conn' = conn /\ conn = "closed"
      BY <1>1 DEF Start, Retry, IInv, PhaseFits
    <2> QED BY <1>s, <2>1
  <1>2. CASE Connect
    <2>1. PICK n \in [Rooms -> UNION {0 .. Ends[r] : r \in Rooms}] :
             (\A r \in Rooms : n[r] <= Ends[r]) /\ pos' = n
      BY <1>2 DEF Connect
    <2>2. \A r \in Rooms : since'[r] = Len(events[r]) /\ pos'[r] \in Int /\ pos'[r] <= Len(events[r])
      BY <1>2, <2>1, Numbers DEF Connect, Ends
    <2>3. \A r \in Rooms : Len(events[r]) \in Nat
      BY Numbers
    <2> QED BY <2>2, <2>3 DEF SentWhileUpIsHandled
  <1>3. CASE ConnectFails \/ SyncFails \/ HandlerRaises \/ Sleep
    <2>1. conn' # "up"
      BY <1>3 DEF ConnectFails, SyncFails, HandlerRaises, Sleep, Leave
    <2> QED BY <1>s, <2>1
  <1>4. CASE Receive
    BY <1>4, <1>s DEF Receive
  <1>5. CASE SkipEvent
    <2>1. PICK r \in Rooms : Turn(r) /\ Old(Event(r)) /\ Read(r)
      BY <1>5 DEF SkipEvent
    <2>2. pos[r] + 1 \in 1 .. Len(events[r]) /\ events[r][pos[r] + 1] < started
      BY <1>0, <2>1, ReadTypes DEF Old, Event
    <2>3. ASSUME skew >= 0, pos[r] + 1 > since[r] PROVE FALSE
      <3>1. started + skew <= events[r][pos[r] + 1]
        <4>1. conn = "up"
          BY <2>1 DEF Turn
        <4>2. pos[r] + 1 \in since[r] + 1 .. Len(events[r])
          BY <2>2, <2>3, Numbers
        <4> QED BY <4>1, <4>2 DEF IInv, StampsFit
      <3> QED BY <2>2, <2>3, <3>1, Numbers
    <2> QED BY <1>5, <1>r, <2>1, <2>3 DEF SkipEvent
  <1>6. CASE HandleEvent
    <2>1. PICK r \in Rooms : Turn(r) /\ Act(r) /\ Read(r)
      BY <1>6 DEF HandleEvent
    <2>2. /\ \A q \in Rooms \ {r} : done'[q] = done[q]
          /\ DOMAIN done[r] = 1 .. Len(done[r]) /\ Len(done[r]) \in Nat
          /\ DOMAIN done'[r] = 1 .. Len(done[r]) + 1
          /\ \A j \in 1 .. Len(done[r]) : done'[r][j] = done[r][j]
          /\ done'[r][Len(done[r]) + 1] = pos[r] + 1
      BY <2>1, EventActed, Numbers
    <2>3. \A i : (\E j \in DOMAIN done[r] : done[r][j] = i) => (\E j \in DOMAIN done'[r] : done'[r][j] = i)
      BY <2>2
    <2>4. \E j \in DOMAIN done'[r] : done'[r][j] = pos[r] + 1
      BY <2>2
    <2>5. UNCHANGED <<conn, skew, since>>
      BY <1>6 DEF HandleEvent
    <2> QED BY <1>r, <2>1, <2>2, <2>3, <2>4, <2>5
  <1>7. CASE BridgeEnds \/ CancelLost \/ Kill
    <2>1. conn' # "up"
      BY <1>7 DEF BridgeEnds, CancelLost, Kill, Leave
    <2> QED BY <1>s, <2>1
  <1>8. CASE Tick \/ SendEvent \/ ServerTurns
    BY <1>8, <1>s DEF Tick, SendEvent, ServerTurns
  <1>9. CASE UNCHANGED syncVars
    BY <1>9, <1>s DEF syncVars
  <1> QED BY <1>1, <1>2, <1>3, <1>4, <1>5, <1>6, <1>7, <1>8, <1>9, SyncSteps

----------------------------------------------------------------------------
(* The times of what was sent and acted upon.                              *)

(* What was acted upon was sent. *)
LEMMA SentDone ==
    ASSUME IInv, NEW c \in Int, SentBefore(c)
    PROVE  DoneBefore(c)
  BY Numbers DEF SentBefore, DoneBefore

(* Time passes over a wait that is longer than the homeserver's clock is ahead. *)
LEMMA WaitTells ==
    ASSUME IInv, NEW d \in Nat, skew < d
    PROVE  SentBefore(clock + d) /\ DoneBefore(clock + d)
  <1>1. ASSUME NEW r \in Rooms, NEW i \in DOMAIN events[r] PROVE events[r][i] < clock + d
    <2>1. events[r][i] \in Int /\ events[r][i] <= clock + skew /\ clock \in Nat /\ skew \in Int
      BY <1>1, Numbers
    <2> QED BY <2>1
  <1>2. SentBefore(clock + d)
    BY <1>1 DEF SentBefore
  <1> QED BY <1>2, Numbers, SentDone

(* What was acted upon before is in time for later. *)
LEMMA Later ==
    ASSUME IInv, NEW c \in Int, NEW d \in Int, c <= d, DoneBefore(c)
    PROVE  DoneBefore(d)
  <1> SUFFICES ASSUME NEW r \in Rooms, NEW j \in DOMAIN done[r] PROVE events[r][done[r][j]] < d
    BY DEF DoneBefore
  <1>1. events[r][done[r][j]] \in Int
    <2>1. done[r][j] \in 1 .. Len(events[r])
      BY Numbers
    <2> QED BY <2>1, Numbers
  <1>2. events[r][done[r][j]] < c
    BY DEF DoneBefore
  <1> QED BY <1>1, <1>2

(* An event that is acted upon comes after all of its room that were. *)
LEMMA NextIsLater ==
    ASSUME IInv, Ahead, NEW r \in Rooms, Turn(r), ~Old(Event(r))
    PROVE  \A j \in DOMAIN done[r] : done[r][j] < pos[r] + 1
  <1> SUFFICES ASSUME NEW j \in DOMAIN done[r], ~(done[r][j] < pos[r] + 1) PROVE FALSE
    BY Numbers
  <1>1. pos[r] + 1 \in 1 .. Len(events[r]) /\ conn = "up"
    BY Numbers, ReadTypes DEF Turn
  <1>2. /\ events[r][pos[r] + 1] \in Int /\ events[r][done[r][j]] \in Int
        /\ done[r][j] \in 1 .. Len(events[r])
    BY <1>1, Numbers
  <1>n. pos[r] \in Nat /\ started \in Nat
    BY Numbers
  <1>3. events[r][done[r][j]] < started
    <2>1. done[r][j] <= pos[r] \/ events[r][done[r][j]] < started
      BY <1>1 DEF IInv, ReadOnce, Over
    <2> QED BY <1>2, <1>n, <2>1
  <1>4. events[r][pos[r] + 1] <= events[r][done[r][j]]
    <2>1. CASE done[r][j] = pos[r] + 1
      BY <1>2, <2>1
    <2>2. CASE pos[r] + 1 < done[r][j]
      BY <1>1, <1>2, <2>2, Numbers DEF IInv, StampsFit
    <2> QED BY <1>1, <1>2, <2>1, <2>2, Numbers
  <1>5. started <= events[r][pos[r] + 1]
    BY <1>2, <1>n DEF Old, Event
  <1> QED BY <1>2, <1>3, <1>4, <1>5, <1>n

LEMMA OnceNext == IInv /\ [Next]_vars => ReadOnce'
  <1> SUFFICES ASSUME IInv, [Next]_vars, Ahead' PROVE ReadOnce'
    BY DEF ReadOnce
  <1>0. Ahead /\ skew' = skew
    <2>1. skew' = skew
      BY SyncSteps DEF Start, Retry, Connect, ConnectFails, Receive, SkipEvent, SyncFails, Sleep,
                       HandleEvent, HandlerRaises, BridgeEnds, CancelLost, Kill, Tick, SendEvent,
                       ServerTurns, world, syncVars
    <2> QED BY <2>1 DEF Ahead
  <1>a. Ordered /\ Over /\ (Idle => DoneBefore(clock)) /\ (conn # "up" /\ Late => DoneBefore(clock))
    BY <1>0 DEF IInv, ReadOnce, LateFits
  <1>b. SUFFICES Ordered' /\ Over' /\ (Idle' => DoneBefore(clock)')
    BY DEF ReadOnce
  <1>s. ASSUME UNCHANGED <<done, events>>, NEW c \in Int, clock' = c, DoneBefore(c)
        PROVE  Ordered' /\ DoneBefore(clock)'
    BY <1>a, <1>s DEF Ordered, DoneBefore
  <1>c. clock \in Nat /\ skew \in Int
    BY Numbers
  <1>1. CASE Start
    <2>1. conn = "closed" /\ conn' = "closed" /\ UNCHANGED <<done, events>>
      BY <1>1 DEF Start, IInv, PhaseFits, history
    <2>2. clock' \in Nat /\ DoneBefore(clock')
      <3>1. CASE exit = "none"
        <4>1. \A r \in Rooms : DOMAIN done[r] = {}
          BY <1>1, <3>1, EmptySeq DEF Start, IInv, PhaseFits
        <4>2. clock' \in Nat
          BY <1>1, <3>1, <1>c, Constants DEF Start, Pass
        <4> QED BY <4>1, <4>2 DEF DoneBefore
      <3>2. CASE exit # "none" /\ Late
        BY <1>1, <1>a, <1>c, <2>1, <3>2, Constants DEF Start, Pass, Late
      <3>3. CASE exit # "none" /\ ~Late
        <4>1. clock' = clock + RestartTime
          BY <1>1, <1>c, <3>3, Constants DEF Start, Pass, Late
        <4> QED BY <1>0, <1>c, <4>1, WaitTells, Constants DEF Ahead
      <3> QED BY <3>1, <3>2, <3>3
    <2> QED BY <2>1, <2>2, <1>s DEF Over
  <1>2. CASE Retry
    <2>1. conn' = "closed" /\ Idle /\ UNCHANGED <<done, events>>
      BY <1>2 DEF Retry, IInv, PhaseFits, history, Idle
    <2>2. clock' \in Nat /\ clock <= clock'
      BY <1>2, <1>c, Constants DEF Retry, Pass
    <2>3. DoneBefore(clock')
      BY <1>a, <1>c, <2>1, <2>2, Later
    <2> QED BY <2>1, <2>2, <2>3, <1>s DEF Over
  <1>3. CASE BridgeGoesOn /\ Connect
    <2>1. Idle
      BY <1>3 DEF BridgeGoesOn, Connect, Idle
    <2>2. started' = clock /\ conn' = "up" /\ UNCHANGED <<done, events>>
      BY <1>3 DEF Connect, StartOf
    <2> QED BY <1>a, <2>1, <2>2 DEF Ordered, Over, Idle, DoneBefore
  <1>4. CASE BridgeGoesOn /\ (ConnectFails \/ SyncFails)
    <2>1. conn' = "sleeping" /\ UNCHANGED done
      BY <1>4 DEF ConnectFails, SyncFails, Leave, history
    <2> QED BY <1>a, <2>1 DEF Ordered, Over, Idle
  <1>5. CASE BridgeGoesOn /\ (Receive \/ SkipEvent)
    <2>1. conn = "up" /\ UNCHANGED <<done, events, started, conn>>
      BY <1>5 DEF Receive, SkipEvent, Turn, history
    <2>2. \A r \in Rooms : pos'[r] \in Nat /\ pos[r] <= pos'[r]
      <3>1. CASE Receive
        BY <3>1, Numbers DEF Receive
      <3>2. CASE SkipEvent
        <4>1. PICK r \in Rooms : Turn(r) /\ Read(r)
          BY <3>2 DEF SkipEvent
        <4>2. pos'[r] = pos[r] + 1 /\ \A q \in Rooms \ {r} : pos'[q] = pos[q]
          BY <4>1, Numbers, ReadTypes
        <4>3. \A q \in Rooms : pos[q] \in Nat
          BY Numbers
        <4> QED BY <4>2, <4>3
      <3> QED BY <1>5, <3>1, <3>2
    <2>3. Ordered' /\ ~Idle'
      BY <1>a, <2>1 DEF Ordered, Idle
    <2>4. Over'
      <3> SUFFICES ASSUME NEW r \in Rooms, NEW j \in DOMAIN done[r]
                   PROVE  done[r][j] <= pos'[r] \/ events[r][done[r][j]] < started
        BY <2>1 DEF Over
      <3>1. done[r][j] <= pos[r] \/ events[r][done[r][j]] < started
        BY <1>a, <2>1 DEF Over
      <3>2. done[r][j] \in Nat /\ pos[r] \in Nat
        BY Numbers
      <3> QED BY <2>2, <3>1, <3>2
    <2> QED BY <2>3, <2>4
  <1>6. CASE BridgeGoesOn /\ Sleep
    <2>1. conn = "sleeping" /\ conn' = "closed" /\ UNCHANGED <<done, events>>
      BY <1>6 DEF Sleep, history
    <2>2. clock' \in Nat /\ DoneBefore(clock')
      <3>1. CASE Late
        BY <1>6, <1>a, <1>c, <2>1, <3>1, Constants DEF Sleep, Pass, Late
      <3>2. CASE ~Late
        <4>1. clock' = clock + delay /\ delay \in Nat /\ skew < delay
          BY <1>6, <1>0, <1>c, <3>2, Constants, Numbers DEF Sleep, Pass, Late, Ahead
        <4> QED BY <1>c, <4>1, WaitTells
      <3> QED BY <3>1, <3>2
    <2> QED BY <2>1, <2>2, <1>s DEF Over
  <1>7. CASE BridgeActs
    <2>1. PICK r \in Rooms : /\ Turn(r) /\ ~Old(Event(r)) /\ (Act(r) \/ UNCHANGED done)
                             /\ \/ Act(r) /\ Read(r) /\ UNCHANGED <<conn, events, started>>
                                \/ conn' = "sleeping"
      <3>1. CASE HandleEvent
        BY <3>1 DEF HandleEvent
      <3>2. CASE HandlerRaises
        BY <3>2 DEF HandlerRaises, Leave
      <3> QED BY <1>7, <3>1, <3>2 DEF BridgeActs
    <2>2. ~Idle'
      BY <2>1 DEF Turn, Idle
    <2>3. CASE UNCHANGED done /\ conn' = "sleeping"
      BY <1>a, <2>2, <2>3 DEF Ordered, Over
    <2>4. CASE Act(r)
      <3>1. pos[r] \in Nat /\ \A j \in DOMAIN done[r] : done[r][j] \in Nat /\ done[r][j] < pos[r] + 1
        BY <1>0, <2>1, NextIsLater, Numbers
      <3>2. /\ DOMAIN done[r] = 1 .. Len(done[r]) /\ Len(done[r]) \in Nat
            /\ \A q \in Rooms \ {r} : done'[q] = done[q]
            /\ DOMAIN done'[r] = 1 .. Len(done[r]) + 1
            /\ \A j \in 1 .. Len(done[r]) : done'[r][j] = done[r][j]
            /\ done'[r][Len(done[r]) + 1] = pos[r] + 1
        BY <2>1, <2>4, EventActed, Numbers
      <3>3. ASSUME NEW i \in DOMAIN done'[r], NEW j \in DOMAIN done'[r], i < j
            PROVE  done'[r][i] < done'[r][j]
        <4>1. i \in 1 .. Len(done[r]) /\ done'[r][i] = done[r][i]
          BY <3>2, <3>3
        <4>2. CASE j = Len(done[r]) + 1
          BY <3>1, <3>2, <4>1, <4>2
        <4>3. CASE j # Len(done[r]) + 1
          <5>1. j \in 1 .. Len(done[r]) /\ done'[r][j] = done[r][j]
            BY <3>2, <4>3
          <5> QED BY <1>a, <3>2, <3>3, <4>1, <5>1 DEF Ordered
        <4> QED BY <4>2, <4>3
      <3>4. Ordered'
        BY <1>a, <3>2, <3>3 DEF Ordered
      <3>5. ASSUME conn' = "up" PROVE Over'
        <4>1. Read(r) /\ UNCHANGED <<conn, events, started>>
          BY <2>1, <3>5
        <4>2. pos'[r] = pos[r] + 1 /\ \A q \in Rooms \ {r} : pos'[q] = pos[q]
          BY <2>1, <4>1, Numbers, ReadTypes
        <4>3. \A j \in DOMAIN done'[r] : done'[r][j] <= pos[r] + 1
          <5> SUFFICES ASSUME NEW j \in DOMAIN done'[r] PROVE done'[r][j] <= pos[r] + 1
            OBVIOUS
          <5>1. CASE j = Len(done[r]) + 1
            BY <3>1, <3>2, <5>1
          <5>2. CASE j # Len(done[r]) + 1
            <6>1. j \in DOMAIN done[r] /\ done'[r][j] = done[r][j]
              BY <3>2, <5>2
            <6>2. done[r][j] \in Nat /\ done[r][j] < pos[r] + 1 /\ pos[r] \in Nat
              BY <3>1, <6>1
            <6> QED BY <6>1, <6>2
          <5> QED BY <5>1, <5>2
        <4>4. \A q \in Rooms \ {r} : \A j \in DOMAIN done'[q] :
                 done'[q][j] <= pos'[q] \/ events'[q][done'[q][j]] < started'
          BY <1>a, <2>1, <3>2, <4>1, <4>2 DEF Over, Turn
        <4> QED BY <4>2, <4>3, <4>4 DEF Over
      <3> QED BY <2>2, <3>4, <3>5 DEF Over
    <2> QED BY <2>1, <2>3, <2>4
  <1>8. CASE BridgeEnds \/ CancelLost \/ Kill
    <2>1. UNCHANGED done /\ conn' # "up" /\ ~Idle'
      BY <1>8 DEF BridgeEnds, CancelLost, Kill, Leave, IInv, PhaseFits, Idle
    <2> QED BY <1>a, <2>1 DEF Ordered, Over
  <1>9. CASE World /\ Tick
    <2>1. UNCHANGED <<processVars, done, events, conn, pos, started>> /\ clock' = clock + 1
      BY <1>9, <1>c, Constants DEF World, Tick, Pass, history, reads
    <2>2. Ordered' /\ Over' /\ Idle' = Idle
      BY <1>a, <2>1 DEF Ordered, Over, Idle, processVars
    <2>3. Idle => DoneBefore(clock + 1)
      BY <1>a, <1>c, Later
    <2> QED BY <1>s, <1>c, <2>1, <2>2, <2>3
  <1>10. CASE World /\ SendEvent
    <2>1. UNCHANGED <<processVars, done, conn, pos, started, clock>>
      BY <1>10 DEF World, SendEvent, history, world, reads
    <2>2. \A q \in Rooms : \A j \in DOMAIN done[q] : events'[q][done[q][j]] = events[q][done[q][j]]
      <3>1. PICK r \in Rooms :
               /\ \A q \in Rooms \ {r} : events'[q] = events[q]
               /\ \A i \in 1 .. Len(events[r]) : events'[r][i] = events[r][i]
        BY <1>10, EventSent
      <3> SUFFICES ASSUME NEW q \in Rooms, NEW j \in DOMAIN done[q]
                   PROVE  events'[q][done[q][j]] = events[q][done[q][j]]
        OBVIOUS
      <3>2. done[q][j] \in 1 .. Len(events[q])
        BY Numbers
      <3>3. CASE q = r
        BY <3>1, <3>2, <3>3
      <3>4. CASE q # r
        <4>1. events'[q] = events[q]
          BY <3>1, <3>4
        <4> QED BY <4>1
      <3> QED BY <3>3, <3>4
    <2> QED BY <1>a, <2>1, <2>2 DEF Ordered, Over, Idle, DoneBefore, processVars
  <1>11. CASE World /\ ServerTurns
    <2>1. UNCHANGED <<processVars, done, events, conn, pos, started, clock>>
      BY <1>11 DEF World, ServerTurns, history, reads
    <2> QED BY <1>a, <2>1 DEF Ordered, Over, Idle, DoneBefore, processVars
  <1>12. ASSUME UNCHANGED syncVars, Idle' => Idle PROVE Ordered' /\ Over' /\ (Idle' => DoneBefore(clock)')
    <2>1. UNCHANGED <<done, events, conn, pos, started, clock>>
      BY <1>12 DEF syncVars, world, history, reads
    <2> QED BY <1>a, <1>12, <2>1 DEF Ordered, Over, DoneBefore
  <1>13. CASE Migrate \/ MigrateFails \/ StartUp \/ Listen \/ StartUpFails
    <2>1. UNCHANGED syncVars
      BY <1>13 DEF Migrate, MigrateFails, StartUp, Listen, StartUpFails
    <2>2. Idle' => Idle
      <3>1. conn' = conn
        BY <2>1 DEF syncVars
      <3>2. CASE Migrate \/ MigrateFails
        BY <3>1, <3>2 DEF Migrate, MigrateFails, AfterFailure, Idle
      <3>3. CASE StartUp \/ Listen
        BY <3>1, <3>3 DEF StartUp, Listen, Idle
      <3>4. CASE StartUpFails
        BY <3>1, <3>4 DEF StartUpFails, Idle
      <3> QED BY <1>13, <3>2, <3>3, <3>4
    <2> QED BY <1>12, <2>1, <2>2
  <1>14. CASE Stop \/ Shutdown \/ Cancel \/ Awaited \/ ReleaseAll
    <2>1. UNCHANGED syncVars
      BY <1>14 DEF Stop, Shutdown, Cancel, Awaited, ReleaseAll, Release
    <2>2. Idle' => Idle
      BY <1>14, <2>1 DEF Stop, Shutdown, Cancel, Awaited, ReleaseAll, Release, Idle, syncVars
    <2> QED BY <1>12, <2>1, <2>2
  <1>15. CASE DatabaseTurns \/ UpdateComes \/ UpdateGoesOn \/ UpdateEnds \/ UNCHANGED vars
    <2>1. UNCHANGED <<syncVars, phase, bridge>>
      BY <1>15 DEF DatabaseTurns, UpdateComes, UpdateGoesOn, UpdateEnds, vars, processVars
    <2> QED BY <1>12, <2>1 DEF Idle, syncVars
  <1> QED BY <1>1, <1>2, <1>3, <1>4, <1>5, <1>6, <1>7, <1>8, <1>9, <1>10, <1>11, <1>13, <1>14, <1>15
          DEF Next, Main, Bridge, World, BridgeGoesOn

LEMMA LateNext == IInv /\ [Next]_vars => LateFits'
  <1> SUFFICES ASSUME IInv, [Next]_vars, Ahead', Late' PROVE LateFits'
    BY DEF LateFits
  <1>0. skew' = skew /\ Ahead
    <2>1. skew' = skew
      BY SyncSteps DEF Start, Retry, Connect, ConnectFails, Receive, SkipEvent, SyncFails, Sleep, HandleEvent,
                       HandlerRaises, BridgeEnds, CancelLost, Kill, Tick, SendEvent, ServerTurns,
                       world, syncVars
    <2> QED BY <2>1 DEF Ahead
  <1>c. clock \in Nat /\ skew \in Int /\ MaxClock \in Nat
    BY Numbers, Constants
  <1> DEFINE Quiet == conn # "up" \/ ~dbUp => DoneBefore(clock)
             Reached == conn = "up" => serverUp
             AllOld == phase \in Stopping \/ exit = "stuck" => SentBefore(clock)
  <1>a. Late => Quiet /\ Reached /\ AllOld
    BY <1>0 DEF IInv, LateFits
  <1>b. SUFFICES Quiet' /\ Reached' /\ AllOld'
    BY DEF LateFits
  <1>d. ASSUME AllOld, Late, phase \in Stopping \/ exit = "stuck" PROVE DoneBefore(clock)
    BY <1>d, <1>c, SentDone
  <1>s. ASSUME UNCHANGED <<done, events>>, NEW c \in Int, clock' = c
        PROVE  /\ DoneBefore(c) => DoneBefore(clock)'
               /\ SentBefore(c) => SentBefore(clock)'
    BY <1>s DEF DoneBefore, SentBefore
  <1> HIDE DEF Quiet, Reached, AllOld
  <1>1. CASE Start
    <2>1. /\ conn = "closed" /\ conn' = "closed" /\ UNCHANGED <<done, events>>
          /\ phase' = "migrate" /\ exit' = "none"
      BY <1>1 DEF Start, IInv, PhaseFits, history
    <2>2. clock' \in Nat /\ DoneBefore(clock')
      <3>1. CASE exit = "none"
        <4>1. \A r \in Rooms : DOMAIN done[r] = {}
          BY <1>1, <3>1, EmptySeq DEF Start, IInv, PhaseFits
        <4>2. clock' \in Nat
          BY <1>1, <3>1, <1>c DEF Start, Pass
        <4> QED BY <4>1, <4>2 DEF DoneBefore
      <3>2. CASE exit # "none" /\ Late
        BY <1>1, <1>a, <1>c, <2>1, <3>2 DEF Start, Pass, Late, Quiet
      <3>3. CASE exit # "none" /\ ~Late
        <4>1. clock' = clock + RestartTime
          BY <1>1, <1>c, <3>3 DEF Start, Pass, Late
        <4> QED BY <1>0, <1>c, <4>1, WaitTells, Constants DEF Ahead
      <3> QED BY <3>1, <3>2, <3>3
    <2> QED BY <2>1, <2>2, <1>s DEF Quiet, Reached, AllOld, Stopping, Releases
  <1>2. CASE Retry
    <2>1. /\ conn = "closed" /\ conn' = "closed" /\ UNCHANGED <<done, events>>
          /\ phase' = "migrate" /\ exit' = "none" /\ DoneBefore(clock)
      BY <1>0, <1>2 DEF Retry, IInv, PhaseFits, ReadOnce, Idle, history
    <2>2. clock' \in Nat /\ clock <= clock'
      BY <1>2, <1>c DEF Retry, Pass
    <2>3. DoneBefore(clock')
      BY <1>c, <2>1, <2>2, Later
    <2> QED BY <2>1, <2>2, <2>3, <1>s DEF Quiet, Reached, AllOld, Stopping, Releases
  <1>3. CASE BridgeGoesOn /\ Sleep
    <2>1. /\ conn = "sleeping" /\ conn' = "closed"
          /\ UNCHANGED <<done, events, phase, exit>>
      BY <1>3 DEF BridgeGoesOn, Sleep, processVars, history
    <2>2. CASE Late
      <3>1. clock' = clock
        BY <1>3, <1>c, <2>2 DEF Sleep, Pass, Late
      <3> QED BY <1>a, <1>c, <1>s, <2>1, <2>2, <3>1 DEF Quiet, Reached, AllOld
    <2>3. CASE ~Late
      <3>1. clock' = clock + delay /\ delay \in Nat /\ skew < delay
        BY <1>3, <1>0, <1>c, <2>3, Constants, Numbers DEF Sleep, Pass, Late, Ahead
      <3>2. DoneBefore(clock)' /\ SentBefore(clock)'
        BY <1>c, <1>s, <2>1, <3>1, WaitTells
      <3> QED BY <2>1, <3>2 DEF Quiet, Reached, AllOld
    <2> QED BY <2>2, <2>3
  <1>4. CASE World /\ Tick
    BY <1>4, <1>c DEF Tick, Pass, Late
  <1>5. CASE World /\ SendEvent
    BY <1>5, <1>c DEF SendEvent, Late, world
  <1>6. ASSUME clock' = clock PROVE Late /\ Quiet /\ Reached /\ AllOld
    BY <1>6, <1>a DEF Late
  <1>t. ASSUME UNCHANGED <<clock, done, events>>
        PROVE  DoneBefore(clock)' = DoneBefore(clock) /\ SentBefore(clock)' = SentBefore(clock)
    BY <1>t DEF DoneBefore, SentBefore
  <1>7. CASE World /\ ServerTurns
    <2>1. UNCHANGED <<clock, done, events, conn, dbUp, phase, exit>>
      BY <1>7 DEF World, ServerTurns, processVars, history
    <2>2. ~serverUp
      BY <1>7, <1>c, <1>6, <2>1 DEF ServerTurns, Late
    <2>3. serverUp'
      BY <1>7, <2>2 DEF ServerTurns
    <2> QED BY <1>6, <1>t, <2>1, <2>3 DEF Quiet, Reached, AllOld
  <1>8. CASE BridgeGoesOn /\ Connect
    <2>1. /\ UNCHANGED <<clock, serverUp, done, events, dbUp, phase, exit>>
          /\ conn = "closed" /\ serverUp
      BY <1>8 DEF BridgeGoesOn, Connect, processVars, world
    <2> QED BY <1>6, <1>t, <2>1 DEF Quiet, Reached, AllOld
  <1>9. CASE BridgeGoesOn /\ (ConnectFails \/ SyncFails)
    <2>1. /\ UNCHANGED <<clock, serverUp, done, events, dbUp, phase, exit>>
          /\ conn' = "sleeping"
      BY <1>9 DEF BridgeGoesOn, ConnectFails, SyncFails, Leave, processVars, world, history
    <2>2. conn # "up"
      BY <1>9, <1>6, <1>c, <2>1 DEF ConnectFails, SyncFails, Late, Reached
    <2> QED BY <1>6, <1>t, <2>1, <2>2 DEF Quiet, Reached, AllOld
  <1>10. CASE BridgeGoesOn /\ (SkipEvent \/ Receive)
    <2>1. UNCHANGED <<clock, serverUp, conn, done, events, dbUp, phase, exit>>
      BY <1>10 DEF BridgeGoesOn, SkipEvent, Receive, processVars, world, history
    <2> QED BY <1>6, <1>t, <2>1 DEF Quiet, Reached, AllOld
  <1>11. CASE BridgeActs
    <2>1. UNCHANGED <<clock, serverUp, events, dbUp, phase, exit>>
      BY <1>11 DEF BridgeActs, HandleEvent, HandlerRaises, world
    <2>2. AllOld'
      BY <1>6, <2>1 DEF AllOld, SentBefore
    <2>3. CASE HandleEvent /\ dbUp
      BY <1>6, <2>1, <2>2, <2>3 DEF HandleEvent, Turn, Quiet, Reached
    <2>4. CASE HandlerRaises /\ ~dbUp /\ done' = done
      <3>1. conn' = "sleeping"
        BY <2>4 DEF HandlerRaises, Leave
      <3> QED BY <1>6, <1>t, <2>1, <2>2, <2>4, <3>1 DEF Quiet, Reached
    <2> QED BY <1>6, <1>c, <1>11, <2>1, <2>3, <2>4 DEF BridgeActs, Faulty, Late
  <1>12. CASE BridgeEnds \/ CancelLost
    <2>1. /\ UNCHANGED <<clock, done, events, dbUp, phase>> /\ conn' # "up"
          /\ phase \in Stopping
      BY <1>12 DEF BridgeEnds, CancelLost, Leave, world, IInv, PhaseFits, Stopping
    <2> QED BY <1>6, <1>d, <1>t, <2>1 DEF Quiet, Reached, AllOld
  <1>13. CASE Kill
    <2>1. /\ UNCHANGED <<clock, done, events, dbUp>> /\ conn' # "up"
          /\ phase' = "down" /\ exit' = "killed"
      BY <1>13 DEF Kill, Leave, world
    <2>2. exit = "stuck"
      BY <1>13, <1>6, <1>c, <2>1 DEF Kill, Faulty, Late
    <2> QED BY <1>6, <1>d, <1>t, <2>1, <2>2 DEF Quiet, Reached, AllOld, Stopping, Releases
  <1>14. CASE DatabaseTurns
    <2>1. UNCHANGED <<clock, serverUp, conn, done, events, phase, exit>>
      BY <1>14 DEF DatabaseTurns, syncVars, world, history
    <2>2. ~dbUp
      BY <1>14, <1>6, <1>c, <2>1 DEF DatabaseTurns, Faulty, Late
    <2>3. dbUp'
      BY <1>14, <2>2 DEF DatabaseTurns
    <2> QED BY <1>6, <1>t, <2>1, <2>2, <2>3 DEF Quiet, Reached, AllOld
  <1>15. ASSUME UNCHANGED <<syncVars, dbUp>>,
                (phase \in Stopping \/ exit = "stuck")' => (phase \in Stopping \/ exit = "stuck")
         PROVE  Quiet' /\ Reached' /\ AllOld'
    <2>1. UNCHANGED <<clock, serverUp, conn, done, events, dbUp>>
      BY <1>15 DEF syncVars, world, history
    <2> QED BY <1>6, <1>t, <1>15, <2>1 DEF Quiet, Reached, AllOld
  <1>16. CASE Migrate \/ MigrateFails \/ StartUp \/ Listen
    <2>1. UNCHANGED <<syncVars, dbUp>>
      BY <1>16 DEF Migrate, MigrateFails, StartUp, Listen
    <2>2. phase' \notin Stopping
      BY <1>16 DEF Migrate, MigrateFails, StartUp, Listen, AfterFailure, Stopping, Releases
    <2>3. exit' # "stuck" \/ exit' = exit
      BY <1>16 DEF Migrate, MigrateFails, StartUp, Listen
    <2> QED BY <1>15, <2>1, <2>2, <2>3
  <1>17. CASE StartUpFails \/ Stop
    <2>1. clock' = clock
      BY <1>17 DEF StartUpFails, Stop, syncVars, world
    <2> QED BY <1>17, <1>6, <1>c, <2>1 DEF StartUpFails, Stop, Faulty, Late
  <1>18. CASE Shutdown \/ Cancel \/ Awaited \/ ReleaseAll
    <2>1. UNCHANGED <<syncVars, dbUp>>
      BY <1>18 DEF Shutdown, Cancel, Awaited, ReleaseAll, Release
    <2>2. phase \in Stopping
      BY <1>18 DEF Shutdown, Cancel, Awaited, ReleaseAll, Release, Stopping, Releases
    <2> QED BY <1>15, <2>1, <2>2
  <1>19. CASE UpdateComes \/ UpdateGoesOn \/ UpdateEnds \/ UNCHANGED vars
    <2>1. UNCHANGED <<syncVars, dbUp, phase, exit>>
      BY <1>19 DEF UpdateComes, UpdateGoesOn, UpdateEnds, vars, processVars
    <2> QED BY <1>15, <2>1
  <1> QED BY <1>1, <1>2, <1>3, <1>4, <1>5, <1>7, <1>8, <1>9, <1>10, <1>11, <1>12, <1>13, <1>14,
             <1>16, <1>17, <1>18, <1>19 DEF Next, Main, Bridge, World, BridgeGoesOn

LEMMA IInvNext == IInv /\ [Next]_vars => IInv'
  <1> SUFFICES ASSUME IInv, [Next]_vars PROVE IInv'
    OBVIOUS
  <1>1. TypeOK'
    BY TypeNext DEF IInv
  <1> QED BY <1>1, PhaseNext, ReleasesNext, StampsNext, SentNext, OnceNext, LateNext DEF IInv

----------------------------------------------------------------------------

\* The process's life keeps its inductive invariant.
THEOREM Invariance == Spec => []IInv
  BY IInvInit, IInvNext, PTL DEF Spec

\* Every variable keeps its type.
THEOREM TypeCorrectness == Spec => []TypeOK
  <1>1. IInv => TypeOK
    BY DEF IInv
  <1> QED BY Invariance, <1>1, PTL

\* However often the bridge reconnects and the process restarts, whatever is
\* lost or killed and in whatever order the rooms of a response are handled, no
\* event is acted upon twice, nor out of its order within its room
\* (bot/matrix/bridge.py: the filter on started_ms), as long as the
\* homeserver's clock is ahead by less than a reconnect and a restart take.
THEOREM ActedOnceInOrder == Spec => []ActsOnceInOrder
  <1>1. IInv => ActsOnceInOrder
    BY DEF IInv, ReadOnce, Ordered, Ahead, ActsOnceInOrder
  <1> QED BY Invariance, <1>1, PTL

\* The filter passes over nothing that was sent to the connected bridge, if the
\* homeserver's clock is not behind (bot/matrix/client.py).
THEOREM NothingSentIsLost == Spec => []SentWhileUpIsHandled
  <1>1. IInv => SentWhileUpIsHandled
    BY DEF IInv
  <1> QED BY Invariance, <1>1, PTL

\* The ordered end of main leaves no connection open, whatever the bridge
\* opened after the dispatcher's shutdown (bot/__main__.py).
THEOREM AllReleased == Spec => []NothingLeftOpen
  <1>1. IInv => NothingLeftOpen
    BY DEF IInv, ReleasesFit, NothingLeftOpen
  <1> QED BY Invariance, <1>1, PTL

\* The tables are touched at the latest revision only (run_upgrade_to_head
\* before anything is built).
THEOREM AtHead == Spec => []ServesAtHead
  <1>1. IInv => ServesAtHead
    BY DEF IInv, TypeOK, PhaseFits, Phases, Stopping, ServesAtHead
  <1> QED BY Invariance, <1>1, PTL

=============================================================================

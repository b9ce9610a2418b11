----------------------------- MODULE BotProcess -----------------------------
(***************************************************************************)
(* The life of the process: migrate with retries, start, serve, release;   *)
(* or die at any point.  The Matrix bridge is a task in it, which main     *)
(* creates, cancels and awaits.  The bridge and the updates under way go   *)
(* on using what the dispatcher's shutdown has released already.           *)
(***************************************************************************)
EXTENDS MatrixSync

CONSTANTS
    LastRevision, \* the latest revision of the schema
    Retries,      \* retries of run_upgrade_to_head
    RestartTime   \* the least time from the end of a process to the next start

ASSUME ProcessAssumption ==
    LastRevision \in Nat /\ Retries \in Nat \ {0} /\ RestartTime \in Nat

VARIABLES
    phase,      \* where main is
    attempt,    \* the attempt to migrate
    schema,     \* the revision of the database
    dbUp,       \* the database can be reached
    bridge,     \* the bridge's task
    open,       \* resources with open connections
    updating,   \* an update is being handled
    exit        \* history: how the last process ended, or is about to

processVars == <<phase, attempt, schema, dbUp, bridge, open, updating, exit>>
vars == <<syncVars, processVars>>

Resources == {"session", "redis", "engine"}
Releases == {"closeSession", "closeRedis", "disposeEngine"}
Stopping == {"shutdown", "cancel", "await"} \cup Releases
Phases == {"down", "migrate", "wait", "start", "listen", "serve"} \cup Stopping

Init ==
    /\ SyncInit
    /\ phase = "down"
    /\ attempt = 0
    /\ schema = 0
    /\ dbUp = TRUE
    /\ bridge = "none"
    /\ open = {}
    /\ updating = FALSE
    /\ exit = "none"

\* Faults happen up to the bound on time.
Faulty == clock < MaxClock

DatabaseTurns ==
    /\ Faulty \/ ~dbUp
    /\ dbUp' = ~dbUp
    /\ UNCHANGED <<syncVars, phase, attempt, schema, bridge, open, updating, exit>>

----------------------------------------------------------------------------
(* Starting                                                                *)

\* The first start, or docker-compose starts the process again.
Start ==
    /\ phase = "down"
    /\ phase' = "migrate"
    /\ attempt' = 1
    /\ exit' = "none"
    /\ open' = {}
    /\ Pass(IF exit = "none" THEN 0 ELSE RestartTime)
    /\ delay' = MinDelay
    /\ started' = 0
    /\ UNCHANGED <<skew, serverUp, conn, events, reads, history>>
    /\ UNCHANGED <<schema, dbUp, bridge, updating>>

\* upgrade head: the revisions that are missing, in one transaction.
Migrate ==
    /\ phase = "migrate"
    /\ dbUp
    /\ schema' = LastRevision
    /\ phase' = "start"
    /\ attempt' = 0
    /\ UNCHANGED <<syncVars, dbUp, bridge, open, updating, exit>>

\* Mutant: the last failure is logged like the others.
AfterFailure_GoOn == IF attempt >= Retries THEN "start" ELSE "wait"

AfterFailure == IF attempt >= Retries THEN "down" ELSE "wait"

\* An attempt raises: the database is not there, or an error rolls it back, or
\* only the answer to its commit is lost.  The last failure leaves main before
\* anything is built.
MigrateFails ==
    /\ phase = "migrate"
    /\ Faulty \/ ~dbUp
    /\ schema' \in {schema} \cup (IF dbUp THEN {LastRevision} ELSE {})
    /\ phase' = AfterFailure
    /\ exit' = IF phase' = "down" THEN "failed" ELSE exit
    /\ UNCHANGED <<syncVars, attempt, dbUp, bridge, open, updating>>

\* asyncio.sleep(delay).
Retry ==
    /\ phase = "wait"
    /\ attempt' = attempt + 1
    /\ phase' = "migrate"
    /\ Pass(1)
    /\ UNCHANGED <<skew, serverUp, conn, delay, started, events, reads, history>>
    /\ UNCHANGED <<schema, dbUp, bridge, open, updating, exit>>

\* build, core.startup and set_commands; then the bridge's task.
StartUp ==
    /\ phase = "start"
    /\ open' = {"session"}
    /\ bridge' = "running"
    /\ phase' = "listen"
    /\ UNCHANGED <<syncVars, attempt, schema, dbUp, updating, exit>>

\* delete_webhook and the polling, or set_webhook and the server's socket.
Listen ==
    /\ phase = "listen"
    /\ phase' = "serve"
    /\ UNCHANGED <<syncVars, attempt, schema, dbUp, bridge, open, updating, exit>>

\* One of these raises: main goes to its finally, with a bridge or without one,
\* and past the dispatcher's shutdown.
StartUpFails ==
    /\ Faulty
    /\ phase \in {"start", "listen"}
    /\ open' = open \cup {"session"}
    /\ exit' = "failed"
    /\ phase' = "cancel"
    /\ UNCHANGED <<syncVars, attempt, schema, dbUp, bridge, updating>>

----------------------------------------------------------------------------
(* Serving                                                                 *)

\* An update arrives.
UpdateComes ==
    /\ phase = "serve" /\ ~updating
    /\ Faulty
    /\ updating' = TRUE
    /\ open' = Resources
    /\ UNCHANGED <<syncVars, phase, attempt, schema, dbUp, bridge, exit>>

\* Its handler uses what it likes, which opens connections anew.
UpdateGoesOn ==
    /\ updating
    /\ \E r \in Resources : open' = open \cup {r}
    /\ UNCHANGED <<syncVars, phase, attempt, schema, dbUp, bridge, updating, exit>>

UpdateEnds ==
    /\ updating
    /\ updating' = FALSE
    /\ UNCHANGED <<syncVars, phase, attempt, schema, dbUp, bridge, open, exit>>

\* The bridge acts: in a session of its own, and the applicant hears of it.
BridgeActs ==
    /\ bridge = "running"
    /\ \/ HandleEvent /\ dbUp
       \/ HandlerRaises /\ Faulty /\ dbUp
       \/ HandlerRaises /\ ~dbUp /\ done' = done
    /\ open' = open \cup {"session", "engine"}
    /\ UNCHANGED <<phase, attempt, schema, dbUp, bridge, updating, exit>>

\* Mutant: a connect that returned False ends the loop.
BridgeGoesOn_OneTry ==
    /\ bridge = "running"
    /\ bridge' = IF conn = "closed" /\ ~serverUp THEN "ended" ELSE bridge
    /\ Connect \/ ConnectFails \/ Receive \/ SkipEvent \/ SyncFails \/ Sleep
    /\ UNCHANGED <<phase, attempt, schema, dbUp, open, updating, exit>>

\* One turn of run's loop, or a part of it.
BridgeGoesOn ==
    /\ bridge = "running"
    /\ Connect \/ ConnectFails \/ Receive \/ SkipEvent \/ SyncFails \/ Sleep
    /\ UNCHANGED processVars

----------------------------------------------------------------------------
(* Stopping                                                                *)

\* An interrupt, or SIGTERM, which only the dispatcher's polling handles.
Stop ==
    /\ phase = "serve"
    /\ Faulty
    /\ phase' = "shutdown"
    /\ exit' = "stopped"
    /\ UNCHANGED <<syncVars, attempt, schema, dbUp, bridge, open, updating>>

\* The dispatcher's shutdown: _on_shutdown, and aiogram closes the bot's session.
Shutdown ==
    /\ phase = "shutdown"
    /\ open' = {}
    /\ phase' = "cancel"
    /\ UNCHANGED <<syncVars, attempt, schema, dbUp, bridge, updating, exit>>

\* The finally of main; without a bridge there is nothing to wait for.
Cancel ==
    /\ phase = "cancel"
    /\ bridge' = IF bridge = "running" THEN "cancelled" ELSE bridge
    /\ phase' = "await"
    /\ UNCHANGED <<syncVars, attempt, schema, dbUp, open, updating, exit>>

\* Mutant: the bridge's loop catches every exception.
BridgeEnds_CatchAll ==
    /\ bridge = "cancelled"
    /\ bridge' = "running"
    /\ Leave("sleeping")
    /\ UNCHANGED <<world, delay, started, events, done>>
    /\ UNCHANGED <<phase, attempt, schema, dbUp, open, updating, exit>>

\* The cancellation reaches the task where it is suspended; the connection is
\* closed on the way out.
BridgeEnds ==
    /\ bridge = "cancelled"
    /\ bridge' = "ended"
    /\ Leave("closed")
    /\ UNCHANGED <<world, delay, started, events, done>>
    /\ UNCHANGED <<phase, attempt, schema, dbUp, open, updating, exit>>

\* The Matrix library takes the cancellation for a wish to end the sync and
\* returns: the bridge goes round again, and main waits for it.
CancelLost ==
    /\ bridge = "cancelled" /\ conn = "up"
    /\ bridge' = "running"
    /\ Leave("sleeping")
    /\ exit' = "stuck"
    /\ UNCHANGED <<world, delay, started, events, done>>
    /\ UNCHANGED <<phase, attempt, schema, dbUp, open, updating>>

Awaited ==
    /\ phase = "await"
    /\ bridge \in {"none", "ended"}
    /\ phase' = "closeSession"
    /\ UNCHANGED <<syncVars, attempt, schema, dbUp, bridge, open, updating, exit>>

\* The awaits that end main; an update still being handled may open connections
\* again behind them, until asyncio.run cancels it.
Release(p, r, q) ==
    /\ phase = p
    /\ open' = open \ {r}
    /\ phase' = q
    /\ exit' = IF updating THEN "updating" ELSE exit
    /\ bridge' = IF q = "down" THEN "none" ELSE bridge
    /\ updating' = (updating /\ q # "down")
    /\ UNCHANGED <<syncVars, attempt, schema, dbUp>>

\* Mutant: the engine is left to the dispatcher's shutdown.
ReleaseAll_NoEngine ==
    \/ Release("closeSession", "session", "closeRedis")
    \/ Release("closeRedis", "redis", "down")

ReleaseAll ==
    \/ Release("closeSession", "session", "closeRedis")
    \/ Release("closeRedis", "redis", "disposeEngine")
    \/ Release("disposeEngine", "engine", "down")

\* The process dies; so it does of SIGTERM in webhook mode, or when somebody
\* kills it because it does not stop.
Kill ==
    /\ phase # "down"
    /\ Faulty \/ exit = "stuck"
    /\ phase' = "down"
    /\ bridge' = "none"
    /\ open' = {}
    /\ updating' = FALSE
    /\ exit' = "killed"
    /\ attempt' = 0
    /\ Leave("closed")
    /\ UNCHANGED <<world, delay, started, events, done, schema, dbUp>>

----------------------------------------------------------------------------

Main ==
    \/ Start \/ Migrate \/ MigrateFails \/ Retry \/ StartUp \/ Listen
    \/ Shutdown \/ Cancel \/ Awaited \/ ReleaseAll

Bridge == BridgeActs \/ BridgeGoesOn \/ BridgeEnds \/ CancelLost

World == (Tick \/ SendEvent \/ ServerTurns) /\ UNCHANGED processVars

Next ==
    \/ Main \/ Bridge \/ World
    \/ DatabaseTurns \/ StartUpFails \/ Stop \/ Kill
    \/ UpdateComes \/ UpdateGoesOn \/ UpdateEnds

\* The event loop resumes main and the bridge's task; docker-compose starts an
\* ended process again.
Spec == Init /\ [][Next]_vars /\ WF_vars(Main) /\ WF_vars(Bridge)

----------------------------------------------------------------------------

\* Types of the variables.
TypeOK ==
    /\ SyncTypeOK
    /\ phase \in Phases
    /\ attempt \in 0 .. Retries
    /\ schema \in 0 .. LastRevision
    /\ dbUp \in BOOLEAN
    /\ bridge \in {"none", "running", "cancelled", "ended"}
    /\ open \subseteq Resources
    /\ updating \in BOOLEAN
    /\ exit \in {"none", "failed", "stopped", "updating", "stuck", "killed"}

\* However often bridge or process start again and read events again, each is
\* acted upon at most once, and within its room never an older one after a
\* younger one: a reply is not sent twice to the applicant, nor a person's take
\* after his close.  Between the rooms there is no order.  The homeserver's
\* clock may be ahead by less than the reconnect and the restart take
\* (handle_event's only filter).
ActsOnceInOrder ==
    skew < MinDelay /\ skew < RestartTime =>
        \A r \in Rooms : \A i, j \in DOMAIN done[r] : i < j => done[r][i] < done[r][j]

\* What is sent while the bridge is connected is acted upon when it is read: a
\* command is passed over only if it was sent before.  (The homeserver's clock
\* must not be behind.)
SentWhileUpIsHandled ==
    conn = "up" /\ skew >= 0 =>
        \A r \in Rooms : \A i \in since[r] + 1 .. pos[r] :
            \E j \in DOMAIN done[r] : done[r][j] = i

\* Once faults have ceased the bot serves, the bridge is connected for good and
\* has read what was sent, whatever broke before (unless main waits for a task
\* that lost its cancellation).
ServesAgain ==
    <>[](serverUp /\ dbUp) =>
        \/ <>[](phase = "serve" /\ conn = "up" /\ pos = Ends)
        \/ <>[](exit = "stuck")

\* main, once it stops, comes to its end, unless the cancellation is lost.
StopsWhenTold == phase \in Stopping ~> (phase = "down" \/ exit = "stuck")

\* When main has ended nothing is left open, though the bridge went on using
\* what the dispatcher's shutdown had released, and whatever start-up step
\* failed; an update still under way may leave something.
NothingLeftOpen ==
    phase = "down" /\ exit \in {"stopped", "failed"} => open = {}

\* Nothing touches the tables, neither the bridge nor an update, before all
\* revisions are applied, however many attempts failed ("the last failure
\* propagates so the container restarts rather than running half-initialised").
ServesAtHead == bridge # "none" \/ updating => schema = LastRevision

----------------------------------------------------------------------------
(* bot/__main__.py:64-67 awaits the cancelled task, "Always release        *)
(* resources": a bridge whose cancellation the Matrix library has taken    *)
(* for itself never ends, and nothing after the await is reached.          *)

\* main, once it stops, comes to its end.
AlwaysStops == phase \in Stopping ~> phase = "down"

=============================================================================

-------------------------------- MODULE Updates -------------------------------
(***************************************************************************)
(* The way of a Telegram update through the dispatcher: a database         *)
(* session, the sender's User row, the throttle, the handler, and the      *)
(* commit or the rollback at the end.  Updates are handled concurrently,   *)
(* two of one person too.  What the handlers do is in other modules; here  *)
(* a handler may change the sender's form state, and may raise.            *)
(***************************************************************************)
EXTENDS Naturals, Sequences, FiniteSets

CONSTANTS
    Ids,         \* updates
    People,      \* senders
    Admins,      \* admin_ids of the configuration
    Rate,        \* rate_ms, in ticks
    NoteFactor,  \* windows of the throttle in one of the notice, 4 in the code
    MaxClock     \* bound: ticks

ASSUME UpdatesAssumption ==
    Admins \subseteq People /\ {Rate, NoteFactor, MaxClock} \subseteq Nat \ {0}

VARIABLES
    now,
    users,       \* committed rows: "none", "plain" or "admin"
    inForm,      \* whether the sender has an FSM state
    gate,        \* throttle:<id>, when the key expires
    noteGate,    \* throttle-note:<id>, likewise
    pc,          \* per update, its next step
    who,         \* per update, its sender
    writes,      \* per update, what it has flushed: "insert", "admin"
    row,         \* per update, the User object as it read or made it
    clash,       \* history: updates that failed with an IntegrityError
    accepted,    \* history: when updates outside a form were accepted
    noted,       \* history: when notices were sent
    dropped      \* history: at a drop, was it outside of every window

throttle == <<gate, noteGate>>
history == <<clash, accepted, noted, dropped>>
vars == <<now, users, inForm, throttle, pc, who, writes, row, history>>

Pcs == {"new", "insert", "reread", "admin", "state", "key", "note", "handle", "commit",
        "done", "failed"}
NoteWindow == NoteFactor * Rate

Init ==
    /\ now = 1
    /\ users \in [People -> {"none", "plain", "admin"}]
    /\ inForm \in [People -> BOOLEAN]
    /\ gate = [p \in People |-> 0] /\ noteGate = [p \in People |-> 0]
    /\ pc = [u \in Ids |-> "new"]
    /\ who \in [Ids -> People]
    /\ writes = [u \in Ids |-> {}]
    /\ row = [u \in Ids |-> "none"]
    /\ clash = {}
    /\ accepted = [p \in People |-> <<>>]
    /\ noted = [p \in People |-> <<>>]
    /\ dropped = {}

Over(u) == pc[u] \in {"new", "done", "failed"}

\* Another transaction has written the row of u's sender and is not over.
Locked(u) == \E v \in Ids \ {u} : who[v] = who[u] /\ writes[v] # {}

To(u, step) == pc' = [pc EXCEPT ![u] = step]

----------------------------------------------------------------------------
(* The session and the user                                                *)

\* get_or_create looks the sender up; it sees what is committed.
FindUser(u) ==
    /\ pc[u] = "new"
    /\ row' = [row EXCEPT ![u] = users[who[u]]]
    /\ To(u, IF users[who[u]] = "none" THEN "insert" ELSE "admin")
    /\ UNCHANGED <<now, users, inForm, throttle, who, writes, history>>

\* The unique index on tg_id has an entry for p, committed or not.
Taken(p) == users[p] # "none" \/ \E v \in Ids : who[v] = p /\ "insert" \in writes[v]

\* The INSERT waits until another one of the same tg_id is over, and fails if
\* that one was committed; get_or_create rolls back and goes on to read again.
InsertUser(u) ==
    /\ pc[u] = "insert"
    /\ ~Locked(u)
    /\ IF ~Taken(who[u])
       THEN /\ writes' = [writes EXCEPT ![u] = {"insert"}]
            /\ row' = [row EXCEPT ![u] = "plain"]
            /\ To(u, "admin")
       ELSE /\ To(u, "reread")
            /\ UNCHANGED <<writes, row>>
    /\ UNCHANGED <<now, users, inForm, throttle, who, history>>

\* Mutant: without the rollback nothing new is seen.
RereadUser_SameSnapshot(u) ==
    /\ pc[u] = "reread"
    /\ IF row[u] = "none"
       THEN /\ clash' = clash \cup {u}
            /\ To(u, "failed")
            /\ UNCHANGED row
       ELSE /\ To(u, "admin")
            /\ UNCHANGED <<row, clash>>
    /\ UNCHANGED <<now, users, inForm, throttle, who, writes, accepted, noted, dropped>>

\* After the rollback a new transaction looks the row up; without one the
\* IntegrityError is raised after all.
RereadUser(u) ==
    /\ pc[u] = "reread"
    /\ IF users[who[u]] = "none"
       THEN /\ clash' = clash \cup {u}
            /\ To(u, "failed")
            /\ UNCHANGED row
       ELSE /\ row' = [row EXCEPT ![u] = users[who[u]]]
            /\ To(u, "admin")
            /\ UNCHANGED clash
    /\ UNCHANGED <<now, users, inForm, throttle, who, writes, accepted, noted, dropped>>

Promotes(u) == who[u] \in Admins /\ row[u] # "admin"

\* Admins of the configuration get their flag on sight.
SetAdmin(u) ==
    /\ pc[u] = "admin"
    /\ Promotes(u) => ~Locked(u)
    /\ writes' = [writes EXCEPT ![u] = IF Promotes(u) THEN @ \cup {"admin"} ELSE @]
    /\ To(u, "state")
    /\ UNCHANGED <<now, users, inForm, throttle, who, row, history>>

----------------------------------------------------------------------------
(* The throttle, an inner middleware: it runs once a handler was chosen    *)

Expires(window) == now + window

\* Mutant: every hit sets the key again (SET without NX).
Blocked_SetAgain(p) == [gate EXCEPT ![p] = Expires(Rate)]

\* The key after a hit that was blocked.
Blocked(p) == gate

\* Somebody in a form is exempt.
ReadState(u) ==
    /\ pc[u] = "state"
    /\ To(u, IF inForm[who[u]] THEN "handle" ELSE "key")
    /\ UNCHANGED <<now, users, inForm, throttle, who, writes, row, history>>

SetKey(u) ==
    LET p == who[u]
    IN  /\ pc[u] = "key"
        /\ \/ /\ now >= gate[p]
              /\ gate' = [gate EXCEPT ![p] = Expires(Rate)]
              /\ accepted' = [accepted EXCEPT ![p] = Append(@, now)]
              /\ To(u, "handle")
              /\ UNCHANGED dropped
           \/ /\ now < gate[p]
              /\ gate' = Blocked(p)
              /\ To(u, "note")
              /\ dropped' = dropped \cup
                    {[id |-> u, since |-> now - accepted[p][Len(accepted[p])]]}
              /\ UNCHANGED accepted
    /\ UNCHANGED <<now, users, inForm, noteGate, who, writes, row, clash, noted>>

\* The notice, once per window; to send it may fail, and then the key stays.
Note(u) ==
    LET p == who[u]
    IN  /\ pc[u] = "note"
        /\ IF now >= noteGate[p]
           THEN /\ noteGate' = [noteGate EXCEPT ![p] = Expires(NoteWindow)]
                /\ \/ /\ noted' = [noted EXCEPT ![p] = Append(@, now)]
                      /\ To(u, "commit")
                      /\ UNCHANGED writes
                   \/ /\ To(u, "failed")
                      /\ writes' = [writes EXCEPT ![u] = {}]
                      /\ UNCHANGED noted
           ELSE /\ To(u, "commit")
                /\ UNCHANGED <<noteGate, noted, writes>>
    /\ UNCHANGED <<now, users, inForm, gate, who, row, clash, accepted, dropped>>

----------------------------------------------------------------------------
(* The handler and the end                                                 *)

\* The form state is in Redis and is not rolled back.
Handle(u) ==
    /\ pc[u] = "handle"
    /\ \E b \in BOOLEAN : inForm' = [inForm EXCEPT ![who[u]] = b]
    /\ To(u, "commit")
    /\ UNCHANGED <<now, users, throttle, who, writes, row, history>>

\* No handler takes the update: no inner middleware runs.
Unhandled(u) ==
    /\ pc[u] = "state"
    /\ To(u, "commit")
    /\ UNCHANGED <<now, users, inForm, throttle, who, writes, row, history>>

Commit(u) ==
    /\ pc[u] = "commit"
    /\ users' = [users EXCEPT ![who[u]] =
                    IF "admin" \in writes[u] THEN "admin"
                    ELSE IF "insert" \in writes[u] THEN "plain" ELSE @]
    /\ writes' = [writes EXCEPT ![u] = {}]
    /\ To(u, "done")
    /\ UNCHANGED <<now, inForm, throttle, who, row, history>>

\* Something raises: the session is rolled back and the error handler says
\* so to the sender, as well as it can.
Fail(u) ==
    /\ ~Over(u)
    /\ writes' = [writes EXCEPT ![u] = {}]
    /\ To(u, "failed")
    /\ UNCHANGED <<now, users, inForm, throttle, who, row, history>>

\* The six hours of a form's keys, for one.
FormExpires(p) ==
    /\ inForm[p]
    /\ inForm' = [inForm EXCEPT ![p] = FALSE]
    /\ UNCHANGED <<now, users, throttle, pc, who, writes, row, history>>

Tick ==
    /\ now < MaxClock
    /\ now' = now + 1
    /\ UNCHANGED <<users, inForm, throttle, pc, who, writes, row, history>>

Step(u) ==
    \/ InsertUser(u)
    \/ RereadUser(u)
    \/ SetAdmin(u)
    \/ ReadState(u)
    \/ SetKey(u)
    \/ Unhandled(u)
    \/ Note(u)
    \/ Handle(u)
    \/ Commit(u)

Next ==
    \/ \E u \in Ids : FindUser(u) \/ Step(u) \/ Fail(u)
    \/ \E p \in People : FormExpires(p)
    \/ Tick

\* An update that is being handled goes on.
Spec == Init /\ [][Next]_vars /\ \A u \in Ids : WF_vars(Step(u))

----------------------------------------------------------------------------
(* Properties                                                              *)

\* Typing, and that an update that is over holds no lock.
TypeOK ==
    /\ now \in 1 .. MaxClock
    /\ users \in [People -> {"none", "plain", "admin"}]
    /\ inForm \in [People -> BOOLEAN]
    /\ gate \in [People -> Nat] /\ noteGate \in [People -> Nat]
    /\ pc \in [Ids -> Pcs]
    /\ who \in [Ids -> People]
    /\ \A u \in Ids : writes[u] \subseteq {"insert", "admin"}
    /\ \A u \in Ids : Over(u) => writes[u] = {}
    /\ row \in [Ids -> {"none", "plain", "admin"}]

\* "at most one accepted update per rate_ms per user", and one notice per
\* four times that (ThrottlingMiddleware); and only what comes within rate_ms
\* of an accepted update is dropped: somebody who goes on tapping is not shut
\* out for longer (SET ... NX).
OnePerWindow ==
    /\ \A p \in People :
          /\ \A i \in 1 .. Len(accepted[p]) - 1 : accepted[p][i + 1] - accepted[p][i] >= Rate
          /\ \A i \in 1 .. Len(noted[p]) - 1 : noted[p][i + 1] - noted[p][i] >= NoteWindow
    /\ \A d \in dropped : d.since < Rate

\* Nobody's update fails because he sent several at first contact: one that
\* waited in vain to insert the row finds the other's when it reads again,
\* whichever of them fail or commit in between (get_or_create).
FirstContactsDoNotClash == clash = {}

\* When an update of a configured admin was handled to its end, his row has
\* the flag, whichever of his updates created the row, before or after he was
\* configured (UserMiddleware).
AdminsGetTheirFlag ==
    \A u \in Ids : pc[u] = "done" /\ who[u] \in Admins => users[who[u]] = "admin"

\* Every update comes to its end: an update that waits for the row of a new
\* sender waits for another that goes on, and failed ones let go of it.
UpdatesEnd == \A u \in Ids : ~Over(u) ~> Over(u)

\* "Registered as the FIRST outer middleware so flood is rejected BEFORE any
\* DB session/user work" (throttling.py).  Refuted: an update to be dropped
\* has looked up, and may have inserted, its sender.
FloodDoesNoUserWork == \A u \in Ids : pc[u] = "note" => row[u] = "none" /\ writes[u] = {}

=============================================================================

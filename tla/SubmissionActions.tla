------------------------- MODULE SubmissionActions -------------------------
(***************************************************************************)
(* SubmissionActions (bot/services/actions.py) and its two adapters, the   *)
(* Telegram handlers of bot/handlers/responsible.py and the Matrix         *)
(* commands of bot/matrix/bridge.py, working on one submission.            *)
(*                                                                         *)
(* Every update runs as its own asyncio task with its own database session *)
(* at READ COMMITTED: an op is one such handler invocation, its pc the     *)
(* await it is suspended at.  A SELECT sees the committed row; an UPDATE   *)
(* whose WHERE still matches waits for the row lock and holds it until the *)
(* commit or the rollback.  What an op has inserted (its field "wrote")    *)
(* becomes visible when it commits and is lost when it fails or the        *)
(* process dies.                                                           *)
(***************************************************************************)
EXTENDS Naturals, Sequences, FiniteSets

CONSTANTS
    Users,      \* the people who hold a card of the submission
    Admins,     \* those of them with is_admin
    Ops,        \* handler invocations; their number bounds the model
    NoUser,     \* NULL in a users.id column
    NoOp        \* nobody holds the row lock

ASSUME UsersAssumption == Admins \subseteq Users /\ NoUser \notin Users
ASSUME OpsAssumption == NoOp \notin Ops

VARIABLES
    row,        \* the committed row of the submission
    lock,       \* the op whose transaction holds the row's lock
    events,     \* committed submission_status_events
    audits,     \* the ops whose audit_log row is committed
    responses,  \* the ops whose submission_responses row is committed
    handlers,   \* users with the role flag of the submission's type
    prompted,   \* users whose FSM state is ResponseForm.text, for this case
    pc,         \* the await every handler invocation is suspended at
    req,        \* what it was asked: its kind, the user and his permission
    seen,       \* the assignee its authorize has read
    prev,       \* the status its close has read
    wrote,      \* the journal rows its transaction has inserted
    outcome,    \* what came of it
    told,       \* <<status, user>> announced on responsibles' cards
    inbox,      \* the ops whose message reached the applicant
    acked       \* the ops that reported success to the person acting

database == <<row, lock, events, audits, responses>>
roles == <<handlers, prompted>>
locals == <<req, seen, prev, wrote>>
effects == <<told, inbox, acked>>

vars == <<database, roles, pc, locals, outcome, effects>>

Status == {"new", "in_progress", "closed"}

\* "take" and "close" are the buttons and the commands olish and yopish;
\* "ask" is the Telegram reply button, "text" the message that follows it,
\* "mxreply" the plain text of a Matrix reply to a card.
Kinds == {"take", "close", "ask", "text", "mxreply"}
StatusKinds == {"take", "close"}
ReplyKinds == {"text", "mxreply"}

PCs == {"idle", "authorize", "claim", "readPrev", "update", "record",
        "ask", "getData", "clear", "respond", "commit", "cards", "notify",
        "deliver", "done", "dead"}

Stopped == {"idle", "done", "dead"}
Outcomes == {"none", "denied", "lost", "committed"}
Rows == {"event", "audit", "response"}

Events == [from : Status, to : Status, actor : Users]

Kind(o) == req[o].kind
Actor(o) == req[o].user
Target(o) == IF Kind(o) = "take" THEN "in_progress" ELSE "closed"

----------------------------------------------------------------------------

Init ==
    /\ row = [status |-> "new", assignee |-> NoUser, closer |-> NoUser]
    /\ lock = NoOp
    /\ events = <<>>
    /\ audits = {}
    /\ responses = {}
    /\ handlers = Users \ Admins
    /\ prompted = {}
    /\ pc = [o \in Ops |-> "idle"]
    /\ req = [o \in Ops |-> [kind |-> "take", user |-> NoUser, may |-> FALSE]]
    /\ seen = [o \in Ops |-> NoUser]
    /\ prev = [o \in Ops |-> "new"]
    /\ wrote = [o \in Ops |-> {}]
    /\ outcome = [o \in Ops |-> "none"]
    /\ told = {}
    /\ inbox = {}
    /\ acked = {}

\* The handler continues at the await l.
Goto(o, l) == pc' = [pc EXCEPT ![o] = l]

\* The handler returns with the outcome r, having changed nothing.
Return(o, r) ==
    /\ Goto(o, "done")
    /\ outcome' = [outcome EXCEPT ![o] = r]

\* An update arrives: the middlewares open a session and read the user, whose
\* role flags the handler keeps using.  "text" needs the FSM filter to match.
Receive(o, k, u) ==
    /\ pc[o] = "idle"
    /\ k = "text" => u \in prompted
    /\ req' = [req EXCEPT ![o] =
                 [kind |-> k, user |-> u, may |-> u \in handlers \cup Admins]]
    /\ Goto(o, IF k = "text" THEN "getData" ELSE "authorize")
    /\ UNCHANGED <<database, roles, seen, prev, wrote, outcome, effects>>

\* Mutant: require_owner forgotten.
Permitted_AnyColleague(o) == req[o].may

\* can_handle_type and, but for a take, first-claim ownership.
Permitted(o) ==
    /\ req[o].may
    /\ \/ Kind(o) = "take"
       \/ Actor(o) \in Admins
       \/ row.assignee \in {NoUser, Actor(o)}

AuthorizeDenied(o) ==
    /\ pc[o] = "authorize"
    /\ ~Permitted(o)
    /\ Return(o, "denied")
    /\ UNCHANGED <<database, roles, locals, effects>>

AfterAuthorize(k) ==
    CASE k = "take" -> "claim"
      [] k = "close" -> "readPrev"
      [] k = "ask" -> "ask"
      [] OTHER -> "respond"

AuthorizeGranted(o) ==
    /\ pc[o] = "authorize"
    /\ Permitted(o)
    /\ seen' = [seen EXCEPT ![o] = row.assignee]
    /\ Goto(o, AfterAuthorize(Kind(o)))
    /\ UNCHANGED <<database, roles, req, prev, wrote, outcome, effects>>

\* The UPDATE of o takes the row lock, which must be free.
LockRow(o) ==
    /\ lock = NoOp
    /\ lock' = o
    /\ Goto(o, "record")
    /\ UNCHANGED <<row, events, audits, responses, roles, locals, outcome, effects>>

\* Mutant: the UPDATE of try_claim without its status = 'new'.
ClaimWon_NoWhere(o) ==
    /\ pc[o] = "claim"
    /\ LockRow(o)

\* try_claim: UPDATE ... WHERE status = 'new' RETURNING id.
ClaimWon(o) ==
    /\ pc[o] = "claim"
    /\ row.status = "new"
    /\ LockRow(o)

ClaimLost(o) ==
    /\ pc[o] = "claim"
    /\ row.status # "new"
    /\ Return(o, "lost")
    /\ UNCHANGED <<database, roles, locals, effects>>

\* repo.close reads the previous status with a statement of its own ...
ReadPrev(o) ==
    /\ pc[o] = "readPrev"
    /\ prev' = [prev EXCEPT ![o] = row.status]
    /\ Goto(o, "update")
    /\ UNCHANGED <<database, roles, req, seen, wrote, outcome, effects>>

\* Mutant: the UPDATE of close without its status <> 'closed'.
CloseWon_NoWhere(o) ==
    /\ pc[o] = "update"
    /\ LockRow(o)

\* ... and then runs UPDATE ... WHERE status <> 'closed'.
CloseWon(o) ==
    /\ pc[o] = "update"
    /\ row.status # "closed"
    /\ LockRow(o)

\* on_close answers cb-closed all the same; the Matrix bridge says it was closed.
CloseLost(o) ==
    /\ pc[o] = "update"
    /\ row.status = "closed"
    /\ Return(o, "lost")
    /\ UNCHANGED <<database, roles, locals, effects>>

\* on_reply_start, once authorized: state and data of the FSM, then the prompt.
AskText(o) ==
    /\ pc[o] = "ask"
    /\ prompted' = prompted \cup {Actor(o)}
    /\ Goto(o, "done")
    /\ UNCHANGED <<database, handlers, locals, outcome, effects>>

\* on_reply_text: data["submission_id"] is a KeyError when an earlier message
\* of the same person has cleared the state since the filter matched.
GetData(o) ==
    /\ pc[o] = "getData"
    /\ Goto(o, IF Actor(o) \in prompted THEN "clear" ELSE "dead")
    /\ UNCHANGED <<database, roles, locals, outcome, effects>>

\* state.clear(), then only can_handle_type: ownership is not asked again.
ClearState(o) ==
    /\ pc[o] = "clear"
    /\ prompted' = prompted \ {Actor(o)}
    /\ IF req[o].may
       THEN Goto(o, "respond") /\ UNCHANGED outcome
       ELSE Return(o, "denied")
    /\ UNCHANGED <<database, handlers, locals, effects>>

\* Mutant: no AuditRepository.log.
RecordStatus_NoAudit(o) ==
    /\ pc[o] = "record"
    /\ wrote' = [wrote EXCEPT ![o] = {"event"}]
    /\ Goto(o, "commit")
    /\ UNCHANGED <<database, roles, req, seen, prev, outcome, effects>>

\* Mutant: the cards are edited before the commit.
RecordStatus_FanOutFirst(o) ==
    /\ pc[o] = "record"
    /\ wrote' = [wrote EXCEPT ![o] = {"event", "audit"}]
    /\ told' = told \cup {<<Target(o), Actor(o)>>}
    /\ Goto(o, "commit")
    /\ UNCHANGED <<database, roles, req, seen, prev, outcome, inbox, acked>>

\* The rows of the journal, inserted in the transaction of the operation:
\* the status event and the audit row of a take or close ...
RecordStatus(o) ==
    /\ pc[o] = "record"
    /\ wrote' = [wrote EXCEPT ![o] = {"event", "audit"}]
    /\ Goto(o, "commit")
    /\ UNCHANGED <<database, roles, req, seen, prev, outcome, effects>>

\* ... the response row and the audit row of a reply.
Respond(o) ==
    /\ pc[o] = "respond"
    /\ wrote' = [wrote EXCEPT ![o] = {"response", "audit"}]
    /\ Goto(o, "commit")
    /\ UNCHANGED <<database, roles, req, seen, prev, outcome, effects>>

\* Mutant: the label of the card written as the status.
UpdatedRow_CardLabel(o) ==
    IF Kind(o) = "take"
    THEN [row EXCEPT !.status = "assigned", !.assignee = Actor(o)]
    ELSE [row EXCEPT !.status = "closed", !.closer = Actor(o)]

\* Mutant: closing also takes the case over.
UpdatedRow_CloserTakesOver(o) ==
    IF Kind(o) = "take"
    THEN [row EXCEPT !.status = "in_progress", !.assignee = Actor(o)]
    ELSE [row EXCEPT !.status = "closed", !.closer = Actor(o), !.assignee = Actor(o)]

\* The columns the op's UPDATE has set.
UpdatedRow(o) ==
    IF Kind(o) = "take"
    THEN [row EXCEPT !.status = "in_progress", !.assignee = Actor(o)]
    ELSE [row EXCEPT !.status = "closed", !.closer = Actor(o)]

EventOf(o) ==
    [from |-> IF Kind(o) = "take" THEN "new" ELSE prev[o],
     to |-> Target(o), actor |-> Actor(o)]

\* session.commit() publishes what the transaction has inserted.
PublishRows(o) ==
    /\ events' = IF "event" \in wrote[o] THEN Append(events, EventOf(o)) ELSE events
    /\ audits' = IF "audit" \in wrote[o] THEN audits \cup {o} ELSE audits
    /\ responses' = IF "response" \in wrote[o] THEN responses \cup {o} ELSE responses
    /\ outcome' = [outcome EXCEPT ![o] = "committed"]

\* The commit of a take or a close, with the UPDATE of the row.
CommitStatus(o) ==
    /\ pc[o] = "commit"
    /\ Kind(o) \in StatusKinds
    /\ row' = UpdatedRow(o)
    /\ lock' = NoOp
    /\ PublishRows(o)
    /\ Goto(o, "cards")
    /\ UNCHANGED <<roles, locals, effects>>

CommitReply(o) ==
    /\ pc[o] = "commit"
    /\ Kind(o) \in ReplyKinds
    /\ PublishRows(o)
    /\ Goto(o, "deliver")
    /\ UNCHANGED <<row, lock, roles, locals, effects>>

\* update_all_cards and the sinks; what each card shows is CardSync's subject.
EditCards(o) ==
    /\ pc[o] = "cards"
    /\ told' = told \cup {<<Target(o), Actor(o)>>}
    /\ acked' = IF Kind(o) = "take" THEN acked \cup {o} ELSE acked
    /\ Goto(o, IF Kind(o) = "close" THEN "notify" ELSE "done")
    /\ UNCHANGED <<database, roles, locals, outcome, inbox>>

\* What becomes of a text for the applicant: delivered, given up after two
\* rounds of flood control (safe_send still returns True), or not deliverable,
\* because the bot is blocked or there is no chat reference.
SendOutcomes == {"delivered", "flooded", "unreachable"}

\* The applicant of a closed case is notified; the outcome is not looked at.
NotifyAuthor(o) ==
    /\ pc[o] = "notify"
    /\ \E r \in SendOutcomes :
         inbox' = IF r = "delivered" THEN inbox \cup {o} ELSE inbox
    /\ acked' = acked \cup {o}
    /\ Goto(o, "done")
    /\ UNCHANGED <<database, roles, locals, outcome, told>>

\* The reply is sent; the Telegram handler answers reply-sent whatever the
\* result, the Matrix bridge reacts only when safe_send returned True.
DeliverReply(o) ==
    /\ pc[o] = "deliver"
    /\ \E r \in SendOutcomes :
         /\ inbox' = IF r = "delivered" THEN inbox \cup {o} ELSE inbox
         /\ acked' = IF Kind(o) = "text" \/ r # "unreachable"
                     THEN acked \cup {o} ELSE acked
    /\ Goto(o, "done")
    /\ UNCHANGED <<database, roles, locals, outcome, told>>

\* Mutant: the session is neither rolled back nor closed.
Fail_NoRollback(o) ==
    /\ pc[o] \notin Stopped
    /\ Goto(o, "dead")
    /\ UNCHANGED <<database, roles, locals, outcome, effects>>

\* An exception leaves the handler: the middleware rolls the session back.
Fail(o) ==
    /\ pc[o] \notin Stopped
    /\ Goto(o, "dead")
    /\ lock' = IF lock = o THEN NoOp ELSE lock
    /\ UNCHANGED <<row, events, audits, responses, roles, locals, outcome, effects>>

\* The process dies; the database rolls back every open transaction, the FSM
\* state survives in Redis.
Crash ==
    /\ \E o \in Ops : pc[o] \notin Stopped
    /\ pc' = [o \in Ops |-> IF pc[o] \in Stopped THEN pc[o] ELSE "dead"]
    /\ lock' = NoOp
    /\ UNCHANGED <<row, events, audits, responses, roles, locals, outcome, effects>>

\* /assign and the revoke button, committed while handlers are in flight.
SetRole(u) ==
    /\ handlers' = IF u \in handlers THEN handlers \ {u} ELSE handlers \cup {u}
    /\ UNCHANGED <<database, prompted, pc, locals, outcome, effects>>

Step(o) ==
    \/ AuthorizeDenied(o)
    \/ AuthorizeGranted(o)
    \/ ClaimWon(o)
    \/ ClaimLost(o)
    \/ ReadPrev(o)
    \/ CloseWon(o)
    \/ CloseLost(o)
    \/ RecordStatus(o)
    \/ AskText(o)
    \/ GetData(o)
    \/ ClearState(o)
    \/ Respond(o)
    \/ CommitStatus(o)
    \/ CommitReply(o)
    \/ EditCards(o)
    \/ NotifyAuthor(o)
    \/ DeliverReply(o)

Next ==
    \/ \E o \in Ops, k \in Kinds, u \in Users : Receive(o, k, u)
    \/ \E o \in Ops : Step(o)
    \/ \E o \in Ops : Fail(o)
    \/ Crash
    \/ \E u \in Users \ Admins : SetRole(u)

Spec == Init /\ [][Next]_vars

----------------------------------------------------------------------------

\* Types of the variables.
TypeOK ==
    /\ row \in [status : Status, assignee : Users \cup {NoUser},
                closer : Users \cup {NoUser}]
    /\ lock \in Ops \cup {NoOp}
    /\ events \in Seq(Events)
    /\ audits \subseteq Ops
    /\ responses \subseteq Ops
    /\ handlers \subseteq Users
    /\ prompted \subseteq Users
    /\ pc \in [Ops -> PCs]
    /\ req \in [Ops -> [kind : Kinds, user : Users \cup {NoUser}, may : BOOLEAN]]
    /\ \A o \in Ops : pc[o] # "idle" => Actor(o) \in Users
    /\ seen \in [Ops -> Users \cup {NoUser}]
    /\ prev \in [Ops -> Status]
    /\ wrote \in [Ops -> SUBSET Rows]
    /\ outcome \in [Ops -> Outcomes]
    /\ told \subseteq Status \X Users
    /\ inbox \subseteq Ops
    /\ acked \subseteq Ops

ClaimedBy(u) == \E i \in DOMAIN events : events[i].to = "in_progress" /\ events[i].actor = u
ClosedBy(u) == \E i \in DOMAIN events : events[i].to = "closed" /\ events[i].actor = u

\* Whatever interleaving, failure or crash produced them, the committed events
\* explain the committed row: no event twice, the last one names the current
\* status, the owner and the closer are the actors of the two events
\* (try_claim, close and record_status_event in one transaction).
HistoryExplainsRow ==
    /\ \A i, j \in DOMAIN events : events[i].to = events[j].to => i = j
    /\ row.status = IF events = <<>> THEN "new" ELSE events[Len(events)].to
    /\ row.assignee # NoUser <=> \E i \in DOMAIN events : events[i].to = "in_progress"
    /\ row.assignee # NoUser => ClaimedBy(row.assignee)
    /\ row.closer # NoUser <=> \E i \in DOMAIN events : events[i].to = "closed"
    /\ row.closer # NoUser => ClosedBy(row.closer)

Committed(o) == outcome[o] = "committed"

\* Of any number of concurrent takes at most one commits, and the winner is,
\* and stays, the owner of the case (try_claim: "True iff this caller won").
WinnerIsOwner ==
    \A o \in Ops : Committed(o) /\ Kind(o) = "take" =>
        /\ row.assignee = Actor(o)
        /\ \A p \in Ops : Committed(p) /\ Kind(p) = "take" => p = o

\* Every committed operation has exactly its own journal: an audit row, and a
\* response row if it is a reply; nothing of an operation that failed earlier.
JournalComplete ==
    /\ audits = {o \in Ops : Committed(o)}
    /\ responses = {o \in audits : Kind(o) \in ReplyKinds}
    /\ Len(events) = Cardinality({o \in audits : Kind(o) \in StatusKinds})

\* Nobody is told of a state a rollback could still erase: what a card says,
\* what the applicant received and what an actor was confirmed is committed
\* (the rule of the docstring of actions.py).
NeverAheadOfDatabase ==
    /\ \A t \in told : \E i \in DOMAIN events :
            events[i].to = t[1] /\ events[i].actor = t[2]
    /\ inbox \cup acked \subseteq audits

\* An owner once seen by authorize is respected: when somebody who is neither
\* owner nor admin closes or answers, from the Matrix bridge or by the close
\* button, an owned case, his authorization had read it unclaimed.
SeenOwnerRespected ==
    \A o \in Ops :
        (/\ Committed(o)
         /\ Kind(o) \in {"close", "mxreply"}
         /\ Actor(o) \notin Admins
         /\ row.assignee \notin {NoUser, Actor(o)})
        => seen[o] = NoUser

\* The handlers implement the life cycle promised for a case.
Case == INSTANCE CaseLifecycle WITH
            status <- row.status,
            owner <- row.assignee,
            closer <- row.closer,
            history <- [i \in DOMAIN events |->
                          [to |-> events[i].to, actor |-> events[i].actor]]

ImplementsCase == Case!Spec

\* The applicant hears of the closing at most once, and only of a closed case.
ClosedNoticeOnce ==
    \A o, p \in inbox : Kind(o) = "close" /\ Kind(p) = "close" =>
        o = p /\ row.status = "closed"

\* Nobody waits for ever for the row's lock: its holder is a handler on its way
\* to the commit that waits for nobody, and has neither failed nor died with
\* the process (DbSessionMiddleware's rollback).
LockIsLetGo == lock # NoOp => pc[lock] \in {"record", "commit"}

----------------------------------------------------------------------------
(* What the code's comments promise and the interleavings do not keep.     *)

\* The events of a case form a chain: "Capturing the prior status in the same
\* conditional UPDATE avoids a stale read under concurrency", repo.close.
EventsFormChain ==
    \A i \in DOMAIN events :
        events[i].from = IF i = 1 THEN "new" ELSE events[i - 1].to

\* "first-claim ownership, so colleagues can't act on each other's cases",
\* authorize: a claimed case is closed by its owner or an admin.
ClosedByOwner ==
    [][ row.status = "in_progress" /\ row'.status = "closed"
        => row'.closer \in Admins \cup {row.assignee} ]_row

\* The same promise for the Telegram reply that follows the reply button.
AnsweredByOwner ==
    [][ \A o \in responses' \ responses :
          Kind(o) = "text" /\ row.assignee # NoUser
          => Actor(o) \in Admins \cup {row.assignee} ]_responses

=============================================================================

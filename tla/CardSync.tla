------------------------------ MODULE CardSync ------------------------------
(***************************************************************************)
(* The cards of one submission in both channels: who gets one, and who     *)
(* redraws it.  The handlers that touch them have each a session of their  *)
(* own: the on_submit that dispatches the new submission and announces it  *)
(* in Matrix, the take and the close that win (SubmissionActions), and the *)
(* !karta commands that post the card once more.  A handler knows only the *)
(* delivery rows that were committed when it read them, and writes on a    *)
(* card what it knew when it rendered it.                                  *)
(***************************************************************************)
EXTENDS Naturals, FiniteSets

CONSTANTS
    TG,         \* responsibles reachable in Telegram
    MX,         \* responsibles reachable in Matrix (their DM cards)
    Copies,     \* cards that !karta may post; each names the command's handler
    Faults      \* what the network may do: "skip", "raise"; "crash" of the bot

ASSUME ChannelsAssumption ==
    /\ TG \cap MX = {}
    /\ Copies \cap (TG \cup MX \cup {"dispatch", "take", "close"}) = {}

VARIABLES
    status,     \* committed submissions.status
    card,       \* what a card shows, "none" if it was not posted
    rows,       \* cards with a committed delivery row
    sent,       \* cards whose row is still in the session of who posted them
    pc,         \* where each handler is
    todo,       \* the recipients left in the handler's current loop
    snap,       \* the status the handler's Matrix text was rendered from
    faulty,     \* history: some call of a handler failed
    missed,     \* history: cards the latest redraw of their channel did not find
    crossed     \* history: a close was committed while the take still redrew

vars == <<status, card, rows, sent, pc, todo, snap, faulty, missed, crossed>>

Cards == TG \cup MX \cup Copies
Handlers == {"dispatch", "take", "close"} \cup Copies
Ops == {"take", "close"}
Status == {"new", "in_progress", "closed"}
Rank == [none |-> 0, new |-> 0, in_progress |-> 1, closed |-> 2]

\* The status a winning handler commits and writes on the cards.
Shown(p) == IF p = "take" THEN "in_progress" ELSE "closed"

\* The WHERE of try_claim and of close.
Allowed(p) == status = "new" \/ (p = "close" /\ status = "in_progress")

Over(p) == pc[p] \in {"idle", "done", "dead"}

Init ==
    /\ status = "new"
    /\ card = [c \in Cards |-> "none"]
    /\ rows = {}
    /\ sent = {}
    /\ pc = [p \in Handlers |-> IF p = "dispatch" THEN "start" ELSE "idle"]
    /\ todo = [p \in Handlers |-> {}]
    /\ snap = [p \in Handlers |-> "new"]
    /\ faulty = FALSE
    /\ missed = {}
    /\ crossed = FALSE

Goto(p, l) == pc' = [pc EXCEPT ![p] = l]
Loop(p, S, l) == todo' = [todo EXCEPT ![p] = S] /\ Goto(p, l)
Drop(p, c) == todo' = [todo EXCEPT ![p] = @ \ {c}]
Show(c, s) == card' = [card EXCEPT ![c] = s]

\* A call to the network that fails in the way f, when such faults happen.
Fault(f) == f \in Faults /\ faulty' = TRUE

----------------------------------------------------------------------------
(* on_submit after the commit of the submission                            *)

\* dispatch_to_responsibles: the responsibles of the type.
DispatchStart ==
    /\ pc["dispatch"] = "start"
    /\ Loop("dispatch", TG, "send")
    /\ UNCHANGED <<status, card, rows, sent, snap, faulty, missed, crossed>>

\* One recipient: the card goes out and its row waits for the flush; the bot
\* is blocked or flooded and the recipient is skipped (_send_with_retry); or an
\* exception it does not catch ends the handler and the session with its rows.
SendCard(c) ==
    /\ pc["dispatch"] = "send"
    /\ c \in todo["dispatch"]
    /\ \/ /\ Show(c, "new")
          /\ sent' = sent \cup {c}
          /\ Drop("dispatch", c)
          /\ UNCHANGED <<pc, faulty>>
       \/ /\ Fault("skip")
          /\ Drop("dispatch", c)
          /\ UNCHANGED <<card, sent, pc>>
       \/ /\ Fault("raise")
          /\ sent' = sent \cap Copies
          /\ Goto("dispatch", "dead")
          /\ UNCHANGED <<card, todo>>
    /\ UNCHANGED <<status, rows, snap, missed, crossed>>

\* session.commit(): the SubmissionDelivery rows become visible.
CommitDispatch ==
    /\ pc["dispatch"] = "send"
    /\ todo["dispatch"] = {}
    /\ rows' = rows \cup (sent \ Copies)
    /\ sent' = sent \cap Copies
    /\ Goto("dispatch", "load")
    /\ UNCHANGED <<status, card, todo, snap, faulty, missed, crossed>>

\* Mutant: a submission somebody took already is not announced.
AnnounceLoad_OnlyNew ==
    /\ pc["dispatch"] = "load"
    /\ snap' = [snap EXCEPT !["dispatch"] = status]
    /\ Loop("dispatch", IF status = "new" THEN MX ELSE {}, "announce")
    /\ UNCHANGED <<status, card, rows, sent, faulty, missed, crossed>>

\* announce: _load reads the submission once for every recipient.
AnnounceLoad ==
    /\ pc["dispatch"] = "load"
    /\ snap' = [snap EXCEPT !["dispatch"] = status]
    /\ Loop("dispatch", MX, "announce")
    /\ UNCHANGED <<status, card, rows, sent, faulty, missed, crossed>>

\* A recipient's DM: no room or no event id skips him, no exception leaves.
AnnounceCard(c) ==
    /\ pc["dispatch"] = "announce"
    /\ c \in todo["dispatch"]
    /\ \/ /\ Show(c, snap["dispatch"])
          /\ sent' = sent \cup {c}
          /\ UNCHANGED faulty
       \/ /\ Fault("skip")
          /\ UNCHANGED <<card, sent>>
    /\ Drop("dispatch", c)
    /\ UNCHANGED <<status, rows, pc, snap, missed, crossed>>

\* session.commit() after the sinks: the MatrixDelivery rows become visible.
CommitAnnounce ==
    /\ pc["dispatch"] = "announce"
    /\ todo["dispatch"] = {}
    /\ rows' = rows \cup (sent \ Copies)
    /\ sent' = sent \cap Copies
    /\ Goto("dispatch", "done")
    /\ UNCHANGED <<status, card, todo, snap, faulty, missed, crossed>>

----------------------------------------------------------------------------
(* take and close after their row has won (SubmissionActions)              *)

\* The commit of the status change, by anybody who sees the case: on a card
\* or, as soon as the submission is committed, in the registry.
CommitStatus(p) ==
    /\ pc[p] = "idle"
    /\ Allowed(p)
    /\ status' = Shown(p)
    /\ crossed' = (crossed \/ \E q \in Ops \ {p} : ~Over(q))
    /\ Goto(p, "rows")
    /\ UNCHANGED <<card, rows, sent, todo, snap, faulty, missed>>

\* update_all_cards: deliveries_for.
SelectRows(p) ==
    /\ pc[p] = "rows"
    /\ Loop(p, rows \cap TG, "edit")
    /\ missed' = (missed \ TG) \cup (TG \ rows)
    /\ UNCHANGED <<status, card, rows, sent, snap, faulty, crossed>>

\* Mutant: close redraws the whole card from the object it authorized.
EditCard_OldObject(p, c) ==
    /\ pc[p] = "edit"
    /\ c \in todo[p]
    /\ Show(c, IF p = "close" THEN snap[p] ELSE Shown(p))
    /\ Drop(p, c)
    /\ UNCHANGED <<status, rows, sent, pc, snap, faulty, missed, crossed>>

\* edit_message_text: done; the message is gone or the bot blocked, which is
\* passed over; or flood control strikes again on the retry, and the exception
\* takes the rest of the loop and the sinks with it.
EditCard(p, c) ==
    /\ pc[p] = "edit"
    /\ c \in todo[p]
    /\ \/ /\ Show(c, Shown(p))
          /\ Drop(p, c)
          /\ UNCHANGED <<pc, faulty>>
       \/ /\ Fault("skip")
          /\ Drop(p, c)
          /\ UNCHANGED <<card, pc>>
       \/ /\ Fault("raise")
          /\ Goto(p, "dead")
          /\ UNCHANGED <<card, todo>>
    /\ UNCHANGED <<status, rows, sent, snap, missed, crossed>>

\* MatrixBridge.refresh: _load with populate_existing ...
RefreshLoad(p) ==
    /\ pc[p] = "edit"
    /\ todo[p] = {}
    /\ snap' = [snap EXCEPT ![p] = status]
    /\ Goto(p, "cards")
    /\ UNCHANGED <<status, card, rows, sent, todo, faulty, missed, crossed>>

\* Mutant: only the cards of announce are found, not the copies.
RefreshSelect_NoCopies(p) ==
    /\ pc[p] = "cards"
    /\ Loop(p, rows \cap MX, "refresh")
    /\ missed' = (missed \cap TG) \cup ((MX \cup Copies) \ rows)
    /\ UNCHANGED <<status, card, rows, sent, snap, faulty, crossed>>

\* ... cards_for ...
RefreshSelect(p) ==
    /\ pc[p] = "cards"
    /\ Loop(p, rows \ TG, "refresh")
    /\ missed' = (missed \cap TG) \cup ((MX \cup Copies) \ rows)
    /\ UNCHANGED <<status, card, rows, sent, snap, faulty, crossed>>

\* ... and edit_html for each; a failed edit is not noticed.
RefreshCard(p, c) ==
    /\ pc[p] = "refresh"
    /\ c \in todo[p]
    /\ \/ Show(c, snap[p]) /\ UNCHANGED faulty
       \/ Fault("skip") /\ UNCHANGED card
    /\ Drop(p, c)
    /\ UNCHANGED <<status, rows, sent, pc, snap, missed, crossed>>

RefreshDone(p) ==
    /\ pc[p] = "refresh"
    /\ todo[p] = {}
    /\ Goto(p, "done")
    /\ UNCHANGED <<status, card, rows, sent, todo, snap, faulty, missed, crossed>>

----------------------------------------------------------------------------
(* !karta: the card once more in the room of who asks (_repost)            *)

\* authorize, then _load: the text is rendered from the row as it is now.
RepostLoad(c) ==
    /\ pc[c] = "idle"
    /\ snap' = [snap EXCEPT ![c] = status]
    /\ Goto(c, "post")
    /\ UNCHANGED <<status, card, rows, sent, todo, faulty, missed, crossed>>

\* send_html; without an event id there is no row to add.
RepostSend(c) ==
    /\ pc[c] = "post"
    /\ \/ /\ Show(c, snap[c])
          /\ sent' = sent \cup {c}
          /\ UNCHANGED faulty
       \/ /\ Fault("skip")
          /\ UNCHANGED <<card, sent>>
    /\ Goto(c, "store")
    /\ UNCHANGED <<status, rows, todo, snap, missed, crossed>>

\* Mutant: the copy is posted and not added to the deliveries.
RepostStore_NoRow(c) ==
    /\ pc[c] = "store"
    /\ sent' = sent \ {c}
    /\ Goto(c, "done")
    /\ UNCHANGED <<status, card, rows, todo, snap, faulty, missed, crossed>>

\* handle_event commits: redraws find the copy, and replies to it its case.
RepostStore(c) ==
    /\ pc[c] = "store"
    /\ rows' = rows \cup (sent \cap {c})
    /\ sent' = sent \ {c}
    /\ Goto(c, "done")
    /\ UNCHANGED <<status, card, todo, snap, faulty, missed, crossed>>

----------------------------------------------------------------------------

\* The process dies with every handler in it; nothing resumes them.
Crash ==
    /\ \E p \in Handlers : ~Over(p)
    /\ Fault("crash")
    /\ pc' = [p \in Handlers |-> IF Over(p) THEN pc[p] ELSE "dead"]
    /\ sent' = {}
    /\ UNCHANGED <<status, card, rows, todo, snap, missed, crossed>>

Dispatch ==
    \/ DispatchStart
    \/ \E c \in TG : SendCard(c)
    \/ CommitDispatch
    \/ AnnounceLoad
    \/ \E c \in MX : AnnounceCard(c)
    \/ CommitAnnounce

Redraw(p) ==
    \/ SelectRows(p)
    \/ \E c \in TG : EditCard(p, c)
    \/ RefreshLoad(p)
    \/ RefreshSelect(p)
    \/ \E c \in MX \cup Copies : RefreshCard(p, c)
    \/ RefreshDone(p)

Repost(c) == RepostSend(c) \/ RepostStore(c)

Next ==
    \/ Dispatch
    \/ \E p \in Ops : CommitStatus(p) \/ Redraw(p)
    \/ \E c \in Copies : RepostLoad(c) \/ Repost(c)
    \/ Crash

Spec == Init /\ [][Next]_vars

\* The event loop resumes a handler when its call returns; nobody has to act.
FairSpec ==
    /\ Spec
    /\ WF_vars(Dispatch)
    /\ \A p \in Ops : WF_vars(Redraw(p))
    /\ \A c \in Copies : WF_vars(Repost(c))

----------------------------------------------------------------------------

\* Types of the variables.
TypeOK ==
    /\ status \in Status
    /\ card \in [Cards -> Status \cup {"none"}]
    /\ rows \subseteq Cards /\ sent \subseteq Cards /\ missed \subseteq Cards
    /\ pc \in [Handlers -> {"idle", "start", "send", "load", "announce", "rows",
                            "edit", "cards", "refresh", "post", "store",
                            "done", "dead"}]
    /\ todo \in [Handlers -> SUBSET Cards]
    /\ snap \in [Handlers -> Status]
    /\ faulty \in BOOLEAN /\ crossed \in BOOLEAN

\* No card, in either channel and in any interleaving, shows a status the
\* database does not have yet (commit before fan-out; refresh reads the row).
NoCardAhead == \A c \in Cards : Rank[card[c]] <= Rank[status]

\* A delivery row, committed or not, belongs to a card that went out, and a
\* card without a row is only one that a handler which failed has sent.
RowsTrackCards ==
    /\ rows \cup sent \subseteq {c \in Cards : card[c] # "none"}
    /\ {c \in Cards : card[c] # "none"} \subseteq rows \cup sent \/ faulty

\* Once every handler has ended without a fault, a card that does not show the
\* current status is one whose row was not committed when the latest redraw of
\* its channel selected the rows.  (Redraws that run at once may cross.)
Quiet == \A p \in Handlers : Over(p)
StaleOnlyIfMissed ==
    Quiet /\ ~faulty /\ ~crossed =>
        \A c \in Cards : card[c] \in {"none", status} \/ c \in missed

\* A card once sent is never taken away, and a Telegram card that lost its
\* buttons does not get them back (edit_message_text without reply_markup).
ButtonsStayGone ==
    [][ \A c \in TG : card[c] \notin {"none", "new"} => card'[c] \notin {"none", "new"} ]_card

\* The handlers of both channels together keep what CardLifecycle promises of
\* the cards: the statuses the case has had are those whose handler committed.
Had == {"new"} \cup {Shown(p) : p \in {q \in Ops : pc[q] # "idle"}}
Life == INSTANCE CardLifecycle WITH had <- Had
ImplementsCards == Life!Spec

\* Every responsible of the type gets a card in his channel unless a call
\* fails, whatever is taken or closed meanwhile.
EveryoneGetsCard == \A c \in TG \cup MX : <>(card[c] # "none" \/ faulty)

\* Every take or close gets to the end of its redraws.
EveryRedrawEnds == \A p \in Ops : pc[p] = "rows" ~> Over(p)

----------------------------------------------------------------------------
(* README.md:40: the status is updated synchronously on all cards of both  *)
(* channels.                                                               *)

\* Without any fault, cards agree with the database once every handler ended.
CardsInSync ==
    Quiet /\ ~faulty => \A c \in Cards : card[c] \in {"none", status}

=============================================================================

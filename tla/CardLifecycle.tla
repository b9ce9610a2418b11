---------------------------- MODULE CardLifecycle ----------------------------
(***************************************************************************)
(* What the bot promises about the cards of one case, whoever sends and    *)
(* redraws them and whatever fails meanwhile: a card is posted once, shows *)
(* a status the case has really had, is redrawn only when its delivery is  *)
(* recorded and never back to an untaken case; no record is lost, and none *)
(* names a card that was not posted.                                       *)
(***************************************************************************)
EXTENDS Naturals

CONSTANTS
    Cards       \* the messages that may become a card of the case

VARIABLES
    had,        \* the statuses the case has had so far
    card,       \* what a card shows, "none" before it is posted
    rows        \* the cards whose delivery is recorded

lifeVars == <<had, card, rows>>

Order == [new |-> 0, in_progress |-> 1, closed |-> 2]

Init ==
    /\ had = {"new"}
    /\ card = [c \in Cards |-> "none"]
    /\ rows = {}

\* The case goes forward.
Change(s) ==
    /\ \A h \in had : Order[h] < Order[s]
    /\ had' = had \cup {s}
    /\ UNCHANGED <<card, rows>>

Post(c) ==
    /\ card[c] = "none"
    /\ \E s \in had : card' = [card EXCEPT ![c] = s]
    /\ UNCHANGED <<had, rows>>

\* A redraw follows a change of the case and finds the card by its record.
Redraw(c) ==
    /\ c \in rows
    /\ \E s \in had \ {"new"} : card' = [card EXCEPT ![c] = s]
    /\ UNCHANGED <<had, rows>>

\* A commit records posted cards.
Record(S) ==
    /\ \A c \in S : card[c] # "none"
    /\ rows' = rows \cup S
    /\ UNCHANGED <<had, card>>

Next ==
    \/ \E s \in DOMAIN Order : Change(s)
    \/ \E c \in Cards : Post(c) \/ Redraw(c)
    \/ \E S \in SUBSET Cards : Record(S)

Spec == Init /\ [][Next]_lifeVars

=============================================================================

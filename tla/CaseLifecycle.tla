--------------------------- MODULE CaseLifecycle ---------------------------
(***************************************************************************)
(* What the bot promises about one case (a submission), whatever happens   *)
(* in its handlers, its sessions and its process: a case goes forward      *)
(* new -> in_progress -> closed, the first claim fixes its owner, closing  *)
(* is final, and the public history of the case has one entry per change.  *)
(***************************************************************************)
EXTENDS Sequences

CONSTANTS
    Users,      \* everybody who may press a button under a card
    NoUser      \* the NULL of assigned_to_user_id and closed_by_user_id

VARIABLES
    status,     \* submissions.status
    owner,      \* submissions.assigned_to_user_id
    closer,     \* submissions.closed_by_user_id
    history     \* the status events of the case: to which status, by whom

caseVars == <<status, owner, closer, history>>

Init ==
    /\ status = "new"
    /\ owner = NoUser
    /\ closer = NoUser
    /\ history = <<>>

\* The first claim of a new case fixes its owner for good.
Claim(u) ==
    /\ status = "new"
    /\ status' = "in_progress"
    /\ owner' = u
    /\ history' = Append(history, [to |-> "in_progress", actor |-> u])
    /\ UNCHANGED closer

\* An open case, claimed or not, is closed once.
Close(u) ==
    /\ status # "closed"
    /\ status' = "closed"
    /\ closer' = u
    /\ history' = Append(history, [to |-> "closed", actor |-> u])
    /\ UNCHANGED owner

Next == \E u \in Users : Claim(u) \/ Close(u)

Spec == Init /\ [][Next]_caseVars

=============================================================================

---------------------- MODULE SubmissionActionsProofs ----------------------
(***************************************************************************)
(* Proofs about SubmissionActions for any number of people and handlers.   *)
(***************************************************************************)
EXTENDS SubmissionActions, SequenceTheorems, FiniteSetTheorems, TLAPS

LEMMA TypeInit == Init => TypeOK
  BY UsersAssumption DEF Init, TypeOK, PCs, Kinds, Status, Rows, Outcomes

LEMMA TypeNext == TypeOK /\ [Next]_vars => TypeOK'
  <1> SUFFICES ASSUME TypeOK, [Next]_vars PROVE TypeOK'
    OBVIOUS
  <1> USE DEF TypeOK, Goto, database, roles, locals, effects, PCs, Outcomes,
              Status, Rows, Actor
  <1>1. ASSUME NEW o \in Ops, NEW k \in Kinds, NEW u \in Users, Receive(o, k, u)
        PROVE  TypeOK'
    BY <1>1 DEF Receive
  <1>2. ASSUME NEW o \in Ops, Step(o) PROVE TypeOK'
    <2>1. CASE AuthorizeDenied(o)
      BY <2>1 DEF AuthorizeDenied, Return
    <2>2. CASE AuthorizeGranted(o)
      BY <2>2 DEF AuthorizeGranted, AfterAuthorize, Kinds, Kind
    <2>3. CASE ClaimWon(o)
      BY <2>3 DEF ClaimWon, LockRow
    <2>4. CASE ClaimLost(o)
      BY <2>4 DEF ClaimLost, Return
    <2>5. CASE ReadPrev(o)
      BY <2>5 DEF ReadPrev
    <2>6. CASE CloseWon(o)
      BY <2>6 DEF CloseWon, LockRow
    <2>7. CASE CloseLost(o)
      BY <2>7 DEF CloseLost, Return
    <2>8. CASE AskText(o)
      BY <2>8 DEF AskText
    <2>9. CASE GetData(o)
      BY <2>9 DEF GetData
    <2>10. CASE ClearState(o)
      BY <2>10 DEF ClearState, Return, Actor
    <2>11. CASE RecordStatus(o)
      BY <2>11 DEF RecordStatus
    <2>12. CASE Respond(o)
      BY <2>12 DEF Respond
    <2>13. CASE CommitStatus(o)
      <3> USE <2>13 DEF CommitStatus, PublishRows
      <3>1. EventOf(o) \in Events
        BY DEF EventOf, Target, Events
      <3>2. events' \in Seq(Events)
        BY <3>1
      <3>3. UpdatedRow(o) \in [status : Status, assignee : Users \cup {NoUser},
                                closer : Users \cup {NoUser}]
        BY DEF UpdatedRow
      <3> QED BY <3>2, <3>3
    <2>14. CASE CommitReply(o)
      <3> USE <2>14 DEF CommitReply, PublishRows
      <3>1. EventOf(o) \in Events
        BY DEF EventOf, Target, Events
      <3>2. events' \in Seq(Events)
        BY <3>1
      <3> QED BY <3>2
    <2>15. CASE EditCards(o)
      BY <2>15 DEF EditCards, Target, Kind
    <2>16. CASE NotifyAuthor(o)
      BY <2>16 DEF NotifyAuthor
    <2>17. CASE DeliverReply(o)
      BY <2>17 DEF DeliverReply
    <2> QED BY <1>2, <2>1, <2>2, <2>3, <2>4, <2>5, <2>6, <2>7, <2>8, <2>9, <2>10, <2>11, <2>12, <2>13, <2>14, <2>15, <2>16, <2>17 DEF Step
  <1>3. ASSUME NEW o \in Ops, Fail(o) PROVE TypeOK'
    BY <1>3 DEF Fail, Stopped
  <1>4. CASE Crash
    BY <1>4 DEF Crash, Stopped
  <1>5. ASSUME NEW u \in Users \ Admins, SetRole(u) PROVE TypeOK'
    BY <1>5 DEF SetRole
  <1>6. CASE UNCHANGED vars
    BY <1>6 DEF vars
  <1> QED BY <1>1, <1>2, <1>3, <1>4, <1>5, <1>6 DEF Next

----------------------------------------------------------------------------
(* The inductive invariant.  What the runs check mentions the committed    *)
(* rows and the outcomes; to be inductive it needs what the handlers still *)
(* on their way have established: who holds the lock, what the holder's    *)
(* UPDATE matched, and what an authorization has read.                     *)

\* Each await belongs to the operations that pass through it.
PcFits ==
    \A o \in Ops :
        /\ pc[o] = "authorize" => Kind(o) # "text"
        /\ pc[o] \in {"getData", "clear"} => Kind(o) = "text"
        /\ pc[o] = "claim" => Kind(o) = "take"
        /\ pc[o] \in {"readPrev", "update", "notify"} => Kind(o) = "close"
        /\ pc[o] \in {"record", "cards"} => Kind(o) \in StatusKinds
        /\ pc[o] \in {"respond", "deliver"} => Kind(o) \in ReplyKinds
        /\ pc[o] = "commit" =>
             \/ Kind(o) \in StatusKinds /\ wrote[o] = {"event", "audit"}
             \/ Kind(o) \in ReplyKinds /\ wrote[o] = {"response", "audit"}

\* Exactly the operations past their commit are committed and journalled.
OutcomeFits ==
    /\ \A o \in Ops :
        /\ outcome[o] # "none" => pc[o] \in {"cards", "notify", "deliver", "done", "dead"}
        /\ pc[o] \in {"cards", "notify", "deliver"} => Committed(o)
        /\ Committed(o) => Kind(o) \in StatusKinds \cup ReplyKinds
        /\ o \in audits <=> Committed(o)
        /\ o \in responses <=> Committed(o) /\ Kind(o) \in ReplyKinds
    /\ inbox \cup acked \subseteq audits

\* The lock's holder is the one between its UPDATE and its commit, and the
\* WHERE it matched still holds of the committed row.
LockFits ==
    \A o \in Ops :
        /\ lock = o <=> pc[o] \in {"record", "commit"} /\ Kind(o) \in StatusKinds
        /\ lock = o /\ Kind(o) = "take" => row.status = "new"
        /\ lock = o /\ Kind(o) = "close" => row.status # "closed"

\* The three shapes of a case and its events.
RowFits ==
    \/ /\ row.status = "new"
       /\ row.assignee = NoUser
       /\ row.closer = NoUser
       /\ events = <<>>
    \/ /\ row.status = "in_progress"
       /\ row.assignee # NoUser
       /\ row.closer = NoUser
       /\ Len(events) = 1
       /\ events[1].to = "in_progress" /\ events[1].actor = row.assignee
    \/ /\ row.status = "closed"
       /\ row.assignee = NoUser
       /\ row.closer # NoUser
       /\ Len(events) = 1
       /\ events[1].to = "closed" /\ events[1].actor = row.closer
    \/ /\ row.status = "closed"
       /\ row.assignee # NoUser
       /\ row.closer # NoUser
       /\ Len(events) = 2
       /\ events[1].to = "in_progress" /\ events[1].actor = row.assignee
       /\ events[2].to = "closed" /\ events[2].actor = row.closer

\* A committed take or close is the one the row names.
WinnerFits ==
    /\ \A o \in Ops : Committed(o) /\ Kind(o) = "take" =>
          row.status # "new" /\ row.assignee = Actor(o)
    /\ \A o \in Ops : Committed(o) /\ Kind(o) = "close" =>
          row.status = "closed" /\ row.closer = Actor(o)
    /\ \A o, p \in Ops : (/\ Committed(o) /\ Committed(p)
                          /\ Kind(o) \in StatusKinds /\ Kind(o) = Kind(p)) => o = p
    /\ \A t \in told :
          \/ t[1] = "in_progress" /\ row.status # "new" /\ row.assignee = t[2]
          \/ t[1] = "closed" /\ row.status = "closed" /\ row.closer = t[2]

\* An owner that authorize has read is the owner for good.
SeenFits ==
    \A o \in Ops :
        /\ pc[o] \in {"idle", "authorize"} => seen[o] = NoUser
        /\ seen[o] # NoUser => row.assignee = seen[o]
        /\ Kind(o) \in {"close", "ask", "mxreply"} /\ Actor(o) \notin Admins
             => seen[o] \in {NoUser, Actor(o)}

IInv ==
    /\ TypeOK
    /\ PcFits
    /\ OutcomeFits
    /\ LockFits
    /\ RowFits
    /\ WinnerFits
    /\ SeenFits

LEMMA IInvInit == Init => IInv
  <1> SUFFICES ASSUME Init PROVE IInv
    OBVIOUS
  <1>1. TypeOK
    BY TypeInit
  <1>2. PcFits /\ OutcomeFits /\ LockFits /\ RowFits /\ WinnerFits /\ SeenFits
    BY OpsAssumption
       DEF Init, PcFits, OutcomeFits, LockFits, RowFits, WinnerFits, SeenFits,
           Committed, Kind, StatusKinds
  <1> QED BY <1>1, <1>2 DEF IInv

LEMMA IInvNext == IInv /\ [Next]_vars => IInv'
  <1> SUFFICES ASSUME IInv, [Next]_vars PROVE IInv'
    OBVIOUS
  <1>0. TypeOK'
    BY TypeNext DEF IInv
  <1> USE UsersAssumption, OpsAssumption
          DEF Goto, database, roles, locals, effects, Committed, Kind, Actor,
              StatusKinds, ReplyKinds, IInv, TypeOK,
              PcFits, OutcomeFits, LockFits, RowFits, WinnerFits, SeenFits
  <1>1. ASSUME NEW o \in Ops, NEW k \in Kinds, NEW u \in Users, Receive(o, k, u)
        PROVE  IInv'
    BY <1>0, <1>1 DEF Receive
  <1>2. ASSUME NEW o \in Ops, Step(o) PROVE IInv'
    <2>1. CASE AuthorizeDenied(o)
      BY <1>0, <2>1 DEF AuthorizeDenied, Return
    <2>2. CASE AuthorizeGranted(o)
      BY <1>0, <2>2 DEF AuthorizeGranted, AfterAuthorize, Permitted, Kinds
    <2>3. CASE ClaimWon(o)
      BY <1>0, <2>3 DEF ClaimWon, LockRow
    <2>4. CASE ClaimLost(o)
      BY <1>0, <2>4 DEF ClaimLost, Return
    <2>5. CASE ReadPrev(o)
      BY <1>0, <2>5 DEF ReadPrev
    <2>6. CASE CloseWon(o)
      BY <1>0, <2>6 DEF CloseWon, LockRow
    <2>7. CASE CloseLost(o)
      BY <1>0, <2>7 DEF CloseLost, Return
    <2>8. CASE AskText(o)
      BY <1>0, <2>8 DEF AskText
    <2>9. CASE GetData(o)
      BY <1>0, <2>9 DEF GetData
    <2>10. CASE ClearState(o)
      BY <1>0, <2>10 DEF ClearState, Return
    <2>11. CASE RecordStatus(o)
      BY <1>0, <2>11 DEF RecordStatus
    <2>12. CASE Respond(o)
      BY <1>0, <2>12 DEF Respond
    <2>13. CASE CommitStatus(o)
      <3> USE <2>13 DEF CommitStatus, PublishRows
      <3>1. wrote[o] = {"event", "audit"}
        OBVIOUS
      <3>2. events' = Append(events, EventOf(o))
        BY <3>1
      <3>3. row' = UpdatedRow(o) /\ lock = o
        OBVIOUS
      <3>4. PcFits' /\ OutcomeFits' /\ LockFits'
        BY <3>1, <3>3
      <3>5. RowFits'
        <4>1. CASE Kind(o) = "take"
          BY <4>1, <3>2, <3>3 DEF UpdatedRow, EventOf, Target, Events
        <4>2. CASE Kind(o) = "close"
          BY <4>2, <3>2, <3>3 DEF UpdatedRow, EventOf, Target, Events
        <4> QED BY <4>1, <4>2
      <3>6. WinnerFits' /\ SeenFits'
        BY <3>3 DEF UpdatedRow
      <3> QED BY <1>0, <3>4, <3>5, <3>6
    <2>14. CASE CommitReply(o)
      <3> USE <2>14 DEF CommitReply, PublishRows
      <3>1. wrote[o] = {"response", "audit"}
        OBVIOUS
      <3>2. events' = events
        BY <3>1
      <3>3. PcFits' /\ OutcomeFits' /\ LockFits'
        BY <3>1
      <3>4. RowFits' /\ WinnerFits' /\ SeenFits'
        BY <3>2
      <3> QED BY <1>0, <3>3, <3>4
    <2>15. CASE EditCards(o)
      BY <1>0, <2>15 DEF EditCards, Target
    <2>16. CASE NotifyAuthor(o)
      BY <1>0, <2>16 DEF NotifyAuthor
    <2>17. CASE DeliverReply(o)
      BY <1>0, <2>17 DEF DeliverReply
    <2> QED BY <1>2, <2>1, <2>2, <2>3, <2>4, <2>5, <2>6, <2>7, <2>8, <2>9, <2>10, <2>11, <2>12, <2>13, <2>14, <2>15, <2>16, <2>17 DEF Step
  <1>3. ASSUME NEW o \in Ops, Fail(o) PROVE IInv'
    BY <1>0, <1>3 DEF Fail, Stopped
  <1>4. CASE Crash
    BY <1>0, <1>4 DEF Crash, Stopped
  <1>5. ASSUME NEW u \in Users \ Admins, SetRole(u) PROVE IInv'
    BY <1>0, <1>5 DEF SetRole
  <1>6. CASE UNCHANGED vars
    BY <1>0, <1>6 DEF vars
  <1> QED BY <1>1, <1>2, <1>3, <1>4, <1>5, <1>6 DEF Next

\* The inductive invariant holds in every reachable state of every instance.
THEOREM Invariance == Spec => []IInv
  <1>1. Init => IInv
    BY IInvInit
  <1>2. IInv /\ [Next]_vars => IInv'
    BY IInvNext
  <1> QED BY <1>1, <1>2, PTL DEF Spec

----------------------------------------------------------------------------

\* The variables of every reachable state have their types, for any number of
\* users and handler invocations (actions.py, responsible.py).
THEOREM TypeCorrectness == Spec => []TypeOK
  <1>1. IInv => TypeOK
    BY DEF IInv
  <1> QED BY <1>1, Invariance, PTL

\* The committed status events explain the committed row, whatever
\* interleaving, failure or crash produced them (try_claim, close,
\* record_status_event and their commit).
THEOREM HistoryExplains == Spec => []HistoryExplainsRow
  <1>1. IInv => HistoryExplainsRow
    BY DEF IInv, TypeOK, RowFits, HistoryExplainsRow, ClaimedBy, ClosedBy, Events
  <1> QED BY <1>1, Invariance, PTL

\* However many people take the case at once, at most one take commits and its
\* actor owns the case from then on (try_claim).
THEOREM OneWinner == Spec => []WinnerIsOwner
  <1>1. IInv => WinnerIsOwner
    BY DEF IInv, WinnerFits, WinnerIsOwner, StatusKinds
  <1> QED BY <1>1, Invariance, PTL

\* Cards, applicants and actors are only told of committed operations
\* (the docstring of actions.py: every operation commits before any fan-out).
THEOREM CommittedBeforeFanOut == Spec => []NeverAheadOfDatabase
  <1>1. ASSUME IInv PROVE NeverAheadOfDatabase
    <2> USE <1>1 DEF IInv, TypeOK
    <2>1. inbox \cup acked \subseteq audits
      BY DEF OutcomeFits
    <2>2. ASSUME NEW t \in told
          PROVE \E i \in DOMAIN events : events[i].to = t[1] /\ events[i].actor = t[2]
      <3>1. CASE t[1] = "in_progress" /\ row.status # "new" /\ row.assignee = t[2]
        <4>1. t[2] # NoUser
          BY UsersAssumption
        <4>2. 1 \in DOMAIN events /\ events[1].to = t[1] /\ events[1].actor = t[2]
          BY <3>1, <4>1 DEF RowFits
        <4> QED BY <4>2
      <3>2. CASE t[1] = "closed" /\ row.status = "closed" /\ row.closer = t[2]
        BY <3>2 DEF RowFits
      <3> QED BY <3>1, <3>2 DEF WinnerFits
    <2> QED BY <2>1, <2>2 DEF NeverAheadOfDatabase
  <1> QED BY <1>1, Invariance, PTL

\* Whoever acts on a case another one owns was authorized before that owner
\* claimed it (authorize with require_owner, try_claim).
THEOREM SeenOwnersRespected == Spec => []SeenOwnerRespected
  <1>1. IInv => SeenOwnerRespected
    BY DEF IInv, SeenFits, SeenOwnerRespected
  <1> QED BY <1>1, Invariance, PTL

\* The applicant is notified of the closing at most once (close, safe_send).
THEOREM OneClosedNotice == Spec => []ClosedNoticeOnce
  <1>1. IInv => ClosedNoticeOnce
    BY DEF IInv, TypeOK, OutcomeFits, WinnerFits, ClosedNoticeOnce, StatusKinds
  <1> QED BY <1>1, Invariance, PTL

\* The lock of the case is never left with a handler that has failed, ended or
\* gone on to its fan-out: the transaction that took it is on its way to its
\* commit (db.py: the session commits or rolls back, whatever happens).
THEOREM LockLetGo == Spec => []LockIsLetGo
  <1>1. IInv => LockIsLetGo
    BY OpsAssumption DEF IInv, TypeOK, LockFits, LockIsLetGo
  <1> QED BY <1>1, Invariance, PTL

----------------------------------------------------------------------------
(* The journal: counting the committed operations needs an induction of    *)
(* its own, over the set of the takes and closes that have an audit row.   *)

StatusOps == {o \in audits : Kind(o) \in StatusKinds}

EventsCounted == IsFiniteSet(StatusOps) /\ Cardinality(StatusOps) = Len(events)

LEMMA EventsCountedNext ==
  IInv /\ IInv' /\ EventsCounted /\ [Next]_vars => EventsCounted'
  <1> SUFFICES ASSUME IInv, IInv', EventsCounted, [Next]_vars PROVE EventsCounted'
    OBVIOUS
  <1> USE DEF Goto, database, roles, locals, effects, Kind
  <1>1. ASSUME NEW o \in Ops, CommitStatus(o) PROVE EventsCounted'
    <2> USE <1>1 DEF CommitStatus, PublishRows
    <2>1. wrote[o] = {"event", "audit"} /\ o \notin audits
      BY DEF IInv, TypeOK, PcFits, OutcomeFits, Committed, StatusKinds, ReplyKinds
    <2>2. StatusOps' = StatusOps \cup {o} /\ o \notin StatusOps
      BY <2>1 DEF StatusOps
    <2>3. IsFiniteSet(StatusOps') /\ Cardinality(StatusOps') = Cardinality(StatusOps) + 1
      BY <2>2, FS_AddElement DEF EventsCounted
    <2>4. EventOf(o) \in Events /\ events \in Seq(Events)
      BY DEF IInv, TypeOK, EventOf, Events, Target, Status, Actor
    <2>5. Len(events') = Len(events) + 1
      BY <2>1, <2>4
    <2> QED BY <2>3, <2>5 DEF EventsCounted
  <1>2. ASSUME NEW o \in Ops, CommitReply(o) PROVE UNCHANGED <<StatusOps, events>>
    <2>1. wrote[o] = {"response", "audit"} /\ Kind(o) \notin StatusKinds
      BY <1>2 DEF CommitReply, IInv, PcFits, StatusKinds, ReplyKinds
    <2> QED BY <1>2, <2>1 DEF CommitReply, PublishRows, StatusOps
  <1>3. ASSUME NEW o \in Ops, Step(o), ~CommitStatus(o)
        PROVE  UNCHANGED <<StatusOps, events>>
    BY <1>2, <1>3 DEF Step, StatusOps, AuthorizeDenied, AuthorizeGranted, ClaimWon,
       ClaimLost, ReadPrev, CloseWon, CloseLost, LockRow, Return, AskText, GetData,
       ClearState, RecordStatus, Respond, EditCards, NotifyAuthor, DeliverReply
  <1>4. ASSUME NEW o \in Ops, NEW k \in Kinds, NEW u \in Users, Receive(o, k, u)
        PROVE  UNCHANGED <<StatusOps, events>>
    <2>1. o \notin audits
      BY <1>4 DEF Receive, IInv, OutcomeFits, Committed
    <2>2. \A p \in audits : req'[p] = req[p]
      BY <1>4, <2>1 DEF Receive, IInv, TypeOK
    <2> QED BY <1>4, <2>2 DEF Receive, StatusOps
  <1>5. CASE ~(\E o \in Ops : CommitStatus(o))
    <2>1. UNCHANGED <<StatusOps, events>>
      BY <1>3, <1>4, <1>5 DEF Next, Fail, Crash, SetRole, vars, StatusOps
    <2> QED BY <2>1 DEF EventsCounted
  <1> QED BY <1>1, <1>5

\* The journal of every reachable state is that of the committed operations:
\* no event, audit or response row without its operation, and none missing
\* (record_status_event, AuditRepository.log and the commits of actions.py).
THEOREM Journal == Spec => []JournalComplete
  <1>1. Init => EventsCounted
    BY FS_EmptySet DEF Init, EventsCounted, StatusOps
  <1>2. Spec => []EventsCounted
    BY <1>1, EventsCountedNext, Invariance, PTL DEF Spec
  <1>3. IInv /\ EventsCounted => JournalComplete
    <2> SUFFICES ASSUME IInv, EventsCounted PROVE JournalComplete
      OBVIOUS
    <2>1. StatusOps = {o \in audits : Kind(o) \in StatusKinds}
      BY DEF StatusOps
    <2>2. audits = {o \in Ops : Committed(o)}
      BY DEF IInv, TypeOK, OutcomeFits
    <2>3. responses = {o \in audits : Kind(o) \in ReplyKinds}
      BY DEF IInv, TypeOK, OutcomeFits
    <2> QED BY <2>1, <2>2, <2>3 DEF JournalComplete, EventsCounted
  <1> QED BY <1>2, <1>3, Invariance, PTL

----------------------------------------------------------------------------
(* The handlers implement CaseLifecycle: under the invariant the commit of *)
(* a take is a Claim, the commit of a close a Close, and every other step, *)
(* a failure or a crash included, leaves the case as it is.                *)

\* The history of a longer event list is the history with one more entry.
LEMMA HistoryAppend ==
  ASSUME NEW s \in Seq(Events), NEW e \in Events
  PROVE  [i \in DOMAIN Append(s, e) |->
            [to |-> Append(s, e)[i].to, actor |-> Append(s, e)[i].actor]]
         = Append([i \in DOMAIN s |-> [to |-> s[i].to, actor |-> s[i].actor]],
                  [to |-> e.to, actor |-> e.actor])
  <1> DEFINE H(t) == [i \in DOMAIN t |-> [to |-> t[i].to, actor |-> t[i].actor]]
             Entries == [to : Status, actor : Users]
  <1>1. H(s) \in Seq(Entries) /\ Len(H(s)) = Len(s)
    <2>1. Len(s) \in Nat /\ DOMAIN s = 1 .. Len(s)
      OBVIOUS
    <2>2. ASSUME NEW i \in DOMAIN s
          PROVE  [to |-> s[i].to, actor |-> s[i].actor] \in Entries
      <3>1. s[i] \in Events
        OBVIOUS
      <3> QED BY <3>1 DEF Events
    <2>3. H(s) \in [1 .. Len(s) -> Entries]
      BY <2>1, <2>2
    <2>4. H(s) \in Seq(Entries)
      BY <2>1, <2>3, SeqDef
    <2> QED BY <2>1, <2>3, <2>4
  <1>2. [to |-> e.to, actor |-> e.actor] \in Entries
    BY DEF Events
  <1> QED BY <1>1, <1>2

\* Every behaviour of the handlers is a behaviour of the abstract life cycle.
THEOREM Refinement == Spec => ImplementsCase
  <1>1. Init => Case!Init
    BY DEF Init, Case!Init
  <1>2. IInv /\ IInv' /\ [Next]_vars => [Case!Next]_(Case!caseVars)
    <2> SUFFICES ASSUME IInv, IInv', [Next]_vars
                 PROVE  Case!Next \/ UNCHANGED Case!caseVars
      OBVIOUS
    <2> USE DEF Goto, database, roles, locals, effects
    <2>1. ASSUME NEW o \in Ops, CommitStatus(o) PROVE Case!Next
      <3> USE <2>1 DEF CommitStatus, PublishRows
      <3>1. /\ wrote[o] = {"event", "audit"}
            /\ Actor(o) \in Users
            /\ lock = o
        BY DEF IInv, TypeOK, PcFits, LockFits, StatusKinds, ReplyKinds
      <3>2. events' = Append(events, EventOf(o)) /\ row' = UpdatedRow(o)
        BY <3>1
      <3> PICK u \in Users : u = Actor(o)
        BY <3>1
      <3>3. EventOf(o) \in Events /\ events \in Seq(Events)
        BY <3>1 DEF IInv, TypeOK, EventOf, Events, Target, Status
      <3>4. [i \in DOMAIN events' |-> [to |-> events'[i].to, actor |-> events'[i].actor]]
            = Append([i \in DOMAIN events |-> [to |-> events[i].to, actor |-> events[i].actor]],
                     [to |-> Target(o), actor |-> Actor(o)])
        <4>1. EventOf(o).to = Target(o) /\ EventOf(o).actor = Actor(o)
          BY DEF EventOf
        <4> HIDE DEF CommitStatus, PublishRows
        <4> QED BY <3>2, <3>3, <4>1, HistoryAppend
      <3>5. CASE Kind(o) = "take"
        <4>1. row.status = "new"
          BY <3>1, <3>5 DEF IInv, LockFits
        <4>2. /\ row'.status = "in_progress"
              /\ row'.assignee = Actor(o)
              /\ row'.closer = row.closer
          BY <3>2, <3>5 DEF UpdatedRow, IInv, TypeOK
        <4>3. Target(o) = "in_progress"
          BY <3>5 DEF Target
        <4>4. Case!Claim(u)
          BY <3>4, <4>1, <4>2, <4>3 DEF Case!Claim
        <4> QED BY <4>4 DEF Case!Next
      <3>6. CASE Kind(o) = "close"
        <4>1. row.status # "closed"
          BY <3>1, <3>6 DEF IInv, LockFits
        <4>2. /\ row'.status = "closed"
              /\ row'.closer = Actor(o)
              /\ row'.assignee = row.assignee
          BY <3>2, <3>6 DEF UpdatedRow, IInv, TypeOK
        <4>3. Target(o) = "closed"
          BY <3>6 DEF Target
        <4>4. Case!Close(u)
          BY <3>4, <4>1, <4>2, <4>3 DEF Case!Close
        <4> QED BY <4>4 DEF Case!Next
      <3> QED BY <3>5, <3>6 DEF StatusKinds
    <2>2. ASSUME NEW o \in Ops, CommitReply(o) PROVE UNCHANGED <<row, events>>
      <3>1. wrote[o] = {"response", "audit"}
        BY <2>2 DEF CommitReply, IInv, PcFits, StatusKinds, ReplyKinds
      <3> QED BY <2>2, <3>1 DEF CommitReply, PublishRows
    <2>3. ASSUME NEW o \in Ops, Step(o), ~CommitStatus(o)
          PROVE  UNCHANGED <<row, events>>
      BY <2>2, <2>3 DEF Step, AuthorizeDenied, AuthorizeGranted, ClaimWon, ClaimLost,
         ReadPrev, CloseWon, CloseLost, LockRow, Return, AskText, GetData, ClearState,
         RecordStatus, Respond, EditCards, NotifyAuthor, DeliverReply
    <2>4. CASE ~(\E o \in Ops : CommitStatus(o))
      <3>1. UNCHANGED <<row, events>>
        BY <2>3, <2>4 DEF Next, Receive, Fail, Crash, SetRole, vars
      <3> QED BY <3>1 DEF Case!caseVars
    <2> QED BY <2>1, <2>4
  <1> QED BY <1>1, <1>2, Invariance, PTL DEF Spec, ImplementsCase, Case!Spec

=============================================================================

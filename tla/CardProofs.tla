---------------------------- MODULE CardProofs ----------------------------
(***************************************************************************)
(* Proofs about what the people are sent: CardSync, for any recipients,    *)
(* any number of !karta copies and any faults, and SafeSend, for any text, *)
(* limit and answers of Telegram.                                          *)
(***************************************************************************)
EXTENDS CardSync, SafeSend, SequenceTheorems, WellFoundedInduction, TLAPS

-----------------------------------------------------------------------------
(* CardSync: dispatch, redraws and copies.                                 *)

(* The handlers are different ones, and so are the cards. *)
LEMMA Parts ==
    /\ "dispatch" \in Handlers /\ Ops \subseteq Handlers /\ Copies \subseteq Handlers
    /\ "dispatch" \notin Ops /\ "dispatch" \notin Copies /\ Ops \cap Copies = {}
    /\ TG \subseteq Cards /\ MX \subseteq Cards /\ Copies \subseteq Cards
    /\ TG \cap MX = {} /\ TG \cap Copies = {} /\ MX \cap Copies = {}
    /\ \A c \in Cards : c \notin TG => c \in MX \cup Copies
    /\ \A p \in Handlers : p = "dispatch" \/ p \in Ops \/ p \in Copies
  BY ChannelsAssumption DEF Handlers, Ops, Cards

(* The status of a submission only grows in rank. *)
LEMMA Ranks ==
    /\ Rank["none"] = 0 /\ Rank["new"] = 0
    /\ Rank["in_progress"] = 1 /\ Rank["closed"] = 2
    /\ \A p \in Ops : Shown(p) \in Status \ {"new"}
  BY DEF Rank, Ops, Shown, Status

LEMMA TypeInit == Init => TypeOK
  BY DEF Init, TypeOK, Status, Cards, Handlers

LEMMA TypeNext == TypeOK /\ [Next]_vars => TypeOK'
  <1> SUFFICES ASSUME TypeOK, [Next]_vars PROVE TypeOK'
    OBVIOUS
  <1> USE Parts, Ranks DEF TypeOK, Goto, Loop, Drop, Show, Fault, Status
  <1>1. CASE Dispatch
    <2>1. CASE DispatchStart
      BY <2>1 DEF DispatchStart
    <2>2. ASSUME NEW c \in TG, SendCard(c) PROVE TypeOK'
      <3>1. card' = card \/ card' = [card EXCEPT ![c] = "new"]
        BY <2>2 DEF SendCard
      <3>2. pc' = pc \/ pc' = [pc EXCEPT !["dispatch"] = "dead"]
        BY <2>2 DEF SendCard
      <3>3. todo' = todo \/ todo' = [todo EXCEPT !["dispatch"] = @ \ {c}]
        BY <2>2 DEF SendCard
      <3>4. sent' \in {sent, sent \cup {c}, sent \cap Copies} /\ faulty' \in BOOLEAN
        BY <2>2 DEF SendCard
      <3> QED BY <2>2, <3>1, <3>2, <3>3, <3>4 DEF SendCard
    <2>3. CASE CommitDispatch
      BY <2>3 DEF CommitDispatch
    <2>4. CASE AnnounceLoad
      BY <2>4 DEF AnnounceLoad
    <2>5. ASSUME NEW c \in MX, AnnounceCard(c) PROVE TypeOK'
      BY <2>5 DEF AnnounceCard
    <2>6. CASE CommitAnnounce
      BY <2>6 DEF CommitAnnounce
    <2> QED BY <1>1, <2>1, <2>2, <2>3, <2>4, <2>5, <2>6 DEF Dispatch
  <1>2. ASSUME NEW p \in Ops, CommitStatus(p) \/ Redraw(p) PROVE TypeOK'
    <2>1. CASE CommitStatus(p)
      BY <2>1 DEF CommitStatus
    <2>2. CASE SelectRows(p)
      BY <2>2 DEF SelectRows
    <2>3. ASSUME NEW c \in TG, EditCard(p, c) PROVE TypeOK'
      <3>1. card' = card \/ card' = [card EXCEPT ![c] = Shown(p)]
        BY <2>3 DEF EditCard
      <3>2. pc' = pc \/ pc' = [pc EXCEPT ![p] = "dead"]
        BY <2>3 DEF EditCard
      <3>3. todo' = todo \/ todo' = [todo EXCEPT ![p] = @ \ {c}]
        BY <2>3 DEF EditCard
      <3>4. faulty' \in BOOLEAN
        BY <2>3 DEF EditCard
      <3> QED BY <2>3, <3>1, <3>2, <3>3, <3>4 DEF EditCard
    <2>4. CASE RefreshLoad(p)
      BY <2>4 DEF RefreshLoad
    <2>5. CASE RefreshSelect(p)
      BY <2>5 DEF RefreshSelect
    <2>6. ASSUME NEW c \in MX \cup Copies, RefreshCard(p, c) PROVE TypeOK'
      BY <2>6 DEF RefreshCard
    <2>7. CASE RefreshDone(p)
      BY <2>7 DEF RefreshDone
    <2> QED BY <1>2, <2>1, <2>2, <2>3, <2>4, <2>5, <2>6, <2>7 DEF Redraw
  <1>3. ASSUME NEW c \in Copies, RepostLoad(c) \/ Repost(c) PROVE TypeOK'
    <2>1. CASE RepostLoad(c)
      BY <2>1 DEF RepostLoad
    <2>2. CASE RepostSend(c)
      BY <2>2 DEF RepostSend
    <2>3. CASE RepostStore(c)
      BY <2>3 DEF RepostStore
    <2> QED BY <1>3, <2>1, <2>2, <2>3 DEF Repost
  <1>4. CASE Crash
    <2>1. \A p \in Handlers : (IF Over(p) THEN pc[p] ELSE "dead") \in {pc[p], "dead"}
      OBVIOUS
    <2>2. pc' \in [Handlers -> {"idle", "start", "send", "load", "announce", "rows",
                               "edit", "cards", "refresh", "post", "store",
                               "done", "dead"}]
      BY <1>4, <2>1 DEF Crash
    <2> QED BY <1>4, <2>2 DEF Crash
  <1>5. CASE UNCHANGED vars
    BY <1>5 DEF vars
  <1> QED BY <1>1, <1>2, <1>3, <1>4, <1>5 DEF Next

----------------------------------------------------------------------------
(* The inductive invariant: what a handler's place tells of the cards it   *)
(* has still to send or to redraw, and who is going to redraw a card that  *)
(* is behind.                                                              *)

\* A card yet to be sent has not been posted; one yet to be edited has a row.
TodoFits ==
    /\ pc["dispatch"] = "start" => \A c \in TG : card[c] = "none"
    /\ pc["dispatch"] = "send" => todo["dispatch"] \subseteq TG
    /\ pc["dispatch"] = "announce" => todo["dispatch"] \subseteq MX
    /\ pc["dispatch"] \in {"send", "announce"} =>
          \A c \in todo["dispatch"] : card[c] = "none"
    /\ pc["dispatch"] \in {"start", "send", "load"} => \A c \in MX : card[c] = "none"
    /\ \A c \in Copies : pc[c] \in {"idle", "post"} => card[c] = "none"
    /\ \A p \in Ops : pc[p] = "edit" => todo[p] \subseteq rows \cap TG
    /\ \A p \in Ops : pc[p] = "refresh" => todo[p] \subseteq rows \ TG

\* A handler's places are its own.
PcFits ==
    /\ pc["dispatch"] \in {"start", "send", "load", "announce", "done", "dead"}
    /\ \A p \in Ops : pc[p] \in {"idle", "rows", "edit", "cards", "refresh", "done", "dead"}
    /\ \A c \in Copies : pc[c] \in {"idle", "post", "store", "done", "dead"}

\* What handlers are about to show has been committed.
SnapFits ==
    /\ \A p \in Handlers : Rank[snap[p]] <= Rank[status]
    /\ \A p \in Ops : pc[p] # "idle" => Rank[Shown(p)] <= Rank[status]

\* As long as redraws do not cross there is one at most, and it shows what is
\* the case.
OneRedraw ==
    ~crossed =>
        /\ \A p, q \in Ops : p = q \/ Over(p) \/ Over(q)
        /\ \A p \in Ops : ~Over(p) => status = Shown(p)
        /\ \A p \in Ops : pc[p] \in {"cards", "refresh"} => snap[p] = status

\* A redraw that is going to see to the card.
Pending(c) ==
    \E p \in Ops :
        \/ pc[p] = "rows"
        \/ pc[p] = "edit" /\ (c \notin TG \/ c \in todo[p])
        \/ pc[p] = "cards" /\ c \notin TG
        \/ pc[p] = "refresh" /\ c \in todo[p]

\* A card that is behind, or not posted at all when the status has changed, is
\* being seen to, or was missed.
Behind ==
    ~faulty /\ ~crossed /\ status # "new" =>
        \A c \in Cards : card[c] = status \/ c \in missed \/ Pending(c)

IInv ==
    /\ TypeOK
    /\ RowsTrackCards
    /\ NoCardAhead
    /\ PcFits
    /\ TodoFits
    /\ SnapFits
    /\ OneRedraw
    /\ Behind

LEMMA IInvInit == Init => IInv
  <1> SUFFICES ASSUME Init PROVE IInv
    OBVIOUS
  <1>1. TypeOK
    BY TypeInit
  <1>2. \A p \in Ops : pc[p] = "idle"
    BY DEF Init, Ops, Handlers
  <1>3. \A c \in Copies : pc[c] = "idle"
    BY ChannelsAssumption DEF Init, Handlers
  <1>4. pc["dispatch"] = "start"
    BY DEF Init, Handlers
  <1>5. PcFits
    BY <1>2, <1>3, <1>4 DEF PcFits
  <1>6. TodoFits
    BY <1>2, <1>3, <1>4 DEF Init, TodoFits, Cards
  <1>7. SnapFits
    BY <1>2 DEF Init, SnapFits, Rank
  <1>8. OneRedraw
    BY <1>2 DEF OneRedraw, Over
  <1>9. RowsTrackCards /\ NoCardAhead /\ Behind
    BY DEF Init, RowsTrackCards, NoCardAhead, Behind, Rank, Cards
  <1> QED BY <1>1, <1>5, <1>6, <1>7, <1>8, <1>9 DEF IInv

LEMMA IInvNext == IInv /\ [Next]_vars => IInv'
  <1> SUFFICES ASSUME IInv, [Next]_vars PROVE IInv'
    OBVIOUS
  <1>0. TypeOK'
    BY TypeNext DEF IInv
  <1> USE Parts, Ranks
          DEF Goto, Loop, Drop, Show, Fault, Status, Over, Pending, IInv, TypeOK, RowsTrackCards, NoCardAhead, PcFits,
              TodoFits, SnapFits, OneRedraw, Behind
  <1>1. CASE DispatchStart
    BY <1>0, <1>1 DEF DispatchStart
  <1>2. ASSUME NEW c \in TG, SendCard(c) PROVE IInv'
    <2> USE <1>2 DEF SendCard
    <2>1. RowsTrackCards'
      OBVIOUS
    <2>2. NoCardAhead'
      OBVIOUS
    <2>3. PcFits'
      OBVIOUS
    <2>4. TodoFits'
      <3>1. \A q \in Ops \cup Copies : pc'[q] = pc[q]
        OBVIOUS
      <3>2. \A q \in Ops : todo'[q] = todo[q]
        OBVIOUS
      <3>3. \A d \in MX \cup Copies : card'[d] = card[d]
        OBVIOUS
      <3>4. \/ pc' = pc /\ todo'["dispatch"] = todo["dispatch"] \ {c} 
                /\ \A d \in TG \ {c} : card'[d] = card[d]
            \/ pc'["dispatch"] = "dead"
        OBVIOUS
      <3> QED BY <3>1, <3>2, <3>3, <3>4
    <2>5. SnapFits'
      OBVIOUS
    <2>6. OneRedraw'
      OBVIOUS
    <2>7. Behind'
      OBVIOUS
    <2> QED BY <1>0, <2>1, <2>2, <2>3, <2>4, <2>5, <2>6, <2>7
  <1>3. CASE CommitDispatch
    BY <1>0, <1>3 DEF CommitDispatch
  <1>4. CASE AnnounceLoad
    BY <1>0, <1>4 DEF AnnounceLoad
  <1>5. ASSUME NEW c \in MX, AnnounceCard(c) PROVE IInv'
    BY <1>0, <1>5 DEF AnnounceCard
  <1>6. CASE CommitAnnounce
    BY <1>0, <1>6 DEF CommitAnnounce
  <1>7. ASSUME NEW p \in Ops, CommitStatus(p) PROVE IInv'
    <2> USE <1>7 DEF CommitStatus
    <2>1. RowsTrackCards'
      OBVIOUS
    <2>a. Rank[status] <= Rank[status'] /\ Rank[status] \in Nat /\ Rank[status'] \in Nat
      BY DEF Allowed, Ops, Shown
    <2>2. NoCardAhead'
      <3> SUFFICES ASSUME NEW d \in Cards PROVE Rank[card[d]] <= Rank[status']
        OBVIOUS
      <3>1. Rank[card[d]] \in Nat /\ Rank[card[d]] <= Rank[status]
        OBVIOUS
      <3> QED BY <2>a, <3>1
    <2>3. PcFits'
      OBVIOUS
    <2>4. TodoFits'
      OBVIOUS
    <2>5. SnapFits'
      <3>1. ASSUME NEW q \in Handlers PROVE Rank[snap'[q]] <= Rank[status']
        <4>1. Rank[snap[q]] \in Nat /\ Rank[snap[q]] <= Rank[status]
          OBVIOUS
        <4> QED BY <2>a, <4>1
      <3>2. ASSUME NEW q \in Ops, pc'[q] # "idle" PROVE Rank[Shown(q)] <= Rank[status']
        <4>1. CASE q = p
          BY <4>1, <2>a
        <4>2. CASE q # p
          <5>1. pc[q] # "idle"
            BY <3>2, <4>2
          <5> QED BY <2>a, <5>1
        <4> QED BY <4>1, <4>2
      <3> QED BY <3>1, <3>2
    <2>6. OneRedraw'
      <3>0. SUFFICES ASSUME ~crossed'
                     PROVE  /\ \A r, q \in Ops : r = q \/ Over(r)' \/ Over(q)'
                            /\ \A q \in Ops : ~Over(q)' => status' = Shown(q)
                            /\ \A q \in Ops : pc'[q] \in {"cards", "refresh"} => snap'[q] = status'
        BY DEF OneRedraw
      <3>1. ~crossed /\ \A q \in Ops \ {p} : Over(q)
        BY <3>0
      <3>2. pc'[p] = "rows" /\ \A q \in Ops \ {p} : pc'[q] = pc[q] /\ Over(q)'
        BY <3>1
      <3>3. \A q \in Ops : ~Over(q)' => q = p
        BY <3>2
      <3>4. \A q \in Ops \ {p} : pc'[q] \notin {"cards", "refresh"}
        BY <3>2 DEF Over
      <3> QED BY <3>2, <3>3, <3>4
    <2>7. Behind'
      OBVIOUS
    <2> QED BY <1>0, <2>1, <2>2, <2>3, <2>4, <2>5, <2>6, <2>7
  <1>8. ASSUME NEW p \in Ops, SelectRows(p) PROVE IInv'
    BY <1>0, <1>8 DEF SelectRows
  <1>9. ASSUME NEW p \in Ops, NEW c \in TG, EditCard(p, c) PROVE IInv'
    <2> USE <1>9 DEF EditCard
    <2>1. RowsTrackCards'
      OBVIOUS
    <2>2. NoCardAhead'
      OBVIOUS
    <2>3. PcFits'
      OBVIOUS
    <2>4. TodoFits'
      OBVIOUS
    <2>5. SnapFits'
      OBVIOUS
    <2>6. OneRedraw'
      OBVIOUS
    <2>7. Behind'
      OBVIOUS
    <2> QED BY <1>0, <2>1, <2>2, <2>3, <2>4, <2>5, <2>6, <2>7
  <1>10. ASSUME NEW p \in Ops, RefreshLoad(p) PROVE IInv'
    BY <1>0, <1>10 DEF RefreshLoad
  <1>11. ASSUME NEW p \in Ops, RefreshSelect(p) PROVE IInv'
    BY <1>0, <1>11 DEF RefreshSelect
  <1>12. ASSUME NEW p \in Ops, NEW c \in MX \cup Copies, RefreshCard(p, c) PROVE IInv'
    <2> USE <1>12 DEF RefreshCard
    <2>1. RowsTrackCards'
      OBVIOUS
    <2>2. NoCardAhead'
      OBVIOUS
    <2>3. PcFits'
      OBVIOUS
    <2>4. TodoFits'
      OBVIOUS
    <2>5. SnapFits'
      OBVIOUS
    <2>6. OneRedraw'
      OBVIOUS
    <2>7. Behind'
      OBVIOUS
    <2> QED BY <1>0, <2>1, <2>2, <2>3, <2>4, <2>5, <2>6, <2>7
  <1>13. ASSUME NEW p \in Ops, RefreshDone(p) PROVE IInv'
    BY <1>0, <1>13 DEF RefreshDone
  <1>14. ASSUME NEW c \in Copies, RepostLoad(c) PROVE IInv'
    BY <1>0, <1>14 DEF RepostLoad
  <1>15. ASSUME NEW c \in Copies, RepostSend(c) PROVE IInv'
    BY <1>0, <1>15 DEF RepostSend
  <1>16. ASSUME NEW c \in Copies, RepostStore(c) PROVE IInv'
    BY <1>0, <1>16 DEF RepostStore
  <1>17. CASE Crash
    BY <1>0, <1>17 DEF Crash
  <1>18. CASE UNCHANGED vars
    BY <1>0, <1>18 DEF vars
  <1> QED BY <1>1, <1>2, <1>3, <1>4, <1>5, <1>6, <1>7, <1>8, <1>9, <1>10, <1>11, <1>12, <1>13, <1>14, <1>15, <1>16, <1>17, <1>18
         DEF Next, Dispatch, Redraw, Repost

(* The invariant of every run, for any recipients, copies and faults. *)
THEOREM Invariance == Spec => []IInv
  BY IInvInit, IInvNext, PTL DEF Spec

(* Types, whatever the recipients and faults. *)
THEOREM TypeCorrectness == Spec => []TypeOK
  <1>1. IInv => TypeOK
    BY DEF IInv
  <1> QED BY <1>1, Invariance, PTL

(* A committed or pending delivery row belongs to a card that went out, and a *)
(* card without one was sent by a handler that failed (dispatch, announce,    *)
(* _repost).                                                                  *)
THEOREM RowsMatchCards == Spec => []RowsTrackCards
  <1>1. IInv => RowsTrackCards
    BY DEF IInv
  <1> QED BY <1>1, Invariance, PTL

(* The commit comes before the fan-out and the refresh reads the row again:   *)
(* no card is ahead of the database.                                          *)
THEOREM CardsFollowTheRow == Spec => []NoCardAhead
  <1>1. IInv => NoCardAhead
    BY DEF IInv
  <1> QED BY <1>1, Invariance, PTL

(* When all handlers have ended without fault or crossing, a card that is     *)
(* behind is one that the latest redraw of its channel did not find.          *)
THEOREM OnlyMissedCardsAreStale == Spec => []StaleOnlyIfMissed
  <1>1. IInv => StaleOnlyIfMissed
    <2> SUFFICES ASSUME IInv, Quiet, ~faulty, ~crossed, NEW c \in Cards
                 PROVE  card[c] \in {"none", status} \/ c \in missed
      BY DEF StaleOnlyIfMissed
    <2>1. CASE status = "new"
      <3>1. Rank[card[c]] <= 0
        BY <2>1, Ranks DEF IInv, NoCardAhead
      <3>2. card[c] \in {"none", "new", "in_progress", "closed"}
        BY DEF IInv, TypeOK, Status
      <3> QED BY <2>1, <3>1, <3>2, Ranks
    <2>2. CASE status # "new"
      <3>1. ~Pending(c)
        BY Parts DEF Quiet, Over, Pending
      <3> QED BY <2>2, <3>1 DEF IInv, Behind
    <2> QED BY <2>1, <2>2
  <1> QED BY <1>1, Invariance, PTL

(* Sending writes only on a card that was not there, and an edit never shows  *)
(* "new": a Telegram card's buttons do not come back.                         *)
THEOREM ButtonsNeverReturn == Spec => ButtonsStayGone
  <1>1. ASSUME IInv, [Next]_vars
        PROVE  [\A c \in TG : card[c] \notin {"none", "new"} =>
                                card'[c] \notin {"none", "new"}]_card
    <2> SUFFICES ASSUME NEW c \in TG, card[c] \notin {"none", "new"},
                        card'[c] \in {"none", "new"}
                 PROVE  FALSE
      OBVIOUS
    <2> USE <1>1, Parts, Ranks DEF IInv, TypeOK, Show, Status
    <2>1. ASSUME NEW d \in TG, SendCard(d) PROVE FALSE
      BY <2>1 DEF SendCard, TodoFits
    <2>2. ASSUME NEW d \in MX, AnnounceCard(d) PROVE FALSE
      BY <2>2 DEF AnnounceCard
    <2>3. ASSUME NEW p \in Ops, NEW d \in TG, EditCard(p, d) PROVE FALSE
      BY <2>3 DEF EditCard
    <2>4. ASSUME NEW p \in Ops, NEW d \in MX \cup Copies, RefreshCard(p, d) PROVE FALSE
      BY <2>4 DEF RefreshCard
    <2>5. ASSUME NEW d \in Copies, RepostSend(d) PROVE FALSE
      BY <2>5 DEF RepostSend
    <2>6. ASSUME card' = card PROVE FALSE
      BY <2>6
    <2> QED BY <2>1, <2>2, <2>3, <2>4, <2>5, <2>6
            DEF Next, Dispatch, DispatchStart, CommitDispatch, AnnounceLoad, CommitAnnounce,
                Redraw, CommitStatus, SelectRows, RefreshLoad, RefreshSelect, RefreshDone,
                RepostLoad, Repost, RepostStore, Crash, vars
  <1> QED BY <1>1, Invariance, PTL DEF Spec, ButtonsStayGone

----------------------------------------------------------------------------
(* The handlers implement CardLifecycle.  The statuses the case has had are  *)
(* those whose handler committed: what a handler is about to show is one of  *)
(* them, and a redraw's is not "new".                                        *)

HadFits ==
    /\ status \in Had
    /\ \A p \in Handlers : snap[p] \in Had
    /\ \A p \in Ops : pc[p] # "idle" => status # "new"
    /\ \A p \in Ops : pc[p] \in {"cards", "refresh"} => snap[p] # "new"

LEMMA HadFacts ==
    /\ "new" \in Had
    /\ \A p \in Ops : pc[p] # "idle" => Shown(p) \in Had
    /\ \A s \in Had : s = "new" \/ \E p \in Ops : pc[p] # "idle" /\ s = Shown(p)
  BY DEF Had

(* Had changes only when a handler begins. *)
LEMMA HadKept ==
    ASSUME \A p \in Ops : (pc'[p] # "idle") = (pc[p] # "idle")
    PROVE  Had' = Had
  BY DEF Had

LEMMA HadInit == Init => HadFits
  BY HadFacts, Parts DEF Init, HadFits, Handlers, Ops

LEMMA HadNext == IInv /\ HadFits /\ [Next]_vars => HadFits'
  <1> SUFFICES ASSUME IInv, HadFits, [Next]_vars PROVE HadFits'
    OBVIOUS
  <1> USE Parts DEF IInv, TypeOK, Goto, Loop
  <1>1. ASSUME NEW p \in Ops, CommitStatus(p) PROVE HadFits'
    <2>1. /\ pc' = [pc EXCEPT ![p] = "rows"] /\ pc[p] = "idle" /\ status' = Shown(p) /\ snap' = snap
      BY <1>1 DEF CommitStatus
    <2>2. Had \subseteq Had' /\ Shown(p) \in Had'
      <3>1. \A q \in Ops : pc[q] # "idle" => pc'[q] # "idle"
        BY <2>1
      <3>2. pc'[p] # "idle"
        BY <2>1
      <3> QED BY <3>1, <3>2 DEF Had
    <2>3. Shown(p) # "new"
      BY Ranks
    <2> QED BY <2>1, <2>2, <2>3 DEF HadFits
  <1>2. ASSUME \A p \in Ops : (pc'[p] # "idle") = (pc[p] # "idle"),
               status' = status,
               \A p \in Handlers : snap'[p] \in {snap[p], status},
               \A p \in Ops : pc'[p] \in {"cards", "refresh"} =>
                   snap'[p] = status \/ (snap'[p] = snap[p] /\ pc[p] \in {"cards", "refresh"})
        PROVE  HadFits'
    <2>1. Had' = Had
      BY <1>2, HadKept
    <2> QED BY <1>2, <2>1 DEF HadFits
  <1>3. CASE Dispatch
    <2>1. /\ \A p \in Ops : pc'[p] = pc[p] /\ snap'[p] = snap[p]
          /\ status' = status
          /\ \A p \in Handlers : snap'[p] \in {snap[p], status}
      BY <1>3 DEF Dispatch, DispatchStart, SendCard, CommitDispatch, AnnounceLoad, AnnounceCard,
                  CommitAnnounce
    <2> QED BY <1>2, <2>1
  <1>4. ASSUME NEW p \in Ops, Redraw(p) PROVE HadFits'
    <2>1. /\ \A q \in Ops \ {p} : pc'[q] = pc[q] /\ snap'[q] = snap[q]
          /\ pc[p] # "idle" /\ pc'[p] # "idle" /\ status' = status
          /\ \A q \in Handlers : snap'[q] \in {snap[q], status}
      BY <1>4 DEF Redraw, SelectRows, EditCard, RefreshLoad, RefreshSelect, RefreshCard, RefreshDone
    <2>2. pc'[p] \in {"cards", "refresh"} =>
              snap'[p] = status \/ (snap'[p] = snap[p] /\ pc[p] \in {"cards", "refresh"})
      <3>1. CASE RefreshLoad(p)
        BY <3>1 DEF RefreshLoad
      <3>2. CASE RefreshSelect(p) \/ \E c \in MX \cup Copies : RefreshCard(p, c)
        BY <3>2 DEF RefreshSelect, RefreshCard
      <3>3. CASE SelectRows(p) \/ (\E c \in TG : EditCard(p, c)) \/ RefreshDone(p)
        BY <3>3 DEF SelectRows, EditCard, RefreshDone
      <3> QED BY <1>4, <3>1, <3>2, <3>3 DEF Redraw
    <2> QED BY <1>2, <2>1, <2>2
  <1>5. ASSUME NEW c \in Copies, RepostLoad(c) \/ Repost(c) PROVE HadFits'
    <2>1. /\ \A p \in Ops : pc'[p] = pc[p] /\ snap'[p] = snap[p]
          /\ status' = status
          /\ \A p \in Handlers : snap'[p] \in {snap[p], status}
      BY <1>5 DEF RepostLoad, Repost, RepostSend, RepostStore
    <2> QED BY <1>2, <2>1
  <1>6. CASE Crash
    <2>1. /\ \A p \in Ops : pc'[p] = pc[p] \/ (pc'[p] = "dead" /\ pc[p] # "idle")
          /\ status' = status /\ snap' = snap
      BY <1>6 DEF Crash, Over
    <2> QED BY <1>2, <2>1
  <1>7. CASE UNCHANGED vars
    BY <1>2, <1>7 DEF vars
  <1> QED BY <1>1, <1>3, <1>4, <1>5, <1>6, <1>7 DEF Next

(* Every behaviour of the handlers is one of the cards' abstract life cycle:  *)
(* the commit of a take or a close is a Change, a message that goes out a     *)
(* Post, a successful edit a Redraw, a commit of delivery rows a Record.      *)
THEOREM CardRefinement == Spec => ImplementsCards
  <1>1. Init => Life!Init
    BY Parts DEF Init, Life!Init, Had, Handlers, Ops
  <1>2. IInv /\ HadFits /\ [Next]_vars => [Life!Next]_(Life!lifeVars)
    <2> SUFFICES ASSUME IInv, HadFits, [Next]_vars
                 PROVE  Life!Next \/ UNCHANGED Life!lifeVars
      OBVIOUS
    <2> USE Parts DEF IInv, TypeOK, Goto, Loop
    <2>1. ASSUME NEW p \in Ops, CommitStatus(p) PROVE Life!Next
      <3>1. /\ pc' = [pc EXCEPT ![p] = "rows"] /\ pc[p] = "idle" /\ UNCHANGED <<card, rows>>
            /\ Allowed(p)
        BY <2>1 DEF CommitStatus
      <3>2. Had' = Had \cup {Shown(p)}
        <4>1. \A q \in Ops : pc'[q] # "idle" <=> pc[q] # "idle" \/ q = p
          BY <3>1
        <4> QED BY <4>1 DEF Had
      <3>3. ASSUME NEW h \in Had PROVE Life!Order[h] < Life!Order[Shown(p)]
        <4>1. CASE h = "new"
          BY <4>1, Ranks DEF Life!Order, Shown
        <4>2. CASE h # "new"
          <5>1. PICK q \in Ops : pc[q] # "idle" /\ h = Shown(q)
            BY <4>2, HadFacts
          <5>2. status # "new" /\ Rank[Shown(q)] <= Rank[status]
            BY <5>1 DEF HadFits, SnapFits
          <5>3. p = "close" /\ status = "in_progress"
            BY <3>1, <5>2 DEF Allowed
          <5>4. q = "take"
            BY <5>2, <5>3, Ranks DEF Ops, Shown
          <5> QED BY <5>1, <5>3, <5>4 DEF Shown, Life!Order
        <4> QED BY <4>1, <4>2
      <3>4. Shown(p) \in DOMAIN Life!Order
        BY DEF Shown, Life!Order
      <3>5. Life!Change(Shown(p))
        BY <3>1, <3>2, <3>3 DEF Life!Change
      <3> QED BY <3>4, <3>5 DEF Life!Next
    <2>2. ASSUME NEW c \in Cards, card[c] = "none", NEW s \in Had, Show(c, s),
                 rows' = rows, Had' = Had
          PROVE  Life!Next
      BY <2>2 DEF Show, Life!Next, Life!Post
    <2>3. ASSUME NEW c \in rows, NEW s \in Had \ {"new"}, Show(c, s),
                 rows' = rows, Had' = Had
          PROVE  Life!Next
      BY <2>3 DEF Show, Life!Next, Life!Redraw
    <2>4. ASSUME NEW S \in SUBSET sent, rows' = rows \cup S, card' = card, Had' = Had
          PROVE  Life!Next
      <3>1. S \in SUBSET Cards /\ \A c \in S : card[c] # "none"
        BY DEF RowsTrackCards
      <3> QED BY <2>4, <3>1 DEF Life!Next, Life!Record
    <2>5. ASSUME UNCHANGED <<card, rows>>, Had' = Had PROVE UNCHANGED Life!lifeVars
      BY <2>5 DEF Life!lifeVars
    <2>6. CASE Dispatch
      <3>1. Had' = Had
        <4>1. \A p \in Ops : pc'[p] = pc[p]
          BY <2>6 DEF Dispatch, DispatchStart, SendCard, CommitDispatch, AnnounceLoad,
                      AnnounceCard, CommitAnnounce
        <4> QED BY <4>1, HadKept
      <3>a. (sent \ Copies) \in SUBSET sent
        OBVIOUS
      <3>2. ASSUME NEW c \in TG, SendCard(c) PROVE Life!Next \/ UNCHANGED Life!lifeVars
        <4>1. card[c] = "none"
          BY <3>2 DEF SendCard, TodoFits
        <4>2. (Show(c, "new") \/ card' = card) /\ rows' = rows
          BY <3>2 DEF SendCard
        <4> QED BY <2>2, <2>5, <3>1, <4>1, <4>2, HadFacts
      <3>3. ASSUME NEW c \in MX, AnnounceCard(c) PROVE Life!Next \/ UNCHANGED Life!lifeVars
        <4>1. card[c] = "none" /\ snap["dispatch"] \in Had
          BY <3>3 DEF AnnounceCard, TodoFits, HadFits
        <4>2. (Show(c, snap["dispatch"]) \/ card' = card) /\ rows' = rows
          BY <3>3 DEF AnnounceCard
        <4> QED BY <2>2, <2>5, <3>1, <4>1, <4>2
      <3>4. CASE CommitDispatch \/ CommitAnnounce
        <4>1. rows' = rows \cup (sent \ Copies) /\ card' = card
          BY <3>4 DEF CommitDispatch, CommitAnnounce
        <4> QED BY <2>4, <3>1, <3>a, <4>1
      <3>5. CASE DispatchStart \/ AnnounceLoad
        BY <2>5, <3>1, <3>5 DEF DispatchStart, AnnounceLoad
      <3> QED BY <2>6, <3>2, <3>3, <3>4, <3>5 DEF Dispatch
    <2>7. ASSUME NEW p \in Ops, Redraw(p) PROVE Life!Next \/ UNCHANGED Life!lifeVars
      <3>1. Had' = Had
        <4>1. /\ \A q \in Ops \ {p} : pc'[q] = pc[q]
              /\ pc[p] # "idle" /\ pc'[p] # "idle"
          BY <2>7 DEF Redraw, SelectRows, EditCard, RefreshLoad, RefreshSelect, RefreshCard, RefreshDone
        <4> QED BY <4>1, HadKept
      <3>2. ASSUME NEW c \in TG, EditCard(p, c) PROVE Life!Next \/ UNCHANGED Life!lifeVars
        <4>1. c \in rows /\ Shown(p) \in Had \ {"new"}
          BY <3>2, HadFacts, Ranks DEF EditCard, TodoFits
        <4>2. (Show(c, Shown(p)) \/ card' = card) /\ rows' = rows
          BY <3>2 DEF EditCard
        <4> QED BY <2>3, <2>5, <3>1, <4>1, <4>2
      <3>3. ASSUME NEW c \in MX \cup Copies, RefreshCard(p, c)
            PROVE  Life!Next \/ UNCHANGED Life!lifeVars
        <4>1. c \in rows /\ snap[p] \in Had \ {"new"}
          BY <3>3 DEF RefreshCard, TodoFits, HadFits
        <4>2. (Show(c, snap[p]) \/ card' = card) /\ rows' = rows
          BY <3>3 DEF RefreshCard
        <4> QED BY <2>3, <2>5, <3>1, <4>1, <4>2
      <3>4. CASE SelectRows(p) \/ RefreshLoad(p) \/ RefreshSelect(p) \/ RefreshDone(p)
        BY <2>5, <3>1, <3>4 DEF SelectRows, RefreshLoad, RefreshSelect, RefreshDone
      <3> QED BY <2>7, <3>2, <3>3, <3>4 DEF Redraw
    <2>8. ASSUME NEW c \in Copies, RepostLoad(c) \/ Repost(c)
          PROVE  Life!Next \/ UNCHANGED Life!lifeVars
      <3>1. Had' = Had
        <4>1. \A p \in Ops : pc'[p] = pc[p]
          BY <2>8 DEF RepostLoad, Repost, RepostSend, RepostStore
        <4> QED BY <4>1, HadKept
      <3>2. CASE RepostLoad(c)
        BY <2>5, <3>1, <3>2 DEF RepostLoad
      <3>3. CASE RepostSend(c)
        <4>1. card[c] = "none" /\ snap[c] \in Had
          BY <3>3 DEF RepostSend, TodoFits, HadFits
        <4>2. (Show(c, snap[c]) \/ card' = card) /\ rows' = rows
          BY <3>3 DEF RepostSend
        <4> QED BY <2>2, <2>5, <3>1, <4>1, <4>2
      <3>4. CASE RepostStore(c)
        <4>1. rows' = rows \cup (sent \cap {c}) /\ card' = card
          BY <3>4 DEF RepostStore
        <4>2. (sent \cap {c}) \in SUBSET sent
          OBVIOUS
        <4> QED BY <2>4, <3>1, <4>1, <4>2
      <3> QED BY <2>8, <3>2, <3>3, <3>4 DEF Repost
    <2>9. CASE Crash
      <3>1. Had' = Had
        <4>1. \A p \in Ops : pc'[p] = pc[p] \/ (pc'[p] = "dead" /\ pc[p] # "idle")
          BY <2>9 DEF Crash, Over
        <4> QED BY <4>1, HadKept
      <3> QED BY <2>5, <2>9, <3>1 DEF Crash
    <2>10. CASE UNCHANGED vars
      <3>1. Had' = Had
        BY <2>10 DEF vars, Had
      <3> QED BY <2>5, <2>10, <3>1 DEF vars
    <2> QED BY <2>1, <2>6, <2>7, <2>8, <2>9, <2>10 DEF Next
  <1> QED BY <1>1, <1>2, HadInit, HadNext, Invariance, PTL DEF Spec, ImplementsCards, Life!Spec

-----------------------------------------------------------------------------
(* SafeSend: the parts of a text and their delivery.                       *)

(* How much of the text the parts account for. *)
Off == Len(text) - Len(remaining)
Reached == IF finished THEN Len(text) ELSE Off

(* The remaining text is an end of the text. *)
RemainingFits ==
    /\ Len(remaining) \in 0 .. Len(text)
    /\ \A k \in 1 .. Len(remaining) : remaining[k] = text[Off + k]

(* The parts so far stand in the text, in order, and only blanks between them. *)
PartStands(i) ==
    /\ End(i) <= Reached
    /\ \A k \in 1 .. Len(chunks[i]) : chunks[i][k] = text[starts[i] + k]
PartsStand ==
    /\ Len(starts) = Len(chunks)
    /\ \A i \in 1 .. Len(chunks) : PartStands(i)
    /\ \A i, j \in 1 .. Len(chunks) : i < j => End(i) <= starts[j]
InSome(k) == \E i \in 1 .. Len(chunks) : starts[i] < k /\ k <= End(i)
Covered == \A k \in Inked(text) : k <= Reached => InSome(k)

(* Of a text that begins with a character, so does what remains. *)
PartsInked ==
    text # <<>> /\ text[1] \notin Blank =>
        /\ \A i \in 1 .. Len(chunks) : Inked(chunks[i]) # {}
        /\ chunks = <<>> => remaining # <<>>
        /\ remaining # <<>> => remaining[1] \notin Blank

SplitFits == RemainingFits /\ PartsStand /\ Covered /\ PartsFit /\ PartsInked

(* What the chat has of the parts. *)
SendFits ==
    /\ ~finished => part = 1 /\ got = <<>> /\ result = "none"
    /\ part <= Len(chunks) + 1
    /\ \A i \in 1 .. Len(got) : got[i] < part
    /\ PartsInOrder
    /\ kind = "card" => Len(got) = part - 1 /\ \A i \in 1 .. Len(got) : got[i] = i
    /\ result = "sent" => part = Len(chunks) + 1

SendInv == SendTypeOK /\ SplitFits /\ SendFits

(* A non-empty set of naturals has a least element. *)
LEMMA LeastNat ==
    ASSUME NEW S, S \subseteq Nat, S # {}
    PROVE  \E m \in S : \A j \in S : m <= j
  <1> DEFINE R == OpToRel(<, Nat)
  <1>1. PICK m \in S : \A j \in S : ~(<<j, m>> \in R)
    <2>1. IsWellFoundedOn(R, Nat)
      BY NatLessThanWellFounded
    <2> HIDE DEF R
    <2> QED BY <2>1, WFMin
  <1>2. ASSUME NEW j \in S PROVE m <= j
    <2>1. m \in Nat /\ j \in Nat /\ <<j, m>> \in Nat \X Nat
      OBVIOUS
    <2>2. ~(j < m)
      BY <1>1, <2>1 DEF OpToRel
    <2> QED BY <2>1, <2>2
  <1> QED BY <1>2

(* One of naturals up to n has a greatest. *)
LEMMA GreatestNat ==
    ASSUME NEW n \in Nat, NEW S, S \subseteq 0 .. n, S # {}
    PROVE  \E m \in S : \A j \in S : j <= m
  <1> DEFINE T == {n - j : j \in S}
  <1>1. T \subseteq Nat /\ T # {}
    OBVIOUS
  <1>2. PICK t \in T : \A j \in T : t <= j
    <2> HIDE DEF T
    <2> QED BY <1>1, LeastNat
  <1>3. PICK m \in S : t = n - m
    BY <1>2
  <1>4. ASSUME NEW j \in S PROVE j <= m
    <2>1. n - j \in T
      OBVIOUS
    <2>2. n - m <= n - j
      BY <1>2, <1>3, <2>1
    <2> QED BY <2>2
  <1> QED BY <1>4

LEMMA InkedFits == ASSUME NEW s \in Seq(Chars) PROVE Inked(s) \subseteq 1 .. Len(s)
  BY DEF Inked

(* rfind: what is found is the last one, and a character of the window. *)
LEMMA RfindFacts ==
    ASSUME NEW w \in Seq(Chars), NEW c
    PROVE  LET r == Rfind(w, c)
           IN  /\ r \in Nat /\ (r > 0 => r + 1 \in 1 .. Len(w) /\ w[r + 1] = c)
               /\ \A i \in 1 .. Len(w) : w[i] = c => i <= r + 1
  <1> DEFINE at == {i \in DOMAIN w : w[i] = c}
  <1>1. DOMAIN w = 1 .. Len(w) /\ Len(w) \in Nat /\ at \subseteq 0 .. Len(w)
    BY LenProperties
  <1>2. CASE at = {}
    BY <1>1, <1>2 DEF Rfind
  <1>3. CASE at # {}
    <2> DEFINE Last(n) == n + 1 \in at /\ \A i \in at : i <= n + 1
    <2>1. PICK m \in at : \A j \in at : j <= m
      <3> HIDE DEF at
      <3> QED BY <1>1, <1>3, GreatestNat
    <2>2. m - 1 \in 0 .. Len(w) /\ Last(m - 1)
      BY <1>1, <2>1
    <2>3. Rfind(w, c) = CHOOSE n \in 0 .. Len(w) : Last(n)
      BY <1>3 DEF Rfind
    <2>4. PICK r : r = Rfind(w, c)
      OBVIOUS
    <2>5. r \in 0 .. Len(w) /\ Last(r)
      <3> HIDE DEF Last
      <3> QED BY <2>2, <2>3, <2>4
    <2> QED BY <1>1, <2>4, <2>5
  <1> QED BY <1>2, <1>3

(* The cut leaves something on its left; there is a blank on its right, unless *)
(* the second half of the window has none.                                     *)
LEMMA CutFacts ==
    ASSUME NEW w \in Seq(Chars), Len(w) = Limit
    PROVE  LET cut == CutAt(w)
           IN  /\ cut \in 1 .. Limit
               /\ \/ cut < Limit /\ w[cut + 1] \in Blank
                  \/ cut = Limit /\ \A i \in Limit \div 2 + 1 .. Limit : w[i] \notin Blank
  <1>1. Limit \in Nat /\ Limit >= 2 /\ Limit \div 2 \in 1 .. Limit
    BY SplitAssumption
  <1>2. PICK n, b : n = Rfind(w, "newline") /\ b = Rfind(w, "space")
    OBVIOUS
  <1>3. /\ n \in Nat /\ (n > 0 => n + 1 \in 1 .. Limit /\ w[n + 1] = "newline")
        /\ \A i \in 1 .. Limit : w[i] = "newline" => i <= n + 1
    BY <1>2, RfindFacts
  <1>4. /\ b \in Nat /\ (b > 0 => b + 1 \in 1 .. Limit /\ w[b + 1] = "space")
        /\ \A i \in 1 .. Limit : w[i] = "space" => i <= b + 1
    BY <1>2, RfindFacts
  <1>5. PICK h, cut : h = Limit \div 2 /\ cut = CutAt(w)
    OBVIOUS
  <1>6. cut = IF n >= h THEN n ELSE IF b >= h THEN b ELSE Limit
    BY <1>2, <1>5 DEF CutAt
  <1>7. Blank = {"space", "newline"} /\ h \in Nat /\ h > 0
    BY <1>1, <1>5 DEF Blank
  <1> HIDE DEF Blank
  <1>8. CASE n >= h
    <2>1. cut = n /\ n > 0
      BY <1>3, <1>6, <1>7, <1>8
    <2>2. cut \in 1 .. Limit /\ cut < Limit /\ w[cut + 1] \in Blank
      BY <1>1, <1>3, <1>7, <2>1
    <2> QED BY <1>5, <2>2
  <1>9. CASE ~(n >= h) /\ b >= h
    <2>1. cut = b /\ b > 0
      BY <1>4, <1>6, <1>7, <1>9
    <2>2. cut \in 1 .. Limit /\ cut < Limit /\ w[cut + 1] \in Blank
      BY <1>1, <1>4, <1>7, <2>1
    <2> QED BY <1>5, <2>2
  <1>10. CASE ~(n >= h) /\ ~(b >= h)
    <2>1. \A i \in h + 1 .. Limit : w[i] # "newline" /\ w[i] # "space"
      BY <1>1, <1>3, <1>4, <1>7, <1>10
    <2>2. \A i \in h + 1 .. Limit : w[i] \notin Blank
      BY <1>7, <2>1
    <2>3. cut = Limit
      BY <1>6, <1>10
    <2> QED BY <1>1, <1>5, <2>2, <2>3
  <1> QED BY <1>8, <1>9, <1>10

(* rstrip: a beginning of the text; what is left off is blank. *)
LEMMA RstripFacts ==
    ASSUME NEW s \in Seq(Chars)
    PROVE  LET r == Rstrip(s)
           IN  /\ r \in Seq(Chars) /\ Len(r) \in 0 .. Len(s)
               /\ \A k \in 1 .. Len(r) : r[k] = s[k]
               /\ \A k \in Len(r) + 1 .. Len(s) : s[k] \in Blank
               /\ Inked(s) # {} => Inked(r) # {}
  <1>1. Len(s) \in Nat /\ Inked(s) \subseteq 0 .. Len(s) /\ DOMAIN s = 1 .. Len(s)
    BY InkedFits, LenProperties
  <1>2. CASE Inked(s) = {}
    BY <1>1, <1>2, EmptySeq DEF Rstrip, Inked
  <1>3. CASE Inked(s) # {}
    <2>1. \E m \in Inked(s) : \A j \in Inked(s) : j <= m
      BY <1>1, <1>3, GreatestNat
    <2>2. PICK m : m = CHOOSE i \in Inked(s) : \A j \in Inked(s) : j <= i
      OBVIOUS
    <2>3. m \in Inked(s) /\ \A j \in Inked(s) : j <= m
      BY <2>1, <2>2
    <2>4. m \in 1 .. Len(s) /\ Rstrip(s) = SubSeq(s, 1, m)
      BY <1>1, <1>3, <2>2, <2>3, InkedFits DEF Rstrip
    <2>5. PICK r : r = SubSeq(s, 1, m)
      OBVIOUS
    <2>6. r \in Seq(Chars) /\ Len(r) = m /\ DOMAIN r = 1 .. m /\ \A k \in 1 .. m : r[k] = s[k]
      BY <1>1, <2>4, <2>5, SubSeqProperties
    <2>7. \A k \in m + 1 .. Len(s) : s[k] \in Blank
      BY <1>1, <2>3, <2>4 DEF Inked
    <2>8. m \in Inked(r)
      BY <2>3, <2>4, <2>6 DEF Inked
    <2> QED BY <1>1, <2>4, <2>5, <2>6, <2>7, <2>8
  <1> QED BY <1>2, <1>3

(* lstrip: an end of the text; what is left off is blank. *)
LEMMA LstripFacts ==
    ASSUME NEW s \in Seq(Chars)
    PROVE  LET r == Lstrip(s)
           IN  /\ r \in Seq(Chars) /\ Len(r) \in 0 .. Len(s)
               /\ \A k \in 1 .. Len(r) : r[k] = s[Len(s) - Len(r) + k]
               /\ \A k \in 1 .. Len(s) - Len(r) : s[k] \in Blank
               /\ r # <<>> => r[1] \notin Blank
  <1>1. Len(s) \in Nat /\ Inked(s) \subseteq Nat /\ DOMAIN s = 1 .. Len(s)
    BY InkedFits, LenProperties
  <1>2. CASE Inked(s) = {}
    <2>1. \A k \in 1 .. Len(s) : s[k] \in Blank
      BY <1>1, <1>2 DEF Inked
    <2> QED BY <1>1, <1>2, <2>1, EmptySeq DEF Lstrip
  <1>3. CASE Inked(s) # {}
    <2>1. \E m \in Inked(s) : \A j \in Inked(s) : m <= j
      BY <1>1, <1>3, LeastNat
    <2>2. PICK m : m = CHOOSE i \in Inked(s) : \A j \in Inked(s) : i <= j
      OBVIOUS
    <2>3. m \in Inked(s) /\ \A j \in Inked(s) : m <= j
      BY <2>1, <2>2
    <2>4. m \in 1 .. Len(s) /\ Lstrip(s) = SubSeq(s, m, Len(s))
      BY <1>1, <1>3, <2>2, <2>3, InkedFits DEF Lstrip
    <2>5. PICK r : r = SubSeq(s, m, Len(s))
      OBVIOUS
    <2>6. /\ r \in Seq(Chars) /\ Len(r) = Len(s) - m + 1
          /\ \A k \in 1 .. Len(s) - m + 1 : r[k] = s[m + k - 1]
      BY <1>1, <2>4, <2>5, SubSeqProperties
    <2>7. \A k \in 1 .. m - 1 : s[k] \in Blank
      BY <1>1, <2>3, <2>4 DEF Inked
    <2>8. r[1] = s[m] /\ s[m] \notin Blank
      BY <2>3, <2>4, <2>6 DEF Inked
    <2> QED BY <1>1, <2>4, <2>5, <2>6, <2>7, <2>8
  <1> QED BY <1>2, <1>3

LEMMA SendInvInit == SendInit => SendInv
  <1> SUFFICES ASSUME SendInit PROVE SendInv
    OBVIOUS
  <1> USE SplitAssumption DEF SendInit
  <1>1. PICK n \in 0 .. MaxLength : text \in [1 .. n -> Chars]
    BY DEF Texts
  <1>2. text \in Seq(Chars) /\ Len(text) \in Nat /\ remaining = text
    BY <1>1, IsASeq
  <1>3. SendTypeOK
    <2>1. <<>> \in Seq(Seq(Chars)) /\ <<>> \in Seq(Nat)
      BY EmptySeq
    <2>2. part \in Nat \ {0} /\ attempt \in 0 .. 2
      OBVIOUS
    <2>3. kind \in {"card", "note"} /\ finished \in BOOLEAN /\ result = "none"
      OBVIOUS
    <2> QED BY <1>2, <2>1, <2>2, <2>3 DEF SendTypeOK
  <1>4. Off = 0 /\ Reached = 0
    BY <1>2 DEF Off, Reached
  <1>5. RemainingFits
    BY <1>2, <1>4 DEF RemainingFits
  <1>6. PartsStand
    BY DEF PartsStand
  <1>7. Covered
    BY <1>2, <1>4, InkedFits DEF Covered
  <1>8. PartsFit /\ PartsInked /\ SendFits
    BY <1>2 DEF PartsFit, PartsInked, SendFits, PartsInOrder
  <1> QED BY <1>3, <1>5, <1>6, <1>7, <1>8 DEF SendInv, SplitFits

LEMMA LastFacts ==
    ASSUME NEW S, NEW s \in Seq(S), NEW e \in S
    PROVE  /\ Append(s, e) \in Seq(S)
           /\ Len(s) \in Nat /\ DOMAIN s = 1 .. Len(s) /\ Len(Append(s, e)) = Len(s) + 1
           /\ DOMAIN Append(s, e) = 1 .. Len(s) + 1
           /\ \A i \in 1 .. Len(s) : Append(s, e)[i] = s[i]
           /\ Append(s, e)[Len(s) + 1] = e
  BY AppendProperties, LenProperties

(* A new part, when nothing but blanks is dropped after it. *)
LEMMA PartFits ==
    ASSUME SendInv, ~finished, text' = text, NEW s \in Seq(Chars), Part(s),
           Len(s) <= Len(remaining), \A k \in 1 .. Len(s) : s[k] = remaining[k],
           NEW r \in Nat, Reached' = r, Off + Len(s) <= r,
           \A k \in Off + Len(s) + 1 .. r : text[k] \in Blank
    PROVE  PartsStand' /\ Covered'
  <1>0. PICK n : n = Len(chunks)
    OBVIOUS
  <1>1. /\ text \in Seq(Chars) /\ remaining \in Seq(Chars) /\ chunks \in Seq(Seq(Chars))
        /\ starts \in Seq(Nat) /\ Len(text) \in Nat /\ Len(remaining) \in 0 .. Len(text)
        /\ Len(s) \in Nat /\ Off \in Nat /\ Reached = Off /\ Len(starts) = n /\ n \in Nat
    BY <1>0, LenProperties DEF SendInv, SendTypeOK, SplitFits, RemainingFits, PartsStand, Off, Reached
  <1>2. chunks' = Append(chunks, s) /\ starts' = Append(starts, Off)
    BY DEF Part, Off
  <1>3. /\ Len(chunks') = n + 1 /\ Len(starts') = n + 1
        /\ chunks'[n + 1] = s /\ starts'[n + 1] = Off
        /\ \A i \in 1 .. n : chunks'[i] = chunks[i] /\ starts'[i] = starts[i]
    BY <1>0, <1>1, <1>2, LastFacts
  <1>4. ASSUME NEW i \in 1 .. n
        PROVE  /\ PartStands(i) /\ starts[i] \in Nat /\ Len(chunks[i]) \in Nat
               /\ End(i) \in Nat /\ End(i) <= Off /\ End(i)' = End(i)
    <2>1. PartStands(i) /\ chunks[i] \in Seq(Chars) /\ starts[i] \in Nat
      BY <1>0, <1>1, ElementOfSeq DEF SendInv, SplitFits, PartsStand
    <2>2. Len(chunks[i]) \in Nat
      BY <2>1, LenProperties
    <2>3. End(i) = starts[i] + Len(chunks[i])
      BY DEF End
    <2>4. End(i)' = starts'[i] + Len(chunks'[i])
      BY DEF End
    <2>5. starts'[i] = starts[i] /\ chunks'[i] = chunks[i]
      BY <1>3
    <2>6. End(i) <= Off
      BY <1>1, <2>1 DEF PartStands
    <2> QED BY <2>1, <2>2, <2>3, <2>4, <2>5, <2>6
  <1>5. End(n + 1)' = Off + Len(s)
    BY <1>3 DEF End
  <1>6. ASSUME NEW i \in 1 .. n PROVE PartStands(i)'
    <2>1. End(i)' <= Reached'
      BY <1>1, <1>4
    <2>2. \A k \in 1 .. Len(chunks[i]) : chunks[i][k] = text[starts[i] + k]
      BY <1>4 DEF PartStands
    <2>3. chunks'[i] = chunks[i] /\ starts'[i] = starts[i]
      BY <1>3
    <2> QED BY <2>1, <2>2, <2>3 DEF PartStands
  <1>7. PartStands(n + 1)'
    <2>1. \A k \in 1 .. Len(s) : remaining[k] = text[Off + k]
      BY <1>1 DEF SendInv, SplitFits, RemainingFits
    <2> QED BY <1>1, <1>3, <1>5, <2>1 DEF PartStands
  <1>8. ASSUME NEW i \in 1 .. n + 1, NEW j \in 1 .. n + 1, i < j
        PROVE  End(i)' <= starts'[j]
    <2>1. i \in 1 .. n
      BY <1>1, <1>8
    <2>2. CASE j = n + 1
      BY <1>3, <1>4, <2>1, <2>2
    <2>3. CASE j # n + 1
      <3>1. j \in 1 .. n
        BY <1>1, <2>3
      <3>2. End(i) <= starts[j]
        BY <1>0, <1>8, <2>1, <3>1 DEF SendInv, SplitFits, PartsStand
      <3> QED BY <1>3, <1>4, <2>1, <3>1, <3>2
    <2> QED BY <2>2, <2>3
  <1>9. PartsStand'
    <2>1. ASSUME NEW i \in 1 .. n + 1 PROVE PartStands(i)'
      <3>1. i \in 1 .. n \/ i = n + 1
        BY <1>1
      <3> QED BY <1>6, <1>7, <3>1
    <2> QED BY <1>3, <1>8, <2>1 DEF PartsStand
  <1>10. ASSUME NEW k \in Inked(text), k <= r PROVE InSome(k)'
    <2>1. k \in 1 .. Len(text) /\ text[k] \notin Blank
      BY <1>1, InkedFits DEF Inked
    <2>2. CASE k <= Off
      <3>1. InSome(k)
        BY <1>1, <2>2 DEF SendInv, SplitFits, Covered
      <3>2. PICK i \in 1 .. n : starts[i] < k /\ k <= End(i)
        BY <1>0, <3>1 DEF InSome
      <3>3. i \in 1 .. Len(chunks') /\ starts'[i] < k
        BY <1>1, <1>3, <3>2
      <3>4. k <= End(i)'
        BY <1>4, <3>2
      <3> QED BY <3>3, <3>4 DEF InSome
    <2>3. CASE ~(k <= Off)
      <3>1. k <= Off + Len(s)
        <4>1. k \notin Off + Len(s) + 1 .. r
          BY <2>1
        <4> QED BY <1>1, <1>10, <2>1, <4>1
      <3> QED BY <1>1, <1>3, <1>5, <2>1, <2>3, <3>1 DEF InSome
    <2> QED BY <2>2, <2>3
  <1>11. Covered'
    <2>1. Inked(text)' = Inked(text)
      BY DEF Inked
    <2> QED BY <1>10, <2>1 DEF Covered
  <1> QED BY <1>9, <1>11

LEMMA CutFits == ASSUME SendInv, Cut PROVE SendInv'
  <1> DEFINE Window == SubSeq(remaining, 1, Limit)
             After == SubSeq(remaining, CutAt(Window) + 1, Len(remaining))
  <1>1. /\ text \in Seq(Chars) /\ remaining \in Seq(Chars) /\ chunks \in Seq(Seq(Chars))
        /\ starts \in Seq(Nat) /\ Len(text) \in Nat /\ Len(remaining) \in 0 .. Len(text)
        /\ Len(remaining) > Limit /\ Limit \in Nat /\ Limit >= 2
        /\ ~finished /\ finished' = finished /\ text' = text /\ UNCHANGED sending
        /\ Off = Len(text) - Len(remaining) /\ Off \in Nat
    BY LenProperties, SplitAssumption
       DEF Cut, SendInv, SendTypeOK, SplitFits, RemainingFits, Off
  <1>2. PICK cut : cut = CutAt(Window)
    OBVIOUS
  <1>3. cut \in 1 .. Limit
    <2>1. Window \in Seq(Chars) /\ Len(Window) = Limit
      BY <1>1, SubSeqProperties
    <2> QED BY <1>2, <2>1, CutFacts
  <1>4. PICK left, s, right, r : /\ left = SubSeq(remaining, 1, cut) /\ s = Rstrip(left)
                                 /\ right = SubSeq(remaining, cut + 1, Len(remaining))
                                 /\ r = Lstrip(right)
    OBVIOUS
  <1>5. Part(s) /\ remaining' = r
    BY <1>2, <1>4 DEF Cut
  <1>6. /\ left \in Seq(Chars) /\ Len(left) = cut
        /\ \A k \in 1 .. cut : left[k] = remaining[k]
    BY <1>1, <1>3, <1>4, SubSeqProperties
  <1>7. /\ right \in Seq(Chars) /\ Len(right) = Len(remaining) - cut
        /\ \A k \in 1 .. Len(remaining) - cut : right[k] = remaining[cut + k]
    <2>1. \A k \in 1 .. Len(remaining) - cut : right[k] = remaining[cut + 1 + k - 1]
      BY <1>1, <1>3, <1>4, SubSeqProperties
    <2> QED BY <1>1, <1>3, <1>4, <2>1, SubSeqProperties
  <1>8. /\ s \in Seq(Chars) /\ Len(s) \in 0 .. cut
        /\ \A k \in 1 .. Len(s) : s[k] = remaining[k]
        /\ \A k \in Len(s) + 1 .. cut : remaining[k] \in Blank
        /\ Inked(left) # {} => Inked(s) # {}
    <2>1. /\ s \in Seq(Chars) /\ Len(s) \in 0 .. cut
          /\ \A k \in 1 .. Len(s) : s[k] = left[k]
          /\ \A k \in Len(s) + 1 .. cut : left[k] \in Blank
          /\ Inked(left) # {} => Inked(s) # {}
      BY <1>4, <1>6, RstripFacts
    <2>2. Len(s) \in Nat /\ cut \in Nat
      BY <1>3, <2>1
    <2> QED BY <1>6, <2>1, <2>2
  <1>9. /\ r \in Seq(Chars) /\ Len(r) \in 0 .. Len(remaining) - cut
        /\ \A k \in 1 .. Len(r) : r[k] = remaining[Len(remaining) - Len(r) + k]
        /\ \A k \in cut + 1 .. Len(remaining) - Len(r) : remaining[k] \in Blank
        /\ r # <<>> => r[1] \notin Blank
    <2>1. /\ r \in Seq(Chars) /\ Len(r) \in 0 .. Len(remaining) - cut
          /\ \A k \in 1 .. Len(r) : r[k] = right[Len(remaining) - cut - Len(r) + k]
          /\ \A k \in 1 .. Len(remaining) - cut - Len(r) : right[k] \in Blank
          /\ r # <<>> => r[1] \notin Blank
      <3>1. /\ r \in Seq(Chars) /\ Len(r) \in 0 .. Len(right)
            /\ \A k \in 1 .. Len(r) : r[k] = right[Len(right) - Len(r) + k]
            /\ \A k \in 1 .. Len(right) - Len(r) : right[k] \in Blank
            /\ r # <<>> => r[1] \notin Blank
        <4>1. right \in Seq(Chars) /\ r = Lstrip(right)
          BY <1>4, <1>7
        <4> QED BY <4>1, LstripFacts
      <3> QED BY <1>7, <3>1
    <2>2. PICK m \in Nat : m = Len(remaining)
      BY <1>1
    <2>3. PICK l \in Nat : l = Len(r) /\ l <= m - cut
      BY <1>1, <1>3, <2>1, <2>2
    <2>4. ASSUME NEW k \in 1 .. l PROVE r[k] = remaining[m - l + k]
      <3>1. m - cut - l + k \in 1 .. m - cut /\ cut + (m - cut - l + k) = m - l + k
        BY <1>3, <2>3
      <3>2. r[k] = right[m - cut - l + k]
        BY <2>1, <2>2, <2>3
      <3>3. right[m - cut - l + k] = remaining[cut + (m - cut - l + k)]
        BY <1>7, <2>2, <3>1
      <3> QED BY <3>1, <3>2, <3>3
    <2>5. ASSUME NEW k \in cut + 1 .. m - l PROVE remaining[k] \in Blank
      <3>1. k - cut \in 1 .. m - cut - l /\ k - cut \in 1 .. m - cut /\ cut + (k - cut) = k
        BY <1>3, <2>3
      <3>2. right[k - cut] \in Blank
        BY <2>1, <2>2, <2>3, <3>1
      <3>3. right[k - cut] = remaining[cut + (k - cut)]
        BY <1>7, <2>2, <3>1
      <3> QED BY <3>1, <3>2, <3>3
    <2> QED BY <2>1, <2>2, <2>3, <2>4, <2>5
  <1>10. PICK m, l, n \in Nat : m = Len(remaining) /\ l = Len(r) /\ n = Len(s)
    BY <1>1, <1>3, <1>8, <1>9
  <1>11. l <= m - cut /\ n <= cut /\ m > Limit /\ cut \in Nat /\ cut >= 1 /\ cut <= Limit
    BY <1>1, <1>3, <1>8, <1>9, <1>10
  <1>12. PICK t \in Nat : t = Len(text) /\ m <= t /\ Off = t - m
    BY <1>1, <1>10
  <1>13. Off' = t - l /\ Reached' = t - l /\ t - l \in Nat
    BY <1>1, <1>5, <1>10, <1>11, <1>12 DEF Off, Reached
  <1>14. ASSUME NEW k \in 1 .. m PROVE remaining[k] = text[t - m + k]
    BY <1>10, <1>12 DEF SendInv, SplitFits, RemainingFits
  <1>15. RemainingFits'
    <2>1. ASSUME NEW k \in 1 .. l PROVE r[k] = text[t - l + k]
      <3>1. m - l + k \in 1 .. m /\ t - m + (m - l + k) = t - l + k
        BY <1>11, <1>12
      <3>2. r[k] = remaining[m - l + k]
        BY <1>9, <1>10
      <3> QED BY <1>14, <3>1, <3>2
    <2> QED BY <1>1, <1>5, <1>10, <1>11, <1>12, <1>13, <2>1 DEF RemainingFits
  <1>16. PartsStand' /\ Covered'
    <2>1. ASSUME NEW k \in t - m + n + 1 .. t - l PROVE text[k] \in Blank
      <3>1. k - (t - m) \in n + 1 .. m - l /\ k - (t - m) \in 1 .. m /\ t - m + (k - (t - m)) = k
        BY <1>11, <1>12
      <3>2. remaining[k - (t - m)] \in Blank
        <4>1. CASE k - (t - m) <= cut
          <5>1. k - (t - m) \in n + 1 .. cut
            BY <1>11, <3>1, <4>1
          <5> QED BY <1>8, <1>10, <5>1
        <4>2. CASE ~(k - (t - m) <= cut)
          <5>1. k - (t - m) \in cut + 1 .. m - l
            BY <1>11, <3>1, <4>2
          <5> QED BY <1>9, <1>10, <5>1
        <4> QED BY <4>1, <4>2
      <3> QED BY <1>14, <3>1, <3>2
    <2>2. Len(s) <= Len(remaining) /\ Off + Len(s) <= t - l
          /\ \A k \in Off + Len(s) + 1 .. t - l : text[k] \in Blank
      BY <1>10, <1>11, <1>12, <2>1
    <2> QED BY <1>1, <1>5, <1>8, <1>13, <2>2, PartFits
  <1>17. chunks' = Append(chunks, s) /\ s \in Seq(Chars) /\ starts' = Append(starts, Off)
    BY <1>1, <1>5, <1>8 DEF Part
  <1>18. /\ chunks' \in Seq(Seq(Chars)) /\ starts' \in Seq(Nat)
         /\ Len(chunks) \in Nat /\ Len(chunks') = Len(chunks) + 1
         /\ DOMAIN chunks = 1 .. Len(chunks) /\ DOMAIN chunks' = 1 .. Len(chunks) + 1
         /\ \A i \in 1 .. Len(chunks) : chunks'[i] = chunks[i]
         /\ chunks'[Len(chunks) + 1] = s
    BY <1>1, <1>17, LastFacts
  <1>19. PartsFit'
    <2>1. ASSUME NEW i \in 1 .. Len(chunks) + 1 PROVE Len(chunks'[i]) <= Limit
      <3>1. CASE i \in 1 .. Len(chunks)
        BY <1>18, <3>1 DEF SendInv, SplitFits, PartsFit
      <3>2. CASE i = Len(chunks) + 1
        BY <1>1, <1>3, <1>8, <1>18, <3>2
      <3> QED BY <1>18, <3>1, <3>2
    <2> QED BY <1>18, <2>1 DEF PartsFit
  <1>20. PartsInked'
    <2> SUFFICES ASSUME text # <<>>, text[1] \notin Blank
                 PROVE  /\ \A i \in 1 .. Len(chunks') : Inked(chunks'[i]) # {}
                        /\ chunks' # <<>>
                        /\ remaining' # <<>> => remaining'[1] \notin Blank
      BY <1>1 DEF PartsInked, Inked
    <2>1. remaining # <<>>
      BY <1>1
    <2>2. remaining[1] \notin Blank /\ \A i \in 1 .. Len(chunks) : Inked(chunks[i]) # {}
      BY <2>1 DEF SendInv, SplitFits, PartsInked
    <2>3. 1 \in Inked(left)
      BY <1>3, <1>6, <2>2, LenProperties DEF Inked
    <2>4. Inked(s) # {}
      BY <1>8, <2>3
    <2>5. ASSUME NEW i \in 1 .. Len(chunks) + 1 PROVE Inked(chunks'[i]) # {}
      <3>1. i \in 1 .. Len(chunks) \/ i = Len(chunks) + 1
        BY <1>18
      <3> QED BY <1>18, <2>2, <2>4, <3>1
    <2>6. chunks' # <<>>
      BY <1>18
    <2> QED BY <1>5, <1>9, <1>18, <2>5, <2>6
  <1>21. SendTypeOK'
    BY <1>1, <1>5, <1>9, <1>18 DEF SendInv, SendTypeOK, Cut, sending
  <1>22. SendFits'
    BY <1>1, <1>18 DEF SendInv, SendFits, SendTypeOK, sending, PartsInOrder, Cut
  <1> QED BY <1>15, <1>16, <1>19, <1>20, <1>21, <1>22 DEF SendInv, SplitFits

LEMMA RestFits == ASSUME SendInv, Rest PROVE SendInv'
  <1>1. /\ text \in Seq(Chars) /\ remaining \in Seq(Chars) /\ chunks \in Seq(Seq(Chars))
        /\ starts \in Seq(Nat) /\ Len(text) \in Nat /\ Len(remaining) \in 0 .. Len(text)
        /\ Len(remaining) <= Limit /\ ~finished /\ finished'
        /\ text' = text /\ remaining' = remaining /\ UNCHANGED sending
        /\ Off = Len(text) - Len(remaining) /\ Off \in Nat
        /\ Reached = Off /\ Reached' = Len(text)
    BY LenProperties DEF Rest, SendInv, SendTypeOK, SplitFits, RemainingFits, Off, Reached
  <1>2. RemainingFits'
    BY <1>1 DEF SendInv, SplitFits, RemainingFits, Off
  <1>3. CASE remaining # <<>> \/ chunks = <<>>
    <2>1. Part(remaining)
      BY <1>3 DEF Rest
    <2>2. PartsStand' /\ Covered'
      <3>1. Off + Len(remaining) = Len(text)
        BY <1>1
      <3>2. \A k \in Off + Len(remaining) + 1 .. Len(text) : text[k] \in Blank
        BY <1>1, <3>1
      <3>3. Len(remaining) <= Len(remaining) /\ Off + Len(remaining) <= Len(text)
        BY <1>1, <3>1
      <3>4. /\ remaining \in Seq(Chars) /\ Len(text) \in Nat /\ Reached' = Len(text)
            /\ ~finished /\ text' = text
        BY <1>1
      <3> QED BY <2>1, <3>2, <3>3, <3>4, PartFits
    <2>3. /\ chunks' \in Seq(Seq(Chars)) /\ starts' \in Seq(Nat)
          /\ Len(chunks) \in Nat /\ Len(chunks') = Len(chunks) + 1
          /\ DOMAIN chunks = 1 .. Len(chunks) /\ DOMAIN chunks' = 1 .. Len(chunks) + 1
          /\ \A i \in 1 .. Len(chunks) : chunks'[i] = chunks[i]
          /\ chunks'[Len(chunks) + 1] = remaining
      BY <1>1, <2>1, LastFacts DEF Part
    <2>4. PartsFit'
      <3>1. ASSUME NEW i \in 1 .. Len(chunks) + 1 PROVE Len(chunks'[i]) <= Limit
        <4>1. CASE i \in 1 .. Len(chunks)
          BY <2>3, <4>1 DEF SendInv, SplitFits, PartsFit
        <4>2. CASE i = Len(chunks) + 1
          BY <1>1, <2>3, <4>2
        <4> QED BY <2>3, <4>1, <4>2
      <3> QED BY <2>3, <3>1 DEF PartsFit
    <2>5. PartsInked'
      <3> SUFFICES ASSUME text # <<>>, text[1] \notin Blank
                   PROVE  /\ \A i \in 1 .. Len(chunks') : Inked(chunks'[i]) # {}
                          /\ chunks' # <<>>
                          /\ remaining # <<>> => remaining[1] \notin Blank
        BY <1>1 DEF PartsInked, Inked
      <3>1. /\ remaining # <<>> /\ remaining[1] \notin Blank
            /\ \A i \in 1 .. Len(chunks) : Inked(chunks[i]) # {}
        BY <1>3 DEF SendInv, SplitFits, PartsInked
      <3>2. 1 \in Inked(remaining)
        BY <1>1, <3>1, LenProperties DEF Inked
      <3>3. ASSUME NEW i \in 1 .. Len(chunks) + 1 PROVE Inked(chunks'[i]) # {}
        <4>1. i \in 1 .. Len(chunks) \/ i = Len(chunks) + 1
          BY <2>3
        <4> QED BY <2>3, <3>1, <3>2, <4>1
      <3>4. chunks' # <<>>
        BY <2>3
      <3> QED BY <2>3, <3>1, <3>3, <3>4
    <2>6. SendTypeOK'
      BY <1>1, <2>3 DEF SendInv, SendTypeOK, Rest, sending
    <2>7. SendFits'
      BY <1>1, <2>3 DEF SendInv, SendFits, SendTypeOK, sending, PartsInOrder, Rest
    <2> QED BY <1>2, <2>2, <2>4, <2>5, <2>6, <2>7 DEF SendInv, SplitFits
  <1>4. CASE ~(remaining # <<>> \/ chunks = <<>>)
    <2>1. UNCHANGED <<chunks, starts>> /\ Len(remaining) = 0 /\ Off = Len(text)
      BY <1>1, <1>4, EmptySeq DEF Rest
    <2>2. PartsStand' /\ Covered'
      BY <1>1, <2>1
         DEF SendInv, SplitFits, PartsStand, PartStands, End, Covered, InSome, Inked
    <2>3. PartsFit' /\ PartsInked'
      BY <1>1, <2>1 DEF SendInv, SplitFits, PartsFit, PartsInked, Inked
    <2>4. SendTypeOK' /\ SendFits'
      BY <1>1, <2>1 DEF SendInv, SendTypeOK, SendFits, sending, PartsInOrder, Rest
    <2> QED BY <1>2, <2>2, <2>3, <2>4 DEF SendInv, SplitFits
  <1> QED BY <1>3, <1>4

(* Sending leaves the parts as they are. *)
LEMMA SplitKept ==
    ASSUME SendInv, UNCHANGED <<text, kind, splitting>>
    PROVE  SplitFits'
  BY DEF SendInv, SplitFits, splitting, RemainingFits, PartsStand, PartStands, End, Covered,
         InSome, Inked, PartsFit, PartsInked, Off, Reached

LEMMA DeliveredFits == ASSUME SendInv, Delivered PROVE SendInv'
  <1>1. /\ got \in Seq(Nat) /\ part \in Nat \ {0} /\ got' = Append(got, part)
        /\ part' = part + 1 /\ attempt' = 0 /\ part <= Len(chunks) /\ finished
        /\ UNCHANGED <<text, kind, splitting, result>> /\ result = "none"
        /\ chunks' = chunks /\ finished' = finished /\ kind' = kind
        /\ Len(chunks) \in Nat
    BY LenProperties DEF Delivered, Sending, NextPart, SendInv, SendTypeOK, splitting
  <1>2. /\ got' \in Seq(Nat) /\ Len(got) \in Nat /\ Len(got') = Len(got) + 1
        /\ DOMAIN got = 1 .. Len(got) /\ DOMAIN got' = 1 .. Len(got) + 1
        /\ \A i \in 1 .. Len(got) : got'[i] = got[i]
        /\ got'[Len(got) + 1] = part
    BY <1>1, LastFacts
  <1>3. /\ \A i \in 1 .. Len(got) : got[i] < part /\ got[i] \in Nat
        /\ \A i, j \in 1 .. Len(got) : i < j => got[i] < got[j]
        /\ kind = "card" => Len(got) = part - 1 /\ \A i \in 1 .. Len(got) : got[i] = i
    BY <1>1, <1>2, ElementOfSeq DEF SendInv, SendFits, PartsInOrder
  <1>4. SendTypeOK'
    BY <1>1, <1>2 DEF SendInv, SendTypeOK, splitting
  <1>5. ASSUME NEW i \in 1 .. Len(got) + 1
        PROVE  got'[i] < part' /\ (kind = "card" => got'[i] = i)
    <2>1. i \in 1 .. Len(got) \/ i = Len(got) + 1
      BY <1>2
    <2> QED BY <1>1, <1>2, <1>3, <2>1
  <1>6. ASSUME NEW i \in 1 .. Len(got) + 1, NEW j \in 1 .. Len(got) + 1, i < j
        PROVE  got'[i] < got'[j]
    <2>1. i \in 1 .. Len(got) /\ (j \in 1 .. Len(got) \/ j = Len(got) + 1)
      BY <1>2, <1>6
    <2> QED BY <1>2, <1>3, <1>6, <2>1
  <1>7. SendFits'
    <2>1. PartsInOrder'
      BY <1>2, <1>6 DEF PartsInOrder
    <2>2. part' <= Len(chunks') + 1 /\ (kind' = "card" => Len(got') = part' - 1)
      BY <1>1, <1>2, <1>3
    <2> QED BY <1>1, <1>2, <1>5, <2>1, <2>2 DEF SendFits
  <1> QED BY <1>1, <1>4, <1>7, SplitKept DEF SendInv

LEMMA SendInvNext == SendInv /\ [SendNext]_sendVars => SendInv'
  <1> SUFFICES ASSUME SendInv, [SendNext]_sendVars PROVE SendInv'
    OBVIOUS
  <1>1. CASE Cut
    BY <1>1, CutFits
  <1>2. CASE Rest
    BY <1>2, RestFits
  <1>3. CASE Delivered
    BY <1>3, DeliveredFits
  <1>4. CASE Flooded
    <2>1. SplitFits'
      BY <1>4, SplitKept DEF Flooded
    <2>2. SendTypeOK' /\ SendFits'
      BY <1>4 DEF Flooded, Sending, SendInv, SendTypeOK, SendFits, PartsInOrder, splitting
    <2> QED BY <2>1, <2>2 DEF SendInv
  <1>5. CASE GiveUp
    <2>1. SplitFits'
      BY <1>5, SplitKept DEF GiveUp
    <2>2. Len(chunks) \in Nat
      BY LenProperties DEF SendInv, SendTypeOK
    <2>3. SendTypeOK'
      BY <1>5 DEF GiveUp, NextPart, SendInv, SendTypeOK, splitting
    <2>4. SendFits'
      <3>1. /\ finished /\ result = "none" /\ part <= Len(chunks) /\ part \in Nat
            /\ finished' = finished /\ kind' = kind /\ chunks' = chunks /\ got' = got
        BY <1>5 DEF GiveUp, Sending, splitting, SendInv, SendTypeOK
      <3>2. PartsInOrder'
        BY <3>1 DEF SendInv, SendFits, PartsInOrder
      <3>3. \A i \in 1 .. Len(got) : got[i] \in Nat
        BY ElementOfSeq DEF SendInv, SendTypeOK
      <3>4. CASE kind = "card"
        <4>1. part' = part /\ result' = "not"
          BY <1>5, <3>4 DEF GiveUp
        <4> QED BY <2>2, <3>1, <3>2, <4>1 DEF SendInv, SendFits
      <3>5. CASE kind # "card"
        <4>1. part' = part + 1 /\ result' = result
          BY <1>5, <3>5 DEF GiveUp, NextPart
        <4> QED BY <2>2, <3>1, <3>2, <3>3, <3>5, <4>1 DEF SendInv, SendFits
      <3> QED BY <3>4, <3>5
    <2> QED BY <2>1, <2>3, <2>4 DEF SendInv
  <1>6. CASE Forbidden \/ Raises
    <2>1. SplitFits'
      BY <1>6, SplitKept DEF Forbidden, Raises
    <2>2. SendTypeOK' /\ SendFits'
      BY <1>6 DEF Forbidden, Raises, Sending, SendInv, SendTypeOK, SendFits, PartsInOrder, splitting
    <2> QED BY <2>1, <2>2 DEF SendInv
  <1>7. CASE Finish
    <2>1. SplitFits'
      BY <1>7, SplitKept DEF Finish
    <2>2. Len(chunks) \in Nat
      BY LenProperties DEF SendInv, SendTypeOK
    <2>3. SendTypeOK' /\ SendFits'
      BY <1>7, <2>2 DEF Finish, SendInv, SendTypeOK, SendFits, PartsInOrder, splitting
    <2> QED BY <2>1, <2>3 DEF SendInv
  <1>8. CASE UNCHANGED sendVars
    <2>1. SplitFits'
      BY <1>8, SplitKept DEF sendVars
    <2>2. SendTypeOK' /\ SendFits'
      BY <1>8 DEF sendVars, SendInv, SendTypeOK, SendFits, PartsInOrder, splitting, sending
    <2> QED BY <2>1, <2>2 DEF SendInv
  <1> QED BY <1>1, <1>2, <1>3, <1>4, <1>5, <1>6, <1>7, <1>8 DEF SendNext

-----------------------------------------------------------------------------
(* SendInv holds in every state. *)
THEOREM SendInvariance == SendSpec => []SendInv
  <1>1. SendInit => SendInv
    BY SendInvInit
  <1>2. SendInv /\ [SendNext]_sendVars => SendInv'
    BY SendInvNext
  <1> QED BY <1>1, <1>2, PTL DEF SendSpec

(* The variables keep their types. *)
THEOREM SendTypes == SendSpec => []SendTypeOK
  <1>1. SendInv => SendTypeOK
    BY DEF SendInv
  <1> QED BY <1>1, SendInvariance, PTL

(* Every part fits into a message, whatever the text (split_text). *)
THEOREM SendPartsFit == SendSpec => []PartsFit
  <1>1. SendInv => PartsFit
    BY DEF SendInv, SplitFits
  <1> QED BY <1>1, SendInvariance, PTL

(* A text that begins with a character has no blank part (split_text). *)
THEOREM SendNoBlankPart == SendSpec => []NoBlankPart
  <1>1. SendInv => NoBlankPart
    BY LenProperties DEF SendInv, SendTypeOK, SplitFits, PartsInked, NoBlankPart
  <1> QED BY <1>1, SendInvariance, PTL

(* Cutting a text loses and reorders nothing but blanks (split_text). *)
THEOREM SendNothingLost == SendSpec => []NothingLost
  <1>1. SendInv => NothingLost
    <2> SUFFICES ASSUME SendInv, finished PROVE NothingLost
      BY DEF NothingLost
    <2>1. /\ DOMAIN chunks = 1 .. Len(chunks) /\ Reached = Len(text)
          /\ \A i \in 1 .. Len(chunks) : DOMAIN chunks[i] = 1 .. Len(chunks[i])
          /\ text \in Seq(Chars)
      BY LenProperties, ElementOfSeq DEF SendInv, SendTypeOK, Reached
    <2>2. \A k \in Inked(text) : k <= Len(text)
      BY <2>1, LenProperties DEF Inked
    <2>3. \A k \in Inked(text) : InSome(k)
      BY <2>1, <2>2 DEF SendInv, SplitFits, Covered
    <2>4. \A k \in Inked(text) : \E i \in DOMAIN chunks : starts[i] < k /\ k <= End(i)
      BY <2>1, <2>3 DEF InSome
    <2>5. \A i \in DOMAIN chunks : End(i) <= Len(text)
      BY <2>1 DEF SendInv, SplitFits, PartsStand, PartStands
    <2>6. \A i \in DOMAIN chunks : \A k \in DOMAIN chunks[i] : chunks[i][k] = text[starts[i] + k]
      BY <2>1 DEF SendInv, SplitFits, PartsStand, PartStands
    <2>7. \A i, j \in DOMAIN chunks : i < j => End(i) <= starts[j]
      BY <2>1 DEF SendInv, SplitFits, PartsStand
    <2> QED BY <2>4, <2>5, <2>6, <2>7 DEF NothingLost
  <1> QED BY <1>1, SendInvariance, PTL

(* A word is broken only where the second half of the window has no blank *)
(* (split_text).                                                         *)
THEOREM SendWordsKept == SendSpec => WordsKept
  <1>1. SendInv /\ [SendNext]_sendVars =>
            [Cut => \/ remaining[Len(chunks'[Len(chunks')]) + 1] \in Blank
                    \/ \A i \in Limit \div 2 + 1 .. Limit : remaining[i] \notin Blank]_sendVars
    <2> SUFFICES ASSUME SendInv, Cut
                 PROVE  \/ remaining[Len(chunks'[Len(chunks')]) + 1] \in Blank
                        \/ \A i \in Limit \div 2 + 1 .. Limit : remaining[i] \notin Blank
      OBVIOUS
    <2>1. /\ remaining \in Seq(Chars) /\ chunks \in Seq(Seq(Chars)) /\ Len(remaining) \in Nat
          /\ Len(remaining) > Limit /\ Limit \in Nat /\ Limit >= 2
      BY LenProperties, SplitAssumption DEF Cut, SendInv, SendTypeOK
    <2>2. PICK w : w = SubSeq(remaining, 1, Limit)
      OBVIOUS
    <2>3. w \in Seq(Chars) /\ Len(w) = Limit /\ \A k \in 1 .. Limit : w[k] = remaining[k]
      BY <2>1, <2>2, SubSeqProperties
    <2>4. PICK cut : cut = CutAt(w)
      OBVIOUS
    <2>5. /\ cut \in 1 .. Limit
          /\ \/ cut < Limit /\ w[cut + 1] \in Blank
             \/ cut = Limit /\ \A i \in Limit \div 2 + 1 .. Limit : w[i] \notin Blank
      BY <2>3, <2>4, CutFacts
    <2>6. PICK left, s : left = SubSeq(remaining, 1, cut) /\ s = Rstrip(left)
      OBVIOUS
    <2>7. left \in Seq(Chars) /\ Len(left) = cut /\ \A k \in 1 .. cut : left[k] = remaining[k]
      BY <2>1, <2>5, <2>6, SubSeqProperties
    <2>8. s \in Seq(Chars) /\ Len(s) \in 0 .. cut /\ \A k \in Len(s) + 1 .. cut : left[k] \in Blank
      BY <2>6, <2>7, RstripFacts
    <2>9. chunks' = Append(chunks, s)
      BY <2>2, <2>4, <2>6 DEF Cut, Part
    <2>10. chunks'[Len(chunks')] = s
      BY <2>1, <2>8, <2>9, LastFacts
    <2>11. CASE Len(s) < cut
      <3>1. Len(s) + 1 \in Len(s) + 1 .. cut /\ Len(s) + 1 \in 1 .. cut
        BY <2>5, <2>8, <2>11
      <3> QED BY <2>7, <2>8, <2>10, <3>1
    <2>12. CASE Len(s) = cut
      <3>1. CASE cut < Limit /\ w[cut + 1] \in Blank
        <4>1. cut + 1 \in 1 .. Limit
          BY <2>1, <2>5, <3>1
        <4> QED BY <2>3, <2>10, <2>12, <3>1, <4>1
      <3>2. CASE cut = Limit /\ \A i \in Limit \div 2 + 1 .. Limit : w[i] \notin Blank
        <4>1. \A i \in Limit \div 2 + 1 .. Limit : i \in 1 .. Limit
          BY <2>1
        <4> QED BY <2>3, <3>2, <4>1
      <3> QED BY <2>5, <3>1, <3>2
    <2> QED BY <2>5, <2>8, <2>11, <2>12
  <1> QED BY <1>1, SendInvariance, PTL DEF SendSpec, WordsKept

(* A card counts as delivered only when the chat has every part of it, once and *)
(* in order (dispatch_to_responsibles).                                         *)
THEOREM CardsDeliveredWhole == SendSpec => []CardDeliveredWhole
  <1>1. SendInv => CardDeliveredWhole
    <2> SUFFICES ASSUME SendInv, kind = "card", result = "sent"
                 PROVE  got = [i \in DOMAIN chunks |-> i]
      BY DEF CardDeliveredWhole
    <2>1. got \in Seq(Nat) /\ Len(chunks) \in Nat /\ DOMAIN chunks = 1 .. Len(chunks)
      BY LenProperties DEF SendInv, SendTypeOK
    <2>2. Len(got) = Len(chunks) /\ \A i \in 1 .. Len(got) : got[i] = i
      BY <2>1 DEF SendInv, SendFits
    <2>3. got \in [1 .. Len(got) -> Nat]
      BY <2>1, LenProperties
    <2> QED BY <2>1, <2>2, <2>3
  <1> QED BY <1>1, SendInvariance, PTL

(* No part reaches a chat twice or before an earlier one, retries included *)
(* (_send_with_retry, safe_send).                                          *)
THEOREM SendPartsInOrder == SendSpec => []PartsInOrder
  <1>1. SendInv => PartsInOrder
    BY DEF SendInv, SendFits
  <1> QED BY <1>1, SendInvariance, PTL

=============================================================================

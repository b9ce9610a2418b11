---------------------------- MODULE MatrixDmProofs ----------------------------
(***************************************************************************)
(* Proofs about MatrixDm, for any responsibles, submissions, attachments   *)
(* and rooms.                                                              *)
(***************************************************************************)
EXTENDS MatrixDm, TLAPS

(* The inductive invariant.                                                *)

\* A session has a room at hand while it binds it or posts to it.
RoomFits ==
    \A p \in Sessions :
        /\ pc[p] \in {"bind", "send"} => room[p] \in Rooms /\ Owner(room[p]) \in todo[p]
        /\ pc[p] = "bind" => snap[p][Owner(room[p])] = NoRoom
        /\ pc[p] = "send" => snap[p][Owner(room[p])] = room[p]
        /\ pc[p] \in {"user", "send"} => p # "sync"
        /\ ~Open(p) => added[p] = {}

\* Rows are locked by open sessions, which know the room they have bound.
LockFits ==
    \A p \in Sessions, u \in Users : lock[u] = p => Open(p) /\ snap[p][u] # NoRoom

\* A room somebody is known to have is his, and is committed or will be.
SnapFits ==
    /\ \A u \in Users : bound[u] # NoRoom => Owner(bound[u]) = u
    /\ \A p \in Sessions, u \in Users : snap[p][u] # NoRoom =>
          Owner(snap[p][u]) = u /\ (lock[u] = p \/ bound[u] # NoRoom)

\* The deliveries of a session are to the rooms it knows, of users it is done with.
AddedFits ==
    \A p \in Sessions : \A e \in added[p] :
        e[1] = p /\ snap[p][Owner(e[2])] = e[2] /\ Owner(e[2]) \notin todo[p]

\* What was posted with a card is recorded, unless the session was rolled back.
PostsFit ==
    \A e \in posts :
        /\ pc[e[1]] # "idle"
        /\ Owner(e[2]) \notin todo[e[1]]
        /\ HasCard(e) => e \in added[e[1]] \/ e \in deliveries \/ pc[e[1]] = "dead"

\* Without overlapping sessions nobody's room is bound twice.
Serial ==
    ~overlap =>
        /\ \A p, q \in Sessions : Open(p) /\ Open(q) => p = q
        /\ \A p \in Sessions, u \in Users : Open(p) =>
              IF lock[u] = p THEN bound[u] = NoRoom ELSE snap[p][u] = bound[u]
        /\ \A e \in deliveries : bound[Owner(e[2])] = e[2]

IInv == /\ TypeOK
        /\ RoomFits
        /\ LockFits
        /\ SnapFits
        /\ AddedFits
        /\ PostsFit
        /\ CardsHaveHome
        /\ Serial

----------------------------------------------------------------------------
(* Rooms, posts and the end of a session.                                  *)

LEMMA RoomFacts ==
    /\ NoRoom \notin Rooms
    /\ \A r \in Rooms : Owner(r) \in Users
    /\ \A p \in Announces, u \in Users : <<p, u>> \in Rooms /\ Owner(<<p, u>>) = u
    /\ \A n \in 1 .. MaxOpened, u \in Openers : <<n, u>> \in Rooms
    /\ Openers \subseteq Users /\ NUsers \in Nat /\ MaxOpened \in Nat
  <1>1. NUsers \in Nat /\ MaxOpened \in Nat /\ Openers \subseteq Users
    BY DmAssumption DEF Users
  <1>2. ASSUME NEW r \in Rooms PROVE Owner(r) \in Users /\ r # NoRoom
    <2>1. CASE r \in Announces \X Users
      <3>1. PICK p \in Announces, u \in Users : r = <<p, u>>
        BY <2>1
      <3> QED BY <3>1 DEF Owner, NoRoom
    <2>2. CASE r \in (1 .. MaxOpened) \X Openers
      <3>1. PICK n \in 1 .. MaxOpened, u \in Openers : r = <<n, u>>
        BY <2>2
      <3> QED BY <1>1, <3>1 DEF Owner, NoRoom
    <2> QED BY <2>1, <2>2 DEF Rooms
  <1>3. \A p \in Announces, u \in Users : <<p, u>> \in Rooms /\ Owner(<<p, u>>) = u
    BY DEF Rooms, Owner
  <1>4. \A n \in 1 .. MaxOpened, u \in Openers : <<n, u>> \in Rooms
    BY DEF Rooms
  <1> QED BY <1>1, <1>2, <1>3, <1>4

LEMMA SessionFacts ==
    /\ "sync" \in Sessions /\ "sync" \notin Announces /\ None \notin Sessions
    /\ \A p \in Sessions : p # "sync" => p \in Announces
    /\ Announces \subseteq Sessions
  BY DmAssumption DEF Sessions, None

LEMMA PostedFacts ==
    ASSUME NEW p, NEW S, NEW e \in Posted(p, S)
    PROVE  e[1] = p /\ e[2] = room[p] /\ e[3] \in S /\ e = <<p, room[p], e[3]>>
  BY DEF Posted

LEMMA PostedTypes ==
    ASSUME NEW p \in Announces, room[p] \in Rooms, NEW S \in SUBSET Contents
    PROVE  Posted(p, S) \subseteq Posts
  BY DEF Posted, Posts

LEMMA ContentFacts == "card" \in Contents /\ Files \subseteq Contents /\ "card" \notin Files
  BY DmAssumption DEF Contents

(* A room is updated in what a session knows. *)
LEMMA Learnt ==
    ASSUME NEW f \in [Sessions -> [Users -> Rooms \cup {NoRoom}]], NEW p \in Sessions,
           NEW u \in Users, NEW r \in Rooms
    PROVE  /\ [f EXCEPT ![p][u] = r] \in [Sessions -> [Users -> Rooms \cup {NoRoom}]]
           /\ [f EXCEPT ![p][u] = r][p][u] = r
           /\ \A v \in Users \ {u} : [f EXCEPT ![p][u] = r][p][v] = f[p][v]
           /\ \A q \in Sessions \ {p} : [f EXCEPT ![p][u] = r][q] = f[q]
  OBVIOUS

(* What is left of a session when it has ended. *)
LEMMA Ended ==
    ASSUME TypeOK, NEW p \in Sessions, NEW l \in {"done", "dead"}, End(p, l)
    PROVE  /\ lock' \in [Users -> Sessions \cup {None}]
           /\ \A u \in Users : lock'[u] # p /\ \A q \in Sessions \ {p} : lock'[u] = q <=> lock[u] = q
           /\ added' \in [Sessions -> SUBSET Posts] /\ added'[p] = {}
           /\ \A q \in Sessions \ {p} : added'[q] = added[q]
           /\ todo' \in [Sessions -> SUBSET Users] /\ todo'[p] = {}
           /\ \A q \in Sessions \ {p} : todo'[q] = todo[q]
           /\ snap' \in [Sessions -> [Users -> Rooms \cup {NoRoom}]]
           /\ \A u \in Users : snap'[p][u] = NoRoom
           /\ \A q \in Sessions \ {p} : snap'[q] = snap[q]
           /\ room' \in [Sessions -> Rooms \cup {NoRoom}]
           /\ \A q \in Sessions \ {p} : room'[q] = room[q]
           /\ pc' \in [Sessions -> {"idle", "user", "bind", "send", "commit", "done", "dead"}]
           /\ pc'[p] = IF p = "sync" THEN "idle" ELSE l
           /\ \A q \in Sessions \ {p} : pc'[q] = pc[q] /\ (Open(q)' <=> Open(q))
           /\ ~Open(p)'
           /\ UNCHANGED <<opened, invited, posts, overlap>>
  <1> USE DEF TypeOK, End, Goto
  <1>1. /\ lock' \in [Users -> Sessions \cup {None}]
        /\ \A u \in Users : lock'[u] # p /\ \A q \in Sessions \ {p} : lock'[u] = q <=> lock[u] = q
    BY SessionFacts
  <1>2. Unknown \in [Users -> Rooms \cup {NoRoom}] /\ \A u \in Users : Unknown[u] = NoRoom
    BY DEF Unknown
  <1>3. /\ snap' \in [Sessions -> [Users -> Rooms \cup {NoRoom}]]
        /\ \A u \in Users : snap'[p][u] = NoRoom
        /\ \A q \in Sessions \ {p} : snap'[q] = snap[q]
    BY <1>2
  <1>4. /\ pc' \in [Sessions -> {"idle", "user", "bind", "send", "commit", "done", "dead"}]
        /\ pc'[p] = IF p = "sync" THEN "idle" ELSE l
        /\ \A q \in Sessions \ {p} : pc'[q] = pc[q]
    OBVIOUS
  <1>5. ~Open(p)' /\ \A q \in Sessions \ {p} : Open(q)' <=> Open(q)
    BY <1>4 DEF Open
  <1>6. /\ added' \in [Sessions -> SUBSET Posts] /\ added'[p] = {}
        /\ \A q \in Sessions \ {p} : added'[q] = added[q]
        /\ todo' \in [Sessions -> SUBSET Users] /\ todo'[p] = {}
        /\ \A q \in Sessions \ {p} : todo'[q] = todo[q]
    OBVIOUS
  <1>7. /\ room' \in [Sessions -> Rooms \cup {NoRoom}]
        /\ \A q \in Sessions \ {p} : room'[q] = room[q]
    OBVIOUS
  <1> QED BY <1>1, <1>3, <1>4, <1>5, <1>6, <1>7

----------------------------------------------------------------------------

LEMMA IInvInit == Init => IInv
  <1> SUFFICES ASSUME Init PROVE IInv
    OBVIOUS
  <1>1. Unknown \in [Users -> Rooms \cup {NoRoom}] /\ \A u \in Users : Unknown[u] = NoRoom
    BY DEF Unknown
  <1>2. TypeOK
    <2>1. opened \in [Users -> 0 .. MaxOpened]
      BY RoomFacts DEF Init
    <2>2. snap \in [Sessions -> [Users -> Rooms \cup {NoRoom}]] /\ bound \in [Users -> Rooms \cup {NoRoom}]
      BY <1>1 DEF Init
    <2>3. /\ lock \in [Users -> Sessions \cup {None}]
          /\ pc \in [Sessions -> {"idle", "user", "bind", "send", "commit", "done", "dead"}]
          /\ room \in [Sessions -> Rooms \cup {NoRoom}]
      BY DEF Init
    <2>4. todo \in [Sessions -> SUBSET Users] /\ added \in [Sessions -> SUBSET Posts]
      BY DEF Init
    <2>5. invited \subseteq Rooms /\ deliveries \subseteq Posts /\ posts \subseteq Posts /\ overlap \in BOOLEAN
      BY DEF Init
    <2> QED BY <2>1, <2>2, <2>3, <2>4, <2>5 DEF TypeOK
  <1>3. \A p \in Sessions : pc[p] = "idle" /\ ~Open(p) /\ added[p] = {}
    BY DEF Init, Open
  <1>4. RoomFits /\ LockFits
    BY <1>3, SessionFacts DEF Init, RoomFits, LockFits
  <1>5. SnapFits /\ AddedFits
    BY <1>1, <1>3 DEF Init, SnapFits, AddedFits
  <1>6. PostsFit /\ CardsHaveHome /\ Serial
    BY <1>3 DEF Init, PostsFit, CardsHaveHome, Serial
  <1> QED BY <1>2, <1>4, <1>5, <1>6 DEF IInv

LEMMA TypeNext == IInv /\ [Next]_vars => TypeOK'
  <1> SUFFICES ASSUME IInv, [Next]_vars PROVE TypeOK'
    OBVIOUS
  <1>0. TypeOK /\ RoomFits
    BY DEF IInv
  <1> USE <1>0, SessionFacts DEF TypeOK, Goto
  <1>1. ASSUME NEW p \in Sessions, AnnounceStart(p) PROVE TypeOK'
    BY <1>1 DEF AnnounceStart, SelectUsers
  <1>2. ASSUME NEW p \in Sessions, NEW u \in Users, CreateDm(p, u) PROVE TypeOK'
    <2>1. <<p, u>> \in Rooms
      BY <1>2, RoomFacts DEF CreateDm, Turn, RoomFits
    <2> QED BY <1>2, <2>1 DEF CreateDm, AfterCreate
  <1>3. ASSUME NEW p \in Sessions, NEW u \in Users, KnownRoom(p, u) PROVE TypeOK'
    BY <1>3 DEF KnownRoom
  <1>4. ASSUME NEW p \in Sessions, NEW u \in Users, SkipUser(p, u) PROVE TypeOK'
    BY <1>4 DEF SkipUser
  <1>5. ASSUME NEW p \in Sessions, Send(p) PROVE TypeOK'
    <2>1. p \in Announces /\ room[p] \in Rooms
      BY <1>5 DEF Send, RoomFits
    <2>2. PICK S \in SUBSET Files :
            \/ /\ posts' = posts \cup Posted(p, S \cup {"card"})
               /\ added' = [added EXCEPT ![p] = @ \cup RowsOf(p, S)]
            \/ posts' = posts \cup Posted(p, S) /\ UNCHANGED added
      BY <1>5 DEF Send
    <2>3. Posted(p, S) \subseteq Posts /\ RowsOf(p, S) \subseteq Posts
      <3>1. S \in SUBSET Contents /\ S \cup {"card"} \in SUBSET Contents
        BY ContentFacts
      <3> QED BY <2>1, <3>1, PostedTypes DEF RowsOf
    <2>4. posts' \subseteq Posts
      BY <2>2, <2>3 DEF RowsOf
    <2>5. added' \in [Sessions -> SUBSET Posts]
      BY <2>2, <2>3
    <2>6. todo' \in [Sessions -> SUBSET Users] /\ pc' = [pc EXCEPT ![p] = "user"]
      BY <1>5 DEF Send
    <2>7. UNCHANGED <<opened, invited, bound, lock, deliveries, snap, room, overlap>>
      BY <1>5 DEF Send
    <2> QED BY <2>4, <2>5, <2>6, <2>7
  <1>6. ASSUME NEW p \in Sessions, AnnounceEnd(p) PROVE TypeOK'
    BY <1>6 DEF AnnounceEnd
  <1>7. ASSUME NEW p \in Sessions, Bind(p) PROVE TypeOK'
    <2>1. room[p] \in Rooms /\ Owner(room[p]) \in Users
      BY <1>7, RoomFacts DEF Bind, RoomFits
    <2>2. snap' \in [Sessions -> [Users -> Rooms \cup {NoRoom}]]
      BY <1>7, <2>1, Learnt DEF Bind
    <2>3. lock' \in [Users -> Sessions \cup {None}]
      BY <1>7, <2>1 DEF Bind
    <2>4. pc' \in [Sessions -> {"idle", "user", "bind", "send", "commit", "done", "dead"}]
      BY <1>7 DEF Bind
    <2> QED BY <1>7, <2>2, <2>3, <2>4 DEF Bind
  <1>8. ASSUME NEW p \in Sessions, Commit(p) PROVE TypeOK'
    <2>1. bound' \in [Users -> Rooms \cup {NoRoom}] /\ deliveries' \subseteq Posts
      BY <1>8 DEF Commit
    <2>2. End(p, "done")
      BY <1>8 DEF Commit
    <2> QED BY <2>1, <2>2, Ended
  <1>9. ASSUME NEW p \in Sessions, Abort(p) PROVE TypeOK'
    <2>1. End(p, "dead") /\ UNCHANGED <<bound, deliveries>>
      BY <1>9 DEF Abort
    <2> QED BY <2>1, Ended
  <1>10. ASSUME NEW u \in Openers, OpenRoom(u) PROVE TypeOK'
    <2>1. u \in Users /\ opened[u] + 1 \in 1 .. MaxOpened
      BY <1>10, RoomFacts DEF OpenRoom
    <2>2. <<opened[u] + 1, u>> \in Rooms
      BY <2>1, RoomFacts
    <2>3. opened' \in [Users -> 0 .. MaxOpened]
      BY <1>10, <2>1, RoomFacts DEF OpenRoom
    <2> QED BY <1>10, <2>2, <2>3 DEF OpenRoom
  <1>11. ASSUME NEW r \in Rooms, JoinRoom(r) PROVE TypeOK'
    <2>1. Owner(r) \in Users
      BY RoomFacts
    <2> QED BY <1>11, <2>1 DEF JoinRoom, SelectUsers
  <1>12. CASE UNCHANGED vars
    BY <1>12 DEF vars
  <1> QED BY <1>1, <1>2, <1>3, <1>4, <1>5, <1>6, <1>7, <1>8, <1>9, <1>10, <1>11, <1>12
          DEF Next, Step, Announce

----------------------------------------------------------------------------
(* The other parts of the invariant, action by action.                     *)

Rest == RoomFits /\ LockFits /\ SnapFits /\ AddedFits /\ PostsFit /\ CardsHaveHome /\ Serial

(* What the invariant says of one session. *)
LEMMA OneSession ==
    ASSUME IInv, NEW p \in Sessions
    PROVE  /\ pc[p] \in {"bind", "send"} =>
                 /\ room[p] \in Rooms /\ Owner(room[p]) \in todo[p] /\ Owner(room[p]) \in Users
           /\ pc[p] = "bind" => snap[p][Owner(room[p])] = NoRoom
           /\ pc[p] = "send" => snap[p][Owner(room[p])] = room[p]
           /\ pc[p] \in {"user", "send"} => p \in Announces
           /\ ~Open(p) => added[p] = {} /\ \A u \in Users : lock[u] # p
           /\ \A u \in Users : snap[p][u] # NoRoom => Owner(snap[p][u]) = u
           /\ added[p] \subseteq Posts
           /\ \A e \in added[p] :
                 e[1] = p /\ snap[p][Owner(e[2])] = e[2] /\ Owner(e[2]) \notin todo[p]
  BY SessionFacts, RoomFacts DEF IInv, TypeOK, RoomFits, LockFits, SnapFits, AddedFits

(* What was posted and recorded is of announces, to rooms. *)
LEMMA PostFacts ==
    ASSUME NEW e \in Posts
    PROVE  e[1] \in Announces /\ e[1] \in Sessions /\ e[2] \in Rooms /\ Owner(e[2]) \in Users
  BY RoomFacts, SessionFacts DEF Posts

LEMMA StartKeeps == ASSUME IInv, NEW p \in Sessions, AnnounceStart(p) PROVE Rest'
  <1>1. /\ p \in Announces /\ pc[p] = "idle" /\ p # "sync"
        /\ ~Open(p) /\ added[p] = {} /\ \A u \in Users : lock[u] # p
    BY OneSession, SessionFacts DEF AnnounceStart, Open
  <1>2. /\ pc'[p] = "user" /\ snap'[p] = bound /\ todo'[p] = Users
        /\ \A q \in Sessions \ {p} : /\ pc'[q] = pc[q] /\ snap'[q] = snap[q] /\ todo'[q] = todo[q]
                                     /\ Open(q)' <=> Open(q)
        /\ Open(p)'
        /\ UNCHANGED <<bound, lock, deliveries, posts, room, added>>
    BY DEF AnnounceStart, SelectUsers, Goto, IInv, TypeOK, Open
  <1>3. ~overlap' => ~overlap /\ \A q \in Sessions \ {p} : ~Open(q)
    BY DEF AnnounceStart, SelectUsers
  <1>4. RoomFits'
    BY <1>1, <1>2 DEF IInv, RoomFits
  <1>5. LockFits'
    BY <1>1, <1>2 DEF IInv, LockFits
  <1>6. SnapFits'
    BY <1>2 DEF IInv, SnapFits
  <1>7. AddedFits'
    BY <1>1, <1>2 DEF IInv, AddedFits
  <1>8. PostsFit'
    BY <1>1, <1>2, PostFacts DEF IInv, TypeOK, PostsFit, HasCard
  <1>9. CardsHaveHome'
    BY <1>2 DEF IInv, CardsHaveHome
  <1>10. Serial'
    BY <1>1, <1>2, <1>3 DEF IInv, Serial
  <1> QED BY <1>4, <1>5, <1>6, <1>7, <1>8, <1>9, <1>10 DEF Rest

(* A session goes on, and nothing is told apart but its room at hand. *)
LEMMA GoesOnKeeps ==
    ASSUME IInv, NEW p \in Sessions, Open(p), Open(p)',
           UNCHANGED <<bound, lock, deliveries, posts, snap, added, overlap>>,
           todo' \in [Sessions -> SUBSET Users], todo'[p] \subseteq todo[p],
           \A q \in Sessions \ {p} : pc'[q] = pc[q] /\ room'[q] = room[q] /\ todo'[q] = todo[q],
           RoomFits'
    PROVE  Rest'
  <1>1. \A q \in Sessions : Open(q)' <=> Open(q)
    BY DEF Open
  <1>2. LockFits' /\ SnapFits'
    BY <1>1 DEF IInv, LockFits, SnapFits
  <1>3. \A q \in Sessions : todo'[q] \subseteq todo[q]
    OBVIOUS
  <1>4. AddedFits' /\ CardsHaveHome'
    BY <1>3 DEF IInv, AddedFits, CardsHaveHome
  <1>5. \A q \in Sessions : (pc'[q] = "idle" => pc[q] = "idle") /\ (pc[q] = "dead" => pc'[q] = "dead")
    BY DEF Open
  <1>6. PostsFit'
    BY <1>3, <1>5, PostFacts DEF IInv, TypeOK, PostsFit, HasCard
  <1>7. Serial'
    BY <1>1 DEF IInv, Serial
  <1> QED BY <1>2, <1>4, <1>6, <1>7 DEF Rest

LEMMA TurnKeeps ==
    ASSUME IInv, NEW p \in Sessions, NEW u \in Users, CreateDm(p, u) \/ KnownRoom(p, u) \/ SkipUser(p, u)
    PROVE  Rest'
  <1>1. pc[p] = "user" /\ p \in Announces /\ p # "sync" /\ u \in todo[p] /\ Open(p)
    BY OneSession, SessionFacts DEF CreateDm, KnownRoom, SkipUser, Turn, Open
  <1>2. UNCHANGED <<bound, lock, deliveries, posts, snap, added, overlap>>
    BY DEF CreateDm, KnownRoom, SkipUser
  <1>3. CASE CreateDm(p, u)
    <2>1. /\ pc'[p] = "bind" /\ room'[p] = <<p, u>> /\ snap[p][u] = NoRoom /\ UNCHANGED todo
          /\ \A q \in Sessions \ {p} : pc'[q] = pc[q] /\ room'[q] = room[q]
      BY <1>3 DEF CreateDm, AfterCreate, Goto, IInv, TypeOK
    <2>2. <<p, u>> \in Rooms /\ Owner(<<p, u>>) = u
      BY <1>1, RoomFacts
    <2>3. RoomFits'
      BY <1>1, <1>2, <2>1, <2>2 DEF IInv, RoomFits, Open
    <2> QED BY <1>1, <1>2, <2>1, <2>3, GoesOnKeeps DEF IInv, TypeOK, Open
  <1>4. CASE KnownRoom(p, u)
    <2>1. /\ pc'[p] = "send" /\ room'[p] = snap[p][u] /\ snap[p][u] # NoRoom /\ UNCHANGED todo
          /\ \A q \in Sessions \ {p} : pc'[q] = pc[q] /\ room'[q] = room[q]
      BY <1>4 DEF KnownRoom, Goto, IInv, TypeOK
    <2>2. snap[p][u] \in Rooms /\ Owner(snap[p][u]) = u
      BY <2>1, OneSession DEF IInv, TypeOK
    <2>3. RoomFits'
      BY <1>1, <1>2, <2>1, <2>2 DEF IInv, RoomFits, Open
    <2> QED BY <1>1, <1>2, <2>1, <2>3, GoesOnKeeps DEF IInv, TypeOK, Open
  <1>5. CASE SkipUser(p, u)
    <2>1. todo' = [todo EXCEPT ![p] = @ \ {u}] /\ UNCHANGED <<pc, room>>
      BY <1>5 DEF SkipUser
    <2>2. /\ todo' \in [Sessions -> SUBSET Users] /\ todo'[p] \subseteq todo[p]
          /\ \A q \in Sessions \ {p} : todo'[q] = todo[q]
      BY <2>1 DEF IInv, TypeOK
    <2>3. RoomFits'
      BY <1>1, <1>2, <2>1, <2>2 DEF IInv, RoomFits, Open
    <2> QED BY <1>1, <1>2, <2>1, <2>2, <2>3, GoesOnKeeps DEF Open
  <1> QED BY <1>3, <1>4, <1>5

LEMMA EndKeeps == ASSUME IInv, NEW p \in Sessions, AnnounceEnd(p) PROVE Rest'
  <1>1. /\ pc[p] = "user" /\ pc' = [pc EXCEPT ![p] = "commit"]
        /\ UNCHANGED <<bound, lock, deliveries, posts, todo, snap, room, added, overlap>>
    BY DEF AnnounceEnd, Goto
  <1>2. /\ Open(p) /\ Open(p)' /\ pc'[p] = "commit"
        /\ \A q \in Sessions \ {p} : pc'[q] = pc[q]
    BY <1>1 DEF IInv, TypeOK, Open
  <1>3. RoomFits'
    BY <1>1, <1>2 DEF IInv, RoomFits, Open
  <1> QED BY <1>1, <1>2, <1>3, GoesOnKeeps DEF IInv, TypeOK

LEMMA SendKeeps == ASSUME IInv, NEW p \in Sessions, Send(p) PROVE Rest'
  <1> DEFINE r == room[p]
             u == Owner(room[p])
  <1>1. /\ pc[p] = "send" /\ p \in Announces /\ p # "sync" /\ Open(p)
        /\ r \in Rooms /\ u \in todo[p] /\ u \in Users /\ snap[p][u] = r
    BY OneSession, SessionFacts DEF Send, Open
  <1>2. /\ pc'[p] = "user" /\ todo'[p] = todo[p] \ {u} /\ Open(p)'
        /\ \A q \in Sessions \ {p} : pc'[q] = pc[q] /\ todo'[q] = todo[q]
        /\ UNCHANGED <<bound, lock, deliveries, snap, room, overlap>>
    BY DEF Send, Goto, IInv, TypeOK, Open
  <1>3. \A q \in Sessions : Open(q)' <=> Open(q)
    BY <1>1, <1>2 DEF Open
  <1>4. PICK S \in SUBSET Files :
            \/ /\ posts' = posts \cup Posted(p, S \cup {"card"})
               /\ added' = [added EXCEPT ![p] = @ \cup Posted(p, S \cup {"card"})]
            \/ posts' = posts \cup Posted(p, S) /\ UNCHANGED added
    BY DEF Send, RowsOf
  <1>5. /\ \A q \in Sessions \ {p} : added'[q] = added[q]
        /\ added'[p] = added[p] \cup Posted(p, S \cup {"card"}) \/ added'[p] = added[p]
    BY <1>4 DEF IInv, TypeOK
  <1>p. ASSUME NEW T, NEW e \in Posted(p, T) PROVE e[1] = p /\ e[2] = r
    BY PostedFacts
  <1>6. ASSUME NEW e \in added'[p] PROVE e \in added[p] \/ (e[1] = p /\ e[2] = r)
    <2>1. e \in added[p] \/ e \in Posted(p, S \cup {"card"})
      BY <1>5
    <2> QED BY <1>p, <2>1
  <1> HIDE DEF r, u
  <1>7. RoomFits'
    <2>1. ASSUME NEW q \in Sessions, ~Open(q)' PROVE added'[q] = {}
      BY <1>1, <1>3, <1>5, <2>1 DEF IInv, RoomFits
    <2> QED BY <1>1, <1>2, <2>1 DEF IInv, RoomFits
  <1>8. LockFits' /\ SnapFits'
    BY <1>2, <1>3 DEF IInv, LockFits, SnapFits
  <1>9. AddedFits'
    <2>1. ASSUME NEW e \in added'[p]
          PROVE  e[1] = p /\ snap[p][Owner(e[2])] = e[2] /\ Owner(e[2]) \notin todo'[p]
      <3>1. CASE e \in added[p]
        BY <1>2, <3>1, OneSession
      <3>2. CASE e[1] = p /\ e[2] = r
        BY <1>1, <1>2, <3>2 DEF r, u
      <3> QED BY <1>6, <3>1, <3>2
    <2>2. \A q \in Sessions \ {p} : added'[q] = added[q] /\ todo'[q] = todo[q]
      BY <1>2, <1>5
    <2> QED BY <1>2, <2>1, <2>2 DEF IInv, AddedFits
  <1>10. PostsFit'
    <2>1. ASSUME NEW e \in posts'
          PROVE  e \in posts \/ (e[1] = p /\ e[2] = r)
      <3>1. e \in posts \/ e \in Posted(p, S \cup {"card"}) \/ e \in Posted(p, S)
        BY <1>4
      <3> QED BY <1>p, <3>1
    <2>2. ASSUME NEW e \in posts PROVE ~(e[1] = p /\ Owner(e[2]) = u)
      BY <1>1 DEF IInv, PostsFit, u
    <2>3. ASSUME NEW e \in posts', HasCard(e)'
          PROVE  e \in added'[e[1]] \/ e \in deliveries \/ pc'[e[1]] = "dead"
      <3>1. CASE e[1] = p /\ e[2] = r
        <4>1. <<p, r, "card">> \in posts'
          BY <2>3, <3>1 DEF HasCard
        <4>2. <<p, r, "card">> \notin posts
          <5>1. <<p, r, "card">>[1] = p /\ Owner(<<p, r, "card">>[2]) = u
            BY DEF r, u
          <5> QED BY <2>2, <5>1
        <4>3. <<p, r, "card">> \notin Posted(p, S)
          <5>1. <<p, r, "card">>[3] = "card"
            OBVIOUS
          <5> QED BY <5>1, PostedFacts, ContentFacts
        <4>4. added'[p] = added[p] \cup Posted(p, S \cup {"card"}) /\ posts' = posts \cup Posted(p, S \cup {"card"})
          BY <1>4, <4>1, <4>2, <4>3 DEF IInv, TypeOK
        <4>5. e \notin posts
          BY <2>2, <3>1 DEF r, u
        <4> QED BY <3>1, <4>4, <4>5
      <3>2. CASE e \in posts /\ ~(e[1] = p /\ e[2] = r)
        <4>1. e[1] \in Sessions
          BY <3>2, PostFacts DEF IInv, TypeOK
        <4>2. <<e[1], e[2], "card">> \in posts
          <5>1. CASE <<e[1], e[2], "card">> \in Posted(p, S \cup {"card"}) \cup Posted(p, S)
            BY <3>2, <5>1, PostedFacts DEF r
          <5> QED BY <1>4, <2>3, <5>1 DEF HasCard
        <4>3. e \in added[e[1]] \/ e \in deliveries \/ pc[e[1]] = "dead"
          BY <3>2, <4>2 DEF IInv, PostsFit, HasCard
        <4>4. pc[e[1]] = "dead" => pc'[e[1]] = "dead"
          BY <1>1, <1>2, <4>1
        <4> QED BY <1>5, <4>1, <4>3, <4>4
      <3> QED BY <2>1, <3>1, <3>2
    <2>4. ASSUME NEW e \in posts' PROVE pc'[e[1]] # "idle" /\ Owner(e[2]) \notin todo'[e[1]]
      <3>1. CASE e[1] = p /\ e[2] = r
        BY <1>2, <3>1 DEF r, u
      <3>2. CASE e \in posts
        <4>1. e[1] \in Sessions
          BY <3>2, PostFacts DEF IInv, TypeOK
        <4> QED BY <1>2, <3>2, <4>1 DEF IInv, PostsFit
      <3> QED BY <2>1, <3>1, <3>2
    <2> QED BY <1>2, <2>3, <2>4 DEF PostsFit
  <1>11. CardsHaveHome' /\ Serial'
    BY <1>2, <1>3 DEF IInv, CardsHaveHome, Serial
  <1> QED BY <1>7, <1>8, <1>9, <1>10, <1>11 DEF Rest

LEMMA BindKeeps == ASSUME IInv, NEW p \in Sessions, Bind(p) PROVE Rest'
  <1>1. PICK r \in Rooms, u \in Users : r = room[p] /\ u = Owner(r)
    BY OneSession DEF Bind
  <1>2. pc[p] = "bind" /\ Open(p) /\ u \in todo[p] /\ snap[p][u] = NoRoom
    BY <1>1, OneSession DEF Bind, Open
  <1>3. lock[u] = None
    BY <1>1, <1>2 DEF Bind, IInv, LockFits
  <1>4. /\ lock'[u] = p /\ \A v \in Users \ {u} : lock'[v] = lock[v]
        /\ UNCHANGED <<bound, deliveries, posts, todo, room, added, overlap>>
    BY <1>1 DEF Bind, IInv, TypeOK
  <1>5. /\ snap'[p][u] = r /\ \A v \in Users \ {u} : snap'[p][v] = snap[p][v]
        /\ \A q \in Sessions \ {p} : snap'[q] = snap[q]
    <2>1. snap' = [snap EXCEPT ![p][u] = r]
      BY <1>1 DEF Bind
    <2> QED BY <2>1, Learnt DEF IInv, TypeOK
  <1>6. /\ pc'[p] = "commit" \/ (pc'[p] = "send" /\ p # "sync")
        /\ \A q \in Sessions \ {p} : pc'[q] = pc[q]
    BY DEF Bind, Goto, IInv, TypeOK
  <1>7. \A q \in Sessions : Open(q)' <=> Open(q)
    BY <1>2, <1>6 DEF Open
  <1>8. r # NoRoom /\ p # None /\ \A q \in Sessions : q # None
    BY <1>1, RoomFacts, SessionFacts
  <1>9. RoomFits'
    <2>1. ASSUME NEW q \in Sessions, q # p
          PROVE  /\ pc'[q] \in {"bind", "send"} => room[q] \in Rooms /\ Owner(room[q]) \in todo[q]
                 /\ pc'[q] = "bind" => snap'[q][Owner(room[q])] = NoRoom
                 /\ pc'[q] = "send" => snap'[q][Owner(room[q])] = room[q]
                 /\ pc'[q] \in {"user", "send"} => q # "sync"
                 /\ ~Open(q)' => added[q] = {}
      BY <1>5, <1>6, <1>7, <2>1 DEF IInv, RoomFits
    <2>2. /\ room[p] \in Rooms /\ Owner(room[p]) \in todo[p] /\ snap'[p][Owner(room[p])] = room[p]
          /\ Open(p)'
      BY <1>1, <1>2, <1>5, <1>7
    <2> QED BY <1>4, <1>6, <2>1, <2>2 DEF RoomFits
  <1>10. LockFits'
    BY <1>2, <1>3, <1>4, <1>5, <1>7, <1>8 DEF IInv, LockFits
  <1>11. SnapFits'
    BY <1>1, <1>3, <1>4, <1>5, <1>8 DEF IInv, SnapFits
  <1>12. AddedFits'
    <2>1. ASSUME NEW e \in added[p]
          PROVE  e[1] = p /\ snap'[p][Owner(e[2])] = e[2] /\ Owner(e[2]) \notin todo[p]
      <3>1. Owner(e[2]) \in Users \ {u}
        BY <1>2, OneSession, PostFacts
      <3> QED BY <1>5, <3>1, OneSession
    <2> QED BY <1>4, <1>5, <2>1 DEF IInv, AddedFits
  <1>13. PostsFit'
    <2>1. \A q \in Sessions : pc'[q] # "idle" \/ pc'[q] = pc[q]
      BY <1>6
    <2>2. \A q \in Sessions : pc[q] = "dead" => pc'[q] = "dead"
      BY <1>2, <1>6
    <2> QED BY <1>4, <2>1, <2>2, PostFacts DEF IInv, TypeOK, PostsFit, HasCard
  <1>14. CardsHaveHome'
    BY <1>4 DEF IInv, CardsHaveHome
  <1>15. Serial'
    <2>1. ~overlap => \A q \in Sessions : Open(q) => q = p
      BY <1>2 DEF IInv, Serial
    <2>2. ~overlap => bound[u] = NoRoom
      BY <1>2, <1>3, <1>8 DEF IInv, Serial
    <2>3. ~overlap => \A v \in Users : IF lock'[v] = p THEN bound[v] = NoRoom ELSE snap'[p][v] = bound[v]
      BY <1>2, <1>4, <1>5, <2>2 DEF IInv, Serial
    <2> QED BY <1>4, <1>7, <2>1, <2>3 DEF IInv, Serial
  <1> QED BY <1>9, <1>10, <1>11, <1>12, <1>13, <1>14, <1>15 DEF Rest

(* A session ends, with a commit or with a rollback. *)
LEMMA EndedKeeps ==
    ASSUME IInv, NEW p \in Sessions, Open(p), NEW l \in {"done", "dead"}, End(p, l),
           l = "done" =>
                /\ \A u \in Users : bound'[u] = IF lock[u] = p THEN snap[p][u] ELSE bound[u]
                /\ deliveries' = deliveries \cup added[p],
           l = "dead" => UNCHANGED <<bound, deliveries>>
    PROVE  Rest'
  <1>0. TypeOK
    BY DEF IInv
  <1>1. /\ \A u \in Users : lock'[u] # p /\ \A q \in Sessions \ {p} : lock'[u] = q <=> lock[u] = q
        /\ added'[p] = {} /\ \A q \in Sessions \ {p} : added'[q] = added[q]
        /\ todo'[p] = {} /\ \A q \in Sessions \ {p} : todo'[q] = todo[q]
        /\ \A u \in Users : snap'[p][u] = NoRoom
        /\ \A q \in Sessions \ {p} : snap'[q] = snap[q]
        /\ \A q \in Sessions \ {p} : room'[q] = room[q]
        /\ pc'[p] = IF p = "sync" THEN "idle" ELSE l
        /\ \A q \in Sessions \ {p} : pc'[q] = pc[q] /\ (Open(q)' <=> Open(q))
        /\ ~Open(p)'
        /\ UNCHANGED <<posts, overlap>>
    BY <1>0, Ended
  <1>2. ASSUME NEW u \in Users PROVE bound[u] # NoRoom => bound'[u] # NoRoom
    BY DEF IInv, LockFits
  <1>3. ASSUME NEW u \in Users
        PROVE  bound'[u] = bound[u] \/ (bound'[u] = snap[p][u] /\ lock[u] = p /\ l = "done")
    OBVIOUS
  <1>4. RoomFits'
    BY <1>1 DEF IInv, RoomFits
  <1>5. LockFits'
    BY <1>1 DEF IInv, LockFits
  <1>6. SnapFits'
    <2>1. \A u \in Users : bound'[u] # NoRoom => Owner(bound'[u]) = u
      BY <1>3, OneSession DEF IInv, SnapFits
    <2>2. ASSUME NEW q \in Sessions, NEW u \in Users, snap'[q][u] # NoRoom
          PROVE  Owner(snap'[q][u]) = u /\ (lock'[u] = q \/ bound'[u] # NoRoom)
      BY <1>1, <1>2, <2>2 DEF IInv, SnapFits
    <2> QED BY <2>1, <2>2 DEF SnapFits
  <1>7. AddedFits'
    BY <1>1 DEF IInv, AddedFits
  <1>8. PostsFit'
    <2>1. ASSUME NEW e \in posts PROVE pc'[e[1]] # "idle" /\ Owner(e[2]) \notin todo'[e[1]]
      <3>1. e[1] \in Sessions /\ e[1] # "sync"
        BY <1>0, PostFacts, SessionFacts DEF TypeOK
      <3> QED BY <1>1, <3>1 DEF IInv, PostsFit
    <2>2. ASSUME NEW e \in posts, HasCard(e)'
          PROVE  e \in added'[e[1]] \/ e \in deliveries' \/ pc'[e[1]] = "dead"
      <3>1. e[1] \in Sessions /\ e[1] # "sync"
        BY <1>0, PostFacts, SessionFacts DEF TypeOK
      <3>2. e \in added[e[1]] \/ e \in deliveries \/ pc[e[1]] = "dead"
        BY <1>1, <2>2 DEF IInv, PostsFit, HasCard
      <3>3. deliveries \subseteq deliveries'
        OBVIOUS
      <3>4. CASE e[1] # p
        BY <1>1, <3>1, <3>2, <3>3, <3>4
      <3>5. CASE e[1] = p /\ l = "dead"
        BY <1>1, <3>1, <3>5
      <3>6. CASE e[1] = p /\ l = "done"
        <4>1. pc[p] # "dead"
          BY DEF Open
        <4> QED BY <3>2, <3>6, <4>1
      <3> QED BY <3>4, <3>5, <3>6
    <2> QED BY <1>1, <2>1, <2>2 DEF PostsFit
  <1>9. ASSUME NEW e \in deliveries'
        PROVE  /\ Owner(e[2]) \in Users /\ e[2] \in Rooms
               /\ e \in deliveries \/ (l = "done" /\ snap[p][Owner(e[2])] = e[2])
    <2>1. e \in deliveries \/ (l = "done" /\ e \in added[p])
      OBVIOUS
    <2> QED BY <1>0, <2>1, OneSession, PostFacts DEF TypeOK
  <1>10. CardsHaveHome'
    <2>1. ASSUME NEW e \in deliveries' PROVE bound'[Owner(e[2])] # NoRoom
      <3>1. CASE e \in deliveries
        BY <1>2, <1>9, <3>1 DEF IInv, CardsHaveHome
      <3>2. CASE l = "done" /\ snap[p][Owner(e[2])] = e[2]
        <4>1. lock[Owner(e[2])] = p \/ bound[Owner(e[2])] # NoRoom
          BY <1>9, <3>2, RoomFacts DEF IInv, SnapFits
        <4> QED BY <1>2, <1>9, <3>2, <4>1, RoomFacts
      <3> QED BY <1>9, <3>1, <3>2
    <2> QED BY <2>1 DEF CardsHaveHome
  <1>11. Serial'
    <2> SUFFICES ASSUME ~overlap PROVE
            /\ \A q \in Sessions : ~Open(q)'
            /\ \A e \in deliveries' : bound'[Owner(e[2])] = e[2]
      BY <1>1 DEF Serial
    <2>1. \A q \in Sessions : ~Open(q)'
      BY <1>1 DEF IInv, Serial
    <2>2. ASSUME NEW e \in deliveries' PROVE bound'[Owner(e[2])] = e[2]
      <3>1. CASE e \in deliveries
        <4>1. bound[Owner(e[2])] = e[2] /\ e[2] # NoRoom
          BY <1>9, <3>1, RoomFacts DEF IInv, Serial
        <4>2. lock[Owner(e[2])] # p
          BY <1>9, <4>1 DEF IInv, Serial
        <4> QED BY <1>3, <1>9, <4>1, <4>2
      <3>2. CASE l = "done" /\ snap[p][Owner(e[2])] = e[2]
        BY <1>9, <3>2 DEF IInv, Serial
      <3> QED BY <1>9, <3>1, <3>2
    <2> QED BY <2>1, <2>2
  <1> QED BY <1>4, <1>5, <1>6, <1>7, <1>8, <1>10, <1>11 DEF Rest

LEMMA CommitKeeps == ASSUME IInv, NEW p \in Sessions, Commit(p) PROVE Rest'
  <1>1. Open(p) /\ End(p, "done") /\ deliveries' = deliveries \cup added[p]
    BY DEF Commit, Open
  <1>2. \A u \in Users : bound'[u] = IF lock[u] = p THEN snap[p][u] ELSE bound[u]
    BY DEF Commit
  <1> QED BY <1>1, <1>2, EndedKeeps

LEMMA AbortKeeps == ASSUME IInv, NEW p \in Sessions, Abort(p) PROVE Rest'
  <1>1. Open(p) /\ End(p, "dead") /\ UNCHANGED <<bound, deliveries>>
    BY DEF Abort
  <1> QED BY <1>1, EndedKeeps

LEMMA JoinKeeps == ASSUME IInv, NEW r \in Rooms, JoinRoom(r) PROVE Rest'
  <1> DEFINE p == "sync"
  <1>1. /\ p \in Sessions /\ p \notin Announces /\ pc[p] = "idle"
        /\ ~Open(p) /\ added[p] = {} /\ \A u \in Users : lock[u] # p
    BY OneSession, SessionFacts DEF JoinRoom, Open
  <1>2. /\ snap'[p] = bound /\ todo'[p] = {Owner(r)} /\ room'[p] = r
        /\ pc'[p] = "commit" \/ (pc'[p] = "bind" /\ bound[Owner(r)] = NoRoom)
        /\ UNCHANGED <<bound, lock, deliveries, posts, added>>
    BY <1>1 DEF JoinRoom, SelectUsers, Goto, Binds, IInv, TypeOK
  <1>3. \A q \in Sessions \ {p} : /\ pc'[q] = pc[q] /\ snap'[q] = snap[q] /\ todo'[q] = todo[q]
                                  /\ room'[q] = room[q] /\ (Open(q)' <=> Open(q))
    BY <1>1 DEF JoinRoom, SelectUsers, Goto, IInv, TypeOK, Open
  <1>4. Open(p)'
    BY <1>2 DEF Open
  <1>5. ~overlap' => ~overlap /\ \A q \in Sessions \ {p} : ~Open(q)
    BY DEF JoinRoom, SelectUsers
  <1> HIDE DEF p
  <1>6. RoomFits'
    BY <1>1, <1>2, <1>3, <1>4 DEF IInv, RoomFits
  <1>7. LockFits'
    BY <1>1, <1>2, <1>3 DEF IInv, LockFits
  <1>8. SnapFits'
    BY <1>2, <1>3 DEF IInv, SnapFits
  <1>9. AddedFits'
    BY <1>1, <1>2, <1>3 DEF IInv, AddedFits
  <1>10. PostsFit'
    <2>1. \A e \in posts : e[1] \in Sessions \ {p}
      BY <1>1, PostFacts DEF IInv, TypeOK
    <2> QED BY <1>2, <1>3, <2>1 DEF IInv, PostsFit, HasCard
  <1>11. CardsHaveHome'
    BY <1>2 DEF IInv, CardsHaveHome
  <1>12. Serial'
    BY <1>1, <1>2, <1>3, <1>4, <1>5 DEF IInv, Serial
  <1> QED BY <1>6, <1>7, <1>8, <1>9, <1>10, <1>11, <1>12 DEF Rest

LEMMA IdleKeeps ==
    ASSUME IInv, UNCHANGED <<bound, lock, deliveries, posts, pc, todo, snap, room, added, overlap>>
    PROVE  Rest'
  <1>1. \A p \in Sessions : Open(p)' <=> Open(p)
    BY DEF Open
  <1>2. RoomFits' /\ LockFits' /\ SnapFits' /\ AddedFits'
    BY <1>1 DEF IInv, RoomFits, LockFits, SnapFits, AddedFits
  <1>3. PostsFit' /\ CardsHaveHome' /\ Serial'
    BY <1>1 DEF IInv, PostsFit, HasCard, CardsHaveHome, Serial
  <1> QED BY <1>2, <1>3 DEF Rest

LEMMA IInvNext == IInv /\ [Next]_vars => IInv'
  <1> SUFFICES ASSUME IInv, [Next]_vars PROVE Rest'
    BY TypeNext DEF IInv, Rest
  <1>1. ASSUME NEW u \in Openers, OpenRoom(u) PROVE Rest'
    BY <1>1, IdleKeeps DEF OpenRoom
  <1>2. CASE UNCHANGED vars
    BY <1>2, IdleKeeps DEF vars
  <1>3. ASSUME NEW p \in Sessions, Announce(p) PROVE Rest'
    BY <1>3, StartKeeps, TurnKeeps, SendKeeps, EndKeeps DEF Announce
  <1> QED BY <1>1, <1>2, <1>3, BindKeeps, CommitKeeps, AbortKeeps, JoinKeeps DEF Next, Step

----------------------------------------------------------------------------

\* The sessions that bind rooms and post cards keep the inductive invariant.
THEOREM Invariance == Spec => []IInv
  BY IInvInit, IInvNext, PTL DEF Spec

\* Every variable keeps its type.
THEOREM TypeCorrectness == Spec => []TypeOK
  <1>1. IInv => TypeOK
    BY DEF IInv
  <1> QED BY Invariance, <1>1, PTL

\* Whoever has a card on record is bound to a room by then, overlapping
\* sessions, failures and rooms of his own notwithstanding (announce).
THEOREM RecipientsAreKnown == Spec => []CardsHaveHome
  <1>1. IInv => CardsHaveHome
    BY DEF IInv
  <1> QED BY Invariance, <1>1, PTL

\* A reply to a card of a committed announce, or to a file posted with one, has
\* its delivery, and without overlapping sessions it comes from the bound room
\* (announce, bind_matrix_room, _resolve).
THEOREM RepliesFindTheirCase == Spec => []RepliesAreHeard
  <1>1. IInv => RepliesAreHeard
    <2> SUFFICES ASSUME IInv, NEW e \in posts, pc[e[1]] = "done", HasCard(e)
                 PROVE  e \in deliveries /\ (overlap \/ Heard(e))
      BY DEF RepliesAreHeard
    <2>1. e[1] \in Sessions /\ ~Open(e[1])
      BY PostFacts DEF IInv, TypeOK, Open
    <2>2. e \in deliveries
      BY <2>1, OneSession DEF IInv, PostsFit
    <2>3. overlap \/ Heard(e)
      BY <2>2 DEF IInv, Serial, Heard
    <2> QED BY <2>2, <2>3
  <1> QED BY Invariance, <1>1, PTL

\* Without overlapping sessions a later room never replaces the first
\* (bot/db/repositories.py, bind_matrix_room).
THEOREM FirstRoomStays == Spec => FirstRoomKeptSerial
  <1>1. IInv /\ [Next]_vars =>
            [~overlap' => \A u \in Users : bound[u] # NoRoom => bound'[u] = bound[u]]_vars
    <2> SUFFICES ASSUME IInv, Next, ~overlap', NEW u \in Users, bound[u] # NoRoom
                 PROVE  bound'[u] = bound[u]
      OBVIOUS
    <2>1. ASSUME NEW p \in Sessions, Commit(p) PROVE bound'[u] = bound[u]
      <3>1. ~overlap /\ Open(p)
        BY <2>1 DEF Commit, End, Open
      <3>2. lock[u] # p
        BY <3>1 DEF IInv, Serial
      <3> QED BY <2>1, <3>2 DEF Commit
    <2> QED BY <2>1 DEF Next, Step, Announce, AnnounceStart, CreateDm, KnownRoom, SkipUser, Send,
                        AnnounceEnd, Bind, Abort, OpenRoom, JoinRoom
  <1> QED BY Invariance, <1>1, PTL DEF Spec, FirstRoomKeptSerial

=============================================================================

------------------------------ MODULE MatrixDm ------------------------------
(***************************************************************************)
(* The direct rooms of the responsibles in Matrix: users.matrix_room_id is *)
(* bound once, by the room a person opens with the bot or by the one the   *)
(* bot creates for the first card.  Any number of announces run at once,   *)
(* each in the session of its on_submit; the sync loop handles one invite  *)
(* after the other.  A session reads the rows committed when it selects,   *)
(* and a row it has updated is locked until it commits.  What the bot has  *)
(* posted stays in the room, whatever becomes of the session, and a reply  *)
(* to it is acted upon if its delivery is found.                           *)
(***************************************************************************)
EXTENDS Naturals, FiniteSets

CONSTANTS
    NUsers,      \* responsibles of the type with a Matrix id, by User.id
    Announces,   \* the submissions announced
    Files,       \* the attachments of each
    Openers,     \* the responsibles who open rooms with the bot themselves
    MaxOpened,   \* bound: how many each of them opens
    Faults       \* TRUE if calls to the homeserver and sessions may fail

ASSUME DmAssumption ==
    /\ NUsers \in Nat /\ Openers \subseteq 1 .. NUsers
    /\ MaxOpened \in Nat
    /\ Faults \in BOOLEAN
    /\ {"sync", "none"} \cap Announces = {} /\ "card" \notin Files

VARIABLES
    opened,     \* how many rooms each person has opened with the bot
    invited,    \* those that await the sync loop
    bound,      \* committed users.matrix_room_id
    lock,       \* who has updated the user's row and not yet committed
    deliveries, \* committed rows: announce, room, and what was posted
    posts,      \* the same of all that was posted
    pc,         \* where each session is
    todo,       \* users an announce has still to serve
    snap,       \* the rooms a session knows: those it selected or bound
    room,       \* the room at hand
    added,      \* deliveries of the session, not committed
    overlap     \* history: a session selected users while another was open

vars == <<opened, invited, bound, lock, deliveries, posts, pc, todo, snap, room,
          added, overlap>>

Users == 1 .. NUsers
Sessions == Announces \cup {"sync"}
Contents == Files \cup {"card"}
None == "none"

\* A room with one person: the one an announce created for him, or the n-th of
\* those he opened himself.
Rooms == (Announces \X Users) \cup ((1 .. MaxOpened) \X Openers)
Owner(r) == r[2]
NoRoom == <<>>

Open(p) == pc[p] \notin {"idle", "done", "dead"}

Unknown == [u \in Users |-> NoRoom]

Init ==
    /\ opened = [u \in Users |-> 0]
    /\ invited = {}
    /\ bound = Unknown
    /\ lock = [u \in Users |-> None]
    /\ deliveries = {}
    /\ posts = {}
    /\ pc = [p \in Sessions |-> "idle"]
    /\ todo = [p \in Sessions |-> {}]
    /\ snap = [p \in Sessions |-> Unknown]
    /\ room = [p \in Sessions |-> NoRoom]
    /\ added = [p \in Sessions |-> {}]
    /\ overlap = FALSE

Goto(p, l) == pc' = [pc EXCEPT ![p] = l]

\* A SELECT of users: every session sees what is committed.
SelectUsers(p) ==
    /\ snap' = [snap EXCEPT ![p] = bound]
    /\ overlap' = (overlap \/ \E q \in Sessions \ {p} : Open(q))

----------------------------------------------------------------------------
(* bind_matrix_room: the row's lock is awaited, the room is not read again *)

Bind(p) ==
    LET u == Owner(room[p])
    IN  /\ pc[p] = "bind"
        /\ lock[u] \in {None, p}
        /\ lock' = [lock EXCEPT ![u] = p]
        /\ snap' = [snap EXCEPT ![p][u] = room[p]]
        /\ Goto(p, IF p = "sync" THEN "commit" ELSE "send")
        /\ UNCHANGED <<opened, invited, bound, deliveries, posts, todo, room, added, overlap>>

\* The session is over, and what it knew forgotten.
End(p, l) ==
    /\ lock' = [u \in Users |-> IF lock[u] = p THEN None ELSE lock[u]]
    /\ added' = [added EXCEPT ![p] = {}]
    /\ todo' = [todo EXCEPT ![p] = {}]
    /\ snap' = [snap EXCEPT ![p] = Unknown]
    /\ room' = [room EXCEPT ![p] = NoRoom]
    /\ Goto(p, IF p = "sync" THEN "idle" ELSE l)
    /\ UNCHANGED <<opened, invited, posts, overlap>>

\* COMMIT: the rooms bound by the session and its deliveries.
Commit(p) ==
    /\ pc[p] = "commit"
    /\ bound' = [u \in Users |-> IF lock[u] = p THEN snap[p][u] ELSE bound[u]]
    /\ deliveries' = deliveries \cup added[p]
    /\ End(p, "done")

\* An exception or the end of the process: ROLLBACK.
Abort(p) ==
    /\ Faults
    /\ Open(p)
    /\ End(p, "dead")
    /\ UNCHANGED <<bound, deliveries>>

----------------------------------------------------------------------------
(* announce                                                                *)

\* matrix_responsibles_for
AnnounceStart(p) ==
    /\ p \in Announces
    /\ pc[p] = "idle"
    /\ SelectUsers(p)
    /\ todo' = [todo EXCEPT ![p] = Users]
    /\ Goto(p, "user")
    /\ UNCHANGED <<opened, invited, bound, lock, deliveries, posts, room, added>>

\* Mutant: the responsibles are not ordered by their id.
Turn_Unordered(p, u) == pc[p] = "user" /\ u \in todo[p]

\* The users come in the order of their ids.
Turn(p, u) == pc[p] = "user" /\ u \in todo[p] /\ \A v \in todo[p] : u <= v

\* Mutant: the room that was created is not bound.
AfterCreate_NoBind == "send"

AfterCreate == "bind"

\* _ensure_room: no room is known, one is created.
CreateDm(p, u) ==
    /\ Turn(p, u)
    /\ snap[p][u] = NoRoom
    /\ room' = [room EXCEPT ![p] = <<p, u>>]
    /\ Goto(p, AfterCreate)
    /\ UNCHANGED <<opened, invited, bound, lock, deliveries, posts, todo, snap, added, overlap>>

KnownRoom(p, u) ==
    /\ Turn(p, u)
    /\ snap[p][u] # NoRoom
    /\ room' = [room EXCEPT ![p] = snap[p][u]]
    /\ Goto(p, "send")
    /\ UNCHANGED <<opened, invited, bound, lock, deliveries, posts, todo, snap, added, overlap>>

\* The homeserver refuses the room: the user is skipped this time.
SkipUser(p, u) ==
    /\ Turn(p, u)
    /\ snap[p][u] = NoRoom
    /\ Faults
    /\ todo' = [todo EXCEPT ![p] = @ \ {u}]
    /\ UNCHANGED <<opened, invited, bound, lock, deliveries, posts, pc, snap, room, added, overlap>>

Posted(p, S) == {<<p, room[p], x>> : x \in S}

\* Mutant: only the card is recorded.
RowsOf_Card(p, S) == Posted(p, {"card"})

\* The deliveries that follow a card: its own and those of the files posted.
RowsOf(p, S) == Posted(p, S \cup {"card"})

\* Every file is downloaded, uploaded and posted, or counted as failed; then the
\* card goes out and is recorded with its files, or nothing is.
Send(p) ==
    /\ pc[p] = "send"
    /\ \E S \in SUBSET Files :
          /\ Faults \/ S = Files
          /\ \/ /\ posts' = posts \cup Posted(p, S \cup {"card"})
                /\ added' = [added EXCEPT ![p] = @ \cup RowsOf(p, S)]
             \/ /\ Faults
                /\ posts' = posts \cup Posted(p, S)
                /\ UNCHANGED added
    /\ todo' = [todo EXCEPT ![p] = @ \ {Owner(room[p])}]
    /\ Goto(p, "user")
    /\ UNCHANGED <<opened, invited, bound, lock, deliveries, snap, room, overlap>>

AnnounceEnd(p) ==
    /\ p \in Announces
    /\ pc[p] = "user"
    /\ todo[p] = {}
    /\ Goto(p, "commit")
    /\ UNCHANGED <<opened, invited, bound, lock, deliveries, posts, todo, snap, room, added, overlap>>

----------------------------------------------------------------------------
(* on_direct_room                                                          *)

\* A person opens a direct room with the bot, as often as he likes.
OpenRoom(u) ==
    /\ opened[u] < MaxOpened
    /\ opened' = [opened EXCEPT ![u] = @ + 1]
    /\ invited' = invited \cup {<<opened[u] + 1, u>>}
    /\ UNCHANGED <<bound, lock, deliveries, posts, pc, todo, snap, room, added, overlap>>

\* The guard of bind_matrix_room.
Binds(u) == bound[u] = NoRoom

\* _on_sync joins the room of an invite and hands it over; once joined, the
\* invite does not come again.
JoinRoom(r) ==
    /\ pc["sync"] = "idle"
    /\ r \in invited
    /\ invited' = invited \ {r}
    /\ SelectUsers("sync")
    /\ room' = [room EXCEPT !["sync"] = r]
    /\ todo' = [todo EXCEPT !["sync"] = {Owner(r)}]
    /\ Goto("sync", IF Binds(Owner(r)) THEN "bind" ELSE "commit")
    /\ UNCHANGED <<opened, bound, lock, deliveries, posts, added>>

----------------------------------------------------------------------------
(* handle_event and _resolve                                               *)

\* The room is that of a person the bot knows, and the event replied to one
\* of its deliveries: a reply to the post e is acted upon.
Heard(e) == bound[Owner(e[2])] = e[2] /\ e \in deliveries

----------------------------------------------------------------------------

Announce(p) ==
    \/ AnnounceStart(p)
    \/ \E u \in Users : CreateDm(p, u) \/ KnownRoom(p, u) \/ SkipUser(p, u)
    \/ Send(p)
    \/ AnnounceEnd(p)

Step(p) == Announce(p) \/ Bind(p) \/ Commit(p)

Next ==
    \/ \E p \in Sessions : Step(p) \/ Abort(p)
    \/ \E u \in Openers : OpenRoom(u)
    \/ \E r \in Rooms : JoinRoom(r)

Spec == Init /\ [][Next]_vars

\* The event loop resumes a session when its call returns or its lock is free.
FairSpec == Spec /\ \A p \in Sessions : WF_vars(Step(p))

----------------------------------------------------------------------------

\* Types of the variables.
Posts == Announces \X Rooms \X Contents
TypeOK ==
    /\ opened \in [Users -> 0 .. MaxOpened]
    /\ invited \subseteq Rooms
    /\ bound \in [Users -> Rooms \cup {NoRoom}]
    /\ lock \in [Users -> Sessions \cup {None}]
    /\ deliveries \subseteq Posts /\ posts \subseteq Posts
    /\ pc \in [Sessions -> {"idle", "user", "bind", "send", "commit", "done", "dead"}]
    /\ todo \in [Sessions -> SUBSET Users]
    /\ snap \in [Sessions -> [Users -> Rooms \cup {NoRoom}]]
    /\ room \in [Sessions -> Rooms \cup {NoRoom}]
    /\ added \in [Sessions -> SUBSET Posts]
    /\ overlap \in BOOLEAN

\* The recipient of a committed delivery is bound to a room by then: his
\* replies are not those of a stranger.
CardsHaveHome == \A e \in deliveries : bound[Owner(e[2])] # NoRoom

\* Once an announce is committed a reply to any of its cards, and to any file
\* posted with one, finds its case; and as long as no two sessions overlapped
\* it is acted upon (announce, bind_matrix_room, _resolve).  A file whose card
\* failed is nobody's.
HasCard(e) == <<e[1], e[2], "card">> \in posts
RepliesAreHeard ==
    \A e \in posts : pc[e[1]] = "done" /\ HasCard(e) =>
        e \in deliveries /\ (overlap \/ Heard(e))

\* A binding, once committed, stays unless sessions overlapped.
FirstRoomKeptSerial ==
    [][~overlap' => \A u \in Users : bound[u] # NoRoom => bound'[u] = bound[u]]_vars

\* Sessions that wait for each other's rows all end: no two of them lock rows
\* in opposite orders (matrix_responsibles_for orders by User.id).
EveryAnnounceEnds ==
    \A p \in Announces : pc[p] = "user" ~> pc[p] \in {"done", "dead"}

----------------------------------------------------------------------------
(* What overlapping sessions and failed cards break.                       *)

\* bot/db/repositories.py:94: "Bind the user's DM room once; a later room never
\* replaces the first".
FirstRoomKept == [][\A u \in Users : bound[u] # NoRoom => bound'[u] = bound[u]]_bound

\* Whatever an announce that came to its end has posted can be replied to.
AllPostsHeard == \A e \in posts : pc[e[1]] = "done" => Heard(e)

=============================================================================

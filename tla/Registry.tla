------------------------------- MODULE Registry --------------------------------
(***************************************************************************)
(* The registry: one message in which a responsible or an admin goes       *)
(* through the submissions of a type.  What the message shows next is in   *)
(* the payload of the button tapped and nowhere else.  Two taps may be     *)
(* handled at once, each as a sequence of statements (READ COMMITTED), and *)
(* the submissions, and the reader's rights, change under them.            *)
(***************************************************************************)
EXTENDS Integers, Sequences, FiniteSets, SequencesExt

CONSTANTS
    Subs,        \* submissions, numbered by created_at
    TypeOf,      \* the type of each
    PerPage,     \* PER_PAGE
    Old,         \* payloads of buttons of other messages, or made by a client
    Outcomes,    \* statuses others may set, by submission
    Slots,       \* taps that may be handled at once
    MaxClicks    \* bound: taps

Types == {"appeal", "corruption"}
Statuses == {"new", "in_progress", "closed"}
Filters == Statuses \cup {"all"}
Orders == {"asc", "desc"}
Payload == [type : Types, status : Filters, order : Orders, page : Nat,
            open : Subs \cup {0}]

ASSUME RegistryAssumption ==
    /\ Subs \subseteq Nat \ {0} /\ IsFiniteSet(Subs)
    /\ TypeOf \in [Subs -> Types]
    /\ PerPage \in Nat \ {0} /\ MaxClicks \in Nat
    /\ Old \subseteq Payload /\ Outcomes \in [Subs -> SUBSET Statuses]

VARIABLES
    present,     \* the submissions committed so far
    status,      \* status of each
    rights,      \* the types the reader may handle now
    screen,      \* what the message shows
    task,        \* per slot, the update being handled
    clicks,
    pass         \* history: the reader's way from the first page to the last

registryVars == <<present, status, rights, screen, task, clicks, pass>>

Start(t) == [type |-> t, status |-> "all", order |-> "desc", page |-> 0, open |-> 0]

\* cb is the payload the screen was made from, its page put right.
Nothing == [kind |-> "none", cb |-> Start("appeal"), items |-> <<>>, pages |-> 1,
            sub |-> 0, shown |-> "new"]

\* alone: no other tap was handled meanwhile; raced: something was committed
\* between the two statements of one list.
\* there: what matched when the list was selected; own: the status the task's
\* action gave the submission.
Idle == [pc |-> "idle", cb |-> Start("appeal"), act |-> "none", rights |-> {},
         total |-> 0, items |-> <<>>, sub |-> 0, read |-> "new", own |-> "none",
         raced |-> FALSE, there |-> {}, alone |-> TRUE]

NoPass == [on |-> FALSE, start |-> {}, seen |-> {}]

RegistryInit ==
    /\ present \in SUBSET Subs
    /\ status = [i \in Subs |-> "new"]
    /\ rights \in SUBSET Types
    /\ screen = Nothing
    /\ task = [h \in Slots |-> Idle]
    /\ clicks = 0
    /\ pass = NoPass

----------------------------------------------------------------------------
(* list_for_registry                                                       *)

Matching(cb) ==
    {i \in present : TypeOf[i] = cb.type /\ cb.status \in {"all", status[i]}}

Ahead(S, order, i) == {j \in S : IF order = "asc" THEN j < i ELSE j > i}

\* ORDER BY created_at: the n-th row has n - 1 ahead of it.
Sorted(S, order) ==
    [n \in 1 .. Cardinality(S) |->
        CHOOSE i \in S : Cardinality(Ahead(S, order, i)) = n - 1]

PageOf(s, page) ==
    LET first == page * PerPage
    IN  [k \in 1 .. (IF Len(s) <= first THEN 0
                     ELSE IF Len(s) - first < PerPage THEN Len(s) - first ELSE PerPage)
            |-> s[first + k]]

\* Mutant: the last page is not counted.
Pages_NoLast(total) == IF total <= PerPage THEN 1 ELSE (total - 1) \div PerPage

Pages(total) == IF total = 0 THEN 1 ELSE (total + PerPage - 1) \div PerPage

----------------------------------------------------------------------------
(* The buttons of a screen                                                 *)

ListButtons(s) ==
    LET cb == [s.cb EXCEPT !.open = 0]
        last == s.pages - 1
    IN  {[cb EXCEPT !.open = s.items[k]] : k \in DOMAIN s.items}
        \cup {[cb EXCEPT !.status = f, !.page = 0] : f \in Filters}
        \cup {[cb EXCEPT !.order = o, !.page = 0] : o \in Orders}
        \cup (IF s.pages > 1 THEN {cb} ELSE {})
        \cup (IF s.pages > 1 /\ cb.page > 0 THEN {[cb EXCEPT !.page = @ - 1]} ELSE {})
        \cup (IF cb.page < last THEN {[cb EXCEPT !.page = @ + 1]} ELSE {})

Back(s) == [s.cb EXCEPT !.open = 0]

Actions(s) ==
    IF s.kind # "detail" THEN {}
    ELSE CASE s.shown = "new" -> {"take", "close"}
           [] s.shown = "in_progress" -> {"close"}
           [] OTHER -> {}

Buttons(s) ==
    CASE s.kind = "list" -> ListButtons(s)
      [] s.kind = "detail" -> {Back(s)}
      [] OTHER -> {}

----------------------------------------------------------------------------
(* Taps                                                                    *)

\* Slot h turns to t.
Begin(h, t) ==
    [g \in Slots |->
        IF g = h THEN [t EXCEPT !.alone = \A k \in Slots \ {h} : task[k].pc = "idle"]
        ELSE IF task[g].pc = "idle" THEN Idle ELSE [task[g] EXCEPT !.alone = FALSE]]

\* The reader opens the registry; its first page is sent as a new message.
OpenRegistry(h, t) ==
    /\ task[h].pc = "idle" /\ screen.kind = "none" /\ clicks < MaxClicks
    /\ t \in rights
    /\ clicks' = clicks + 1
    /\ task' = Begin(h, [Idle EXCEPT !.pc = "count", !.cb = Start(t), !.rights = rights])
    /\ UNCHANGED <<present, status, rights, screen, pass>>

\* on_registry_nav, with the rights in the User row that the session read.
Tap(h, cb) ==
    /\ task[h].pc = "idle" /\ screen.kind # "none" /\ clicks < MaxClicks
    /\ clicks' = clicks + 1
    /\ task' = IF cb.type \in rights
               THEN Begin(h, [Idle EXCEPT !.pc = IF cb.open # 0 THEN "find" ELSE "count",
                                          !.cb = cb, !.rights = rights])
               ELSE task
    /\ UNCHANGED <<present, status, rights, screen, pass>>

\* on_take or on_close, from the detail on the screen; authorize reads the
\* row.  sub's Back button goes with the tap.
TapAction(h, a) ==
    /\ task[h].pc = "idle" /\ a \in Actions(screen) /\ clicks < MaxClicks
    /\ clicks' = clicks + 1
    /\ task' = IF TypeOf[screen.sub] \in rights
               THEN Begin(h, [Idle EXCEPT !.pc = "act", !.act = a, !.cb = Back(screen),
                                          !.sub = screen.sub, !.rights = rights,
                                          !.read = status[screen.sub]])
               ELSE task
    /\ UNCHANGED <<present, status, rights, screen, pass>>

----------------------------------------------------------------------------
(* The list                                                                *)

Count(h) ==
    /\ task[h].pc = "count"
    /\ task' = [task EXCEPT ![h].total = Cardinality(Matching(task[h].cb)),
                            ![h].pc = "select", ![h].raced = FALSE]
    /\ UNCHANGED <<present, status, rights, screen, clicks, pass>>

FallsBack(rows, total, page) == rows = <<>> /\ total > 0 /\ page > 0

Select(h) ==
    LET cb == task[h].cb
        rows == PageOf(Sorted(Matching(cb), cb.order), cb.page)
    IN  /\ task[h].pc = "select"
        /\ task' = [task EXCEPT ![h] =
               IF FallsBack(rows, @.total, cb.page)
               THEN [@ EXCEPT !.pc = "count", !.cb.page = 0]
               ELSE [@ EXCEPT !.pc = "list", !.items = rows, !.there = Matching(cb)]]
        /\ UNCHANGED <<present, status, rights, screen, clicks, pass>>

\* _edit, of text and keyboard at once; Telegram's BadRequest leaves the
\* message as it is.
EditList(h) ==
    LET t == task[h]
        page == ToSet(t.items)
        follows == screen.kind = "list" /\ t.cb = [screen.cb EXCEPT !.page = @ + 1]
    IN  /\ t.pc = "list"
        /\ \/ /\ screen' = [Nothing EXCEPT !.kind = "list", !.cb = t.cb, !.items = t.items,
                                           !.pages = Pages(t.total)]
              /\ pass' = IF ~t.alone \/ t.raced \/ t.cb.status # "all" THEN NoPass
                         ELSE IF t.cb.page = 0
                         THEN [on |-> TRUE, start |-> t.there, seen |-> page]
                         ELSE IF pass.on /\ follows
                         THEN [pass EXCEPT !.seen = @ \cup page]
                         ELSE NoPass
           \/ screen.kind # "none" /\ UNCHANGED <<screen, pass>>
        /\ task' = [task EXCEPT ![h] = Idle]
        /\ UNCHANGED <<present, status, rights, clicks>>

----------------------------------------------------------------------------
(* The detail                                                              *)

\* Mutant: the type is taken from the payload.
Found_AnyType(cb) == cb.open \in present

\* The submission is there and of the type that was checked.
Found(cb) == cb.open \in present /\ TypeOf[cb.open] = cb.type

Find(h) ==
    LET cb == task[h].cb
    IN  /\ task[h].pc = "find"
        /\ task' = [task EXCEPT ![h] =
               IF Found(cb) THEN [@ EXCEPT !.pc = "detail", !.sub = cb.open,
                                           !.read = status[cb.open]]
               ELSE Idle]
        /\ UNCHANGED <<present, status, rights, screen, clicks, pass>>

EditDetail(h) ==
    LET t == task[h]
    IN  /\ t.pc = "detail"
        /\ \/ screen' = [Nothing EXCEPT !.kind = "detail", !.cb = t.cb,
                                        !.sub = t.sub, !.shown = t.read]
           \/ UNCHANGED screen
        /\ task' = [task EXCEPT ![h] = Idle]
        /\ pass' = NoPass
        /\ UNCHANGED <<present, status, rights, clicks>>

----------------------------------------------------------------------------
(* Actions from the detail                                                 *)

\* A commit comes between the two statements of the others' lists.
Race(ts) == [h \in Slots |-> IF ts[h].pc = "select" THEN [ts[h] EXCEPT !.raced = TRUE]
                             ELSE ts[h]]

\* take and close, as SubmissionActions has them in detail; a lost take only
\* shows an alert, and a close that came too late goes on.
Act(h) ==
    LET t == task[h]
        wins == IF t.act = "take" THEN status[t.sub] = "new" ELSE status[t.sub] # "closed"
        to == IF t.act = "take" THEN "in_progress" ELSE "closed"
    IN  /\ t.pc = "act"
        /\ status' = IF wins THEN [status EXCEPT ![t.sub] = to] ELSE status
        /\ task' = [Race(task) EXCEPT ![h] =
               IF wins \/ t.act = "close" THEN [t EXCEPT !.pc = "refresh", !.own = to]
               ELSE Idle]
        /\ UNCHANGED <<present, rights, screen, clicks, pass>>

\* Mutant: the Submission in the session's identity map is not refreshed.
Reread_Stale(t) == t.read

Reread(t) == status[t.sub]

\* refresh_detail: the row is read again, after the cards were redrawn.
Refresh(h) ==
    /\ task[h].pc = "refresh"
    /\ task' = [task EXCEPT ![h].read = Reread(task[h]), ![h].pc = "detail"]
    /\ UNCHANGED <<present, status, rights, screen, clicks, pass>>

----------------------------------------------------------------------------
(* The others                                                              *)

\* Commits need not come in the order of created_at.
Submitted(i) ==
    /\ i \in Subs \ present
    /\ present' = present \cup {i}
    /\ task' = Race(task)
    /\ UNCHANGED <<status, rights, screen, clicks, pass>>

\* Colleagues take and close.
Changed(i, s) ==
    /\ i \in present
    /\ <<status[i], s>> \in {<<"new", "in_progress">>, <<"new", "closed">>,
                             <<"in_progress", "closed">>}
    /\ status' = [status EXCEPT ![i] = s]
    /\ task' = Race(task)
    /\ UNCHANGED <<present, rights, screen, clicks, pass>>

Revoked(t) ==
    /\ t \in rights
    /\ rights' = rights \ {t}
    /\ UNCHANGED <<present, status, screen, task, clicks, pass>>

RegistryNext ==
    \/ \E h \in Slots :
          \/ \E t \in Types : OpenRegistry(h, t)
          \/ \E cb \in Buttons(screen) \cup Old : Tap(h, cb)
          \/ \E a \in Actions(screen) : TapAction(h, a)
          \/ Count(h)
          \/ Select(h)
          \/ EditList(h)
          \/ Find(h)
          \/ EditDetail(h)
          \/ Act(h)
          \/ Refresh(h)
    \/ \E i \in Subs : Submitted(i)
    \/ \E i \in Subs : \E s \in Outcomes[i] : Changed(i, s)
    \/ \E t \in Types : Revoked(t)

RegistrySpec == RegistryInit /\ [][RegistryNext]_registryVars

----------------------------------------------------------------------------
(* Properties                                                              *)

Screen == [kind : {"none", "list", "detail"}, cb : Payload, items : Seq(Subs),
           pages : Nat \ {0}, sub : Subs \cup {0}, shown : Statuses]

Task == [pc : {"idle", "count", "select", "list", "find", "detail", "act", "refresh"},
         cb : Payload, act : {"none", "take", "close"}, rights : SUBSET Types,
         total : Nat, items : Seq(Subs), sub : Subs \cup {0}, read : Statuses,
         own : {"none"} \cup Statuses, raced : BOOLEAN, there : SUBSET Subs,
         alone : BOOLEAN]

RegistryTypeOK ==
    /\ present \subseteq Subs
    /\ status \in [Subs -> Statuses]
    /\ rights \subseteq Types
    /\ screen \in Screen
    /\ task \in [Slots -> Task]
    /\ clicks \in Nat
    /\ pass \in [on : BOOLEAN, start : SUBSET Subs, seen : SUBSET Subs]
    /\ ToSet(screen.items) \subseteq present
    /\ screen.kind = "detail" => screen.sub \in present
    /\ \A h \in Slots : ToSet(task[h].items) \subseteq present

\* A reader who goes from the first page of the unfiltered list to the last
\* one, page by page, has seen every submission that was there when he began,
\* in both orders, and whatever came or changed meanwhile; unless a commit
\* came between the two statements of one list, or he tapped again before the
\* message changed (list_for_registry).
PassSeesAll ==
    pass.on /\ screen.cb.page >= screen.pages - 1
    => pass.start \subseteq pass.seen

\* A list is empty only where nothing matches, and another one is of a page
\* that exists: the page of an old button, or of a filter whose submissions
\* have left, falls back to the first (_show_list).
ListIsAPage ==
    \A h \in Slots : task[h].pc = "list" /\ ~task[h].raced =>
        IF task[h].items = <<>> THEN task[h].there = {}
        ELSE task[h].cb.page < Pages(task[h].total)

\* No tap shows a submission of a type that its update found the reader not
\* to be responsible for, whatever the payload says (on_registry_nav,
\* _show_detail, refresh_detail).
OnlyOwnTypes ==
    \A h \in Slots :
        /\ task[h].pc = "list" => \A i \in ToSet(task[h].items) : TypeOf[i] \in task[h].rights
        /\ task[h].pc = "detail" => TypeOf[task[h].sub] \in task[h].rights

\* After his own take or close the reader sees its effect or a later one,
\* never again the status before it (refresh_detail).
OwnActionShown ==
    \A h \in Slots : task[h].pc = "detail" /\ task[h].own # "none" =>
        \/ task[h].read = task[h].own
        \/ task[h].read = "closed"

=============================================================================

-------------------------------- MODULE Intake --------------------------------
(***************************************************************************)
(* The transaction that stores a submission, run by several handlers at    *)
(* once.  What a handler has flushed is its own until it commits, except   *)
(* for the locks it holds: the row of the ticket counter it incremented    *)
(* and the entries it made in unique indexes make others wait (PostgreSQL, *)
(* READ COMMITTED).                                                        *)
(***************************************************************************)
EXTENDS Naturals, Sequences, FiniteSets

CONSTANTS
    Handlers,    \* updates that submit a form, each handled once
    People,      \* authors; a person stands for the User row and its tg_id
    Files,       \* files that may be attached
    Forms,       \* the forms submitted
    Codes,       \* the public ids that generate_public_id may draw
    MaxYear      \* bound: years that pass

Types == {"appeal", "corruption"}
Years == 1 .. MaxYear
None == "none"
Form == [by : People, type : Types, anon : BOOLEAN, named : BOOLEAN, files : Seq(Files)]

ASSUME IntakeAssumption ==
    /\ MaxYear \in Nat \ {0}
    /\ Forms \subseteq Form
    /\ \A f \in Forms : f.anon => f.type = "corruption"

VARIABLES
    year,        \* the current year
    counter,     \* ticket_counters, 0 where there is no row
    sequence,    \* the ids handed out by the sequence of submissions.id
    subs,        \* submissions, in the order of their commits
    files,       \* submission_attachments
    refs,        \* anon_delivery_refs: the token of a submission
    audits,      \* targets of the audit log's "submission_created"
    pc,          \* per handler, the next step of create
    form,        \* per handler, what it was given
    own,         \* per handler, the row it has flushed
    kept,        \* per handler, the attachments, tokens and audits flushed
    cause,       \* history: why the handler failed
    moved        \* history: tokens were moved between rows

tables == <<counter, subs, files, refs, audits>>
vars == <<year, sequence, tables, pc, form, own, kept, cause, moved>>

NoRow == [id |-> 0, type |-> None, year |-> 0, ticket |-> 0, code |-> None,
          anon |-> FALSE, author |-> None, named |-> FALSE]
NoKept == [files |-> {}, refs |-> {}, audits |-> {}]

Init ==
    /\ year = 1
    /\ counter = [k \in Types \X Years |-> 0]
    /\ sequence = 0
    /\ subs = <<>>
    /\ files = {} /\ refs = {} /\ audits = {}
    /\ pc = [h \in Handlers |-> "idle"]
    /\ form = [h \in Handlers |-> None]
    /\ own = [h \in Handlers |-> NoRow]
    /\ kept = [h \in Handlers |-> NoKept]
    /\ cause = [h \in Handlers |-> None]
    /\ moved = FALSE

Stored == {subs[i] : i \in DOMAIN subs}

----------------------------------------------------------------------------
(* What other transactions make a handler wait for                         *)

\* h is in a transaction that has written something.
Open(h) == pc[h] \in {"insert", "attach", "ref", "log", "commit"}

\* Another transaction holds the counter's row of t and y.
Locked(h, t, y) ==
    \E g \in Handlers \ {h} : Open(g) /\ own[g].type = t /\ own[g].year = y

\* Another transaction has inserted the code and is not over.
Pending(h, c) == \E g \in Handlers \ {h} : Open(g) /\ own[g].code = c

----------------------------------------------------------------------------
(* The anonymous author's chat                                             *)

\* Mutant: the token is not bound to its submission.
Decrypt_Unbound(token, id) == token.chat

EncryptChatId(chat, id) == [sub |-> id, chat |-> chat]
Decrypt(token, id) == IF token.sub = id THEN token.chat ELSE "error"

\* resolve_author_chat_id: where a reply to the row goes.
Resolve(row) ==
    IF ~row.anon THEN row.author
    ELSE LET found == {r \in refs : r.sub = row.id}
         IN  IF found = {} THEN None
             ELSE Decrypt((CHOOSE r \in found : TRUE).token, row.id)

\* on_my_submissions, short of its limit of 20.
Mine(u) == {row \in Stored : row.author = u /\ ~row.anon}

----------------------------------------------------------------------------

\* Mutant: name and phone are stored as they are in the form.
Named_AsGiven(f) == f.named

\* An anonymous submission leaves name and phone out, whatever is in the form.
Named(f) == f.named /\ ~f.anon

\* The row create builds.
Row(f, id, ticket, code) ==
    [id |-> id, type |-> f.type, year |-> ticket.year, ticket |-> ticket.ticket,
     code |-> code, anon |-> f.anon,
     author |-> IF f.anon THEN None ELSE f.by,
     named |-> Named(f)]

\* on_submit calls create, which reads the clock before it asks for a ticket.
Submit(h) ==
    /\ pc[h] = "idle"
    /\ \E f \in Forms : form' = [form EXCEPT ![h] = f]
    /\ own' = [own EXCEPT ![h].year = year]
    /\ pc' = [pc EXCEPT ![h] = "ticket"]
    /\ UNCHANGED <<year, sequence, tables, kept, cause, moved>>

\* next_ticket_number: INSERT ... ON CONFLICT DO UPDATE ... RETURNING.
NextTicketNumber(h) ==
    /\ pc[h] = "ticket"
    /\ ~Locked(h, form[h].type, own[h].year)
    /\ own' = [own EXCEPT ![h].type = form[h].type,
                          ![h].ticket = counter[<<form[h].type, own[h].year>>] + 1]
    /\ pc' = [pc EXCEPT ![h] = "insert"]
    /\ UNCHANGED <<year, sequence, tables, form, kept, cause, moved>>

\* The INSERT draws an id whether or not it succeeds.  It fails on a code or a
\* ticket number that is taken.
Insert(h, c) ==
    /\ pc[h] = "insert"
    /\ ~Pending(h, c)
    /\ sequence' = sequence + 1
    /\ LET row == Row(form[h], sequence', own[h], c)
           taken == \E r \in Stored : r.code = c
           issued == \E r \in Stored :
                        <<r.type, r.year, r.ticket>> = <<row.type, row.year, row.ticket>>
       IN  IF taken \/ issued
           THEN /\ pc' = [pc EXCEPT ![h] = "failed"]
                /\ cause' = [cause EXCEPT ![h] = IF issued THEN "ticket" ELSE "code"]
                /\ UNCHANGED own
           ELSE /\ pc' = [pc EXCEPT ![h] = "attach"]
                /\ own' = [own EXCEPT ![h] = row]
                /\ UNCHANGED cause
    /\ UNCHANGED <<year, tables, form, kept, moved>>

\* One attachment after the other, in their order.
AddAttachment(h) ==
    /\ pc[h] = "attach"
    /\ LET n == Cardinality(kept[h].files)
       IN  IF n < Len(form[h].files)
           THEN /\ kept' = [kept EXCEPT ![h].files = @ \cup
                       {[sub |-> own[h].id, file |-> form[h].files[n + 1], order |-> n]}]
                /\ UNCHANGED pc
           ELSE /\ pc' = [pc EXCEPT ![h] = IF form[h].anon THEN "ref" ELSE "log"]
                /\ UNCHANGED kept
    /\ UNCHANGED <<year, sequence, tables, form, own, cause, moved>>

AddAnonRef(h) ==
    /\ pc[h] = "ref"
    /\ kept' = [kept EXCEPT ![h].refs =
                   {[sub |-> own[h].id, token |-> EncryptChatId(form[h].by, own[h].id)]}]
    /\ pc' = [pc EXCEPT ![h] = "log"]
    /\ UNCHANGED <<year, sequence, tables, form, own, cause, moved>>

Log(h) ==
    /\ pc[h] = "log"
    /\ kept' = [kept EXCEPT ![h].audits = {own[h].id}]
    /\ pc' = [pc EXCEPT ![h] = "commit"]
    /\ UNCHANGED <<year, sequence, tables, form, own, cause, moved>>

\* What a commit makes of h's writes.
Publish(h) ==
    /\ subs' = Append(subs, own[h])
    /\ counter' = [counter EXCEPT ![<<own[h].type, own[h].year>>] = own[h].ticket]
    /\ files' = files \cup kept[h].files
    /\ refs' = refs \cup kept[h].refs
    /\ audits' = audits \cup kept[h].audits

\* The first commit of on_submit; the fan-out comes after it.
Commit(h) ==
    /\ pc[h] = "commit"
    /\ Publish(h)
    /\ pc' = [pc EXCEPT ![h] = "done"]
    /\ UNCHANGED <<year, sequence, form, own, kept, cause, moved>>

\* Mutant: the session is committed when its handler raises.
Fail_Commits(h) ==
    /\ Open(h)
    /\ pc[h] # "insert"
    /\ Publish(h)
    /\ pc' = [pc EXCEPT ![h] = "failed"]
    /\ cause' = [cause EXCEPT ![h] = "error"]
    /\ UNCHANGED <<year, sequence, form, own, kept, moved>>

\* Mutant: the counter is incremented in a transaction of its own.
Fail_KeepsNumber(h) ==
    /\ Open(h) \/ pc[h] = "ticket"
    /\ pc' = [pc EXCEPT ![h] = "failed"]
    /\ cause' = [cause EXCEPT ![h] = "error"]
    /\ counter' = IF Open(h)
                  THEN [counter EXCEPT ![<<own[h].type, own[h].year>>] = own[h].ticket]
                  ELSE counter
    /\ UNCHANGED <<year, sequence, subs, files, refs, audits, form, own, kept, moved>>

\* A statement or the commit raises, or the process dies: DbSessionMiddleware
\* or the server rolls back.
Fail(h) ==
    /\ Open(h) \/ pc[h] = "ticket"
    /\ pc' = [pc EXCEPT ![h] = "failed"]
    /\ cause' = [cause EXCEPT ![h] = "error"]
    /\ UNCHANGED <<year, sequence, tables, form, own, kept, moved>>

NewYear ==
    /\ year < MaxYear
    /\ year' = year + 1
    /\ UNCHANGED <<sequence, tables, pc, form, own, kept, cause, moved>>

\* Somebody with the database, and without the key, exchanges two tokens.
MoveTokens ==
    /\ \E r, s \in refs :
          /\ r # s
          /\ refs' = (refs \ {r, s}) \cup {[r EXCEPT !.token = s.token],
                                           [s EXCEPT !.token = r.token]}
    /\ moved' = TRUE
    /\ UNCHANGED <<year, sequence, counter, subs, files, audits, pc, form, own, kept, cause>>

Step(h) ==
    \/ NextTicketNumber(h)
    \/ \E c \in Codes : Insert(h, c)
    \/ AddAttachment(h)
    \/ AddAnonRef(h)
    \/ Log(h)
    \/ Commit(h)

Next ==
    \/ \E h \in Handlers : Submit(h) \/ Step(h) \/ Fail(h)
    \/ NewYear
    \/ MoveTokens

Spec == Init /\ [][Next]_vars

----------------------------------------------------------------------------
(* Properties                                                              *)

\* The tables hold rows of their columns' types, and a handler's own writes
\* are those of the step it has reached.
TypeOK ==
    /\ year \in Years
    /\ counter \in [Types \X Years -> Nat]
    /\ sequence \in Nat
    /\ \A row \in Stored : /\ row.id \in 1 .. sequence
                           /\ row.type \in Types /\ row.year \in 1 .. year
                           /\ row.ticket \in Nat \ {0} /\ row.code \in Codes
                           /\ row.author \in People \cup {None}
    /\ \A a \in files : a.sub \in 1 .. sequence /\ a.file \in Files
    /\ \A r \in refs : r.sub \in 1 .. sequence /\ r.token.chat \in People
    /\ audits \subseteq 1 .. sequence
    /\ \A h \in Handlers :
          /\ pc[h] \in {"idle", "ticket", "insert", "attach", "ref", "log", "commit",
                        "done", "failed"}
          /\ pc[h] # "idle" => form[h] \in Forms
          /\ pc[h] \in {"attach", "ref", "log", "commit"} => own[h].id \in 1 .. sequence
    /\ moved \in BOOLEAN

\* The tickets of a type and a year are numbered 1, 2, 3, ... in the order in
\* which they were stored, and the counter is the last of them: a handler that
\* fails after it took a number leaves no gap (next_ticket_number).
TicketsRunOn ==
    \A t \in Types, y \in Years :
        LET issued == {i \in DOMAIN subs : subs[i].type = t /\ subs[i].year = y}
        IN  /\ {subs[i].ticket : i \in issued} = 1 .. counter[<<t, y>>]
            /\ \A i, j \in issued : i < j => subs[i].ticket < subs[j].ticket

\* "concurrent callers never collide": no submission is lost because its
\* ticket number was given to another one (next_ticket_number).
CallersNeverCollide == \A h \in Handlers : cause[h] # "ticket"

\* A submission is stored with all its files in their order, its token if
\* and only if it is anonymous, and its audit entry, or nothing of it is
\* (create, DbSessionMiddleware).
AllOrNothing ==
    LET done == {h \in Handlers : pc[h] = "done"}
    IN  /\ Stored = {own[h] : h \in done}
        /\ files = UNION {{[sub |-> own[h].id, file |-> form[h].files[i], order |-> i - 1] :
                            i \in DOMAIN form[h].files} : h \in done}
        /\ {r.sub : r \in refs} = {own[h].id : h \in {g \in done : form[g].anon}}
        /\ audits = {own[h].id : h \in done}

\* A reply goes to the person who wrote the submission; once tokens have been
\* moved between rows it may go nowhere, and still never to another person
\* (resolve_author_chat_id, AnonCipher).
RepliesReachTheAuthor ==
    \A h \in Handlers : pc[h] = "done" =>
        Resolve(own[h]) \in {form[h].by} \cup (IF moved THEN {"error"} ELSE {})

\* Nothing stored names the author of an anonymous complaint, even when the
\* form was filled in with a name first; his own list leaves it out, and has
\* all the others (create, on_my_submissions).
AnonymousNamesNobody ==
    /\ \A row \in Stored : row.anon => row.author = None /\ ~row.named
    /\ \A u \in People :
          {row.id : row \in Mine(u)} =
              {own[h].id : h \in {g \in Handlers :
                  pc[g] = "done" /\ form[g].by = u /\ ~form[g].anon}}

\* No two creates hold each other up: as long as one is under way one can go
\* on, so that neither the counter's row nor a unique index makes them wait in
\* a circle, and failures release what they hold (next_ticket_number, create).
Underway == {h \in Handlers : pc[h] \notin {"idle", "done", "failed"}}
NoDeadlock == Underway # {} => \E h \in Underway : ENABLED Step(h)

=============================================================================

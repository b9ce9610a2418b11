---------------------------- MODULE IntakeProofs ----------------------------
(***************************************************************************)
(* Proofs about Intake for any handlers, forms, codes and years.           *)
(***************************************************************************)
EXTENDS Intake, FiniteSetTheorems, SequenceTheorems, TLAPS

(* What is being stored, and what of it can be on its way. *)
Rows == [id : Nat, type : Types \cup {None}, year : Nat, ticket : Nat,
         code : Codes \cup {None}, anon : BOOLEAN, author : People \cup {None},
         named : BOOLEAN]
FileRows == [sub : Nat, file : Files, order : Nat]
RefRows == [sub : Nat, token : [sub : Nat, chat : People]]
Kepts == [files : SUBSET FileRows, refs : SUBSET RefRows, audits : SUBSET Nat]
Steps == {"idle", "ticket", "insert", "attach", "ref", "log", "commit", "done", "failed"}

Shape ==
    /\ year \in Years
    /\ counter \in [Types \X Years -> Nat]
    /\ sequence \in Nat
    /\ subs \in Seq(Rows)
    /\ files \subseteq FileRows /\ refs \subseteq RefRows /\ audits \subseteq Nat
    /\ pc \in [Handlers -> Steps]
    /\ form \in [Handlers -> Forms \cup {None}]
    /\ own \in [Handlers -> Rows]
    /\ kept \in [Handlers -> Kepts]
    /\ cause \in [Handlers -> {None, "ticket", "code", "error"}]
    /\ moved \in BOOLEAN

----------------------------------------------------------------------------
(* The inductive invariant.  The tables hold what the handlers that are    *)
(* done have written, so it says of each handler what it has written so    *)
(* far, and of any two that they do not get in each other's way.           *)

\* The row is inserted, whether or not it is committed yet.
Past(h) == pc[h] \in {"attach", "ref", "log", "commit", "done"}

\* The first n attachments of the form, as rows.
FirstFiles(h, n) ==
    {[sub |-> own[h].id, file |-> form[h].files[i], order |-> i - 1] : i \in 1 .. n}

\* The token of an anonymous submission.
TokensOf(h) ==
    IF form[h].anon
    THEN {[sub |-> own[h].id, token |-> EncryptChatId(form[h].by, own[h].id)]}
    ELSE {}

\* An open handler has the number after the committed ones, and its row is made
\* from its form.
OwnFits(h) ==
    /\ pc[h] # "idle" => form[h] \in Forms
    /\ pc[h] = "ticket" => own[h].year \in 1 .. year
    /\ Open(h) => /\ own[h].type = form[h].type
                  /\ own[h].year \in 1 .. year
                  /\ own[h].ticket = counter[<<own[h].type, own[h].year>>] + 1
    /\ Past(h) => /\ own[h].id \in 1 .. sequence
                  /\ own[h].code \in Codes
                  /\ own[h].year \in 1 .. year
                  /\ own[h].ticket # 0
                  /\ own[h] = Row(form[h], own[h].id, own[h], own[h].code)

\* A handler's other rows are those of the steps it has done.
KeptFits(h) ==
    /\ pc[h] \in {"idle", "ticket", "insert"} => kept[h] = NoKept
    /\ pc[h] = "attach" =>
          LET n == Cardinality(kept[h].files)
          IN  /\ IsFiniteSet(kept[h].files)
              /\ n <= Len(form[h].files)
              /\ kept[h].files = FirstFiles(h, n)
    /\ pc[h] \in {"ref", "log", "commit", "done"} =>
          kept[h].files = FirstFiles(h, Len(form[h].files))
    /\ pc[h] \in {"attach", "ref"} => kept[h].refs = {}
    /\ pc[h] = "ref" => form[h].anon
    /\ pc[h] \in {"log", "commit", "done"} => kept[h].refs = TokensOf(h)
    /\ pc[h] \in {"attach", "ref", "log"} => kept[h].audits = {}
    /\ pc[h] \in {"commit", "done"} => kept[h].audits = {own[h].id}

\* The counter's lock has one holder, and every row an id of its own.
Apart(g, h) ==
    /\ Open(g) /\ Open(h) /\ own[g].type = own[h].type /\ own[g].year = own[h].year
          => g = h
    /\ Past(g) /\ Past(h) /\ own[g].id = own[h].id => g = h

\* Every token in the table was made for a stored anonymous submission, and is
\* still at its row as long as none was moved.
TokensFit ==
    \A r \in refs :
        /\ \E h \in Handlers : /\ pc[h] = "done" /\ form[h].anon
                               /\ r.token = EncryptChatId(form[h].by, own[h].id)
        /\ ~moved => r.token.sub = r.sub

IInv ==
    /\ Shape
    /\ \A h \in Handlers : OwnFits(h) /\ KeptFits(h)
    /\ \A g, h \in Handlers : Apart(g, h)
    /\ TicketsRunOn
    /\ CallersNeverCollide
    /\ AllOrNothing
    /\ TokensFit

----------------------------------------------------------------------------

LEMMA IInvInit == Init => IInv
  <1> SUFFICES ASSUME Init PROVE IInv
    OBVIOUS
  <1> USE DEF Init
  <1>1. Shape
    <2>1. NoRow \in Rows /\ NoKept \in Kepts
      BY DEF NoRow, NoKept, Rows, Kepts
    <2>2. year \in Years /\ counter \in [Types \X Years -> Nat] /\ subs \in Seq(Rows)
      BY IntakeAssumption DEF Years
    <2> QED BY <2>1, <2>2 DEF Shape, Steps
  <1>2. \A h \in Handlers : OwnFits(h) /\ KeptFits(h)
    BY DEF OwnFits, KeptFits, Open, Past
  <1>3. \A g, h \in Handlers : Apart(g, h)
    BY DEF Apart, Open, Past
  <1>4. TicketsRunOn
    BY DEF TicketsRunOn
  <1>5. CallersNeverCollide
    BY DEF CallersNeverCollide, None
  <1>6. AllOrNothing
    BY DEF AllOrNothing, Stored
  <1>7. TokensFit
    BY DEF TokensFit
  <1> QED BY <1>1, <1>2, <1>3, <1>4, <1>5, <1>6, <1>7 DEF IInv

(* What create and next_ticket_number set in a row. *)
LEMMA RowsStay ==
    ASSUME NEW r \in Rows, NEW y \in Nat, NEW t \in Types, NEW n \in Nat
    PROVE  [r EXCEPT !.year = y] \in Rows /\ [r EXCEPT !.type = t, !.ticket = n] \in Rows
  BY DEF Rows

(* A form has a list of files, and only complaints are anonymous. *)
LEMMA FormsFit ==
    \A f \in Forms : /\ f.by \in People /\ f.type \in Types /\ f.anon \in BOOLEAN
                     /\ f.named \in BOOLEAN /\ f.files \in Seq(Files)
  BY IntakeAssumption DEF Form

LEMMA RowMade ==
    ASSUME NEW f \in Forms, NEW id \in Nat, NEW t \in Rows, NEW c \in Codes
    PROVE  Row(f, id, t, c) \in Rows
  BY FormsFit DEF Row, Rows, Named

LEMMA YearsFit ==
    /\ 1 \in Years /\ Years \subseteq Nat
    /\ \A y \in Years : 1 .. y \subseteq Years /\ (y < MaxYear => y + 1 \in Years)
  BY IntakeAssumption DEF Years

(* The types do not change. *)
LEMMA ShapeNext == IInv /\ [Next]_vars => Shape'
  <1> SUFFICES ASSUME IInv, [Next]_vars PROVE Shape'
    OBVIOUS
  <1>0. Shape /\ \A h \in Handlers : OwnFits(h) /\ KeptFits(h)
    BY DEF IInv
  <1> USE <1>0 DEF Shape, Steps
  <1>1. ASSUME NEW h \in Handlers, Submit(h) PROVE Shape'
    <2>1. own' \in [Handlers -> Rows]
      <3>1. own' = [own EXCEPT ![h] = [own[h] EXCEPT !.year = year]]
        BY <1>1 DEF Submit
      <3>2. [own[h] EXCEPT !.year = year] \in Rows
        <4>1. own[h] \in Rows /\ year \in Nat
          BY DEF Years
        <4>2. "appeal" \in Types
          BY DEF Types
        <4> QED BY <4>1, <4>2, RowsStay
      <3> QED BY <3>1, <3>2
    <2> QED BY <1>1, <2>1 DEF Submit, tables
  <1>2. ASSUME NEW h \in Handlers, NextTicketNumber(h) PROVE Shape'
    <2>1. own' \in [Handlers -> Rows]
      <3> DEFINE n == counter[<<form[h].type, own[h].year>>] + 1
      <3>1. form[h].type \in Types /\ own[h].year \in Years
        <4>1. pc[h] = "ticket"
          BY <1>2 DEF NextTicketNumber
        <4>2. form[h] \in Forms /\ own[h].year \in 1 .. year
          BY <4>1 DEF OwnFits
        <4> QED BY <4>2, FormsFit, YearsFit
      <3>2. n \in Nat
        BY <3>1
      <3>3. own' = [own EXCEPT ![h] = [own[h] EXCEPT !.type = form[h].type, !.ticket = n]]
        BY <1>2 DEF NextTicketNumber
      <3>4. [own[h] EXCEPT !.type = form[h].type, !.ticket = n] \in Rows
        BY <3>1, <3>2, RowsStay
      <3> QED BY <3>3, <3>4
    <2> QED BY <1>2, <2>1 DEF NextTicketNumber, tables
  <1>3. ASSUME NEW h \in Handlers, NEW c \in Codes, Insert(h, c) PROVE Shape'
    <2>1. Row(form[h], sequence', own[h], c) \in Rows
      <3>1. form[h] \in Forms /\ sequence' \in Nat
        <4>1. pc[h] = "insert" /\ sequence' = sequence + 1
          BY <1>3 DEF Insert
        <4>2. OwnFits(h)
          OBVIOUS
        <4> QED BY <4>1, <4>2 DEF OwnFits
      <3> QED BY <3>1, RowMade
    <2>2. own' = own \/ own' = [own EXCEPT ![h] = Row(form[h], sequence', own[h], c)]
      BY <1>3 DEF Insert
    <2>3. own' \in [Handlers -> Rows]
      BY <2>1, <2>2
    <2>4. /\ pc' = [pc EXCEPT ![h] = "failed"] \/ pc' = [pc EXCEPT ![h] = "attach"]
          /\ \/ cause' = cause \/ cause' = [cause EXCEPT ![h] = "ticket"]
             \/ cause' = [cause EXCEPT ![h] = "code"]
      BY <1>3 DEF Insert
    <2> QED BY <1>3, <2>3, <2>4 DEF Insert, tables
  <1>4. ASSUME NEW h \in Handlers, AddAttachment(h) PROVE Shape'
    <2> DEFINE n == Cardinality(kept[h].files)
               new == [sub |-> own[h].id, file |-> form[h].files[n + 1], order |-> n]
    <2>1. n \in Nat /\ form[h].files \in Seq(Files) /\ form[h].anon \in BOOLEAN
      BY <1>4, FormsFit, FS_CardinalityType DEF AddAttachment, OwnFits, KeptFits
    <2>2. CASE n < Len(form[h].files)
      <3>1. new \in FileRows
        BY <2>1, <2>2, ElementOfSeq DEF FileRows, Rows
      <3>2. kept' = [kept EXCEPT ![h] = [kept[h] EXCEPT !.files = @ \cup {new}]]
        BY <1>4, <2>2 DEF AddAttachment
      <3>3. [kept[h] EXCEPT !.files = @ \cup {new}] \in Kepts
        BY <3>1 DEF Kepts
      <3>4. kept' \in [Handlers -> Kepts]
        BY <3>2, <3>3
      <3> QED BY <1>4, <2>2, <3>4 DEF AddAttachment, tables
    <2>3. CASE ~(n < Len(form[h].files))
      BY <1>4, <2>1, <2>3 DEF AddAttachment, tables
    <2> QED BY <2>2, <2>3
  <1>5. ASSUME NEW h \in Handlers, AddAnonRef(h) PROVE Shape'
    <2> DEFINE new == [sub |-> own[h].id, token |-> EncryptChatId(form[h].by, own[h].id)]
    <2>1. new \in RefRows
      BY <1>5, FormsFit DEF AddAnonRef, RefRows, Rows, EncryptChatId, OwnFits
    <2>2. kept' = [kept EXCEPT ![h] = [kept[h] EXCEPT !.refs = {new}]]
      BY <1>5 DEF AddAnonRef
    <2>3. [kept[h] EXCEPT !.refs = {new}] \in Kepts
      BY <2>1 DEF Kepts
    <2>4. kept' \in [Handlers -> Kepts]
      BY <2>2, <2>3
    <2> QED BY <1>5, <2>4 DEF AddAnonRef, tables
  <1>6. ASSUME NEW h \in Handlers, Log(h) PROVE Shape'
    BY <1>6 DEF Log, tables, Kepts, Rows
  <1>7. ASSUME NEW h \in Handlers, Commit(h) PROVE Shape'
    <2>1. own[h] \in Rows /\ own[h].ticket \in Nat
      BY DEF Rows
    <2>2. counter' \in [Types \X Years -> Nat]
      BY <1>7, <2>1 DEF Commit, Publish
    <2>3. subs' \in Seq(Rows)
      BY <1>7, <2>1, AppendProperties DEF Commit, Publish
    <2>4. files' \subseteq FileRows /\ refs' \subseteq RefRows /\ audits' \subseteq Nat
      BY <1>7 DEF Commit, Publish, Kepts
    <2> QED BY <1>7, <2>2, <2>3, <2>4 DEF Commit
  <1>8. ASSUME NEW h \in Handlers, Fail(h) PROVE Shape'
    <2>1. pc' = [pc EXCEPT ![h] = "failed"] /\ cause' = [cause EXCEPT ![h] = "error"]
      BY <1>8 DEF Fail
    <2>2. pc' \in [Handlers -> Steps] /\ cause' \in [Handlers -> {None, "ticket", "code", "error"}]
      BY <2>1
    <2> QED BY <1>8, <2>2 DEF Fail, tables
  <1>9. CASE NewYear
    BY <1>9, YearsFit DEF NewYear, tables
  <1>10. CASE MoveTokens
    <2>1. refs' \subseteq RefRows
      <3>1. PICK r \in refs, s \in refs :
                refs' = (refs \ {r, s}) \cup {[r EXCEPT !.token = s.token],
                                              [s EXCEPT !.token = r.token]}
        BY <1>10 DEF MoveTokens
      <3>2. r \in RefRows /\ s \in RefRows
        OBVIOUS
      <3>3. [r EXCEPT !.token = s.token] \in RefRows /\ [s EXCEPT !.token = r.token] \in RefRows
        BY <3>2 DEF RefRows
      <3> QED BY <3>1, <3>3
    <2> QED BY <1>10, <2>1 DEF MoveTokens
  <1>11. CASE UNCHANGED vars
    BY <1>11 DEF vars, tables
  <1> QED BY <1>1, <1>2, <1>3, <1>4, <1>5, <1>6, <1>7, <1>8, <1>9, <1>10, <1>11 DEF Next, Step

----------------------------------------------------------------------------

(* A handler's step leaves what the others have to them. *)
LEMMA OthersStay ==
    ASSUME Shape, NEW h \in Handlers, Submit(h) \/ Step(h) \/ Fail(h),
           NEW g \in Handlers, g # h
    PROVE  /\ pc'[g] = pc[g] /\ form'[g] = form[g]
           /\ own'[g] = own[g] /\ kept'[g] = kept[g]
  <1> USE DEF Shape
  <1>1. CASE Submit(h)
    BY <1>1 DEF Submit
  <1>2. CASE NextTicketNumber(h)
    BY <1>2 DEF NextTicketNumber
  <1>3. ASSUME NEW c \in Codes, Insert(h, c)
        PROVE  pc'[g] = pc[g] /\ form'[g] = form[g] /\ own'[g] = own[g] /\ kept'[g] = kept[g]
    BY <1>3 DEF Insert
  <1>4. CASE AddAttachment(h)
    BY <1>4 DEF AddAttachment
  <1>5. CASE AddAnonRef(h)
    BY <1>5 DEF AddAnonRef
  <1>6. CASE Log(h)
    BY <1>6 DEF Log
  <1>7. CASE Commit(h)
    BY <1>7 DEF Commit
  <1>8. CASE Fail(h)
    BY <1>8 DEF Fail
  <1> QED BY <1>1, <1>2, <1>3, <1>4, <1>5, <1>6, <1>7, <1>8 DEF Step

(* Only a commit changes the tables; the clock and the sequence run on. *)
LEMMA TablesStay ==
    ASSUME Shape, NEW h \in Handlers, Submit(h) \/ Step(h) \/ Fail(h)
    PROVE  /\ year' = year /\ moved' = moved
           /\ sequence' \in Nat /\ sequence <= sequence'
           /\ ~Commit(h) => UNCHANGED <<counter, subs, files, refs, audits>>
  BY DEF Shape, Step, Submit, NextTicketNumber, Insert, AddAttachment, AddAnonRef, Log,
         Commit, Publish, Fail, tables

(* The fields that create fills from the form. *)
LEMMA RowFields ==
    ASSUME NEW f \in Forms, NEW id, NEW t, NEW c
    PROVE  LET row == Row(f, id, t, c)
           IN  /\ row.id = id /\ row.code = c
               /\ row.type = f.type /\ row.year = t.year /\ row.ticket = t.ticket
               /\ row.anon = f.anon
               /\ row = Row(f, row.id, row, row.code)
  BY DEF Row, Named

LEMMA OwnNext == IInv /\ [Next]_vars => \A h \in Handlers : OwnFits(h)'
  <1> SUFFICES ASSUME IInv, [Next]_vars, NEW g \in Handlers PROVE OwnFits(g)'
    OBVIOUS
  <1>0. Shape /\ Shape' /\ OwnFits(g)
    BY ShapeNext DEF IInv
  <1>1. ASSUME NEW h \in Handlers, Submit(h) \/ Step(h) \/ Fail(h), g # h
        PROVE  OwnFits(g)'
    <2>1. pc'[g] = pc[g] /\ form'[g] = form[g] /\ own'[g] = own[g]
      BY <1>0, <1>1, OthersStay
    <2>2. year' = year /\ sequence' \in Nat /\ sequence <= sequence' /\ sequence \in Nat
      BY <1>0, <1>1, TablesStay DEF Shape
    <2>3. Open(g) => counter'[<<own[g].type, own[g].year>>]
                       = counter[<<own[g].type, own[g].year>>]
      <3>1. CASE ~Commit(h)
        BY <1>0, <1>1, <3>1, TablesStay
      <3>2. ASSUME Commit(h), Open(g)
            PROVE  counter'[<<own[g].type, own[g].year>>]
                     = counter[<<own[g].type, own[g].year>>]
        <4>1. pc[h] = "commit"
          BY <3>2 DEF Commit
        <4>2. <<own[h].type, own[h].year>> # <<own[g].type, own[g].year>>
          BY <1>1, <3>2, <4>1 DEF IInv, Apart, Open
        <4>3. counter' = [counter EXCEPT ![<<own[h].type, own[h].year>>] = own[h].ticket]
          BY <3>2 DEF Commit, Publish
        <4>4. own[g].type \in Types /\ own[g].year \in Years
          <5>1. form[g] \in Forms /\ own[g].type = form[g].type /\ own[g].year \in 1 .. year
            BY <1>0, <3>2 DEF OwnFits, Open
          <5> QED BY <1>0, <5>1, FormsFit, YearsFit DEF Shape
        <4> QED BY <1>0, <4>2, <4>3, <4>4 DEF Shape
      <3> QED BY <3>1, <3>2
    <2> QED BY <1>0, <2>1, <2>2, <2>3 DEF OwnFits, Open, Past
  <1>2. ASSUME Submit(g) PROVE OwnFits(g)'
    <2>1. pc[g] = "idle" /\ pc'[g] = "ticket" /\ form'[g] \in Forms /\ own'[g].year = year
      BY <1>0, <1>2 DEF Submit, Shape, Rows
    <2>2. year' = year /\ year \in 1 .. year
      BY <1>0, <1>2, YearsFit DEF Submit, Shape, Years
    <2> QED BY <2>1, <2>2 DEF OwnFits, Open, Past
  <1>3. ASSUME NextTicketNumber(g) PROVE OwnFits(g)'
    <2>1. pc[g] = "ticket" /\ pc'[g] = "insert" /\ form' = form /\ counter' = counter /\ year' = year
      BY <1>0, <1>3 DEF NextTicketNumber, Shape, tables
    <2>2. /\ own'[g].type = form[g].type /\ own'[g].year = own[g].year
          /\ own'[g].ticket = counter[<<form[g].type, own[g].year>>] + 1
      BY <1>0, <1>3 DEF NextTicketNumber, Shape, Rows
    <2> QED BY <1>0, <2>1, <2>2 DEF OwnFits, Open, Past
  <1>4. ASSUME NEW c \in Codes, Insert(g, c) PROVE OwnFits(g)'
    <2>1. pc[g] = "insert" /\ form' = form /\ counter' = counter /\ year' = year
      BY <1>0, <1>4 DEF Insert, Shape, tables
    <2>2. sequence' = sequence + 1 /\ sequence \in Nat
      BY <1>0, <1>4 DEF Insert, Shape
    <2>3. CASE pc' = [pc EXCEPT ![g] = "failed"]
      <3>1. pc'[g] = "failed" /\ form[g] \in Forms
        BY <1>0, <2>1, <2>3 DEF OwnFits, Shape
      <3> QED BY <2>1, <3>1 DEF OwnFits, Open, Past
    <2>4. CASE /\ pc' = [pc EXCEPT ![g] = "attach"]
               /\ own' = [own EXCEPT ![g] = Row(form[g], sequence', own[g], c)]
      <3>1. pc'[g] = "attach" /\ own'[g] = Row(form[g], sequence', own[g], c)
        BY <1>0, <2>4 DEF Shape
      <3>2. /\ form[g] \in Forms /\ own[g].type = form[g].type /\ own[g].year \in 1 .. year
            /\ own[g].ticket = counter[<<own[g].type, own[g].year>>] + 1
        BY <1>0, <2>1 DEF OwnFits, Open
      <3>3. counter[<<own[g].type, own[g].year>>] \in Nat
        <4>1. form[g].type \in Types /\ own[g].year \in Years
          BY <1>0, <3>2, FormsFit, YearsFit DEF Shape
        <4> QED BY <1>0, <3>2, <4>1 DEF Shape
      <3>4. own'[g].id \in 1 .. sequence'
        BY <2>2, <3>1, <3>2, RowFields
      <3>5. /\ own'[g].type = form[g].type /\ own'[g].year = own[g].year
            /\ own'[g].ticket = own[g].ticket /\ own'[g].code \in Codes
            /\ own'[g] = Row(form[g], own'[g].id, own'[g], own'[g].code)
        BY <3>1, <3>2, RowFields
      <3> QED BY <2>1, <3>1, <3>2, <3>3, <3>4, <3>5 DEF OwnFits, Open, Past
    <2> QED BY <1>4, <2>3, <2>4 DEF Insert
  <1>5. ASSUME AddAttachment(g) \/ AddAnonRef(g) \/ Log(g) PROVE OwnFits(g)'
    <2>1. /\ pc[g] \in {"attach", "ref", "log"}
          /\ pc'[g] \in {"attach", "ref", "log", "commit"}
          /\ UNCHANGED <<year, sequence, counter, form, own>>
      BY <1>0, <1>5 DEF AddAttachment, AddAnonRef, Log, Shape, tables
    <2> QED BY <1>0, <2>1 DEF OwnFits, Open, Past
  <1>6. ASSUME Commit(g) PROVE OwnFits(g)'
    <2>1. pc[g] = "commit" /\ pc'[g] = "done" /\ UNCHANGED <<year, sequence, form, own>>
      BY <1>0, <1>6 DEF Commit, Shape
    <2> QED BY <1>0, <2>1 DEF OwnFits, Open, Past
  <1>7. ASSUME Fail(g) PROVE OwnFits(g)'
    <2>1. pc[g] # "idle" /\ pc'[g] = "failed" /\ UNCHANGED form
      BY <1>0, <1>7 DEF Fail, Shape, Open
    <2> QED BY <1>0, <2>1 DEF OwnFits, Open, Past
  <1>8. CASE NewYear
    <2>1. UNCHANGED <<sequence, counter, pc, form, own>> /\ year' = year + 1 /\ year \in Nat
      BY <1>0, <1>8, YearsFit DEF NewYear, Shape, tables
    <2> QED BY <1>0, <2>1 DEF OwnFits, Open, Past
  <1>9. CASE MoveTokens \/ UNCHANGED vars
    <2>1. UNCHANGED <<year, sequence, counter, pc, form, own>>
      BY <1>9 DEF MoveTokens, vars, tables
    <2> QED BY <1>0, <2>1 DEF OwnFits, Open, Past
  <1> QED BY <1>1, <1>2, <1>3, <1>4, <1>5, <1>6, <1>7, <1>8, <1>9 DEF Next, Step

(* One attachment more. *)
LEMMA OneFileMore ==
    ASSUME NEW h, NEW n \in Nat, IsFiniteSet(FirstFiles(h, n)),
           Cardinality(FirstFiles(h, n)) = n
    PROVE  LET new == [sub |-> own[h].id, file |-> form[h].files[n + 1], order |-> n]
           IN  /\ FirstFiles(h, n) \cup {new} = FirstFiles(h, n + 1)
               /\ IsFiniteSet(FirstFiles(h, n + 1))
               /\ Cardinality(FirstFiles(h, n + 1)) = n + 1
  <1> DEFINE new == [sub |-> own[h].id, file |-> form[h].files[n + 1], order |-> n]
  <1>1. FirstFiles(h, n) \cup {new} = FirstFiles(h, n + 1)
    <2>1. 1 .. n + 1 = (1 .. n) \cup {n + 1}
      OBVIOUS
    <2> QED BY <2>1 DEF FirstFiles
  <1>2. new \notin FirstFiles(h, n)
    <2> SUFFICES ASSUME NEW i \in 1 .. n,
                        new = [sub |-> own[h].id, file |-> form[h].files[i], order |-> i - 1]
                 PROVE  FALSE
      BY DEF FirstFiles
    <2>1. new.order = n /\ new.order = i - 1
      OBVIOUS
    <2> QED BY <2>1
  <1> QED BY <1>1, <1>2, FS_AddElement

LEMMA KeptNext == IInv /\ [Next]_vars => \A h \in Handlers : KeptFits(h)'
  <1> SUFFICES ASSUME IInv, [Next]_vars, NEW g \in Handlers PROVE KeptFits(g)'
    OBVIOUS
  <1>0. Shape /\ KeptFits(g)
    BY DEF IInv
  <1>1. ASSUME NEW h \in Handlers, Submit(h) \/ Step(h) \/ Fail(h), g # h
        PROVE  KeptFits(g)'
    <2>1. pc'[g] = pc[g] /\ form'[g] = form[g] /\ own'[g] = own[g] /\ kept'[g] = kept[g]
      BY <1>0, <1>1, OthersStay
    <2> QED BY <1>0, <2>1 DEF KeptFits, FirstFiles, TokensOf
  <1>2. ASSUME Submit(g) \/ NextTicketNumber(g) PROVE KeptFits(g)'
    <2>1. pc[g] \in {"idle", "ticket"} /\ pc'[g] \in {"ticket", "insert"} /\ kept' = kept
      BY <1>0, <1>2 DEF Submit, NextTicketNumber, Shape
    <2> QED BY <1>0, <2>1 DEF KeptFits
  <1>3. ASSUME NEW c \in Codes, Insert(g, c) PROVE KeptFits(g)'
    <2>1. pc[g] = "insert" /\ pc'[g] \in {"attach", "failed"} /\ kept' = kept /\ form' = form
      BY <1>0, <1>3 DEF Insert, Shape
    <2>2. kept'[g].files = {} /\ kept'[g].refs = {} /\ kept'[g].audits = {}
      BY <1>0, <2>1 DEF KeptFits, NoKept
    <2>3. pc'[g] = "attach" => form[g].files \in Seq(Files)
      BY <1>0, <2>1, FormsFit DEF IInv, OwnFits
    <2>4. \A S : S = {} => /\ IsFiniteSet(S) /\ Cardinality(S) = 0
      BY FS_EmptySet
    <2>5. FirstFiles(g, 0)' = {}
      BY DEF FirstFiles
    <2>6. pc'[g] = "attach" => 0 <= Len(form'[g].files)
      BY <2>1, <2>3, LenProperties
    <2> QED BY <2>1, <2>2, <2>4, <2>5, <2>6 DEF KeptFits
  <1>4. ASSUME AddAttachment(g) PROVE KeptFits(g)'
    <2> DEFINE n == Cardinality(kept[g].files)
               new == [sub |-> own[g].id, file |-> form[g].files[n + 1], order |-> n]
    <2>1. pc[g] = "attach" /\ form' = form /\ own' = own
      BY <1>4 DEF AddAttachment
    <2>2. /\ IsFiniteSet(kept[g].files) /\ n \in Nat /\ n <= Len(form[g].files)
          /\ kept[g].files = FirstFiles(g, n)
          /\ kept[g].refs = {} /\ kept[g].audits = {}
      BY <1>0, <2>1, FS_CardinalityType DEF KeptFits
    <2>3. Len(form[g].files) \in Nat
      BY <1>0, <2>1, FormsFit, LenProperties DEF IInv, OwnFits
    <2>4. \A m : FirstFiles(g, m)' = FirstFiles(g, m)
      BY <2>1 DEF FirstFiles
    <2>5. CASE n < Len(form[g].files)
      <3>1. pc'[g] = "attach" /\ kept' = [kept EXCEPT ![g] = [kept[g] EXCEPT !.files = @ \cup {new}]]
        BY <1>4, <2>1, <2>5 DEF AddAttachment
      <3>2. kept'[g].files = FirstFiles(g, n) \cup {new}
            /\ kept'[g].refs = {} /\ kept'[g].audits = {}
        BY <1>0, <2>2, <3>1 DEF Shape, Kepts
      <3>3. kept'[g].files = FirstFiles(g, n + 1) /\ IsFiniteSet(kept'[g].files)
            /\ Cardinality(kept'[g].files) = n + 1
        <4>1. PICK m \in Nat : m = n
          BY <2>2
        <4>2. IsFiniteSet(FirstFiles(g, m)) /\ Cardinality(FirstFiles(g, m)) = m
          BY <2>2, <4>1
        <4>3. /\ FirstFiles(g, m) \cup {new} = FirstFiles(g, m + 1)
              /\ IsFiniteSet(FirstFiles(g, m + 1))
              /\ Cardinality(FirstFiles(g, m + 1)) = m + 1
          BY <4>1, <4>2, OneFileMore
        <4> QED BY <3>2, <4>1, <4>3
      <3>4. n + 1 <= Len(form'[g].files)
        BY <2>1, <2>2, <2>3, <2>5
      <3> QED BY <2>4, <3>1, <3>2, <3>3, <3>4 DEF KeptFits
    <2>6. CASE ~(n < Len(form[g].files))
      <3>1. pc' = [pc EXCEPT ![g] = IF form[g].anon THEN "ref" ELSE "log"] /\ kept' = kept
        BY <1>4, <2>6 DEF AddAttachment
      <3>2. pc'[g] = IF form[g].anon THEN "ref" ELSE "log"
        BY <1>0, <3>1 DEF Shape
      <3>3. kept'[g].files = FirstFiles(g, Len(form[g].files))
        BY <2>2, <2>3, <2>6, <3>1
      <3>4. ~form[g].anon => TokensOf(g)' = {}
        BY <2>1 DEF TokensOf
      <3>5. kept'[g].refs = {} /\ kept'[g].audits = {}
        BY <2>2, <3>1
      <3>6. CASE form[g].anon
        <4>1. pc'[g] = "ref" /\ form'[g].anon
          BY <2>1, <3>2, <3>6
        <4> QED BY <2>1, <2>4, <3>3, <3>5, <4>1 DEF KeptFits
      <3>7. CASE ~form[g].anon
        <4>1. pc'[g] = "log"
          BY <3>2, <3>7
        <4> QED BY <2>1, <2>4, <3>3, <3>4, <3>5, <3>7, <4>1 DEF KeptFits
      <3> QED BY <3>6, <3>7
    <2> QED BY <2>5, <2>6
  <1>5. ASSUME AddAnonRef(g) PROVE KeptFits(g)'
    <2>1. pc[g] = "ref" /\ pc'[g] = "log" /\ form' = form /\ own' = own
      BY <1>0, <1>5 DEF AddAnonRef, Shape
    <2>2. /\ kept'[g].files = kept[g].files /\ kept'[g].audits = kept[g].audits
          /\ kept'[g].refs = {[sub |-> own[g].id, token |-> EncryptChatId(form[g].by, own[g].id)]}
      BY <1>0, <1>5 DEF AddAnonRef, Shape, Kepts
    <2>3. kept'[g].refs = TokensOf(g)'
      BY <1>0, <2>1, <2>2 DEF KeptFits, TokensOf, EncryptChatId
    <2> QED BY <1>0, <2>1, <2>2, <2>3 DEF KeptFits, FirstFiles
  <1>6. ASSUME Log(g) PROVE KeptFits(g)'
    <2>1. pc[g] = "log" /\ pc'[g] = "commit" /\ form' = form /\ own' = own
      BY <1>0, <1>6 DEF Log, Shape
    <2>2. /\ kept'[g].files = kept[g].files /\ kept'[g].refs = kept[g].refs
          /\ kept'[g].audits = {own[g].id}
      BY <1>0, <1>6 DEF Log, Shape, Kepts
    <2> QED BY <1>0, <2>1, <2>2 DEF KeptFits, FirstFiles, TokensOf
  <1>7. ASSUME Commit(g) PROVE KeptFits(g)'
    <2>1. pc[g] = "commit" /\ pc'[g] = "done" /\ UNCHANGED <<form, own, kept>>
      BY <1>0, <1>7 DEF Commit, Shape
    <2> QED BY <1>0, <2>1 DEF KeptFits, FirstFiles, TokensOf
  <1>8. ASSUME Fail(g) PROVE KeptFits(g)'
    <2>1. pc'[g] = "failed"
      BY <1>0, <1>8 DEF Fail, Shape
    <2> QED BY <2>1 DEF KeptFits
  <1>9. CASE NewYear \/ MoveTokens \/ UNCHANGED vars
    <2>1. UNCHANGED <<pc, form, own, kept>>
      BY <1>9 DEF NewYear, MoveTokens, vars
    <2> QED BY <1>0, <2>1 DEF KeptFits, FirstFiles, TokensOf
  <1> QED BY <1>1, <1>2, <1>3, <1>4, <1>5, <1>6, <1>7, <1>8, <1>9 DEF Next, Step

----------------------------------------------------------------------------
(* No two handlers have a counter's row, or an id.                         *)

(* The one that takes a step stays apart from the others. *)
LEMMA StepsApart ==
    ASSUME IInv, NEW a \in Handlers, Submit(a) \/ Step(a) \/ Fail(a),
           NEW h \in Handlers, h # a
    PROVE  /\ Open(a)' /\ Open(h)' => own'[a].type # own'[h].type \/ own'[a].year # own'[h].year
           /\ Past(a)' /\ Past(h)' => own'[a].id # own'[h].id
  <1> DEFINE Keys == Open(a)' /\ Open(h)' =>
                        own'[a].type # own'[h].type \/ own'[a].year # own'[h].year
             Ids == Past(a)' /\ Past(h)' => own'[a].id # own'[h].id
  <1>0. Shape /\ Apart(a, h)
    BY DEF IInv
  <1>1. pc'[h] = pc[h] /\ own'[h] = own[h]
    BY <1>0, OthersStay
  <1>2. (Open(h)' <=> Open(h)) /\ (Past(h)' <=> Past(h))
    BY <1>1 DEF Open, Past
  <1>3. CASE Submit(a) \/ Fail(a)
    <2>1. pc'[a] \in {"ticket", "failed"}
      BY <1>0, <1>3 DEF Submit, Fail, Shape
    <2> QED BY <2>1 DEF Open, Past
  <1>4. CASE NextTicketNumber(a)
    <2>1. pc'[a] = "insert" /\ own'[a].type = form[a].type /\ own'[a].year = own[a].year
      BY <1>0, <1>4 DEF NextTicketNumber, Shape, Rows
    <2>2. ~(Open(h) /\ own[h].type = form[a].type /\ own[h].year = own[a].year)
      BY <1>4 DEF NextTicketNumber, Locked
    <2>3. Keys
      BY <1>1, <1>2, <2>1, <2>2
    <2>4. ~Past(a)'
      BY <2>1 DEF Past
    <2> QED BY <2>3, <2>4
  <1>5. ASSUME NEW c \in Codes, Insert(a, c) PROVE Keys /\ Ids
    <2>1. pc[a] = "insert" /\ sequence' = sequence + 1 /\ sequence \in Nat
      BY <1>0, <1>5 DEF Insert, Shape
    <2>2. CASE pc' = [pc EXCEPT ![a] = "failed"]
      <3>1. pc'[a] = "failed"
        BY <1>0, <2>2 DEF Shape
      <3> QED BY <3>1 DEF Open, Past
    <2>3. CASE own' = [own EXCEPT ![a] = Row(form[a], sequence', own[a], c)]
      <3>1. Open(a) /\ form[a] \in Forms /\ own[a].type = form[a].type
        BY <2>1 DEF IInv, OwnFits, Open
      <3>2. own'[a].type = own[a].type /\ own'[a].year = own[a].year /\ own'[a].id = sequence + 1
        BY <1>0, <2>1, <2>3, <3>1, RowFields DEF Shape
      <3>3. Keys
        BY <1>0, <1>1, <1>2, <3>1, <3>2 DEF Apart
      <3>4. Past(h) => own[h].id \in 1 .. sequence
        BY DEF IInv, OwnFits
      <3>5. Ids
        BY <1>1, <1>2, <2>1, <3>2, <3>4
      <3> QED BY <3>3, <3>5
    <2> QED BY <1>5, <2>2, <2>3 DEF Insert
  <1>6. CASE AddAttachment(a) \/ AddAnonRef(a) \/ Log(a) \/ Commit(a)
    <2>1. pc[a] \in {"attach", "ref", "log", "commit"} /\ own' = own
      BY <1>6 DEF AddAttachment, AddAnonRef, Log, Commit
    <2>2. Open(a) /\ Past(a)
      BY <2>1 DEF Open, Past
    <2> QED BY <1>0, <1>2, <2>1, <2>2 DEF Apart
  <1> QED BY <1>3, <1>4, <1>5, <1>6 DEF Step

LEMMA ApartNext == IInv /\ [Next]_vars => \A g, h \in Handlers : Apart(g, h)'
  <1> SUFFICES ASSUME IInv, [Next]_vars, NEW g \in Handlers, NEW h \in Handlers, g # h
               PROVE  Apart(g, h)'
    BY DEF Apart
  <1>0. Shape /\ Apart(g, h)
    BY DEF IInv
  <1>1. ASSUME NEW a \in Handlers, Submit(a) \/ Step(a) \/ Fail(a) PROVE Apart(g, h)'
    <2>1. CASE a = g
      BY <1>1, <2>1, StepsApart DEF Apart
    <2>2. CASE a = h
      BY <1>1, <2>2, StepsApart DEF Apart
    <2>3. CASE a # g /\ a # h
      <3>1. pc'[g] = pc[g] /\ own'[g] = own[g] /\ pc'[h] = pc[h] /\ own'[h] = own[h]
        BY <1>0, <1>1, <2>3, OthersStay
      <3> QED BY <1>0, <3>1 DEF Apart, Open, Past
    <2> QED BY <2>1, <2>2, <2>3
  <1>2. CASE NewYear \/ MoveTokens \/ UNCHANGED vars
    <2>1. UNCHANGED <<pc, own>>
      BY <1>2 DEF NewYear, MoveTokens, vars
    <2> QED BY <1>0, <2>1 DEF Apart, Open, Past
  <1> QED BY <1>1, <1>2 DEF Next

----------------------------------------------------------------------------
(* The tables.                                                             *)

(* The number of a handler that may insert is one that nobody has. *)
LEMMA NumberIsFree ==
    ASSUME IInv, NEW h \in Handlers, Open(h), NEW i \in DOMAIN subs,
           subs[i].type = own[h].type, subs[i].year = own[h].year
    PROVE  subs[i].ticket < own[h].ticket
  <1> DEFINE t == own[h].type
             y == own[h].year
             issued == {j \in DOMAIN subs : subs[j].type = t /\ subs[j].year = y}
  <1>1. t \in Types /\ y \in Years /\ own[h].ticket = counter[<<t, y>>] + 1
    <2>1. /\ form[h] \in Forms /\ t = form[h].type /\ y \in 1 .. year
          /\ own[h].ticket = counter[<<t, y>>] + 1
      BY DEF IInv, OwnFits, Open
    <2>2. year \in Years
      BY DEF IInv, Shape
    <2> QED BY <2>1, <2>2, FormsFit, YearsFit
  <1>2. {subs[j].ticket : j \in issued} = 1 .. counter[<<t, y>>]
    BY <1>1 DEF IInv, TicketsRunOn
  <1>3. counter[<<t, y>>] \in Nat
    BY <1>1 DEF IInv, Shape
  <1>4. subs[i].ticket \in 1 .. counter[<<t, y>>]
    BY <1>2
  <1> QED BY <1>1, <1>3, <1>4

LEMMA CallersNext == IInv /\ [Next]_vars => CallersNeverCollide'
  <1> SUFFICES ASSUME IInv, [Next]_vars, NEW g \in Handlers PROVE cause'[g] # "ticket"
    BY DEF CallersNeverCollide
  <1>0. Shape /\ cause[g] # "ticket"
    BY DEF IInv, CallersNeverCollide
  <1>1. ASSUME NEW h \in Handlers, NEW c \in Codes, Insert(h, c) PROVE cause'[g] # "ticket"
    <2> DEFINE row == Row(form[h], sequence', own[h], c)
               issued == \E r \in Stored :
                           <<r.type, r.year, r.ticket>> = <<row.type, row.year, row.ticket>>
    <2>1. Open(h) /\ form[h] \in Forms /\ form[h].type = own[h].type
      BY <1>1 DEF Insert, Open, IInv, OwnFits
    <2>2. row.type = own[h].type /\ row.year = own[h].year /\ row.ticket = own[h].ticket
      BY <2>1, RowFields
    <2>3. own[h].ticket \in Nat
      BY <1>0 DEF Shape, Rows
    <2>4. ~issued
      BY <2>1, <2>2, <2>3, NumberIsFree DEF Stored
    <2>5. cause' = cause \/ cause' = [cause EXCEPT ![h] = IF issued THEN "ticket" ELSE "code"]
      BY <1>1 DEF Insert
    <2>6. cause' = cause \/ cause' = [cause EXCEPT ![h] = "code"]
      BY <2>4, <2>5
    <2> QED BY <1>0, <2>6 DEF Shape
  <1>2. ASSUME NEW h \in Handlers, Fail(h) PROVE cause'[g] # "ticket"
    BY <1>0, <1>2 DEF Fail, Shape
  <1>3. ASSUME cause' = cause PROVE cause'[g] # "ticket"
    BY <1>0, <1>3
  <1> QED BY <1>1, <1>2, <1>3 DEF Next, Step, Submit, NextTicketNumber, AddAttachment, AddAnonRef,
                                  Log, Commit, NewYear, MoveTokens, vars

(* A step that is no commit leaves the committed handlers as they are. *)
LEMMA DoneStay ==
    ASSUME IInv, NEW a \in Handlers, Submit(a) \/ Step(a) \/ Fail(a), ~Commit(a),
           NEW h \in Handlers
    PROVE  /\ pc'[h] = "done" <=> pc[h] = "done"
           /\ pc[h] = "done" => own'[h] = own[h] /\ form'[h] = form[h]
  <1>0. Shape
    BY DEF IInv
  <1>1. CASE a # h
    BY <1>0, <1>1, OthersStay
  <1>2. pc[a] # "done"
    BY DEF Submit, Step, NextTicketNumber, Insert, AddAttachment, AddAnonRef, Log, Fail, Open
  <1>3. pc'[a] # "done"
    <2>1. CASE Submit(a)
      BY <1>0, <2>1 DEF Submit, Shape
    <2>2. CASE NextTicketNumber(a)
      BY <1>0, <2>2 DEF NextTicketNumber, Shape
    <2>3. ASSUME NEW c \in Codes, Insert(a, c) PROVE pc'[a] # "done"
      BY <1>0, <2>3 DEF Insert, Shape
    <2>4. CASE AddAttachment(a)
      BY <1>0, <2>4 DEF AddAttachment, Shape
    <2>5. CASE AddAnonRef(a) \/ Log(a)
      BY <1>0, <2>5 DEF AddAnonRef, Log, Shape
    <2>6. CASE Fail(a)
      BY <1>0, <2>6 DEF Fail, Shape
    <2> QED BY <2>1, <2>2, <2>3, <2>4, <2>5, <2>6 DEF Step
  <1> QED BY <1>1, <1>2, <1>3

LEMMA TicketsNext == IInv /\ [Next]_vars => TicketsRunOn'
  <1> SUFFICES ASSUME IInv, [Next]_vars PROVE TicketsRunOn'
    OBVIOUS
  <1>0. Shape /\ TicketsRunOn
    BY DEF IInv
  <1>1. ASSUME NEW h \in Handlers, Commit(h) PROVE TicketsRunOn'
    <2> SUFFICES ASSUME NEW t \in Types, NEW y \in Years
                 PROVE  LET issued == {i \in DOMAIN subs' : subs'[i].type = t /\ subs'[i].year = y}
                        IN  /\ {subs'[i].ticket : i \in issued} = 1 .. counter'[<<t, y>>]
                            /\ \A i, j \in issued : i < j => subs'[i].ticket < subs'[j].ticket
      BY DEF TicketsRunOn
    <2> DEFINE old == {i \in DOMAIN subs : subs[i].type = t /\ subs[i].year = y}
               new == {i \in DOMAIN subs' : subs'[i].type = t /\ subs'[i].year = y}
               last == Len(subs) + 1
               key == <<own[h].type, own[h].year>>
    <2>1. Open(h) /\ subs' = Append(subs, own[h])
          /\ counter' = [counter EXCEPT ![key] = own[h].ticket]
      BY <1>1 DEF Commit, Publish, Open
    <2>2. /\ Len(subs) \in Nat /\ DOMAIN subs = 1 .. Len(subs) /\ DOMAIN subs' = 1 .. last
          /\ \A i \in 1 .. Len(subs) : subs'[i] = subs[i]
          /\ subs'[last] = own[h]
      BY <1>0, <2>1, AppendProperties, LenProperties DEF Shape
    <2>3. /\ own[h].type \in Types /\ own[h].year \in Years
          /\ own[h].ticket = counter[key] + 1
      <3>1. /\ form[h] \in Forms /\ own[h].type = form[h].type /\ own[h].year \in 1 .. year
            /\ own[h].ticket = counter[key] + 1
        BY <2>1 DEF IInv, OwnFits, Open
      <3> QED BY <1>0, <3>1, FormsFit, YearsFit DEF Shape
    <2>4. /\ {subs[i].ticket : i \in old} = 1 .. counter[<<t, y>>]
          /\ \A i, j \in old : i < j => subs[i].ticket < subs[j].ticket
      BY <1>0 DEF TicketsRunOn
    <2>5. counter[<<t, y>>] \in Nat
      BY <1>0 DEF Shape
    <2>6. CASE own[h].type = t /\ own[h].year = y
      <3>1. new = old \cup {last}
        BY <2>2, <2>6
      <3>2. counter'[<<t, y>>] = counter[<<t, y>>] + 1 /\ subs'[last].ticket = counter[<<t, y>>] + 1
        BY <1>0, <2>1, <2>2, <2>3, <2>6 DEF Shape
      <3>3. \A i \in old : i \in 1 .. Len(subs) /\ subs'[i].ticket = subs[i].ticket
        BY <2>2
      <3>4. {subs'[i].ticket : i \in new} = {subs[i].ticket : i \in old} \cup {subs'[last].ticket}
        BY <3>1, <3>3
      <3>5. {subs'[i].ticket : i \in new} = 1 .. counter'[<<t, y>>]
        <4>1. PICK n \in Nat : n = counter[<<t, y>>]
          BY <2>5
        <4>2. (1 .. n) \cup {n + 1} = 1 .. n + 1
          OBVIOUS
        <4> QED BY <2>4, <3>2, <3>4, <4>1, <4>2
      <3>6. \A i \in old : subs'[i].ticket < subs'[last].ticket
        BY <2>1, <2>2, <2>6, <3>3, NumberIsFree
      <3>7. \A i, j \in new : i < j => subs'[i].ticket < subs'[j].ticket
        BY <2>2, <2>4, <3>1, <3>3, <3>6
      <3> QED BY <3>5, <3>7
    <2>7. CASE ~(own[h].type = t /\ own[h].year = y)
      <3>1. new = old
        BY <2>2, <2>7
      <3>2. counter'[<<t, y>>] = counter[<<t, y>>]
        BY <1>0, <2>1, <2>3, <2>7 DEF Shape
      <3>3. \A i \in old : subs'[i].ticket = subs[i].ticket
        BY <2>2
      <3> QED BY <2>4, <3>1, <3>2, <3>3
    <2> QED BY <2>6, <2>7
  <1>2. ASSUME NEW h \in Handlers, Submit(h) \/ Step(h) \/ Fail(h), ~Commit(h) PROVE TicketsRunOn'
    BY <1>0, <1>2, TablesStay DEF TicketsRunOn
  <1>3. CASE NewYear \/ MoveTokens \/ UNCHANGED vars
    BY <1>0, <1>3 DEF NewYear, MoveTokens, vars, tables, TicketsRunOn
  <1> QED BY <1>1, <1>2, <1>3 DEF Next

(* A commit adds exactly its handler to those that are done. *)
LEMMA CommitAdds ==
    ASSUME IInv, NEW a \in Handlers, Commit(a)
    PROVE  /\ pc[a] = "commit" /\ UNCHANGED <<form, own, kept, moved>>
           /\ {h \in Handlers : pc'[h] = "done"} = {h \in Handlers : pc[h] = "done"} \cup {a}
           /\ Stored' = Stored \cup {own[a]}
           /\ files' = files \cup FirstFiles(a, Len(form[a].files))
           /\ refs' = refs \cup TokensOf(a)
           /\ audits' = audits \cup {own[a].id}
  <1>0. Shape /\ KeptFits(a)
    BY DEF IInv
  <1>1. pc[a] = "commit" /\ UNCHANGED <<form, own, kept, moved>> /\ pc' = [pc EXCEPT ![a] = "done"]
    BY DEF Commit
  <1>2. {h \in Handlers : pc'[h] = "done"} = {h \in Handlers : pc[h] = "done"} \cup {a}
    BY <1>0, <1>1 DEF Shape
  <1>3. Stored' = Stored \cup {own[a]}
    <2>1. subs' = Append(subs, own[a])
      BY DEF Commit, Publish
    <2>2. /\ Len(subs) \in Nat /\ DOMAIN subs = 1 .. Len(subs)
          /\ DOMAIN subs' = 1 .. (Len(subs) + 1)
          /\ \A i \in 1 .. Len(subs) : subs'[i] = subs[i]
          /\ subs'[Len(subs) + 1] = own[a]
      BY <1>0, <2>1, AppendProperties, LenProperties DEF Shape
    <2>3. DOMAIN subs' = DOMAIN subs \cup {Len(subs) + 1}
      BY <2>2
    <2> QED BY <2>2, <2>3 DEF Stored
  <1>4. /\ kept[a].files = FirstFiles(a, Len(form[a].files))
        /\ kept[a].refs = TokensOf(a) /\ kept[a].audits = {own[a].id}
    BY <1>0, <1>1 DEF KeptFits
  <1> QED BY <1>1, <1>2, <1>3, <1>4 DEF Commit, Publish

(* The attachments of a form, as AllOrNothing has them. *)
LEMMA AllFiles ==
    ASSUME NEW h \in Handlers, form[h].files \in Seq(Files)
    PROVE  FirstFiles(h, Len(form[h].files)) =
             {[sub |-> own[h].id, file |-> form[h].files[i], order |-> i - 1] :
                 i \in DOMAIN form[h].files}
  BY LenProperties DEF FirstFiles

(* AllOrNothing is about the tables and the handlers that are done. *)
LEMMA AllOrNothingStays ==
    ASSUME AllOrNothing,
           {h \in Handlers : pc[h] = "done"}' = {h \in Handlers : pc[h] = "done"},
           \A h \in {g \in Handlers : pc[g] = "done"} : own'[h] = own[h] /\ form'[h] = form[h],
           Stored' = Stored, files' = files, audits' = audits,
           {r.sub : r \in refs'} = {r.sub : r \in refs}
    PROVE  AllOrNothing'
  <1> DEFINE done == {h \in Handlers : pc[h] = "done"}
             FilesOf(h) == {[sub |-> own[h].id, file |-> form[h].files[i], order |-> i - 1] :
                               i \in DOMAIN form[h].files}
  <1>1. {own'[h] : h \in done'} = {own[h] : h \in done}
    OBVIOUS
  <1>2. UNION {FilesOf(h)' : h \in done'} = UNION {FilesOf(h) : h \in done}
    <2>1. \A h \in done : FilesOf(h)' = FilesOf(h)
      OBVIOUS
    <2> QED BY <2>1
  <1>3. {own'[h].id : h \in {g \in done' : form'[g].anon}} = {own[h].id : h \in {g \in done : form[g].anon}}
    <2>1. {g \in done' : form'[g].anon} = {g \in done : form[g].anon}
      OBVIOUS
    <2> QED BY <2>1
  <1>4. {own'[h].id : h \in done'} = {own[h].id : h \in done}
    OBVIOUS
  <1> QED BY <1>1, <1>2, <1>3, <1>4 DEF AllOrNothing

LEMMA AllOrNothingNext == IInv /\ [Next]_vars => AllOrNothing'
  <1> SUFFICES ASSUME IInv, [Next]_vars PROVE AllOrNothing'
    OBVIOUS
  <1> DEFINE done == {h \in Handlers : pc[h] = "done"}
             FilesOf(h) == {[sub |-> own[h].id, file |-> form[h].files[i], order |-> i - 1] :
                               i \in DOMAIN form[h].files}
  <1>0. Shape
    BY DEF IInv
  <1>a. /\ Stored = {own[h] : h \in done}
        /\ files = UNION {FilesOf(h) : h \in done}
        /\ {r.sub : r \in refs} = {own[h].id : h \in {g \in done : form[g].anon}}
        /\ audits = {own[h].id : h \in done}
    BY DEF IInv, AllOrNothing
  <1>1. ASSUME NEW a \in Handlers, Commit(a) PROVE AllOrNothing'
    <2>1. /\ form' = form /\ own' = own
          /\ done' = done \cup {a}
          /\ Stored' = Stored \cup {own[a]}
          /\ files' = files \cup FirstFiles(a, Len(form[a].files))
          /\ refs' = refs \cup TokensOf(a)
          /\ audits' = audits \cup {own[a].id}
      BY <1>1, CommitAdds
    <2>2. form[a] \in Forms
      BY <1>1 DEF Commit, IInv, OwnFits
    <2>3. Stored' = {own'[h] : h \in done'}
      BY <1>a, <2>1
    <2>4. files' = UNION {FilesOf(h)' : h \in done'}
      <3>1. FirstFiles(a, Len(form[a].files)) = FilesOf(a)
        BY <2>2, FormsFit, AllFiles
      <3>2. \A h : FilesOf(h)' = FilesOf(h)
        BY <2>1
      <3> QED BY <1>a, <2>1, <3>1, <3>2
    <2>5. {r.sub : r \in refs'} = {own'[h].id : h \in {g \in done' : form'[g].anon}}
      <3>1. CASE form[a].anon
        <4>1. {g \in done' : form'[g].anon} = {g \in done : form[g].anon} \cup {a}
          BY <2>1, <3>1
        <4>2. {r.sub : r \in refs'} = {r.sub : r \in refs} \cup {own[a].id}
          <5>1. PICK new : new.sub = own[a].id /\ TokensOf(a) = {new}
            BY <3>1 DEF TokensOf
          <5>2. refs' = refs \cup {new}
            BY <2>1, <5>1
          <5> QED BY <5>1, <5>2
        <4> QED BY <1>a, <2>1, <4>1, <4>2
      <3>2. CASE ~form[a].anon
        <4>1. {g \in done' : form'[g].anon} = {g \in done : form[g].anon}
          BY <2>1, <3>2
        <4>2. refs' = refs
          BY <2>1, <3>2 DEF TokensOf
        <4> QED BY <1>a, <2>1, <4>1, <4>2
      <3> QED BY <3>1, <3>2
    <2>6. audits' = {own'[h].id : h \in done'}
      BY <1>a, <2>1
    <2> QED BY <2>3, <2>4, <2>5, <2>6 DEF AllOrNothing
  <1>2. ASSUME NEW a \in Handlers, Submit(a) \/ Step(a) \/ Fail(a), ~Commit(a)
        PROVE  AllOrNothing'
    <2>1. done' = done /\ \A h \in done : own'[h] = own[h] /\ form'[h] = form[h]
      BY <1>2, DoneStay
    <2>2. UNCHANGED <<subs, files, refs, audits>>
      BY <1>0, <1>2, TablesStay
    <2>3. Stored' = Stored
      BY <2>2 DEF Stored
    <2> QED BY <2>1, <2>2, <2>3, AllOrNothingStays DEF IInv
  <1>3. CASE MoveTokens
    <2>1. PICK r \in refs, s \in refs :
            refs' = (refs \ {r, s}) \cup {[r EXCEPT !.token = s.token],
                                          [s EXCEPT !.token = r.token]}
      BY <1>3 DEF MoveTokens
    <2>2. [r EXCEPT !.token = s.token].sub = r.sub /\ [s EXCEPT !.token = r.token].sub = s.sub
      BY <1>0 DEF Shape, RefRows
    <2>3. {q.sub : q \in refs'} = {q.sub : q \in refs}
      BY <2>1, <2>2
    <2>4. UNCHANGED <<pc, form, own, subs, files, audits>>
      BY <1>3 DEF MoveTokens
    <2>5. done' = done /\ Stored' = Stored
      BY <2>4 DEF Stored
    <2> QED BY <2>3, <2>4, <2>5, AllOrNothingStays DEF IInv
  <1>4. CASE NewYear \/ UNCHANGED vars
    <2>1. UNCHANGED <<pc, form, own, subs, files, refs, audits>>
      BY <1>4 DEF NewYear, vars, tables
    <2>2. done' = done /\ Stored' = Stored
      BY <2>1 DEF Stored
    <2> QED BY <2>1, <2>2, AllOrNothingStays DEF IInv
  <1> QED BY <1>1, <1>2, <1>3, <1>4 DEF Next

LEMMA TokensNext == IInv /\ [Next]_vars => TokensFit'
  <1> SUFFICES ASSUME IInv, [Next]_vars PROVE TokensFit'
    OBVIOUS
  <1> DEFINE Made(token) == \E h \in Handlers : /\ pc[h] = "done" /\ form[h].anon
                                                /\ token = EncryptChatId(form[h].by, own[h].id)
  <1>0. Shape /\ \A r \in refs : Made(r.token) /\ (~moved => r.token.sub = r.sub)
    BY DEF IInv, TokensFit
  <1>1. ASSUME NEW a \in Handlers, Commit(a) PROVE TokensFit'
    <2>1. /\ {h \in Handlers : pc'[h] = "done"} = {h \in Handlers : pc[h] = "done"} \cup {a}
          /\ form' = form /\ own' = own /\ moved' = moved /\ refs' = refs \cup TokensOf(a)
      BY <1>1, CommitAdds
    <2>2. \A token : Made(token) => Made(token)'
      BY <2>1
    <2>3. \A r \in TokensOf(a) : Made(r.token)' /\ r.token.sub = r.sub
      BY <2>1 DEF TokensOf, EncryptChatId
    <2> QED BY <1>0, <2>1, <2>2, <2>3 DEF TokensFit
  <1>2. ASSUME NEW a \in Handlers, Submit(a) \/ Step(a) \/ Fail(a), ~Commit(a) PROVE TokensFit'
    <2>1. \A h \in Handlers : /\ pc'[h] = "done" <=> pc[h] = "done"
                              /\ pc[h] = "done" => own'[h] = own[h] /\ form'[h] = form[h]
      BY <1>2, DoneStay
    <2>2. refs' = refs /\ moved' = moved
      BY <1>0, <1>2, TablesStay
    <2>3. \A token : Made(token) => Made(token)'
      BY <2>1
    <2> QED BY <1>0, <2>2, <2>3 DEF TokensFit
  <1>3. CASE MoveTokens
    <2>1. PICK r \in refs, s \in refs :
            refs' = (refs \ {r, s}) \cup {[r EXCEPT !.token = s.token],
                                          [s EXCEPT !.token = r.token]}
      BY <1>3 DEF MoveTokens
    <2>2. [r EXCEPT !.token = s.token].token = s.token /\ [s EXCEPT !.token = r.token].token = r.token
      BY <1>0 DEF Shape, RefRows
    <2>3. \A q \in refs' : Made(q.token)
      <3> SUFFICES ASSUME NEW q \in refs' PROVE \E o \in refs : q.token = o.token
        BY <1>0
      <3>1. \/ q \in refs \/ q = [r EXCEPT !.token = s.token] \/ q = [s EXCEPT !.token = r.token]
        BY <2>1
      <3> QED BY <2>2, <3>1
    <2>4. moved' /\ UNCHANGED <<pc, form, own>>
      BY <1>3 DEF MoveTokens
    <2>5. \A token : Made(token) => Made(token)'
      BY <2>4
    <2> QED BY <2>3, <2>4, <2>5 DEF TokensFit
  <1>4. CASE NewYear \/ UNCHANGED vars
    <2>1. UNCHANGED <<refs, moved, pc, form, own>>
      BY <1>4 DEF NewYear, vars, tables
    <2> QED BY <1>0, <2>1 DEF TokensFit
  <1> QED BY <1>1, <1>2, <1>3, <1>4 DEF Next

LEMMA IInvNext == IInv /\ [Next]_vars => IInv'
  BY ShapeNext, OwnNext, KeptNext, ApartNext, CallersNext, TicketsNext, AllOrNothingNext,
     TokensNext DEF IInv

----------------------------------------------------------------------------

(* The invariant of every run. *)
THEOREM Invariance == Spec => []IInv
  BY IInvInit, IInvNext, PTL DEF Spec

(* Types of the tables and of what the handlers have on the way. *)
THEOREM TypeCorrectness == Spec => []TypeOK
  <1>1. IInv => TypeOK
    <2> SUFFICES ASSUME IInv PROVE TypeOK
      OBVIOUS
    <2> DEFINE done == {h \in Handlers : pc[h] = "done"}
    <2>0. Shape /\ AllOrNothing /\ TokensFit /\ \A h \in Handlers : OwnFits(h)
      BY DEF IInv
    <2>1. \A h \in done : /\ form[h] \in Forms /\ own[h] \in Rows
                          /\ own[h].id \in 1 .. sequence /\ own[h].year \in 1 .. year
                          /\ own[h].ticket # 0 /\ own[h].code \in Codes
                          /\ own[h] = Row(form[h], own[h].id, own[h], own[h].code)
      BY <2>0 DEF Shape, OwnFits, Past
    <2>2. ASSUME NEW row \in Stored
          PROVE  /\ row.id \in 1 .. sequence /\ row.type \in Types /\ row.year \in 1 .. year
                 /\ row.ticket \in Nat \ {0} /\ row.code \in Codes
                 /\ row.author \in People \cup {None}
      <3>1. PICK h \in done : row = own[h]
        BY <2>0 DEF AllOrNothing
      <3>2. row.type \in Types
        BY <2>1, <3>1, FormsFit, RowFields
      <3>3. row.ticket \in Nat /\ row.author \in People \cup {None}
        BY <2>1, <3>1 DEF Rows
      <3> QED BY <2>1, <3>1, <3>2, <3>3
    <2>3. \A a \in files : a.sub \in 1 .. sequence /\ a.file \in Files
      <3> SUFFICES ASSUME NEW a \in files PROVE a.sub \in 1 .. sequence /\ a.file \in Files
        OBVIOUS
      <3>1. PICK h \in done : \E i \in DOMAIN form[h].files :
                a = [sub |-> own[h].id, file |-> form[h].files[i], order |-> i - 1]
        BY <2>0 DEF AllOrNothing
      <3> QED BY <2>0, <2>1, <3>1 DEF Shape, FileRows
    <2>4. \A r \in refs : r.sub \in 1 .. sequence /\ r.token.chat \in People
      <3> SUFFICES ASSUME NEW r \in refs PROVE r.sub \in 1 .. sequence /\ r.token.chat \in People
        OBVIOUS
      <3>1. r.sub \in {q.sub : q \in refs}
        OBVIOUS
      <3>2. r.sub \in {own[h].id : h \in {g \in done : form[g].anon}}
        BY <2>0, <3>1 DEF AllOrNothing
      <3> QED BY <2>0, <2>1, <3>2 DEF Shape, RefRows
    <2>5. audits \subseteq 1 .. sequence
      BY <2>0, <2>1 DEF AllOrNothing
    <2> QED BY <2>0, <2>2, <2>3, <2>4, <2>5 DEF Shape, Steps, OwnFits, Past, TypeOK
  <1> QED BY <1>1, Invariance, PTL

(* Within a type and a year the numbers are 1, 2, 3, ... in the order of the  *)
(* commits, and none is lost to a handler that fails (next_ticket_number).    *)
THEOREM TicketNumbers == Spec => []TicketsRunOn
  <1>1. IInv => TicketsRunOn
    BY DEF IInv
  <1> QED BY <1>1, Invariance, PTL

(* The counter's row lock is held to the commit: no INSERT finds its ticket   *)
(* number taken (next_ticket_number).                                         *)
THEOREM NoCollision == Spec => []CallersNeverCollide
  <1>1. IInv => CallersNeverCollide
    BY DEF IInv
  <1> QED BY <1>1, Invariance, PTL

(* What is stored of a submission is all of it (create, DbSessionMiddleware). *)
THEOREM WholeSubmissions == Spec => []AllOrNothing
  <1>1. IInv => AllOrNothing
    BY DEF IInv
  <1> QED BY <1>1, Invariance, PTL

(* A reply goes to the author of the submission or, when somebody has moved   *)
(* tokens between rows, to nobody (resolve_author_chat_id, AnonCipher).       *)
THEOREM ReplyGoesToAuthor == Spec => []RepliesReachTheAuthor
  <1>1. IInv => RepliesReachTheAuthor
    <2> SUFFICES ASSUME IInv, NEW h \in Handlers, pc[h] = "done"
                 PROVE  Resolve(own[h]) \in {form[h].by} \cup (IF moved THEN {"error"} ELSE {})
      BY DEF RepliesReachTheAuthor
    <2>1. form[h] \in Forms /\ own[h] = Row(form[h], own[h].id, own[h], own[h].code)
      BY DEF IInv, OwnFits, Past
    <2>2. /\ own[h].anon = form[h].anon
          /\ own[h].author = IF form[h].anon THEN None ELSE form[h].by
      BY <2>1 DEF Row
    <2>3. CASE ~form[h].anon
      BY <2>2, <2>3 DEF Resolve
    <2>4. CASE form[h].anon
      <3> DEFINE found == {r \in refs : r.sub = own[h].id}
                 r == CHOOSE r \in found : TRUE
      <3>1. own[h].id \in {q.sub : q \in refs}
        BY <2>4 DEF IInv, AllOrNothing
      <3>2. found # {}
        BY <3>1
      <3>3. r \in refs /\ r.sub = own[h].id
        BY <3>2
      <3>4. PICK g \in Handlers : /\ pc[g] = "done"
                                  /\ r.token = EncryptChatId(form[g].by, own[g].id)
        BY <3>3 DEF IInv, TokensFit
      <3>5. ~moved => r.token.sub = own[h].id
        BY <3>3 DEF IInv, TokensFit
      <3>6. r.token.sub = own[g].id /\ r.token.chat = form[g].by
        BY <3>4 DEF EncryptChatId
      <3>7. own[g].id = own[h].id => g = h
        BY <3>4 DEF IInv, Apart, Past
      <3>8. Resolve(own[h]) = Decrypt(r.token, own[h].id)
        BY <2>2, <2>4, <3>2 DEF Resolve
      <3> QED BY <3>5, <3>6, <3>7, <3>8 DEF Decrypt
    <2> QED BY <2>3, <2>4
  <1> QED BY <1>1, Invariance, PTL

(* The row of an anonymous complaint names nobody, and everybody's list has   *)
(* exactly his other submissions (create, on_my_submissions).                 *)
THEOREM Anonymity == Spec => []AnonymousNamesNobody
  <1>1. IInv => AnonymousNamesNobody
    <2> SUFFICES ASSUME IInv PROVE AnonymousNamesNobody
      OBVIOUS
    <2> DEFINE done == {h \in Handlers : pc[h] = "done"}
    <2>1. Stored = {own[h] : h \in done}
      BY DEF IInv, AllOrNothing
    <2>2. ASSUME NEW h \in done
          PROVE  /\ own[h].anon = form[h].anon /\ own[h].named = Named(form[h])
                 /\ own[h].author = IF form[h].anon THEN None ELSE form[h].by
      <3>1. own[h] = Row(form[h], own[h].id, own[h], own[h].code)
        BY DEF IInv, OwnFits, Past
      <3>2. own[h].anon = form[h].anon
        BY <3>1 DEF Row
      <3>3. own[h].named = Named(form[h])
        BY <3>1 DEF Row
      <3>4. own[h].author = IF form[h].anon THEN None ELSE form[h].by
        BY <3>1 DEF Row
      <3> QED BY <3>2, <3>3, <3>4
    <2>3. ASSUME NEW row \in Stored, row.anon PROVE row.author = None /\ ~row.named
      <3>1. PICK h \in done : row = own[h]
        BY <2>1
      <3>2. form[h].anon
        BY <2>2, <2>3, <3>1
      <3>3. row.author = None
        BY <2>2, <3>1, <3>2
      <3>4. ~Named(form[h]) /\ row.named = Named(form[h])
        BY <2>2, <3>1, <3>2 DEF Named
      <3> QED BY <3>3, <3>4
    <2>4. ASSUME NEW u \in People
          PROVE  {row.id : row \in Mine(u)} =
                    {own[h].id : h \in {g \in Handlers :
                        pc[g] = "done" /\ form[g].by = u /\ ~form[g].anon}}
      <3>1. Mine(u) = {own[h] : h \in {g \in Handlers :
                          pc[g] = "done" /\ form[g].by = u /\ ~form[g].anon}}
        BY <2>1, <2>2 DEF Mine
      <3> QED BY <3>1
    <2> QED BY <2>3, <2>4 DEF AnonymousNamesNobody
  <1> QED BY <1>1, Invariance, PTL

=============================================================================

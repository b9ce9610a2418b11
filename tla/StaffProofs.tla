---------------------------- MODULE StaffProofs ----------------------------
(***************************************************************************)
(* Proofs about what the staff see: Roles, for any users, languages and    *)
(* taps, and Registry, for any submissions, page size, slots and payloads. *)
(***************************************************************************)
EXTENDS Roles, Registry, SequenceTheorems, FiniteSetTheorems, TLAPS

-----------------------------------------------------------------------------
(* Roles: roles, menus and languages.                                      *)

(* The inductive invariant.                                                *)

\* An open handler knows what its tap asks for.
OpFits ==
    \A t \in Taps : Open(t) => op[t] \in Op /\ (pc[t] = "told" <=> pc[t] # "write" /\ op[t].sign = "=")

\* Handlers of one user that are open at once have overlapped.
Alone ==
    ~overlap =>
        \A s, t \in Taps : s # t /\ Open(s) /\ Open(t) => op[s].user # op[t].user

\* What a handler has selected is what is committed, and the user was told
\* what it is about to commit.
Knowing ==
    ~overlap => \A t \in Taps :
        /\ pc[t] \in {"write", "told"} => knows[t] = row[op[t].user]
        /\ pc[t] = "menu" => knows[t].roles = row[op[t].user].roles
        /\ pc[t] = "told" => told[op[t].user] = op[t].what

\* What somebody does not see yet he is about to be shown.
Showing ==
    ~overlap /\ ~missed => \A u \in People :
        /\ menu[u].roles = row[u].roles \/ \E t \in Taps : pc[t] = "menu" /\ op[t].user = u
        /\ told[u] = row[u].language \/ \E t \in Taps : pc[t] = "told" /\ op[t].user = u

IInv == TypeOK /\ OpFits /\ Alone /\ Knowing /\ JournalSerial /\ Showing

----------------------------------------------------------------------------
(* The operators.                                                          *)

(* What a button's operation does to a row, by its sign. *)
LEMMA AppliedFacts ==
    ASSUME NEW o \in Op, NEW r \in Row
    PROVE  /\ Applied(o, r) \in Row
           /\ o.user \in People
           /\ o.sign \in {"+", "-", "="}
           /\ o.sign # "=" => /\ o.what \in Role /\ Applied(o, r).language = r.language
                              /\ o.sign = "+" => Applied(o, r).roles = r.roles \cup {o.what}
                              /\ o.sign = "-" => Applied(o, r).roles = r.roles \ {o.what}
           /\ o.sign = "=" => /\ o.what \in Languages
                              /\ Applied(o, r).roles = r.roles /\ Applied(o, r).language = o.what
  BY DEF Op, Row, Applied

(* Nobody's blank row has a role. *)
LEMMA BlankRow == Blank \in Row /\ Blank.roles = {} /\ Blank.language = "none"
  BY DEF Blank, Row

(* An open handler of the invariant and its rows. *)
LEMMA Handler ==
    ASSUME IInv, NEW t \in Taps, Open(t)
    PROVE  /\ op[t] \in Op /\ op[t].user \in People
           /\ knows[t] \in Row /\ row[op[t].user] \in Row
           /\ Applied(op[t], knows[t]) \in Row /\ Written(t) \in Row
  <1>1. op[t] \in Op /\ knows[t] \in Row /\ row \in [People -> Row]
    BY DEF IInv, TypeOK, OpFits
  <1>2. op[t].user \in People /\ row[op[t].user] \in Row
    BY <1>1, AppliedFacts
  <1> QED BY <1>1, <1>2, AppliedFacts DEF Written

(* A handler that was not overlapped writes what its tap asks for. *)
LEMMA WritesApplied ==
    ASSUME IInv, ~overlap, NEW t \in Taps, pc[t] \in {"write", "told"}
    PROVE  Written(t) = Applied(op[t], row[op[t].user])
  BY DEF IInv, Knowing, Written, Changes

(* The entry that is appended is the last. *)
LEMMA JournalGrows ==
    ASSUME audit \in Seq(Op), NEW o \in Op, audit' = Append(audit, o)
    PROVE  /\ audit' \in Seq(Op) /\ Len(audit) \in Nat /\ Len(audit') = Len(audit) + 1
           /\ DOMAIN audit = 1 .. Len(audit) /\ DOMAIN audit' = 1 .. Len(audit) + 1
           /\ \A i \in 1 .. Len(audit) : audit'[i] = audit[i]
           /\ audit'[Len(audit) + 1] = o /\ Last(audit') = o
  BY AppendProperties, LenProperties DEF Last

(* What the journal says after one entry more. *)
LEMMA JournalledGrows ==
    ASSUME audit \in Seq(Op), NEW o \in Op, o.sign # "=", audit' = Append(audit, o), NEW u \in People
    PROVE  Journalled(u)' = IF o.user # u THEN Journalled(u)
                            ELSE IF o.sign = "+" THEN Journalled(u) \cup {o.what}
                            ELSE Journalled(u) \ {o.what}
  <1> DEFINE Says(r) == \E i \in DOMAIN audit :
                /\ audit[i] = [sign |-> "+", user |-> u, what |-> r]
                /\ \A j \in DOMAIN audit : j > i => audit[j].user # u \/ audit[j].what # r
  <1>1. /\ Len(audit) \in Nat /\ DOMAIN audit = 1 .. Len(audit)
        /\ DOMAIN audit' = 1 .. Len(audit) + 1
        /\ \A i \in 1 .. Len(audit) : audit'[i] = audit[i]
        /\ audit'[Len(audit) + 1] = o
    BY JournalGrows
  <1>2. o.what \in Role /\ (o.sign = "+" \/ o.sign = "-")
    BY DEF Op
  <1>3. o.sign = "+" => o = [sign |-> "+", user |-> o.user, what |-> o.what]
    BY DEF Op
  <1>4. ASSUME NEW r \in Role, o.user # u \/ o.what # r PROVE Says(r)' <=> Says(r)
    <2>1. o # [sign |-> "+", user |-> u, what |-> r]
      BY <1>4
    <2>2. ASSUME Says(r) PROVE Says(r)'
      <3>1. PICK i \in 1 .. Len(audit) :
                /\ audit[i] = [sign |-> "+", user |-> u, what |-> r]
                /\ \A j \in 1 .. Len(audit) : j > i => audit[j].user # u \/ audit[j].what # r
        BY <2>2, <1>1
      <3>2. \A j \in 1 .. Len(audit) + 1 : j > i => audit'[j].user # u \/ audit'[j].what # r
        BY <3>1, <1>1, <1>4
      <3>3. i \in 1 .. Len(audit) + 1 /\ audit'[i] = [sign |-> "+", user |-> u, what |-> r]
        BY <3>1, <1>1
      <3> QED BY <3>2, <3>3, <1>1
    <2>3. ASSUME Says(r)' PROVE Says(r)
      <3>1. PICK i \in 1 .. Len(audit) + 1 :
                /\ audit'[i] = [sign |-> "+", user |-> u, what |-> r]
                /\ \A j \in 1 .. Len(audit) + 1 : j > i => audit'[j].user # u \/ audit'[j].what # r
        BY <2>3, <1>1
      <3>2. i \in 1 .. Len(audit)
        BY <3>1, <2>1, <1>1
      <3> QED BY <3>1, <3>2, <1>1
    <2> QED BY <2>2, <2>3
  <1>5. ASSUME o.user = u PROVE Says(o.what)' <=> o.sign = "+"
    <2>1. ASSUME o.sign = "+" PROVE Says(o.what)'
      BY <1>1, <1>3, <1>5, <2>1
    <2>2. ASSUME Says(o.what)' PROVE o.sign = "+"
      <3>1. PICK i \in 1 .. Len(audit) + 1 :
                /\ audit'[i] = [sign |-> "+", user |-> u, what |-> o.what]
                /\ \A j \in 1 .. Len(audit) + 1 : j > i => audit'[j].user # u \/ audit'[j].what # o.what
        BY <2>2, <1>1
      <3>2. i = Len(audit) + 1
        BY <3>1, <1>1, <1>5
      <3> QED BY <3>1, <3>2, <1>1
    <2> QED BY <2>1, <2>2
  <1>6. Journalled(u) = {r \in Role : Says(r)} /\ Journalled(u)' = {r \in Role : Says(r)'}
    BY DEF Journalled
  <1> HIDE DEF Says
  <1> QED BY <1>2, <1>4, <1>5, <1>6

----------------------------------------------------------------------------

LEMMA IInvInit == Init => IInv
  <1> SUFFICES ASSUME Init PROVE IInv
    OBVIOUS
  <1>1. TypeOK
    BY BlankRow, EmptySeq DEF Init, TypeOK, Row
  <1>2. \A t \in Taps : ~Open(t)
    BY DEF Init, Open
  <1>3. OpFits /\ Alone /\ Knowing
    BY <1>2 DEF Init, OpFits, Alone, Knowing
  <1>4. JournalSerial
    BY BlankRow DEF Init, JournalSerial, Journalled
  <1>5. Showing
    BY BlankRow DEF Init, Showing
  <1> QED BY <1>1, <1>3, <1>4, <1>5 DEF IInv

LEMMA TypeNext == IInv /\ [Next]_vars => TypeOK'
  <1> SUFFICES ASSUME IInv, [Next]_vars PROVE TypeOK'
    OBVIOUS
  <1>0. TypeOK
    BY DEF IInv
  <1> USE DEF TypeOK, history
  <1>1. ASSUME NEW t \in Taps, NEW o \in Op, SelectTarget(t, o) PROVE TypeOK'
    <2>1. o.user \in People
      BY DEF Op
    <2> QED BY <1>0, <1>1, <2>1 DEF SelectTarget
  <1>2. ASSUME NEW t \in Taps, CommitRoles(t) PROVE TypeOK'
    <2>1. op[t] \in Op /\ op[t].user \in People /\ Written(t) \in Row /\ Applied(op[t], knows[t]) \in Row
      BY <1>2, Handler DEF CommitRoles, Open
    <2>2. audit' \in Seq(Op)
      BY <1>0, <1>2, <2>1, JournalGrows DEF CommitRoles, Audited
    <2> QED BY <1>0, <1>2, <2>1, <2>2 DEF CommitRoles
  <1>3. ASSUME NEW t \in Taps, TellLanguage(t) PROVE TypeOK'
    <2>1. op[t].user \in People /\ op[t].what \in Languages
      BY <1>3, Handler, AppliedFacts DEF TellLanguage, Open
    <2> QED BY <1>0, <1>3, <2>1 DEF TellLanguage
  <1>4. ASSUME NEW t \in Taps, CommitLanguage(t) PROVE TypeOK'
    <2>1. op[t].user \in People /\ Written(t) \in Row
      BY <1>4, Handler DEF CommitLanguage, Open
    <2> QED BY <1>0, <1>4, <2>1 DEF CommitLanguage
  <1>5. ASSUME NEW t \in Taps, Fail(t) PROVE TypeOK'
    BY <1>0, <1>5 DEF Fail
  <1>6. ASSUME NEW t \in Taps, SetMenu(t) PROVE TypeOK'
    <2>1. op[t].user \in People /\ MenuOf(t) \in Row
      BY <1>6, Handler, BlankRow DEF SetMenu, MenuOf, Open
    <2>2. menu' \in [People -> Row] /\ missed' \in BOOLEAN
      BY <1>0, <1>6, <2>1 DEF SetMenu
    <2> QED BY <1>0, <1>6, <2>2 DEF SetMenu
  <1>7. CASE UNCHANGED vars
    BY <1>0, <1>7 DEF vars
  <1> QED BY <1>1, <1>2, <1>3, <1>4, <1>5, <1>6, <1>7 DEF Next

LEMMA OpFitsNext == IInv /\ [Next]_vars => OpFits'
  <1> SUFFICES ASSUME IInv, [Next]_vars, NEW x \in Taps, Open(x)'
               PROVE  op'[x] \in Op /\ (pc'[x] = "told" <=> pc'[x] # "write" /\ op'[x].sign = "=")
    BY DEF OpFits, Open
  <1>0. TypeOK /\ (Open(x) => op[x] \in Op /\ (pc[x] = "told" <=> pc[x] # "write" /\ op[x].sign = "="))
    BY DEF IInv, OpFits
  <1> USE DEF TypeOK, Open, history
  <1>1. ASSUME NEW t \in Taps, NEW o \in Op, SelectTarget(t, o)
        PROVE  op'[x] \in Op /\ (pc'[x] = "told" <=> pc'[x] # "write" /\ op'[x].sign = "=")
    BY <1>0, <1>1 DEF SelectTarget
  <1>2. ASSUME NEW t \in Taps, CommitRoles(t) \/ TellLanguage(t) \/ CommitLanguage(t) \/ Fail(t) \/ SetMenu(t)
        PROVE  op'[x] \in Op /\ (pc'[x] = "told" <=> pc'[x] # "write" /\ op'[x].sign = "=")
    BY <1>0, <1>2 DEF CommitRoles, TellLanguage, CommitLanguage, Fail, SetMenu
  <1>3. CASE UNCHANGED vars
    BY <1>0, <1>3 DEF vars
  <1> QED BY <1>1, <1>2, <1>3 DEF Next

LEMMA AloneNext == IInv /\ [Next]_vars => Alone'
  <1> SUFFICES ASSUME IInv, [Next]_vars, ~overlap',
                      NEW x \in Taps, NEW y \in Taps, x # y, Open(x)', Open(y)'
               PROVE  op'[x].user # op'[y].user
    BY DEF Alone, Open
  <1>0. TypeOK /\ (~overlap /\ Open(x) /\ Open(y) => op[x].user # op[y].user)
    BY DEF IInv, Alone
  <1> USE DEF TypeOK, history
  <1>1. ASSUME NEW t \in Taps, NEW o \in Op, SelectTarget(t, o) PROVE op'[x].user # op'[y].user
    <2>1. ~overlap /\ \A s \in Taps \ {t} : Open(s) => op[s].user # o.user
      BY <1>1 DEF SelectTarget
    <2>2. \A s \in Taps \ {t} : op'[s] = op[s] /\ (Open(s)' => Open(s))
      BY <1>0, <1>1 DEF SelectTarget, Open
    <2>3. op'[t] = o
      BY <1>0, <1>1 DEF SelectTarget
    <2> QED BY <1>0, <2>1, <2>2, <2>3
  <1>2. ASSUME NEW t \in Taps, CommitRoles(t) \/ TellLanguage(t) \/ CommitLanguage(t) \/ Fail(t) \/ SetMenu(t)
        PROVE  op'[x].user # op'[y].user
    <2>1. op' = op /\ overlap' = overlap
      BY <1>2 DEF CommitRoles, TellLanguage, CommitLanguage, Fail, SetMenu
    <2>2. \A s \in Taps : Open(s)' => Open(s)
      BY <1>0, <1>2 DEF CommitRoles, TellLanguage, CommitLanguage, Fail, SetMenu, Open
    <2> QED BY <1>0, <2>1, <2>2
  <1>3. CASE UNCHANGED vars
    BY <1>0, <1>3 DEF vars, Open
  <1> QED BY <1>1, <1>2, <1>3 DEF Next

(* Handlers other than t are for other users than t's. *)
LEMMA OthersApart ==
    ASSUME IInv, ~overlap, NEW t \in Taps, Open(t), NEW x \in Taps \ {t}, Open(x)
    PROVE  op[x].user # op[t].user
  BY DEF IInv, Alone

LEMMA KnowingNext == IInv /\ [Next]_vars => Knowing'
  <1> DEFINE Sure(x) == /\ pc[x] \in {"write", "told"} => knows[x] = row[op[x].user]
                        /\ pc[x] = "menu" => knows[x].roles = row[op[x].user].roles
                        /\ pc[x] = "told" => told[op[x].user] = op[x].what
  <1> SUFFICES ASSUME IInv, [Next]_vars, ~overlap', NEW x \in Taps PROVE Sure(x)'
    BY DEF Knowing
  <1>0. TypeOK /\ (~overlap => Sure(x))
    BY DEF IInv, Knowing
  <1> USE DEF TypeOK, history
  <1>1. ASSUME NEW t \in Taps, NEW o \in Op, SelectTarget(t, o) PROVE Sure(x)'
    <2>1. ~overlap
      BY <1>1 DEF SelectTarget
    <2> QED BY <1>0, <1>1, <2>1 DEF SelectTarget
  <1>2. ASSUME NEW t \in Taps, CommitRoles(t) \/ TellLanguage(t) \/ CommitLanguage(t) \/ Fail(t) \/ SetMenu(t)
        PROVE  op' = op /\ ~overlap /\ Open(t)
    BY <1>2 DEF CommitRoles, TellLanguage, CommitLanguage, Fail, SetMenu, Open
  <1>3. ASSUME NEW t \in Taps, CommitRoles(t) PROVE Sure(x)'
    <2>0. ~overlap /\ op' = op /\ Open(t) /\ op[t].user \in People
      BY <1>2, <1>3, Handler
    <2>1. CASE x = t
      <3>1. row'[op[t].user] = knows'[t]
        BY <1>0, <1>3, <2>0, <2>1, WritesApplied DEF CommitRoles
      <3>2. pc'[t] = "menu"
        BY <1>0, <1>3 DEF CommitRoles
      <3> QED BY <2>0, <2>1, <3>1, <3>2
    <2>2. CASE x # t
      <3>1. pc'[x] = pc[x] /\ knows'[x] = knows[x] /\ told' = told
        BY <1>0, <1>3, <2>2 DEF CommitRoles
      <3>2. Open(x) => row'[op[x].user] = row[op[x].user]
        <4>1. Open(x) => op[x].user # op[t].user /\ op[x].user \in People
          BY <2>0, <2>2, OthersApart, Handler
        <4> QED BY <1>0, <1>3, <4>1 DEF CommitRoles
      <3> QED BY <1>0, <2>0, <3>1, <3>2 DEF Open
    <2> QED BY <2>1, <2>2
  <1>4. ASSUME NEW t \in Taps, TellLanguage(t) PROVE Sure(x)'
    <2>0. ~overlap /\ op' = op /\ Open(t) /\ op[t].user \in People
      BY <1>2, <1>4, Handler
    <2>1. CASE x = t
      BY <1>0, <1>4, <2>0, <2>1 DEF TellLanguage
    <2>2. CASE x # t
      <3>1. pc'[x] = pc[x] /\ UNCHANGED <<knows, row>>
        BY <1>0, <1>4, <2>2 DEF TellLanguage
      <3>2. Open(x) => told'[op[x].user] = told[op[x].user]
        <4>1. Open(x) => op[x].user # op[t].user /\ op[x].user \in People
          BY <2>0, <2>2, OthersApart, Handler
        <4> QED BY <1>0, <1>4, <4>1 DEF TellLanguage
      <3> QED BY <1>0, <2>0, <3>1, <3>2 DEF Open
    <2> QED BY <2>1, <2>2
  <1>5. ASSUME NEW t \in Taps, CommitLanguage(t) PROVE Sure(x)'
    <2>0. ~overlap /\ op' = op /\ Open(t) /\ op[t].user \in People
      BY <1>2, <1>5, Handler
    <2>1. CASE x = t
      BY <1>0, <1>5, <2>1 DEF CommitLanguage
    <2>2. CASE x # t
      <3>1. pc'[x] = pc[x] /\ UNCHANGED <<knows, told>>
        BY <1>0, <1>5, <2>2 DEF CommitLanguage
      <3>2. Open(x) => row'[op[x].user] = row[op[x].user]
        <4>1. Open(x) => op[x].user # op[t].user /\ op[x].user \in People
          BY <2>0, <2>2, OthersApart, Handler
        <4> QED BY <1>0, <1>5, <4>1 DEF CommitLanguage
      <3> QED BY <1>0, <2>0, <3>1, <3>2 DEF Open
    <2> QED BY <2>1, <2>2
  <1>6. ASSUME NEW t \in Taps, Fail(t) \/ SetMenu(t) PROVE Sure(x)'
    <2>1. ~overlap /\ UNCHANGED <<op, knows, row, told>> /\ (pc'[x] = "done" \/ pc'[x] = pc[x])
      BY <1>0, <1>2, <1>6 DEF Fail, SetMenu
    <2> QED BY <1>0, <2>1
  <1>7. CASE UNCHANGED vars
    BY <1>0, <1>7 DEF vars
  <1> QED BY <1>1, <1>3, <1>4, <1>5, <1>6, <1>7 DEF Next

LEMMA JournalNext == IInv /\ [Next]_vars => JournalSerial'
  <1> SUFFICES ASSUME IInv, [Next]_vars, ~overlap', NEW u \in People
               PROVE  row'[u].roles = Journalled(u)'
    BY DEF JournalSerial
  <1>0. TypeOK /\ (~overlap => row[u].roles = Journalled(u))
    BY DEF IInv, JournalSerial
  <1>s. ASSUME UNCHANGED audit PROVE Journalled(u)' = Journalled(u)
    BY <1>s DEF Journalled
  <1> USE DEF TypeOK, history
  <1>1. ASSUME NEW t \in Taps, NEW o \in Op, SelectTarget(t, o) PROVE row'[u].roles = Journalled(u)'
    BY <1>0, <1>s, <1>1 DEF SelectTarget
  <1>2. ASSUME NEW t \in Taps, CommitRoles(t) PROVE row'[u].roles = Journalled(u)'
    <2>1. /\ ~overlap /\ op[t] \in Op /\ op[t].user \in People /\ op[t].sign # "="
          /\ row[op[t].user] \in Row
      BY <1>2, Handler DEF CommitRoles, Open
    <2>2. row' = [row EXCEPT ![op[t].user] = Applied(op[t], row[op[t].user])]
      BY <1>2, <2>1, WritesApplied DEF CommitRoles
    <2>3. Journalled(u)' = IF op[t].user # u THEN Journalled(u)
                           ELSE IF op[t].sign = "+" THEN Journalled(u) \cup {op[t].what}
                           ELSE Journalled(u) \ {op[t].what}
      BY <1>0, <1>2, <2>1, JournalledGrows DEF CommitRoles, Audited
    <2>4. CASE op[t].user # u
      BY <1>0, <2>1, <2>2, <2>3, <2>4
    <2>5. CASE op[t].user = u
      <3>1. row'[u] = Applied(op[t], row[u])
        BY <1>0, <2>2, <2>5
      <3>2. row[u] \in Row /\ row[u].roles = Journalled(u)
        BY <1>0, <2>1, <2>5
      <3>3. CASE op[t].sign = "+"
        BY <2>1, <2>3, <2>5, <3>1, <3>2, <3>3, AppliedFacts
      <3>4. CASE op[t].sign = "-"
        BY <2>1, <2>3, <2>5, <3>1, <3>2, <3>4, AppliedFacts
      <3> QED BY <2>1, <3>3, <3>4, AppliedFacts
    <2> QED BY <2>4, <2>5
  <1>3. ASSUME NEW t \in Taps, CommitLanguage(t) PROVE row'[u].roles = Journalled(u)'
    <2>1. /\ ~overlap /\ op[t] \in Op /\ op[t].user \in People /\ op[t].sign = "="
          /\ row[op[t].user] \in Row
      BY <1>3, Handler DEF CommitLanguage, Open, IInv, OpFits
    <2>2. row' = [row EXCEPT ![op[t].user] = Applied(op[t], row[op[t].user])]
      BY <1>3, <2>1, WritesApplied DEF CommitLanguage
    <2>3. row'[u].roles = row[u].roles
      BY <1>0, <2>1, <2>2, AppliedFacts
    <2> QED BY <1>0, <1>s, <1>3, <2>1, <2>3 DEF CommitLanguage
  <1>4. ASSUME NEW t \in Taps, TellLanguage(t) \/ Fail(t) \/ SetMenu(t) PROVE row'[u].roles = Journalled(u)'
    BY <1>0, <1>s, <1>4 DEF TellLanguage, Fail, SetMenu
  <1>5. CASE UNCHANGED vars
    BY <1>0, <1>s, <1>5 DEF vars
  <1> QED BY <1>1, <1>2, <1>3, <1>4, <1>5 DEF Next

LEMMA ShowingNext == IInv /\ [Next]_vars => Showing'
  <1> DEFINE Listed(u) == menu[u].roles = row[u].roles \/ \E t \in Taps : pc[t] = "menu" /\ op[t].user = u
             Told(u) == told[u] = row[u].language \/ \E t \in Taps : pc[t] = "told" /\ op[t].user = u
  <1> SUFFICES ASSUME IInv, [Next]_vars, ~overlap', ~missed', NEW u \in People
               PROVE  Listed(u)' /\ Told(u)'
    BY DEF Showing
  <1>0. TypeOK /\ (~overlap /\ ~missed => Listed(u) /\ Told(u))
    BY DEF IInv, Showing
  <1> USE DEF TypeOK, history
  <1>1. ASSUME NEW t \in Taps, NEW o \in Op, SelectTarget(t, o) PROVE Listed(u)' /\ Told(u)'
    <2>1. ~overlap /\ ~missed /\ UNCHANGED <<row, menu, told>>
      BY <1>1 DEF SelectTarget
    <2>2. \A s \in Taps : pc[s] \in {"menu", "told"} => pc'[s] = pc[s] /\ op'[s] = op[s]
      BY <1>0, <1>1 DEF SelectTarget
    <2> QED BY <1>0, <2>1, <2>2
  <1>2. ASSUME NEW t \in Taps, CommitRoles(t) PROVE Listed(u)' /\ Told(u)'
    <2>1. /\ ~overlap /\ ~missed /\ UNCHANGED <<menu, told, op>>
          /\ op[t] \in Op /\ op[t].user \in People /\ op[t].sign # "=" /\ row[op[t].user] \in Row
      BY <1>2, Handler DEF CommitRoles, Open
    <2>2. \A s \in Taps : pc[s] \in {"menu", "told"} => pc'[s] = pc[s]
      BY <1>0, <1>2 DEF CommitRoles
    <2>3. pc'[t] = "menu"
      BY <1>0, <1>2 DEF CommitRoles
    <2>4. row' = [row EXCEPT ![op[t].user] = Applied(op[t], row[op[t].user])]
      BY <1>2, <2>1, WritesApplied DEF CommitRoles
    <2>5. row'[u].language = row[u].language
      BY <1>0, <2>1, <2>4, AppliedFacts
    <2>6. op[t].user # u => row'[u] = row[u]
      BY <1>0, <2>4
    <2>7. Listed(u)'
      BY <1>0, <2>1, <2>2, <2>3, <2>6
    <2>8. Told(u)'
      BY <1>0, <2>1, <2>2, <2>5
    <2> QED BY <2>7, <2>8
  <1>3. ASSUME NEW t \in Taps, TellLanguage(t) PROVE Listed(u)' /\ Told(u)'
    <2>1. ~overlap /\ ~missed /\ UNCHANGED <<row, menu, op>>
      BY <1>3 DEF TellLanguage
    <2>2. \A s \in Taps : pc[s] \in {"menu", "told"} => pc'[s] = pc[s]
      BY <1>0, <1>3 DEF TellLanguage
    <2>3. pc'[t] = "told" /\ (op[t].user # u => told'[u] = told[u])
      BY <1>0, <1>3 DEF TellLanguage
    <2> QED BY <1>0, <2>1, <2>2, <2>3
  <1>4. ASSUME NEW t \in Taps, CommitLanguage(t) PROVE Listed(u)' /\ Told(u)'
    <2>1. /\ ~overlap /\ ~missed /\ UNCHANGED <<menu, told, op>> /\ pc[t] = "told"
          /\ op[t] \in Op /\ op[t].user \in People /\ op[t].sign = "=" /\ row[op[t].user] \in Row
      BY <1>4, Handler DEF CommitLanguage, Open, IInv, OpFits
    <2>2. \A s \in Taps : s # t => pc'[s] = pc[s]
      BY <1>0, <1>4 DEF CommitLanguage
    <2>4. row' = [row EXCEPT ![op[t].user] = Applied(op[t], row[op[t].user])]
      BY <1>4, <2>1, WritesApplied DEF CommitLanguage
    <2>5. row'[u].roles = row[u].roles
      BY <1>0, <2>1, <2>4, AppliedFacts
    <2>6. op[t].user # u => row'[u] = row[u]
      BY <1>0, <2>4
    <2>7. Listed(u)'
      BY <1>0, <2>1, <2>2, <2>5
    <2>8. CASE op[t].user = u
      <3>1. row'[u].language = op[t].what
        BY <1>0, <2>1, <2>4, <2>8, AppliedFacts
      <3>2. told[u] = op[t].what
        BY <2>1, <2>8 DEF IInv, Knowing
      <3> QED BY <2>1, <2>7, <3>1, <3>2
    <2>9. CASE op[t].user # u
      BY <1>0, <2>1, <2>2, <2>6, <2>7, <2>9
    <2> QED BY <2>8, <2>9
  <1>5. ASSUME NEW t \in Taps, Fail(t) PROVE Listed(u)' /\ Told(u)'
    <2>1. ~overlap /\ ~missed /\ UNCHANGED <<row, menu, told, op>> /\ pc[t] = "write"
      BY <1>5 DEF Fail
    <2>2. \A s \in Taps : s # t => pc'[s] = pc[s]
      BY <1>0, <1>5 DEF Fail
    <2> QED BY <1>0, <2>1, <2>2
  <1>6. ASSUME NEW t \in Taps, SetMenu(t) PROVE Listed(u)' /\ Told(u)'
    <2>1. /\ ~overlap /\ ~missed /\ UNCHANGED <<row, told, op>> /\ pc[t] = "menu"
          /\ op[t].user \in People
      BY <1>6, Handler DEF SetMenu, Open
    <2>2. \A s \in Taps : s # t => pc'[s] = pc[s]
      BY <1>0, <1>6 DEF SetMenu
    <2>3. menu' = [menu EXCEPT ![op[t].user] = MenuOf(t)]
      BY <1>6 DEF SetMenu
    <2>4. Told(u)'
      BY <1>0, <2>1, <2>2
    <2>5. CASE op[t].user = u
      <3>1. knows[t].roles = row[u].roles
        BY <2>1, <2>5 DEF IInv, Knowing
      <3>2. MenuOf(t).roles = row[u].roles
        BY <3>1, BlankRow DEF MenuOf
      <3> QED BY <1>0, <2>1, <2>3, <2>4, <2>5, <3>2
    <2>6. CASE op[t].user # u
      BY <1>0, <2>1, <2>2, <2>3, <2>4, <2>6
    <2> QED BY <2>5, <2>6
  <1>7. CASE UNCHANGED vars
    BY <1>0, <1>7 DEF vars
  <1> QED BY <1>1, <1>2, <1>3, <1>4, <1>5, <1>6, <1>7 DEF Next

LEMMA IInvNext == IInv /\ [Next]_vars => IInv'
  BY TypeNext, OpFitsNext, AloneNext, KnowingNext, JournalNext, ShowingNext DEF IInv

----------------------------------------------------------------------------

\* The handlers of role and language buttons keep the inductive invariant.
THEOREM Invariance == Spec => []IInv
  BY IInvInit, IInvNext, PTL DEF Spec

\* Every variable keeps its type.
THEOREM TypeCorrectness == Spec => []TypeOK
  <1>1. IInv => TypeOK
    BY DEF IInv
  <1> QED BY Invariance, <1>1, PTL

\* Whatever fails, the journal tells a user's roles as long as no two of his
\* handlers were open at once (on_assign_type, on_revoke: one transaction).
THEOREM JournalTellsRoles == Spec => []JournalSerial
  <1>1. IInv => JournalSerial
    BY DEF IInv
  <1> QED BY Invariance, <1>1, PTL

\* Once his handlers are done, and none overlapped or failed, a user's menu
\* shows his roles and the bot speaks the language it told him
\* (set_personal_commands, on_language_chosen).
THEOREM UserSeesTheRow == Spec => []ShownSerial
  <1>1. IInv => ShownSerial
    BY DEF IInv, Showing, ShownSerial, Quiet, Open
  <1> QED BY Invariance, <1>1, PTL

\* Overlapping or not, a change of roles commits with the entry that names it
\* and changes nothing else (the UPDATE writes one attribute).
THEOREM EveryChangeIsJournalled == Spec => ChangesJournalled
  <1> DEFINE Journals == \A u \in People : row'[u].roles # row[u].roles =>
                /\ Len(audit') = Len(audit) + 1
                /\ Last(audit').user = u
                /\ row'[u] = Applied(Last(audit'), row[u])
  <1>1. IInv /\ [Next]_vars => [Journals]_vars
    <2> SUFFICES ASSUME IInv, Next PROVE Journals
      BY DEF Journals
    <2> SUFFICES ASSUME NEW u \in People, row'[u].roles # row[u].roles
                 PROVE  /\ Len(audit') = Len(audit) + 1
                        /\ Last(audit').user = u
                        /\ row'[u] = Applied(Last(audit'), row[u])
      OBVIOUS
    <2>0. TypeOK
      BY DEF IInv
    <2>1. ASSUME NEW t \in Taps, CommitLanguage(t) PROVE FALSE
      <3>1. /\ op[t] \in Op /\ op[t].user \in People /\ op[t].sign = "="
            /\ row[op[t].user] \in Row
        BY <2>1, Handler DEF CommitLanguage, Open, IInv, OpFits
      <3>2. Written(t).roles = row[op[t].user].roles
        BY <3>1, AppliedFacts DEF Written
      <3> QED BY <2>0, <2>1, <3>1, <3>2 DEF CommitLanguage, TypeOK
    <2>2. PICK t \in Taps : CommitRoles(t)
      BY <2>1 DEF Next, SelectTarget, TellLanguage, Fail, SetMenu
    <2>3. op[t] \in Op /\ op[t].user \in People
      BY <2>2, Handler DEF CommitRoles, Open
    <2>4. Len(audit') = Len(audit) + 1 /\ Last(audit') = op[t]
      BY <2>0, <2>2, <2>3, JournalGrows DEF CommitRoles, Audited, TypeOK
    <2>5. row' = [row EXCEPT ![op[t].user] = Written(t)]
      BY <2>2 DEF CommitRoles
    <2>6. op[t].user = u /\ row'[u] = Written(t)
      BY <2>0, <2>5 DEF TypeOK
    <2>7. Written(t) = Applied(op[t], row[u])
      BY <2>6 DEF Written
    <2> QED BY <2>4, <2>6, <2>7
  <1> QED BY Invariance, <1>1, PTL DEF Spec, ChangesJournalled

-----------------------------------------------------------------------------
(* Registry: lists, details and actions.                                   *)

\* A tap handled alone is the only one.
Lone ==
    \A h \in Slots : task[h].pc # "idle" /\ task[h].alone =>
        \A g \in Slots \ {h} : task[g].pc = "idle"

\* What a task shows was checked against the rights it read.
RightsFit(t) ==
    /\ t.pc \in {"count", "select", "list", "find"} => t.cb.type \in t.rights
    /\ t.pc \in {"act", "refresh", "detail"} => t.sub \in present /\ TypeOf[t.sub] \in t.rights

\* A row the task acted on has the status it gave it or a later one.
ActionFits(t) ==
    /\ t.pc \in {"count", "select", "list", "find", "act"} => t.own = "none"
    /\ t.pc = "act" => t.act # "none"
    /\ t.pc = "refresh" => t.own \in {"in_progress", "closed"} /\ status[t.sub] \in {t.own, "closed"}
    /\ t.pc = "detail" /\ t.own # "none" => t.read \in {t.own, "closed"}

\* The submissions ahead of i in the list that cb asks for.
Before(S, cb, i) == Cardinality(Ahead(S, cb.order, i))

\* A list holds the page asked for of what was there, and nothing else.
ListFits(t) ==
    /\ t.pc = "select" /\ ~t.raced => t.total = Cardinality(Matching(t.cb))
    /\ t.pc = "list" =>
          /\ t.there \subseteq present /\ \A i \in t.there : TypeOf[i] = t.cb.type
          /\ ToSet(t.items) \subseteq t.there
          /\ \A i \in t.there :
                \/ i \in ToSet(t.items)
                \/ Before(t.there, t.cb, i) < t.cb.page * PerPage
                \/ Before(t.there, t.cb, i) >= (t.cb.page + 1) * PerPage
          /\ ~t.raced => t.total = Cardinality(t.there)
          /\ ~t.raced /\ t.items = <<>> => t.there = {}
          /\ t.items # <<>> => t.cb.page * PerPage < Cardinality(t.there)

\* Who was there when the pass began and has not been seen comes after the
\* page on the screen, and another page is offered.
PassFits ==
    pass.on =>
        /\ screen.kind = "list" /\ screen.cb.status = "all"
        /\ pass.start \subseteq Matching(screen.cb)
        /\ \A i \in pass.start \ pass.seen :
              Before(Matching(screen.cb), screen.cb, i) >= (screen.cb.page + 1) * PerPage
        /\ ~(pass.start \subseteq pass.seen) => screen.cb.page < screen.pages - 1

\* So it is for the next page while it is being fetched.
Follows(t) == screen.kind = "list" /\ t.cb = [screen.cb EXCEPT !.page = @ + 1]

NextFits(t) ==
    t.pc = "list" /\ t.alone /\ pass.on /\ Follows(t) =>
        /\ pass.start \subseteq t.there
        /\ \A i \in pass.start \ pass.seen : Before(t.there, t.cb, i) >= t.cb.page * PerPage

TaskFits(t) == RightsFit(t) /\ ActionFits(t) /\ ListFits(t)

TasksFit == \A h \in Slots : TaskFits(task[h]) /\ NextFits(task[h])

RegistryInv == RegistryTypeOK /\ Lone /\ TasksFit /\ PassFits

(* Adding to a finite set adds to those ahead. *)
LEMMA AheadGrows ==
    ASSUME NEW S, NEW T, S \subseteq T, IsFiniteSet(T), NEW order, NEW i
    PROVE  /\ IsFiniteSet(Ahead(T, order, i))
           /\ Cardinality(Ahead(S, order, i)) \in Nat /\ Cardinality(Ahead(T, order, i)) \in Nat
           /\ Cardinality(Ahead(S, order, i)) <= Cardinality(Ahead(T, order, i))
  <1>1. Ahead(S, order, i) \subseteq Ahead(T, order, i) /\ Ahead(T, order, i) \subseteq T
    BY DEF Ahead
  <1>2. IsFiniteSet(Ahead(T, order, i))
    BY <1>1, FS_Subset
  <1>3. IsFiniteSet(Ahead(S, order, i)) /\ Cardinality(Ahead(S, order, i)) <= Cardinality(Ahead(T, order, i))
    BY <1>1, <1>2, FS_Subset
  <1> QED BY <1>2, <1>3, FS_CardinalityType

(* No two submissions have as many ahead, and none has all of them. *)
LEMMA PlaceFacts ==
    ASSUME NEW S, S \subseteq Nat, IsFiniteSet(S), NEW order \in Orders
    PROVE  /\ Cardinality(S) \in Nat
           /\ \A i \in S : Cardinality(Ahead(S, order, i)) \in 0 .. Cardinality(S) - 1
           /\ \A i, j \in S : Cardinality(Ahead(S, order, i)) = Cardinality(Ahead(S, order, j))
                                  => i = j
  <1>1. Cardinality(S) \in Nat
    BY FS_CardinalityType
  <1>2. ASSUME NEW i \in S PROVE Cardinality(Ahead(S, order, i)) \in 0 .. Cardinality(S) - 1
    <2>1. Ahead(S, order, i) \subseteq S \ {i}
      BY DEF Ahead, Orders
    <2>2. IsFiniteSet(S \ {i}) /\ Cardinality(S \ {i}) = Cardinality(S) - 1
      BY FS_RemoveElement
    <2>3. IsFiniteSet(Ahead(S, order, i)) /\ Cardinality(Ahead(S, order, i)) <= Cardinality(S) - 1
      BY <2>1, <2>2, FS_Subset
    <2> QED BY <1>1, <2>3, FS_CardinalityType
  <1>3. ASSUME NEW i \in S, NEW j \in S, i \in Ahead(S, order, j)
        PROVE  Cardinality(Ahead(S, order, i)) < Cardinality(Ahead(S, order, j))
    <2>1. Ahead(S, order, i) \subseteq Ahead(S, order, j) \ {i}
      <3> SUFFICES ASSUME NEW k \in Ahead(S, order, i)
                   PROVE  k \in Ahead(S, order, j) /\ k # i
        OBVIOUS
      <3>1. i \in Nat /\ j \in Nat /\ k \in Nat /\ k \in S
        BY DEF Ahead
      <3>2. CASE order = "asc"
        BY <1>3, <3>1, <3>2 DEF Ahead
      <3>3. CASE order = "desc"
        BY <1>3, <3>1, <3>3 DEF Ahead
      <3> QED BY <3>2, <3>3 DEF Orders
    <2>2. Ahead(S, order, j) \subseteq S
      BY DEF Ahead
    <2>3. IsFiniteSet(Ahead(S, order, j))
      BY <2>2, FS_Subset
    <2>4. /\ IsFiniteSet(Ahead(S, order, j) \ {i})
          /\ Cardinality(Ahead(S, order, j) \ {i}) = Cardinality(Ahead(S, order, j)) - 1
      BY <1>3, <2>3, FS_RemoveElement
    <2>5. Cardinality(Ahead(S, order, i)) <= Cardinality(Ahead(S, order, j)) - 1
      BY <2>1, <2>4, FS_Subset
    <2> QED BY <1>2, <2>5
  <1>4. ASSUME NEW i \in S, NEW j \in S, i # j
        PROVE  i \in Ahead(S, order, j) \/ j \in Ahead(S, order, i)
    BY <1>4 DEF Ahead, Orders
  <1>5. ASSUME NEW i \in S, NEW j \in S, Cardinality(Ahead(S, order, i)) = Cardinality(Ahead(S, order, j))
        PROVE  i = j
    BY <1>2, <1>3, <1>4, <1>5
  <1> QED BY <1>1, <1>2, <1>5

(* Every place is taken. *)
LEMMA PlacesTaken ==
    ASSUME NEW S, S \subseteq Nat, IsFiniteSet(S), NEW order \in Orders,
           NEW m \in 0 .. Cardinality(S) - 1
    PROVE  \E i \in S : Cardinality(Ahead(S, order, i)) = m
  <1> SUFFICES ASSUME \A i \in S : Cardinality(Ahead(S, order, i)) # m PROVE FALSE
    OBVIOUS
  <1> DEFINE T == (0 .. Cardinality(S) - 1) \ {m}
             f == [i \in S |-> Cardinality(Ahead(S, order, i))]
  <1>1. Cardinality(S) \in Nat
    BY FS_CardinalityType
  <1>2. IsFiniteSet(0 .. Cardinality(S) - 1) /\ Cardinality(0 .. Cardinality(S) - 1) = Cardinality(S)
    BY <1>1, FS_Interval
  <1>3. IsFiniteSet(T) /\ Cardinality(T) = Cardinality(S) - 1
    BY <1>2, FS_RemoveElement
  <1>4. f \in [S -> T]
    BY PlaceFacts
  <1>5. \E i, j \in S : i # j /\ f[i] = f[j]
    <2>1. Cardinality(T) < Cardinality(S)
      BY <1>1, <1>3
    <2> HIDE DEF T, f
    <2> QED BY <2>1, <1>3, <1>4, FS_PigeonHole
  <1> QED BY <1>5, PlaceFacts

(* ORDER BY lists each row of the set at its place. *)
LEMMA SortedFacts ==
    ASSUME NEW S, S \subseteq Nat, IsFiniteSet(S), NEW order \in Orders
    PROVE  LET s == Sorted(S, order)
           IN  /\ s \in Seq(S) /\ Len(s) = Cardinality(S) /\ Cardinality(S) \in Nat
               /\ \A i \in S : s[Cardinality(Ahead(S, order, i)) + 1] = i
  <1>1. Cardinality(S) \in Nat
    BY FS_CardinalityType
  <1>2. PICK s : s = Sorted(S, order)
    OBVIOUS
  <1>3. s = [n \in 1 .. Cardinality(S) |-> CHOOSE i \in S : Cardinality(Ahead(S, order, i)) = n - 1]
    BY <1>2 DEF Sorted
  <1>4. ASSUME NEW n \in 1 .. Cardinality(S)
        PROVE  s[n] \in S /\ Cardinality(Ahead(S, order, s[n])) = n - 1
    <2>1. \E i \in S : Cardinality(Ahead(S, order, i)) = n - 1
      <3>1. n - 1 \in 0 .. Cardinality(S) - 1
        BY <1>1
      <3> QED BY <3>1, PlacesTaken
    <2>2. s[n] = CHOOSE i \in S : Cardinality(Ahead(S, order, i)) = n - 1
      BY <1>3
    <2> QED BY <2>1, <2>2
  <1>5. s \in [1 .. Cardinality(S) -> S]
    BY <1>3, <1>4
  <1>6. s \in Seq(S) /\ Len(s) = Cardinality(S)
    BY <1>1, <1>5, IsASeq
  <1>7. ASSUME NEW i \in S PROVE s[Cardinality(Ahead(S, order, i)) + 1] = i
    <2>1. PICK n : n = Cardinality(Ahead(S, order, i)) + 1
      OBVIOUS
    <2>2. Cardinality(Ahead(S, order, i)) \in 0 .. Cardinality(S) - 1
      BY PlaceFacts
    <2>3. n \in 1 .. Cardinality(S) /\ Cardinality(Ahead(S, order, i)) = n - 1
      BY <1>1, <2>1, <2>2
    <2>4. s[n] \in S /\ Cardinality(Ahead(S, order, s[n])) = n - 1
      BY <1>4, <2>3
    <2>5. s[n] = i
      BY <2>3, <2>4, PlaceFacts
    <2> QED BY <2>1, <2>5
  <1> QED BY <1>1, <1>2, <1>6, <1>7

(* The number of pages. *)
LEMMA PagesFacts ==
    ASSUME NEW total \in Nat, NEW page \in Nat, page * PerPage < total
    PROVE  Pages(total) \in Nat \ {0} /\ page < Pages(total)
  <1>1. PerPage \in Nat \ {0}
    BY RegistryAssumption
  <1>2. PICK q, a : q = Pages(total) /\ a = total + PerPage - 1
    OBVIOUS
  <1>3. total # 0 /\ q = a \div PerPage /\ a \in Nat /\ page * PerPage \in Nat
    BY <1>1, <1>2 DEF Pages
  <1>4. q \in Nat /\ a < q * PerPage + PerPage
    BY <1>1, <1>3
  <1>5. (page + 1) * PerPage = page * PerPage + PerPage
    BY <1>1
  <1>6. CASE q <= page
    <2>1. q * PerPage <= page * PerPage
      BY <1>1, <1>4, <1>6
    <2> QED BY <1>1, <1>2, <1>3, <1>4, <2>1
  <1> QED BY <1>2, <1>4, <1>6

(* OFFSET and LIMIT: the rows at the places of the page. *)
LEMMA PageFacts ==
    ASSUME NEW S, NEW s \in Seq(S), NEW page \in Nat
    PROVE  LET r == PageOf(s, page)
           IN  /\ r \in Seq(S)
               /\ r = <<>> => Len(s) <= page * PerPage
               /\ r # <<>> => page * PerPage < Len(s)
               /\ \A n \in 1 .. Len(s) :
                     page * PerPage < n /\ n <= (page + 1) * PerPage => n - page * PerPage \in DOMAIN r
               /\ \A k \in DOMAIN r : r[k] = s[page * PerPage + k]
  <1>1. PerPage \in Nat /\ PerPage > 0 /\ page * PerPage \in Nat
        /\ (page + 1) * PerPage = page * PerPage + PerPage
    BY RegistryAssumption
  <1>2. PICK len, first, r : len = Len(s) /\ first = page * PerPage /\ r = PageOf(s, page)
    OBVIOUS
  <1>3. len \in Nat /\ DOMAIN s = 1 .. len /\ first \in Nat
    BY <1>1, <1>2, LenProperties
  <1>4. PICK size : size = IF len <= first THEN 0
                           ELSE IF len - first < PerPage THEN len - first ELSE PerPage
    OBVIOUS
  <1>5. r = [k \in 1 .. size |-> s[first + k]]
    BY <1>2, <1>4 DEF PageOf
  <1>6. size \in Nat
    BY <1>1, <1>3, <1>4
  <1>7. ASSUME NEW k \in 1 .. size PROVE first + k \in 1 .. len
    BY <1>1, <1>3, <1>4
  <1>8. r \in [1 .. size -> S]
    BY <1>2, <1>3, <1>5, <1>7, ElementOfSeq
  <1>9. r \in Seq(S) /\ Len(r) = size /\ DOMAIN r = 1 .. size
    BY <1>6, <1>8, IsASeq
  <1>10. (r = <<>>) = (size = 0)
    BY <1>6, <1>9, EmptySeq
  <1>11. ASSUME NEW n \in 1 .. len, first < n, n <= first + PerPage
         PROVE  n - first \in DOMAIN r
    BY <1>1, <1>3, <1>4, <1>9, <1>11
  <1>12. \A n \in 1 .. Len(s) : first < n /\ n <= (page + 1) * PerPage => n - first \in DOMAIN r
    BY <1>1, <1>2, <1>11
  <1>13. \A k \in DOMAIN r : r[k] = s[first + k]
    BY <1>5, <1>9
  <1>14. (r = <<>> => len <= first) /\ (r # <<>> => first < len)
    BY <1>1, <1>3, <1>4, <1>10
  <1> QED BY <1>2, <1>9, <1>12, <1>13, <1>14

LEMMA SelectedPage ==
    ASSUME NEW S, S \subseteq Nat, IsFiniteSet(S), NEW order \in Orders, NEW page \in Nat
    PROVE  LET r == PageOf(Sorted(S, order), page)
           IN  /\ r \in Seq(S) /\ ToSet(r) \subseteq S /\ Cardinality(S) \in Nat
               /\ r = <<>> => Cardinality(S) <= page * PerPage
               /\ r # <<>> => page * PerPage < Cardinality(S)
               /\ \A i \in S :
                     \/ i \in ToSet(r)
                     \/ Cardinality(Ahead(S, order, i)) < page * PerPage
                     \/ Cardinality(Ahead(S, order, i)) >= (page + 1) * PerPage
  <1>1. PICK s, r : s = Sorted(S, order) /\ r = PageOf(s, page)
    OBVIOUS
  <1>2. /\ s \in Seq(S) /\ Len(s) = Cardinality(S) /\ Cardinality(S) \in Nat
        /\ \A i \in S : s[Cardinality(Ahead(S, order, i)) + 1] = i
    BY <1>1, SortedFacts
  <1>3. /\ r \in Seq(S)
        /\ r = <<>> => Len(s) <= page * PerPage
        /\ r # <<>> => page * PerPage < Len(s)
        /\ \A n \in 1 .. Len(s) :
              page * PerPage < n /\ n <= (page + 1) * PerPage => n - page * PerPage \in DOMAIN r
        /\ \A k \in DOMAIN r : r[k] = s[page * PerPage + k]
    <2>1. s \in Seq(S) /\ r = PageOf(s, page)
      BY <1>1, <1>2
    <2> QED BY <2>1, PageFacts
  <1>4. PerPage \in Nat /\ page * PerPage \in Nat /\ (page + 1) * PerPage \in Nat
    BY RegistryAssumption
  <1>5. ToSet(r) \subseteq S
    BY <1>3, LenProperties, ElementOfSeq DEF ToSet
  <1>6. ASSUME NEW i \in S, Cardinality(Ahead(S, order, i)) >= page * PerPage,
               Cardinality(Ahead(S, order, i)) < (page + 1) * PerPage
        PROVE  i \in ToSet(r)
    <2>1. PICK n : n = Cardinality(Ahead(S, order, i)) + 1
      OBVIOUS
    <2>2. Cardinality(Ahead(S, order, i)) \in 0 .. Cardinality(S) - 1
      BY PlaceFacts
    <2>3. n \in 1 .. Len(s) /\ page * PerPage < n /\ n <= (page + 1) * PerPage /\ s[n] = i
      BY <1>2, <1>4, <1>6, <2>1, <2>2
    <2>4. n - page * PerPage \in DOMAIN r /\ page * PerPage + (n - page * PerPage) = n
      BY <1>3, <1>4, <2>3
    <2>5. r[n - page * PerPage] = i
      BY <1>3, <2>3, <2>4
    <2> QED BY <2>4, <2>5 DEF ToSet
  <1>7. ASSUME NEW i \in S
        PROVE  \/ i \in ToSet(r)
               \/ Cardinality(Ahead(S, order, i)) < page * PerPage
               \/ Cardinality(Ahead(S, order, i)) >= (page + 1) * PerPage
    <2>1. Cardinality(Ahead(S, order, i)) \in 0 .. Cardinality(S) - 1
      BY PlaceFacts
    <2> QED BY <1>2, <1>4, <1>6, <2>1
  <1> QED BY <1>1, <1>2, <1>3, <1>5, <1>7

-----------------------------------------------------------------------------

LEMMA SubsFinite ==
    ASSUME NEW S, S \subseteq Subs
    PROVE  S \subseteq Nat /\ IsFiniteSet(S) /\ Cardinality(S) \in Nat
  <1>1. IsFiniteSet(S) /\ S \subseteq Nat
    BY RegistryAssumption, FS_Subset
  <1> QED BY <1>1, FS_CardinalityType

LEMMA MatchingFacts ==
    ASSUME present \subseteq Subs, NEW cb
    PROVE  /\ Matching(cb) \subseteq present
           /\ \A i \in Matching(cb) : TypeOf[i] = cb.type
           /\ Matching(cb) \subseteq Nat /\ IsFiniteSet(Matching(cb))
           /\ Cardinality(Matching(cb)) \in Nat
  <1>1. Matching(cb) \subseteq present /\ \A i \in Matching(cb) : TypeOf[i] = cb.type
    BY DEF Matching
  <1> QED BY <1>1, SubsFinite

(* A task fits whatever is committed, once a list is known to be raced. *)
LEMMA TaskKept ==
    ASSUME NEW t, TaskFits(t), present \subseteq present',
           t.pc = "select" => t.raced \/ UNCHANGED <<present, status>>,
           t.pc = "refresh" => status'[t.sub] \in {status[t.sub], "closed"}
    PROVE  TaskFits(t)'
  <1>1. RightsFit(t)' /\ ActionFits(t)'
    BY DEF TaskFits, RightsFit, ActionFits
  <1>2. t.pc = "select" /\ ~t.raced => t.total = Cardinality(Matching(t.cb)')
    <2> SUFFICES ASSUME t.pc = "select", ~t.raced
                 PROVE  t.total = Cardinality(Matching(t.cb)')
      OBVIOUS
    <2>1. Matching(t.cb)' = Matching(t.cb)
      BY DEF Matching
    <2> QED BY <2>1 DEF TaskFits, ListFits
  <1>3. ListFits(t)'
    BY <1>2 DEF TaskFits, ListFits, Before, Ahead
  <1> QED BY <1>1, <1>3 DEF TaskFits

(* What has not been seen stays behind the page when more is committed. *)
LEMMA PassKept ==
    ASSUME PassFits, screen \in Screen, present \subseteq present', present' \subseteq Subs, UNCHANGED <<screen, pass>>
    PROVE  PassFits'
  <1> SUFFICES ASSUME pass.on PROVE PassFits'
    BY DEF PassFits
  <1>1. /\ screen.kind = "list" /\ screen.cb.status = "all"
        /\ pass.start \subseteq Matching(screen.cb)
        /\ \A i \in pass.start \ pass.seen :
              Before(Matching(screen.cb), screen.cb, i) >= (screen.cb.page + 1) * PerPage
        /\ ~(pass.start \subseteq pass.seen) => screen.cb.page < screen.pages - 1
    BY DEF PassFits
  <1>2. Matching(screen.cb) \subseteq Matching(screen.cb)'
    BY <1>1 DEF Matching
  <1>3. IsFiniteSet(Matching(screen.cb)')
    <2>1. Matching(screen.cb)' \subseteq Subs
      BY DEF Matching
    <2> QED BY <2>1, SubsFinite
  <1>4. ASSUME NEW i \in pass.start \ pass.seen
        PROVE  Before(Matching(screen.cb), screen.cb, i)' >= (screen.cb.page + 1) * PerPage
    <2>1. PICK S, T, cb : S = Matching(screen.cb) /\ T = Matching(screen.cb)' /\ cb = screen.cb
      OBVIOUS
    <2>2. /\ Cardinality(Ahead(S, cb.order, i)) \in Nat /\ Cardinality(Ahead(T, cb.order, i)) \in Nat
          /\ Cardinality(Ahead(S, cb.order, i)) <= Cardinality(Ahead(T, cb.order, i))
      BY <1>2, <1>3, <2>1, AheadGrows
    <2>3. Cardinality(Ahead(S, cb.order, i)) >= (cb.page + 1) * PerPage
      BY <1>1, <2>1 DEF Before
    <2>4. Before(Matching(screen.cb), screen.cb, i)' = Cardinality(Ahead(T, cb.order, i))
      BY <2>1 DEF Before, Ahead
    <2>5. (cb.page + 1) * PerPage \in Nat
      BY <2>1, RegistryAssumption DEF Screen, Payload
    <2> QED BY <2>1, <2>2, <2>3, <2>4, <2>5
  <1> QED BY <1>1, <1>2, <1>4 DEF PassFits

LEMMA IdleFits ==
    /\ Idle \in Task /\ Idle.pc = "idle" /\ Idle.items = <<>> /\ ToSet(Idle.items) = {}
    /\ TaskFits(Idle) /\ NextFits(Idle) /\ TaskFits(Idle)' /\ NextFits(Idle)'
  <1>1. Start("appeal") \in Payload
    BY DEF Start, Payload, Types, Filters, Orders
  <1>2. Idle \in Task
    BY <1>1 DEF Idle, Task, Statuses
  <1>3. Idle.pc = "idle" /\ Idle.items = <<>> /\ Idle.own = "none"
    BY DEF Idle
  <1>4. ToSet(Idle.items) = {}
    BY <1>3 DEF ToSet
  <1> QED BY <1>2, <1>3, <1>4 DEF TaskFits, RightsFit, ActionFits, ListFits, NextFits

(* Being alone or not changes nothing in what a task shows. *)
LEMMA AloneFits ==
    ASSUME NEW t \in Task, NEW b \in BOOLEAN, TaskFits(t)
    PROVE  LET u == [t EXCEPT !.alone = b]
           IN  u \in Task /\ TaskFits(u) /\ u.pc = t.pc /\ u.items = t.items /\ u.alone = b
  <1>1. PICK u : u = [t EXCEPT !.alone = b]
    OBVIOUS
  <1>2. /\ u \in Task /\ u.pc = t.pc /\ u.items = t.items /\ u.alone = b /\ u.cb = t.cb
        /\ u.rights = t.rights /\ u.sub = t.sub /\ u.own = t.own /\ u.act = t.act
        /\ u.read = t.read /\ u.raced = t.raced /\ u.total = t.total /\ u.there = t.there
    BY <1>1 DEF Task
  <1>3. TaskFits(u)
    BY <1>2 DEF TaskFits, RightsFit, ActionFits, ListFits
  <1> QED BY <1>1, <1>2, <1>3

(* A tap that begins takes the others' solitude away. *)
LEMMA BeginFits ==
    ASSUME RegistryInv, NEW h \in Slots, NEW t \in Task, TaskFits(t),
           t.pc \in {"count", "find", "act"}, ToSet(t.items) = {},
           task' = Begin(h, t), clicks' \in Nat,
           UNCHANGED <<present, status, rights, screen, pass>>
    PROVE  RegistryInv'
  <1>1. PICK b \in BOOLEAN : b = \A k \in Slots \ {h} : task[k].pc = "idle"
    OBVIOUS
  <1>2. PICK u : u = [t EXCEPT !.alone = b]
    OBVIOUS
  <1>3. u \in Task /\ TaskFits(u) /\ u.pc = t.pc /\ u.items = t.items /\ u.alone = b
    BY <1>2, AloneFits
  <1>4. /\ task'[h] = u
        /\ \A g \in Slots \ {h} :
              task'[g] = IF task[g].pc = "idle" THEN Idle ELSE [task[g] EXCEPT !.alone = FALSE]
        /\ DOMAIN task' = Slots
    BY <1>1, <1>2 DEF Begin
  <1>5. ASSUME NEW g \in Slots
        PROVE  /\ task[g] \in Task /\ TaskFits(task[g]) /\ ToSet(task[g].items) \subseteq present
    BY DEF RegistryInv, RegistryTypeOK, TasksFit
  <1>6. ASSUME NEW g \in Slots \ {h}
        PROVE  /\ task'[g] \in Task /\ TaskFits(task'[g]) /\ ToSet(task'[g].items) \subseteq present
               /\ task'[g].pc = "idle" \/ task'[g].alone = FALSE
               /\ task[g].pc = "idle" => task'[g].pc = "idle"
    <2>1. CASE task[g].pc = "idle"
      BY <1>4, <2>1, IdleFits
    <2>2. CASE task[g].pc # "idle"
      <3>1. task'[g] = [task[g] EXCEPT !.alone = FALSE]
        BY <1>4, <2>2
      <3>2. task[g] \in Task /\ TaskFits(task[g]) /\ ToSet(task[g].items) \subseteq present
        BY <1>5
      <3>3. /\ task'[g] \in Task /\ TaskFits(task'[g]) /\ task'[g].pc = task[g].pc
            /\ task'[g].items = task[g].items /\ task'[g].alone = FALSE
        BY <3>1, <3>2, AloneFits
      <3> QED BY <2>2, <3>2, <3>3
    <2> QED BY <2>1, <2>2
  <1>7. \A g \in Slots : task'[g] \in Task /\ TaskFits(task'[g]) /\ ToSet(task'[g].items) \subseteq present
    BY <1>3, <1>4, <1>6
  <1>8. task' \in [Slots -> Task]
    BY <1>7 DEF Begin
  <1>9. RegistryTypeOK'
    BY <1>7, <1>8 DEF RegistryInv, RegistryTypeOK
  <1>10. Lone'
    BY <1>1, <1>3, <1>4, <1>6 DEF Lone
  <1>11. ASSUME NEW g \in Slots PROVE TaskFits(task[g])' /\ NextFits(task[g])'
    <2>1. PICK w : w = task'[g]
      OBVIOUS
    <2>2. TaskFits(w)'
      <3>1. TaskFits(w)
        BY <1>7, <2>1
      <3>2. RightsFit(w)' /\ ActionFits(w)'
        BY <3>1 DEF TaskFits, RightsFit, ActionFits
      <3>3. Matching(w.cb)' = Matching(w.cb)
        BY DEF Matching
      <3>4. ListFits(w)'
        BY <3>1, <3>3 DEF TaskFits, ListFits
      <3> QED BY <3>2, <3>4 DEF TaskFits
    <2>3. w.pc # "list" \/ ~w.alone
      BY <1>3, <1>4, <1>6, <2>1
    <2>4. NextFits(w)'
      BY <2>3 DEF NextFits
    <2> QED BY <2>1, <2>2, <2>4
  <1>12. PassFits'
    BY PassKept DEF RegistryInv, RegistryTypeOK
  <1> QED BY <1>9, <1>10, <1>11, <1>12 DEF RegistryInv, TasksFit

(* One task goes on; nothing else changes. *)
LEMMA StepFits ==
    ASSUME RegistryInv, NEW h \in Slots, NEW u \in Task, TaskFits(u), NextFits(u),
           ToSet(u.items) \subseteq present,
           task[h].pc # "idle", u.pc # "idle" => u.alone = task[h].alone,
           task' = [task EXCEPT ![h] = u],
           UNCHANGED <<present, status, rights, screen, clicks, pass>>
    PROVE  RegistryInv'
  <1>1. ASSUME NEW g \in Slots
        PROVE  /\ task[g] \in Task /\ TaskFits(task[g]) /\ NextFits(task[g])
               /\ ToSet(task[g].items) \subseteq present
    BY DEF RegistryInv, RegistryTypeOK, TasksFit
  <1>2. task'[h] = u /\ \A g \in Slots \ {h} : task'[g] = task[g]
    BY DEF RegistryInv, RegistryTypeOK
  <1>3. RegistryTypeOK'
    BY <1>1, <1>2 DEF RegistryInv, RegistryTypeOK
  <1>4. Lone'
    BY <1>2 DEF RegistryInv, Lone
  <1>5. ASSUME NEW g \in Slots PROVE TaskFits(task[g])' /\ NextFits(task[g])'
    <2>1. PICK w : w = task'[g]
      OBVIOUS
    <2>2. TaskFits(w) /\ NextFits(w)
      BY <1>1, <1>2, <2>1
    <2>3. TaskFits(w)' /\ NextFits(w)'
      BY <2>2 DEF TaskFits, RightsFit, ActionFits, ListFits, Matching, NextFits, Follows
    <2> QED BY <2>1, <2>3
  <1>6. PassFits'
    BY PassKept DEF RegistryInv, RegistryTypeOK
  <1> QED BY <1>3, <1>4, <1>5, <1>6 DEF RegistryInv, TasksFit

(* A button asks for something there is. *)
LEMMA ButtonFacts ==
    ASSUME RegistryTypeOK
    PROVE  Buttons(screen) \subseteq Payload /\ Back(screen) \in Payload
  <1>1. /\ screen.cb \in Payload /\ screen.items \in Seq(Subs) /\ screen.pages \in Nat \ {0}
    BY DEF RegistryTypeOK, Screen
  <1>2. PICK cb : cb = [screen.cb EXCEPT !.open = 0]
    OBVIOUS
  <1>3. cb \in Payload /\ cb = Back(screen)
    BY <1>1, <1>2 DEF Payload, Back
  <1>4. \A k \in DOMAIN screen.items : screen.items[k] \in Subs
    BY <1>1, LenProperties, ElementOfSeq
  <1>5. cb.page \in Nat /\ \A o \in Subs : [cb EXCEPT !.open = o] \in Payload
    BY <1>3 DEF Payload
  <1>6. \A f \in Filters : [cb EXCEPT !.status = f, !.page = 0] \in Payload
    BY <1>3 DEF Payload
  <1>7. \A o \in Orders : [cb EXCEPT !.order = o, !.page = 0] \in Payload
    BY <1>3 DEF Payload
  <1>8. \A n \in Nat : [cb EXCEPT !.page = n] \in Payload
    BY <1>3 DEF Payload
  <1>9. cb.page + 1 \in Nat /\ (cb.page > 0 => cb.page - 1 \in Nat)
    BY <1>5
  <1>10. ASSUME NEW b \in ListButtons(screen) PROVE b \in Payload
    <2>1. \/ \E k \in DOMAIN screen.items : b = [cb EXCEPT !.open = screen.items[k]]
          \/ \E f \in Filters : b = [cb EXCEPT !.status = f, !.page = 0]
          \/ \E o \in Orders : b = [cb EXCEPT !.order = o, !.page = 0]
          \/ b = cb
          \/ cb.page > 0 /\ b = [cb EXCEPT !.page = cb.page - 1]
          \/ b = [cb EXCEPT !.page = cb.page + 1]
      BY <1>2 DEF ListButtons
    <2> QED BY <1>3, <1>4, <1>5, <1>6, <1>7, <1>8, <1>9, <2>1
  <1> QED BY <1>3, <1>10 DEF Buttons

LEMMA TapFits ==
    ASSUME RegistryInv, NEW h \in Slots,
           \/ \E t \in Types : OpenRegistry(h, t)
           \/ \E cb \in Buttons(screen) \cup Old : Tap(h, cb)
           \/ \E a \in Actions(screen) : TapAction(h, a)
    PROVE  RegistryInv'
  <1> DEFINE New(t) == /\ t \in Task /\ TaskFits(t) /\ t.pc \in {"count", "find", "act"}
                       /\ ToSet(t.items) = {} /\ task' = Begin(h, t)
  <1>1. /\ UNCHANGED <<present, status, rights, screen, pass>> /\ clicks' \in Nat
        /\ rights \in SUBSET Types
    <2>1. clicks \in Nat /\ rights \in SUBSET Types
      BY DEF RegistryInv, RegistryTypeOK
    <2>2. ASSUME NEW t \in Types, OpenRegistry(h, t)
          PROVE  UNCHANGED <<present, status, rights, screen, pass>> /\ clicks' = clicks + 1
      BY <2>2 DEF OpenRegistry
    <2>3. ASSUME NEW cb, Tap(h, cb)
          PROVE  UNCHANGED <<present, status, rights, screen, pass>> /\ clicks' = clicks + 1
      BY <2>3 DEF Tap
    <2>4. ASSUME NEW a, TapAction(h, a)
          PROVE  UNCHANGED <<present, status, rights, screen, pass>> /\ clicks' = clicks + 1
      BY <2>4 DEF TapAction
    <2> QED BY <2>1, <2>2, <2>3, <2>4
  <1>2. ASSUME NEW t, New(t) PROVE RegistryInv'
    BY <1>1, <1>2, BeginFits
  <1>3. CASE task' = task
    <2>1. RegistryTypeOK'
      BY <1>1, <1>3 DEF RegistryInv, RegistryTypeOK
    <2>2. Lone'
      BY <1>3 DEF RegistryInv, Lone
    <2>3. ASSUME NEW g \in Slots PROVE TaskFits(task[g])' /\ NextFits(task[g])'
      <3>1. PICK w : w = task[g] /\ w = task'[g]
        BY <1>3
      <3>2. TaskFits(w) /\ NextFits(w)
        BY <3>1 DEF RegistryInv, TasksFit
      <3>3. TaskFits(w)' /\ NextFits(w)'
        BY <1>1, <3>2
           DEF TaskFits, RightsFit, ActionFits, ListFits, Matching, NextFits, Follows
      <3> QED BY <3>1, <3>3
    <2>4. PassFits'
      BY <1>1, PassKept DEF RegistryInv, RegistryTypeOK
    <2> QED BY <2>1, <2>2, <2>3, <2>4 DEF RegistryInv, TasksFit
  <1>4. ASSUME NEW t \in Types, OpenRegistry(h, t) PROVE RegistryInv'
    <2>1. PICK u : u = [Idle EXCEPT !.pc = "count", !.cb = Start(t), !.rights = rights]
      OBVIOUS
    <2>2. Start(t) \in Payload /\ Start(t).type = t
      BY DEF Start, Payload, Filters, Orders
    <2>3. /\ u \in Task /\ u.pc = "count" /\ u.own = "none" /\ u.items = <<>>
          /\ u.rights = rights /\ u.cb.type \in rights
      BY <1>1, <1>4, <2>1, <2>2, IdleFits DEF OpenRegistry, Task, Idle
    <2>4. TaskFits(u) /\ ToSet(u.items) = {}
      BY <2>3 DEF TaskFits, RightsFit, ActionFits, ListFits, ToSet
    <2>5. New(u)
      BY <1>4, <2>1, <2>3, <2>4 DEF OpenRegistry
    <2> QED BY <1>2, <2>5
  <1>5. ASSUME NEW cb \in Buttons(screen) \cup Old, Tap(h, cb) PROVE RegistryInv'
    <2>1. CASE cb.type \in rights
      <3>1. PICK u : u = [Idle EXCEPT !.pc = IF cb.open # 0 THEN "find" ELSE "count",
                                      !.cb = cb, !.rights = rights]
        OBVIOUS
      <3>2. cb \in Payload
        BY ButtonFacts, RegistryAssumption DEF RegistryInv
      <3>3. /\ u \in Task /\ u.pc \in {"find", "count"} /\ u.own = "none" /\ u.items = <<>>
            /\ u.rights = rights /\ u.cb.type \in rights
        BY <1>1, <2>1, <3>1, <3>2, IdleFits DEF Task, Idle
      <3>4. TaskFits(u) /\ ToSet(u.items) = {}
        BY <3>3 DEF TaskFits, RightsFit, ActionFits, ListFits, ToSet
      <3>5. New(u)
        BY <1>5, <2>1, <3>1, <3>3, <3>4 DEF Tap
      <3> QED BY <1>2, <3>5
    <2>2. CASE cb.type \notin rights
      BY <1>3, <1>5, <2>2 DEF Tap
    <2> QED BY <2>1, <2>2
  <1>6. ASSUME NEW a \in Actions(screen), TapAction(h, a) PROVE RegistryInv'
    <2>1. /\ screen.kind = "detail" /\ screen.sub \in present /\ screen.sub \in Subs
          /\ a \in {"take", "close"} /\ status[screen.sub] \in Statuses
      BY DEF Actions, RegistryInv, RegistryTypeOK
    <2>2. CASE TypeOf[screen.sub] \in rights
      <3>1. PICK u : u = [Idle EXCEPT !.pc = "act", !.act = a, !.cb = Back(screen),
                                      !.sub = screen.sub, !.rights = rights,
                                      !.read = status[screen.sub]]
        OBVIOUS
      <3>2. Back(screen) \in Payload
        BY ButtonFacts DEF RegistryInv
      <3>3. /\ u \in Task /\ u.pc = "act" /\ u.own = "none" /\ u.items = <<>> /\ u.act = a
            /\ u.rights = rights /\ u.sub = screen.sub
        BY <1>1, <2>1, <3>1, <3>2, IdleFits DEF Task, Idle
      <3>4. TaskFits(u) /\ ToSet(u.items) = {}
        BY <2>1, <2>2, <3>3 DEF TaskFits, RightsFit, ActionFits, ListFits, ToSet
      <3>5. New(u)
        BY <1>6, <2>2, <3>1, <3>3, <3>4 DEF TapAction
      <3> QED BY <1>2, <3>5
    <2>3. CASE TypeOf[screen.sub] \notin rights
      BY <1>3, <1>6, <2>3 DEF TapAction
    <2> QED BY <2>2, <2>3
  <1> QED BY <1>4, <1>5, <1>6

LEMMA TaskFacts ==
    ASSUME RegistryInv, NEW h \in Slots
    PROVE  /\ task[h] \in Task /\ task[h].cb \in Payload /\ TaskFits(task[h])
           /\ ToSet(task[h].items) \subseteq present /\ present \subseteq Subs
           /\ status \in [Subs -> Statuses]
  BY DEF RegistryInv, RegistryTypeOK, TasksFit, Task

LEMMA CountFits == ASSUME RegistryInv, NEW h \in Slots, Count(h) PROVE RegistryInv'
  <1>1. PICK t, n : t = task[h] /\ n = Cardinality(Matching(t.cb))
    OBVIOUS
  <1>2. t \in Task /\ TaskFits(t) /\ ToSet(t.items) \subseteq present /\ n \in Nat /\ t.pc = "count"
    BY <1>1, TaskFacts, MatchingFacts DEF Count
  <1>3. PICK u : u = [t EXCEPT !.total = n, !.pc = "select", !.raced = FALSE]
    OBVIOUS
  <1>4. /\ u \in Task /\ u.pc = "select" /\ u.total = n /\ u.cb = t.cb /\ u.rights = t.rights
        /\ u.own = t.own /\ u.items = t.items /\ u.alone = t.alone
    BY <1>2, <1>3 DEF Task
  <1>5. task' = [task EXCEPT ![h] = u]
    BY <1>1, <1>3 DEF Count, RegistryInv, RegistryTypeOK, Task
  <1>6. TaskFits(u) /\ NextFits(u)
    BY <1>1, <1>2, <1>4 DEF TaskFits, RightsFit, ActionFits, ListFits, NextFits
  <1>7. UNCHANGED <<present, status, rights, screen, clicks, pass>>
    BY DEF Count
  <1> QED BY <1>1, <1>2, <1>4, <1>5, <1>6, <1>7, StepFits

LEMMA FindFits == ASSUME RegistryInv, NEW h \in Slots, Find(h) PROVE RegistryInv'
  <1>1. PICK t : t = task[h]
    OBVIOUS
  <1>2. /\ t \in Task /\ t.cb \in Payload /\ TaskFits(t) /\ ToSet(t.items) \subseteq present
        /\ t.pc = "find" /\ UNCHANGED <<present, status, rights, screen, clicks, pass>>
    BY <1>1, TaskFacts DEF Find
  <1>3. CASE Found(t.cb)
    <2>1. PICK u : u = [t EXCEPT !.pc = "detail", !.sub = t.cb.open, !.read = status[t.cb.open]]
      OBVIOUS
    <2>2. t.cb.open \in present /\ TypeOf[t.cb.open] = t.cb.type /\ t.cb.open \in Subs
          /\ status[t.cb.open] \in Statuses
      BY <1>1, <1>3, TaskFacts DEF Found
    <2>3. /\ u \in Task /\ u.pc = "detail" /\ u.sub = t.cb.open /\ u.rights = t.rights
          /\ u.own = t.own /\ u.items = t.items /\ u.alone = t.alone
      BY <1>2, <2>1, <2>2 DEF Task
    <2>4. TaskFits(u) /\ NextFits(u)
      BY <1>2, <2>2, <2>3 DEF TaskFits, RightsFit, ActionFits, ListFits, NextFits
    <2>5. task' = [task EXCEPT ![h] = u]
      BY <1>1, <1>3, <2>1 DEF Find, RegistryInv, RegistryTypeOK
    <2> QED BY <1>1, <1>2, <2>3, <2>4, <2>5, StepFits
  <1>4. CASE ~Found(t.cb)
    <2>1. task' = [task EXCEPT ![h] = Idle]
      BY <1>1, <1>4 DEF Find, RegistryInv, RegistryTypeOK
    <2> QED BY <1>1, <1>2, <2>1, IdleFits, StepFits
  <1> QED BY <1>3, <1>4

LEMMA RefreshFits == ASSUME RegistryInv, NEW h \in Slots, Refresh(h) PROVE RegistryInv'
  <1>1. PICK t : t = task[h]
    OBVIOUS
  <1>2. /\ t \in Task /\ TaskFits(t) /\ ToSet(t.items) \subseteq present
        /\ t.pc = "refresh" /\ UNCHANGED <<present, status, rights, screen, clicks, pass>>
    BY <1>1, TaskFacts DEF Refresh
  <1>3. /\ t.sub \in present /\ t.sub \in Subs /\ status[t.sub] \in Statuses
        /\ t.own \in {"in_progress", "closed"} /\ status[t.sub] \in {t.own, "closed"}
    BY <1>1, <1>2, TaskFacts DEF TaskFits, RightsFit, ActionFits
  <1>4. PICK u : u = [t EXCEPT !.read = status[t.sub], !.pc = "detail"]
    OBVIOUS
  <1>5. /\ u \in Task /\ u.pc = "detail" /\ u.sub = t.sub /\ u.rights = t.rights
        /\ u.own = t.own /\ u.items = t.items /\ u.alone = t.alone /\ u.read = status[t.sub]
    BY <1>2, <1>3, <1>4 DEF Task
  <1>6. TaskFits(u) /\ NextFits(u)
    BY <1>2, <1>3, <1>5 DEF TaskFits, RightsFit, ActionFits, ListFits, NextFits
  <1>7. task' = [task EXCEPT ![h] = u]
    BY <1>1, <1>4 DEF Refresh, Reread, RegistryInv, RegistryTypeOK, Task
  <1> QED BY <1>1, <1>2, <1>5, <1>6, <1>7, StepFits

(* The page selected, and what of it the pass in progress needs. *)
LEMMA SelectFits == ASSUME RegistryInv, NEW h \in Slots, Select(h) PROVE RegistryInv'
  <1>1. PICK t, cb, S, rows : /\ t = task[h] /\ cb = t.cb /\ S = Matching(cb)
                              /\ rows = PageOf(Sorted(S, cb.order), cb.page)
    OBVIOUS
  <1>2. /\ t \in Task /\ cb \in Payload /\ TaskFits(t) /\ ToSet(t.items) \subseteq present
        /\ t.pc = "select" /\ UNCHANGED <<present, status, rights, screen, clicks, pass>>
        /\ present \subseteq Subs
    BY <1>1, TaskFacts DEF Select
  <1>3. CASE FallsBack(rows, t.total, cb.page)
    <2>1. PICK u : u = [t EXCEPT !.pc = "count", !.cb.page = 0]
      OBVIOUS
    <2>2. /\ u \in Task /\ u.pc = "count" /\ u.cb.type = t.cb.type /\ u.rights = t.rights
          /\ u.own = t.own /\ u.items = t.items /\ u.alone = t.alone
      BY <1>2, <2>1 DEF Task, Payload
    <2>3. TaskFits(u) /\ NextFits(u)
      BY <1>2, <2>2 DEF TaskFits, RightsFit, ActionFits, ListFits, NextFits
    <2>4. task' = [task EXCEPT ![h] = u]
      BY <1>1, <1>3, <2>1 DEF Select, RegistryInv, RegistryTypeOK
    <2> QED BY <1>1, <1>2, <2>2, <2>3, <2>4, StepFits
  <1>4. CASE ~FallsBack(rows, t.total, cb.page)
    <2>1. PICK u : u = [t EXCEPT !.pc = "list", !.items = rows, !.there = S]
      OBVIOUS
    <2>2. /\ S \subseteq present /\ S \subseteq Subs /\ \A i \in S : TypeOf[i] = cb.type
          /\ S \subseteq Nat /\ IsFiniteSet(S) /\ Cardinality(S) \in Nat
      BY <1>1, <1>2, MatchingFacts
    <2>3. cb.order \in Orders /\ cb.page \in Nat
      BY <1>2 DEF Payload
    <2>4. /\ rows \in Seq(S) /\ ToSet(rows) \subseteq S
          /\ rows = <<>> => Cardinality(S) <= cb.page * PerPage
          /\ rows # <<>> => cb.page * PerPage < Cardinality(S)
          /\ \A i \in S :
                \/ i \in ToSet(rows)
                \/ Cardinality(Ahead(S, cb.order, i)) < cb.page * PerPage
                \/ Cardinality(Ahead(S, cb.order, i)) >= (cb.page + 1) * PerPage
      BY <1>1, <2>2, <2>3, SelectedPage
    <2>5. rows \in Seq(Subs)
      BY <2>2, <2>4, SeqMonotonic
    <2>6. /\ u \in Task /\ u.pc = "list" /\ u.cb = cb /\ u.rights = t.rights /\ u.items = rows
          /\ u.own = t.own /\ u.there = S /\ u.alone = t.alone /\ u.total = t.total
          /\ u.raced = t.raced
      <3>1. /\ u.pc = "list" /\ u.cb = t.cb /\ u.rights = t.rights /\ u.items = rows
            /\ u.own = t.own /\ u.there = S /\ u.alone = t.alone /\ u.total = t.total
            /\ u.raced = t.raced
        BY <1>2, <2>1 DEF Task
      <3>2. u \in Task
        BY <1>2, <2>1, <2>2, <2>5 DEF Task
      <3> QED BY <1>1, <3>1, <3>2
    <2>7. ~t.raced => t.total = Cardinality(S)
      BY <1>1, <1>2 DEF TaskFits, ListFits
    <2>8. ~t.raced /\ rows = <<>> => S = {}
      <3> SUFFICES ASSUME ~t.raced, rows = <<>> PROVE S = {}
        OBVIOUS
      <3>1. t.total = 0 \/ cb.page = 0
        BY <1>4, <2>2, <2>3, <2>7 DEF FallsBack
      <3>2. Cardinality(S) <= 0
        BY <2>2, <2>4, <2>7, <3>1, RegistryAssumption
      <3> QED BY <2>2, <3>2, FS_EmptySet
    <2>9. ListFits(u)
      BY <2>2, <2>4, <2>6, <2>7, <2>8 DEF ListFits, Before
    <2>10. TaskFits(u)
      BY <1>1, <1>2, <2>6, <2>9 DEF TaskFits, RightsFit, ActionFits
    <2>11. NextFits(u)
      <3> SUFFICES ASSUME pass.on, Follows(u)
                   PROVE  /\ pass.start \subseteq S
                          /\ \A i \in pass.start \ pass.seen :
                                Cardinality(Ahead(S, cb.order, i)) >= cb.page * PerPage
        BY <2>6 DEF NextFits, Before
      <3>1. PICK sb : sb = screen.cb
        OBVIOUS
      <3>2. /\ sb.status = "all" /\ pass.start \subseteq Matching(sb)
            /\ \A i \in pass.start \ pass.seen :
                  Cardinality(Ahead(Matching(sb), sb.order, i)) >= (sb.page + 1) * PerPage
        BY <3>1 DEF RegistryInv, PassFits, Before
      <3>3. sb \in Payload /\ cb = [sb EXCEPT !.page = @ + 1]
        BY <2>6, <3>1 DEF Follows, RegistryInv, RegistryTypeOK, Screen
      <3>4. cb.page = sb.page + 1 /\ cb.order = sb.order /\ cb.type = sb.type /\ cb.status = sb.status
        BY <3>3 DEF Payload
      <3>5. Matching(sb) = S
        BY <1>1, <3>4 DEF Matching
      <3> QED BY <3>2, <3>4, <3>5
    <2>12. task' = [task EXCEPT ![h] = u]
      BY <1>1, <1>4, <2>1 DEF Select, RegistryInv, RegistryTypeOK
    <2>13. ToSet(u.items) \subseteq present
      BY <2>2, <2>4, <2>6
    <2> QED BY <1>1, <1>2, <2>6, <2>10, <2>11, <2>12, <2>13, StepFits
  <1> QED BY <1>3, <1>4

(* A task ends with an edit of the message: no other one was alone. *)
LEMMA EditFits ==
    ASSUME RegistryInv, NEW h \in Slots, task[h].pc # "idle",
           task' = [task EXCEPT ![h] = Idle], UNCHANGED <<present, status, rights, clicks>>,
           screen' \in Screen, pass' \in [on : BOOLEAN, start : SUBSET Subs, seen : SUBSET Subs],
           ToSet(screen'.items) \subseteq present,
           screen'.kind = "detail" => screen'.sub \in present, PassFits'
    PROVE  RegistryInv'
  <1>1. task'[h] = Idle /\ \A g \in Slots \ {h} : task'[g] = task[g]
    BY DEF RegistryInv, RegistryTypeOK
  <1>2. ASSUME NEW g \in Slots
        PROVE  /\ task'[g] \in Task /\ ToSet(task'[g].items) \subseteq present
               /\ TaskFits(task'[g]) /\ (task'[g].pc = "idle" \/ ~task'[g].alone)
    <2>1. CASE g = h
      BY <1>1, <2>1, IdleFits
    <2>2. CASE g # h
      <3>1. task[g].pc = "idle" \/ ~task[g].alone
        BY <2>2 DEF RegistryInv, Lone
      <3> QED BY <1>1, <2>2, <3>1, TaskFacts
    <2> QED BY <2>1, <2>2
  <1>3. task' \in [Slots -> Task]
    BY <1>2 DEF RegistryInv, RegistryTypeOK
  <1>4. RegistryTypeOK'
    BY <1>2, <1>3 DEF RegistryInv, RegistryTypeOK
  <1>5. Lone'
    BY <1>2 DEF Lone
  <1>6. ASSUME NEW g \in Slots PROVE TaskFits(task[g])' /\ NextFits(task[g])'
    <2>1. PICK w : w = task'[g]
      OBVIOUS
    <2>2. TaskFits(w) /\ (w.pc = "idle" \/ ~w.alone)
      BY <1>2, <2>1
    <2>3. TaskFits(w)' /\ NextFits(w)'
      BY <2>2 DEF TaskFits, RightsFit, ActionFits, ListFits, Matching, NextFits
    <2> QED BY <2>1, <2>3
  <1> QED BY <1>4, <1>5, <1>6 DEF RegistryInv, TasksFit

LEMMA NothingFacts ==
    Nothing \in Screen /\ Nothing.items = <<>> /\ ToSet(Nothing.items) = {}
  <1>1. Start("appeal") \in Payload
    BY DEF Start, Payload, Types, Filters, Orders
  <1>2. Nothing \in Screen /\ Nothing.items = <<>>
    BY <1>1 DEF Nothing, Screen, Statuses
  <1> QED BY <1>2 DEF ToSet

LEMMA EditDetailFits == ASSUME RegistryInv, NEW h \in Slots, EditDetail(h) PROVE RegistryInv'
  <1>1. PICK t : t = task[h]
    OBVIOUS
  <1>2. /\ t \in Task /\ TaskFits(t) /\ t.pc = "detail" /\ pass' = NoPass
        /\ task' = [task EXCEPT ![h] = Idle] /\ UNCHANGED <<present, status, rights, clicks>>
    BY <1>1, TaskFacts DEF EditDetail
  <1>3. /\ screen' \in Screen /\ ToSet(screen'.items) \subseteq present
        /\ screen'.kind = "detail" => screen'.sub \in present
    <2>1. CASE screen' = screen
      BY <2>1 DEF RegistryInv, RegistryTypeOK
    <2>2. CASE screen' = [Nothing EXCEPT !.kind = "detail", !.cb = t.cb, !.sub = t.sub, !.shown = t.read]
      <3>1. t.cb \in Payload /\ t.sub \in present /\ t.sub \in Subs \cup {0} /\ t.read \in Statuses
        BY <1>2 DEF Task, TaskFits, RightsFit
      <3>2. screen' \in Screen /\ screen'.items = Nothing.items /\ screen'.sub = t.sub
        BY <2>2, <3>1, NothingFacts DEF Screen
      <3> QED BY <3>1, <3>2, NothingFacts
    <2> QED BY <1>1, <2>1, <2>2 DEF EditDetail
  <1>4. pass' \in [on : BOOLEAN, start : SUBSET Subs, seen : SUBSET Subs] /\ pass'.on = FALSE
    BY <1>2 DEF NoPass
  <1>5. PassFits'
    BY <1>4 DEF PassFits
  <1> QED BY <1>1, <1>2, <1>3, <1>4, <1>5, EditFits

LEMMA EditListFits == ASSUME RegistryInv, NEW h \in Slots, EditList(h) PROVE RegistryInv'
  <1>1. PICK t : t = task[h]
    OBVIOUS
  <1>2. /\ t \in Task /\ TaskFits(t) /\ NextFits(t) /\ t.pc = "list" /\ present \subseteq Subs
        /\ task' = [task EXCEPT ![h] = Idle] /\ UNCHANGED <<present, status, rights, clicks>>
        /\ ToSet(t.items) \subseteq present
    BY <1>1, TaskFacts DEF EditList, RegistryInv, TasksFit
  <1>3. CASE UNCHANGED <<screen, pass>>
    BY <1>1, <1>2, <1>3, IdleFits, StepFits
  <1>4. CASE ~UNCHANGED <<screen, pass>>
    <2>1. PICK cb, page, S : cb = t.cb /\ page = ToSet(t.items) /\ S = t.there
      OBVIOUS
    <2>2. /\ screen' = [Nothing EXCEPT !.kind = "list", !.cb = t.cb, !.items = t.items,
                                       !.pages = Pages(t.total)]
          /\ pass' = IF ~t.alone \/ t.raced \/ cb.status # "all" THEN NoPass
                     ELSE IF cb.page = 0 THEN [on |-> TRUE, start |-> S, seen |-> page]
                     ELSE IF pass.on /\ Follows(t) THEN [pass EXCEPT !.seen = @ \cup page]
                     ELSE NoPass
      BY <1>1, <1>4, <2>1 DEF EditList, Follows
    <2>3. /\ cb \in Payload /\ t.items \in Seq(Subs) /\ t.total \in Nat /\ t.alone \in BOOLEAN
          /\ S \subseteq Subs /\ page \subseteq S /\ page \subseteq present /\ t.raced \in BOOLEAN
      BY <1>2, <2>1 DEF Task, TaskFits, ListFits
    <2>4. Pages(t.total) \in Nat \ {0}
      <3>1. CASE t.total = 0
        BY <3>1 DEF Pages
      <3>2. CASE t.total # 0
        <4>1. 0 * PerPage < t.total
          BY <2>3, <3>2, RegistryAssumption
        <4> QED BY <2>3, <4>1, PagesFacts
      <3> QED BY <3>1, <3>2
    <2>5. /\ screen' \in Screen /\ screen'.kind = "list" /\ screen'.cb = cb /\ screen'.items = t.items
          /\ screen'.pages = Pages(t.total)
      BY <2>1, <2>2, <2>3, <2>4, NothingFacts DEF Screen
    <2>6. pass \in [on : BOOLEAN, start : SUBSET Subs, seen : SUBSET Subs] /\ page \in SUBSET Subs
      BY <1>2, <2>3 DEF RegistryInv, RegistryTypeOK
    <2>7. pass' \in [on : BOOLEAN, start : SUBSET Subs, seen : SUBSET Subs]
      <3>1. NoPass \in [on : BOOLEAN, start : SUBSET Subs, seen : SUBSET Subs]
        BY DEF NoPass
      <3>2. [on |-> TRUE, start |-> S, seen |-> page]
            \in [on : BOOLEAN, start : SUBSET Subs, seen : SUBSET Subs]
        BY <2>3, <2>6
      <3>3. [pass EXCEPT !.seen = @ \cup page]
            \in [on : BOOLEAN, start : SUBSET Subs, seen : SUBSET Subs]
        BY <2>6
      <3> QED BY <2>2, <3>1, <3>2, <3>3
    <2>8. PassFits'
      <3> SUFFICES ASSUME pass'.on PROVE PassFits'
        BY DEF PassFits
      <3>1. t.alone /\ ~t.raced /\ cb.status = "all" /\ pass' # NoPass
        BY <2>2, <2>3 DEF NoPass
      <3>2. /\ S \subseteq present /\ t.total = Cardinality(S)
            /\ \A i \in S : TypeOf[i] = cb.type
            /\ \A i \in S :
                  \/ i \in page
                  \/ Cardinality(Ahead(S, cb.order, i)) < cb.page * PerPage
                  \/ Cardinality(Ahead(S, cb.order, i)) >= (cb.page + 1) * PerPage
        BY <1>2, <2>1, <3>1 DEF TaskFits, ListFits, Before
      <3>3. S \subseteq Matching(cb) /\ Matching(cb)' = Matching(cb)
        BY <1>2, <3>1, <3>2 DEF Matching
      <3>4. /\ S \subseteq Nat /\ IsFiniteSet(S) /\ cb.order \in Orders /\ cb.page \in Nat
            /\ IsFiniteSet(Matching(cb))
        BY <1>2, <2>3, SubsFinite, MatchingFacts DEF Payload
      <3>5. PICK start, seen : start = pass'.start /\ seen = pass'.seen
        OBVIOUS
      <3>6. /\ start \subseteq S /\ page \subseteq seen
            /\ \A i \in start \ seen : Cardinality(Ahead(S, cb.order, i)) >= cb.page * PerPage
        <4>1. CASE cb.page = 0
          <5>1. start = S /\ seen = page
            BY <2>2, <3>1, <3>5, <4>1
          <5>2. \A i \in S : Cardinality(Ahead(S, cb.order, i)) \in 0 .. Cardinality(S) - 1
            BY <3>4, PlaceFacts
          <5> QED BY <4>1, <5>1, <5>2, RegistryAssumption
        <4>2. CASE cb.page # 0
          <5>1. pass.on /\ Follows(t) /\ pass' = [pass EXCEPT !.seen = @ \cup page]
            BY <2>2, <3>1, <4>2
          <5>2. start = pass.start /\ seen = pass.seen \cup page
            BY <2>6, <3>5, <5>1
          <5>3. /\ pass.start \subseteq S
                /\ \A i \in pass.start \ pass.seen : Cardinality(Ahead(S, cb.order, i)) >= cb.page * PerPage
            BY <1>2, <2>1, <3>1, <5>1 DEF NextFits, Before
          <5> QED BY <5>2, <5>3
        <4> QED BY <4>1, <4>2
      <3>7. PICK n \in Nat : n = (cb.page + 1) * PerPage
        BY <3>4, RegistryAssumption
      <3>8. ASSUME NEW i \in start \ seen
            PROVE  /\ Cardinality(Ahead(S, cb.order, i)) >= n
                   /\ Cardinality(Ahead(S, cb.order, i)) < t.total
        <4>1. Cardinality(Ahead(S, cb.order, i)) \in 0 .. Cardinality(S) - 1
          BY <3>4, <3>6, PlaceFacts
        <4>2. cb.page * PerPage \in Nat
          BY <3>4, RegistryAssumption
        <4>3. i \in S /\ i \notin page /\ Cardinality(Ahead(S, cb.order, i)) >= cb.page * PerPage
          BY <3>6
        <4> QED BY <2>3, <3>2, <3>7, <4>1, <4>2, <4>3
      <3>9. ASSUME NEW i \in start \ seen
            PROVE  Cardinality(Ahead(Matching(cb), cb.order, i)) >= n
        <4>1. /\ Cardinality(Ahead(S, cb.order, i)) \in Nat
              /\ Cardinality(Ahead(Matching(cb), cb.order, i)) \in Nat
              /\ Cardinality(Ahead(S, cb.order, i)) <= Cardinality(Ahead(Matching(cb), cb.order, i))
          BY <3>3, <3>4, AheadGrows
        <4> QED BY <3>7, <3>8, <4>1
      <3>10. ~(start \subseteq seen) => cb.page < Pages(t.total) - 1
        <4> SUFFICES ASSUME NEW i \in start \ seen PROVE cb.page < Pages(t.total) - 1
          OBVIOUS
        <4>1. Cardinality(Ahead(S, cb.order, i)) \in 0 .. Cardinality(S) - 1
          BY <3>4, <3>6, PlaceFacts
        <4>2. n < t.total
          BY <2>3, <3>7, <3>8, <4>1
        <4>3. cb.page + 1 \in Nat /\ (cb.page + 1) * PerPage < t.total
          BY <3>4, <3>7, <4>2
        <4>4. Pages(t.total) \in Nat /\ cb.page + 1 < Pages(t.total)
          BY <2>3, <4>3, PagesFacts
        <4> QED BY <3>4, <4>4
      <3>11. \A i \in start \ seen : Before(Matching(screen.cb), screen.cb, i)' >= (cb.page + 1) * PerPage
        BY <2>5, <3>3, <3>7, <3>9 DEF Before, Ahead
      <3> QED BY <2>5, <3>1, <3>3, <3>5, <3>6, <3>10, <3>11 DEF PassFits
    <2>9. ToSet(screen'.items) \subseteq present
      BY <1>2, <2>5
    <2> QED BY <1>1, <1>2, <2>5, <2>7, <2>8, <2>9, EditFits
  <1> QED BY <1>3, <1>4

(* A commit: a status moves on, a submission comes, lists in between are raced; *)
(* the task whose commit it is goes on.                                         *)
LEMMA CommitFits ==
    ASSUME RegistryInv, present \subseteq present', present' \subseteq Subs,
           status' \in [Subs -> Statuses],
           \A i \in Subs : status[i] # "new" => status'[i] \in {status[i], "closed"},
           UNCHANGED <<rights, screen, clicks, pass>>,
           task' \in [Slots -> Task],
           \A g \in Slots :
               \/ task'[g] = Race(task)[g]
               \/ /\ task[g].pc = "act" /\ TaskFits(task[g])' /\ task'[g].pc # "list"
                  /\ ToSet(task'[g].items) \subseteq present
                  /\ task'[g].pc # "idle" => task'[g].alone = task[g].alone
    PROVE  RegistryInv'
  <1>1. ASSUME NEW g \in Slots
        PROVE  /\ TaskFits(task[g])' /\ NextFits(task[g])'
               /\ ToSet(task'[g].items) \subseteq present
               /\ task[g].pc = "idle" => task'[g].pc = "idle"
               /\ task'[g].pc # "idle" => task'[g].alone = task[g].alone
    <2>1. PICK t, u : t = task[g] /\ u = task'[g]
      OBVIOUS
    <2>2. t \in Task /\ TaskFits(t) /\ NextFits(t) /\ ToSet(t.items) \subseteq present /\ u \in Task
      BY <2>1, TaskFacts DEF RegistryInv, TasksFit
    <2>3. CASE t.pc = "select" /\ u = [t EXCEPT !.raced = TRUE]
      <3>1. /\ u.pc = t.pc /\ u.items = t.items /\ u.alone = t.alone /\ u.cb = t.cb /\ u.raced = TRUE
            /\ u.rights = t.rights /\ u.own = t.own
        BY <2>2, <2>3 DEF Task
      <3>2. TaskFits(u)
        BY <2>2, <2>3, <3>1 DEF TaskFits, RightsFit, ActionFits, ListFits
      <3>3. TaskFits(u)'
        BY <2>3, <3>1, <3>2, TaskKept
      <3>4. NextFits(u)'
        BY <2>3, <3>1 DEF NextFits
      <3> QED BY <2>1, <2>2, <2>3, <3>1, <3>3, <3>4
    <2>4. CASE t.pc # "select" /\ u = t
      <3>1. t.pc = "refresh" => status'[t.sub] \in {status[t.sub], "closed"}
        <4> SUFFICES ASSUME t.pc = "refresh" PROVE status'[t.sub] \in {status[t.sub], "closed"}
          OBVIOUS
        <4>1. /\ t.sub \in present /\ t.own \in {"in_progress", "closed"}
              /\ status[t.sub] \in {t.own, "closed"}
          BY <2>2 DEF TaskFits, RightsFit, ActionFits
        <4> QED BY <4>1
      <3>2. TaskFits(t)'
        BY <2>2, <2>4, <3>1, TaskKept
      <3>3. NextFits(t)'
        BY <2>2 DEF NextFits, Follows, Before, Ahead
      <3> QED BY <2>1, <2>2, <2>4, <3>2, <3>3
    <2>5. CASE /\ t.pc = "act" /\ TaskFits(u)' /\ u.pc # "list" /\ ToSet(u.items) \subseteq present
               /\ u.pc # "idle" => u.alone = t.alone
      <3>1. NextFits(u)'
        BY <2>5 DEF NextFits
      <3> QED BY <2>1, <2>5, <3>1
    <2>6. Race(task)[g] = IF t.pc = "select" THEN [t EXCEPT !.raced = TRUE] ELSE t
      BY <2>1 DEF Race
    <2>7. \/ u = Race(task)[g]
          \/ /\ t.pc = "act" /\ TaskFits(u)' /\ u.pc # "list"
             /\ ToSet(u.items) \subseteq present
             /\ u.pc # "idle" => u.alone = t.alone
      BY <2>1
    <2> QED BY <2>3, <2>4, <2>5, <2>6, <2>7
  <1>2. RegistryTypeOK'
    BY <1>1 DEF RegistryInv, RegistryTypeOK
  <1>3. Lone'
    BY <1>1 DEF RegistryInv, Lone
  <1>4. PassFits'
    BY PassKept DEF RegistryInv, RegistryTypeOK
  <1> QED BY <1>1, <1>2, <1>3, <1>4 DEF RegistryInv, TasksFit

LEMMA RaceFacts ==
    ASSUME task \in [Slots -> Task]
    PROVE  Race(task) \in [Slots -> Task]
  <1>1. ASSUME NEW g \in Slots PROVE [task[g] EXCEPT !.raced = TRUE] \in Task
    BY DEF Task
  <1> QED BY <1>1 DEF Race

LEMMA OthersFit ==
    ASSUME RegistryInv,
           \/ \E i \in Subs : Submitted(i)
           \/ \E i \in Subs : \E s \in Outcomes[i] : Changed(i, s)
    PROVE  RegistryInv'
  <1>1. present \subseteq Subs /\ status \in [Subs -> Statuses] /\ task \in [Slots -> Task]
    BY DEF RegistryInv, RegistryTypeOK
  <1>2. /\ UNCHANGED <<rights, screen, clicks, pass>> /\ task' = Race(task)
        /\ present \subseteq present' /\ present' \subseteq Subs
    BY <1>1 DEF Submitted, Changed
  <1>3. /\ status' \in [Subs -> Statuses]
        /\ \A i \in Subs : status[i] # "new" => status'[i] \in {status[i], "closed"}
    <2>1. ASSUME NEW i \in Subs, Submitted(i)
          PROVE  status' = status
      BY <2>1 DEF Submitted
    <2>2. ASSUME NEW i \in Subs, NEW s \in Outcomes[i], Changed(i, s)
          PROVE  /\ status' = [status EXCEPT ![i] = s] /\ s \in Statuses
                 /\ status[i] # "new" => s = "closed"
      BY <2>2, RegistryAssumption DEF Changed
    <2> QED BY <1>1, <2>1, <2>2
  <1> QED BY <1>1, <1>2, <1>3, RaceFacts, CommitFits

LEMMA ActFits == ASSUME RegistryInv, NEW h \in Slots, Act(h) PROVE RegistryInv'
  <1>1. PICK t, wins, to : /\ t = task[h] /\ to = IF t.act = "take" THEN "in_progress" ELSE "closed"
                           /\ wins = IF t.act = "take" THEN status[t.sub] = "new"
                                     ELSE status[t.sub] # "closed"
    OBVIOUS
  <1>2. /\ t \in Task /\ TaskFits(t) /\ t.pc = "act" /\ present \subseteq Subs
        /\ ToSet(t.items) \subseteq present /\ status \in [Subs -> Statuses]
        /\ task \in [Slots -> Task] /\ UNCHANGED <<present, rights, screen, clicks, pass>>
    BY <1>1, TaskFacts DEF Act, RegistryInv, RegistryTypeOK
  <1>3. /\ t.sub \in present /\ t.sub \in Subs /\ status[t.sub] \in Statuses
        /\ t.act \in {"take", "close"} /\ to \in Statuses
        /\ TypeOf[t.sub] \in t.rights
    BY <1>1, <1>2 DEF TaskFits, RightsFit, ActionFits, Task, Statuses
  <1>4. status' = IF wins THEN [status EXCEPT ![t.sub] = to] ELSE status
    BY <1>1 DEF Act
  <1>5. status' \in [Subs -> Statuses]
    BY <1>2, <1>3, <1>4
  <1>6. ASSUME NEW i \in Subs, status[i] # "new" PROVE status'[i] \in {status[i], "closed"}
    BY <1>1, <1>2, <1>3, <1>4, <1>6
  <1>7. PICK u : u = IF wins \/ t.act = "close" THEN [t EXCEPT !.pc = "refresh", !.own = to] ELSE Idle
    OBVIOUS
  <1>8. task' = [Race(task) EXCEPT ![h] = u]
    BY <1>1, <1>7 DEF Act
  <1>9. /\ u \in Task /\ TaskFits(u)' /\ u.pc # "list" /\ ToSet(u.items) \subseteq present
        /\ u.pc # "idle" => u.alone = t.alone
    <2>1. CASE wins \/ t.act = "close"
      <3>1. u = [t EXCEPT !.pc = "refresh", !.own = to]
        BY <1>7, <2>1
      <3>2. /\ u \in Task /\ u.pc = "refresh" /\ u.own = to /\ u.sub = t.sub /\ u.rights = t.rights
            /\ u.items = t.items /\ u.alone = t.alone
        BY <1>2, <1>3, <3>1 DEF Task
      <3>3. to \in {"in_progress", "closed"} /\ status'[t.sub] \in {to, "closed"}
        BY <1>1, <1>2, <1>3, <1>4, <2>1
      <3>4. TaskFits(u)'
        BY <1>2, <1>3, <3>2, <3>3 DEF TaskFits, RightsFit, ActionFits, ListFits
      <3> QED BY <1>2, <3>2, <3>4
    <2>2. CASE ~(wins \/ t.act = "close")
      BY <1>7, <2>2, IdleFits
    <2> QED BY <2>1, <2>2
  <1>10. Race(task) \in [Slots -> Task]
    BY <1>2, RaceFacts
  <1>11. /\ task' \in [Slots -> Task] /\ task'[h] = u
         /\ \A g \in Slots \ {h} : task'[g] = Race(task)[g]
    BY <1>8, <1>9, <1>10
  <1>12. ASSUME NEW g \in Slots
         PROVE  \/ task'[g] = Race(task)[g]
                \/ /\ task[g].pc = "act" /\ TaskFits(task[g])' /\ task'[g].pc # "list"
                   /\ ToSet(task'[g].items) \subseteq present
                   /\ task'[g].pc # "idle" => task'[g].alone = task[g].alone
    <2>1. CASE g = h
      BY <1>1, <1>2, <1>9, <1>11, <2>1
    <2>2. CASE g # h
      BY <1>11, <2>2
    <2> QED BY <2>1, <2>2
  <1>13. present \subseteq present' /\ present' \subseteq Subs
    BY <1>2
  <1>14. \A i \in Subs : status[i] # "new" => status'[i] \in {status[i], "closed"}
    BY <1>6
  <1>15. UNCHANGED <<rights, screen, clicks, pass>> /\ task' \in [Slots -> Task]
    BY <1>2, <1>11
  <1> QED BY <1>5, <1>12, <1>13, <1>14, <1>15, CommitFits

LEMMA RevokedFits == ASSUME RegistryInv, NEW r \in Types, Revoked(r) PROVE RegistryInv'
  <1>1. UNCHANGED <<present, status, screen, task, clicks, pass>> /\ rights' \subseteq Types
    BY DEF Revoked, RegistryInv, RegistryTypeOK
  <1>2. RegistryTypeOK'
    BY <1>1 DEF RegistryInv, RegistryTypeOK
  <1>3. Lone'
    BY <1>1 DEF RegistryInv, Lone
  <1>4. ASSUME NEW g \in Slots PROVE TaskFits(task[g])' /\ NextFits(task[g])'
    <2>1. PICK w : w = task[g] /\ w = task'[g]
      BY <1>1
    <2>2. TaskFits(w) /\ NextFits(w)
      BY <2>1 DEF RegistryInv, TasksFit
    <2>3. TaskFits(w)' /\ NextFits(w)'
      BY <1>1, <2>2 DEF TaskFits, RightsFit, ActionFits, ListFits, Matching, NextFits, Follows
    <2> QED BY <2>1, <2>3
  <1>5. PassFits'
    BY <1>1, PassKept DEF RegistryInv, RegistryTypeOK
  <1> QED BY <1>2, <1>3, <1>4, <1>5 DEF RegistryInv, TasksFit

LEMMA RegistryInvInit == RegistryInit => RegistryInv
  <1> SUFFICES ASSUME RegistryInit PROVE RegistryInv
    OBVIOUS
  <1>1. /\ present \in SUBSET Subs /\ status = [i \in Subs |-> "new"] /\ rights \in SUBSET Types
        /\ screen = Nothing /\ task = [h \in Slots |-> Idle] /\ clicks = 0 /\ pass = NoPass
    BY DEF RegistryInit
  <1>2. /\ task \in [Slots -> Task] /\ status \in [Subs -> Statuses]
        /\ \A h \in Slots : task[h] = Idle
    BY <1>1, IdleFits DEF Statuses
  <1>3. NoPass \in [on : BOOLEAN, start : SUBSET Subs, seen : SUBSET Subs] /\ ~NoPass.on
    BY DEF NoPass
  <1>4. screen.kind # "detail" /\ screen \in Screen /\ ToSet(screen.items) = {}
    BY <1>1, NothingFacts DEF Nothing
  <1>5. RegistryTypeOK
    BY <1>1, <1>2, <1>3, <1>4, IdleFits DEF RegistryTypeOK
  <1>6. Lone /\ TasksFit
    BY <1>2, IdleFits DEF Lone, TasksFit
  <1>7. PassFits
    BY <1>1, <1>3 DEF PassFits
  <1> QED BY <1>5, <1>6, <1>7 DEF RegistryInv

LEMMA RegistryInvNext == RegistryInv /\ [RegistryNext]_registryVars => RegistryInv'
  <1> SUFFICES ASSUME RegistryInv, [RegistryNext]_registryVars PROVE RegistryInv'
    OBVIOUS
  <1>1. ASSUME NEW h \in Slots,
               \/ \E t \in Types : OpenRegistry(h, t)
               \/ \E cb \in Buttons(screen) \cup Old : Tap(h, cb)
               \/ \E a \in Actions(screen) : TapAction(h, a)
        PROVE  RegistryInv'
    BY <1>1, TapFits
  <1>2. ASSUME NEW h \in Slots, Count(h) \/ Select(h) \/ EditList(h) PROVE RegistryInv'
    BY <1>2, CountFits, SelectFits, EditListFits
  <1>3. ASSUME NEW h \in Slots, Find(h) \/ EditDetail(h) \/ Act(h) \/ Refresh(h) PROVE RegistryInv'
    BY <1>3, FindFits, EditDetailFits, ActFits, RefreshFits
  <1>4. CASE \/ \E i \in Subs : Submitted(i)
             \/ \E i \in Subs : \E s \in Outcomes[i] : Changed(i, s)
    BY <1>4, OthersFit
  <1>5. ASSUME NEW t \in Types, Revoked(t) PROVE RegistryInv'
    BY <1>5, RevokedFits
  <1>6. CASE UNCHANGED registryVars
    <2>1. UNCHANGED <<present, status, rights, screen, task, clicks, pass>>
      BY <1>6 DEF registryVars
    <2>2. RegistryTypeOK' /\ Lone'
      BY <2>1 DEF RegistryInv, RegistryTypeOK, Lone
    <2>3. ASSUME NEW g \in Slots PROVE TaskFits(task[g])' /\ NextFits(task[g])'
      <3>1. PICK w : w = task[g] /\ w = task'[g]
        BY <2>1
      <3>2. TaskFits(w) /\ NextFits(w)
        BY <3>1 DEF RegistryInv, TasksFit
      <3>3. TaskFits(w)' /\ NextFits(w)'
        BY <2>1, <3>2 DEF TaskFits, RightsFit, ActionFits, ListFits, Matching, NextFits, Follows
      <3> QED BY <3>1, <3>3
    <2>4. PassFits'
      BY <2>1, PassKept DEF RegistryInv, RegistryTypeOK
    <2> QED BY <2>2, <2>3, <2>4 DEF RegistryInv, TasksFit
  <1> QED BY <1>1, <1>2, <1>3, <1>4, <1>5, <1>6 DEF RegistryNext

(* RegistryInv holds in every state. *)
THEOREM RegistryInvariance == RegistrySpec => []RegistryInv
  BY RegistryInvInit, RegistryInvNext, PTL DEF RegistrySpec

(* The variables keep their types; what is shown is committed. *)
THEOREM RegistryTypes == RegistrySpec => []RegistryTypeOK
  <1>1. RegistryInv => RegistryTypeOK
    BY DEF RegistryInv
  <1> QED BY <1>1, RegistryInvariance, PTL

(* Who goes through all the pages sees everything that was there, whatever *)
(* comes and changes meanwhile (list_for_registry, registry_list_kb).      *)
THEOREM PassesSeeAll == RegistrySpec => []PassSeesAll
  <1>1. RegistryInv => PassSeesAll
    <2> SUFFICES ASSUME RegistryInv, pass.on, screen.cb.page >= screen.pages - 1
                 PROVE  pass.start \subseteq pass.seen
      BY DEF PassSeesAll
    <2>1. screen.cb.page \in Nat /\ screen.pages \in Nat
      BY DEF RegistryInv, RegistryTypeOK, Screen, Payload
    <2> QED BY <2>1 DEF RegistryInv, PassFits
  <1> QED BY <1>1, RegistryInvariance, PTL

(* A list is empty only where nothing matches, and otherwise of a page there *)
(* is (_show_list).                                                          *)
THEOREM ListsAreAPage == RegistrySpec => []ListIsAPage
  <1>1. RegistryInv => ListIsAPage
    <2> SUFFICES ASSUME RegistryInv, NEW h \in Slots, task[h].pc = "list", ~task[h].raced
                 PROVE  IF task[h].items = <<>> THEN task[h].there = {}
                        ELSE task[h].cb.page < Pages(task[h].total)
      BY DEF ListIsAPage
    <2>1. PICK t : t = task[h]
      OBVIOUS
    <2>2. t \in Task /\ TaskFits(t) /\ t.cb.page \in Nat /\ t.total \in Nat
      BY <2>1, TaskFacts DEF Task, Payload
    <2>3. /\ t.total = Cardinality(t.there) /\ (t.items = <<>> => t.there = {})
          /\ t.items # <<>> => t.cb.page * PerPage < t.total
      BY <2>1, <2>2 DEF TaskFits, ListFits
    <2> QED BY <2>1, <2>2, <2>3, PagesFacts
  <1> QED BY <1>1, RegistryInvariance, PTL

(* Nothing of a type the update found the reader not to be responsible for is *)
(* shown, whatever the payload (on_registry_nav, _show_detail).               *)
THEOREM OnlyOwnTypesShown == RegistrySpec => []OnlyOwnTypes
  <1>1. RegistryInv => OnlyOwnTypes
    <2> SUFFICES ASSUME RegistryInv, NEW h \in Slots
                 PROVE  /\ task[h].pc = "list" => \A i \in ToSet(task[h].items) : TypeOf[i] \in task[h].rights
                        /\ task[h].pc = "detail" => TypeOf[task[h].sub] \in task[h].rights
      BY DEF OnlyOwnTypes
    <2> QED BY TaskFacts DEF TaskFits, RightsFit, ListFits
  <1> QED BY <1>1, RegistryInvariance, PTL

(* After his own take or close the reader sees its effect or a later one *)
(* (refresh_detail).                                                     *)
THEOREM OwnActionsShown == RegistrySpec => []OwnActionShown
  <1>1. RegistryInv => OwnActionShown
    BY TaskFacts DEF TaskFits, ActionFits, OwnActionShown
  <1> QED BY <1>1, RegistryInvariance, PTL

=============================================================================

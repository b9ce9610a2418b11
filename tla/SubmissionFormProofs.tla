------------------------ MODULE SubmissionFormProofs ------------------------
(***************************************************************************)
(* For any files, cases and bounds: types hold whatever handlers overlap,  *)
(* and as long as updates of a person come one after the other, what he    *)
(* submits is complete, as shown, with its files and once, and his texts   *)
(* go where they were asked for, wherever handlers break off.  The         *)
(* inductive invariant says that state and data are Safe between any two   *)
(* calls, since a handler may end there, and of every rest of a handler    *)
(* what must be so for each of its calls to keep them so; the expiry of    *)
(* either key in between included.                                         *)
(***************************************************************************)
EXTENDS SubmissionForm, SequenceTheorems, TLAPS

(* The calls that handlers consist of                                      *)

Answers == ({"anon"} \X {"yes", "no"}) \cup ({"name", "phone", "text"} \X {TRUE})
           \cup ({"atts"} \X SUBSET Files) \cup ({"case"} \X Cases)

\* The reads that go on with more than one call.
Turns == ({"attach"} \X SUBSET Files) \cup ({"confirm", "submit", "reply"} \X {TRUE})
         \cup ({"back"} \X States)

Calls == {Enter(s, fs) : s \in States, fs \in SUBSET (1 .. MaxForms)}
         \cup {SetData(d) : d \in Data}
         \cup {Read(a[1], a[2]) : a \in Answers}
         \cup {Show(d) : d \in Data}
         \cup {Ack(f, fs) : f \in 0 .. MaxForms, fs \in SUBSET Files}
         \cup {Create(d) : d \in Data} \cup {Ask(q) : q \in FormStates \cup Cases}
         \cup {Reply(c) : c \in Cases}

Alone == {<<Current>>} \cup {<<Read(a[1], a[2])>> : a \in Turns}

Programs == {p \in Seq(Calls) \cup Alone : Len(p) <= 4}

TypeInv == TypeOK /\ steps \in [Slots -> Programs] /\ submitted \in Seq(Data)

----------------------------------------------------------------------------
(* State and data, between any two calls                                   *)

Typed(d) == d.type # "none"

\* The answers the data have once a step is asked for.
Reached(s, d) ==
    /\ s \in {"name", "phone"} => d.anon = "no"
    /\ s = "phone" => d.name
    /\ s \in {"text", "attachments", "confirm"} =>
           d.anon # "unset" /\ (d.anon = "no" => d.name /\ d.phone)
    /\ s \in {"attachments", "confirm"} => d.text

\* The data may be those of state s once the forms fs have begun.
Fits(s, d, fs) == Typed(d) /\ d.form \in fs => Reached(s, d)

Unsubmitted(f) == \A i \in DOMAIN submitted : submitted[i].form # f

\* Data with a type are of a form that is not submitted, and have its files.
Open(d) ==
    /\ d.form <= forms
    /\ Typed(d) <=> d.form # 0
    /\ Typed(d) =>
        /\ Unsubmitted(d.form)
        /\ \A x \in Files : /\ <<d.form, x>> \in acked => x \in d.atts
                            /\ x \in d.atts => <<d.form, x>> \in offered

\* Whoever was told of the state he is in knows what it is.
Told(s, d) ==
    /\ s \in {"name", "phone", "text"} => asked = s
    /\ s = "reply" => d.case \in {asked, NoCase}
    /\ s = "confirm" /\ Typed(d) /\ d.form \in begun => shown = d

Safe(s, d) == Open(d) /\ Fits(s, d, begun) /\ (~untold => Told(s, d))

----------------------------------------------------------------------------
(* The rests of a handler: what must be so for each of its calls to keep   *)
(* state and data safe                                                     *)

Rest == steps[1]

\* An answer is stored and the next step asked for, or a new form is begun.
Asking ==
    \E s \in FormStates \ {"confirm"}, fs \in {{}, {forms}} :
        /\ fs # {} => forms # 0 /\ Unsubmitted(forms)
        /\ \/ Rest = <<Ask(s)>> /\ state \in {s, "none"}
           \/ Rest = <<Enter(s, fs), Ask(s)>> /\ Fits(s, data, begun \cup fs)
           \/ \E d \in Data :
              /\ Rest = <<SetData(d), Enter(s, fs), Ask(s)>>
              /\ Safe(state, d) /\ Fits(s, d, begun \cup fs)
           \/ \E v \in {"yes", "no"} :
              /\ Rest = <<Read("anon", v), Enter(s, fs), Ask(s)>>
              /\ Safe(state, [data EXCEPT !.anon = v])
              /\ Fits(s, [data EXCEPT !.anon = v], begun \cup fs)
           \/ \E k \in {"name", "phone", "text"} :
              /\ Rest = <<Read(k, TRUE), Enter(s, fs), Ask(s)>>
              /\ ~untold => asked = k
              /\ Safe(state, [data EXCEPT ![k] = TRUE])
              /\ Fits(s, [data EXCEPT ![k] = TRUE], begun \cup fs)
           \/ \E d \in Data :
              /\ Rest = <<SetData(d), Read("anon", "no"), Enter(s, fs), Ask(s)>>
              /\ Safe(state, d) /\ Safe(state, [d EXCEPT !.anon = "no"])
              /\ Fits(s, [d EXCEPT !.anon = "no"], begun \cup fs)

Attaching ==
    \E f \in 0 .. forms, fs \in SUBSET Files :
        /\ state \in {"attachments", "none"}
        /\ f # 0 => Unsubmitted(f)
        /\ \/ Rest = <<Read("attach", fs)>>
              /\ (Typed(data) => \A x \in fs : <<data.form, x>> \in offered)
           \/ \E all \in SUBSET Files :
              /\ Rest = <<Read("atts", all), Ack(f, fs)>>
              /\ Typed(data) =>
                     /\ f = data.form /\ all = data.atts \cup fs
                     /\ \A x \in fs : <<f, x>> \in offered
           \/ \E d \in Data :
              /\ Rest = <<SetData(d), Ack(f, fs)>>
              /\ Safe(state, d)
              /\ Typed(d) => f = d.form /\ fs \subseteq d.atts
           \/ /\ Rest = <<Ack(f, fs)>>
              /\ Typed(data) => f = data.form /\ fs \subseteq data.atts

Confirming ==
    \/ /\ Rest = <<Read("confirm", TRUE)>>
       /\ Fits("confirm", data, begun)
    \/ \E d \in Data :
       /\ data \in {d, Empty}
       /\ \/ Rest = <<SetState("confirm"), Show(d)>> /\ Fits("confirm", data, begun)
          \/ Rest = <<Show(d)>> /\ state \in {"confirm", "none"}

GoingBack ==
    \/ Rest = <<Current>>
    \/ \E s \in States : Rest = <<Read("back", s)>> /\ Fits(s, data, begun)

Submitting ==
    \/ /\ Rest = <<Read("submit", TRUE)>>
       /\ Fits("confirm", data, begun)
       /\ ~untold /\ Typed(data) /\ data.form \in begun => shown = data
    \/ \E d \in Data :
       /\ Typed(d) /\ Open(d) /\ Fits("confirm", d, begun)
       /\ ~untold /\ d.form \in begun => shown = d
       /\ \/ Rest = Clear \o <<Create(d)>>
          \/ Rest = <<SetData(Empty), Create(d)>> /\ state = "none"
          \/ Rest = <<Create(d)>> /\ data = Empty

Leaving ==
    \/ Rest = Clear
    \/ Rest = <<SetData(Empty)>>

Prompting ==
    \E c \in Cases :
        \/ Rest = <<SetState("reply"), Read("case", c), Ask(c)>>
        \/ /\ state \in {"reply", "none"}
           /\ \/ Rest = <<Read("case", c), Ask(c)>> /\ untold
              \/ \E d \in Data :
                 Rest = <<SetData(d), Ask(c)>> /\ untold /\ Safe(state, d) /\ d.case = c
              \/ Rest = <<Ask(c)>> /\ data.case \in {c, NoCase}

Replying ==
    \/ Rest = <<Read("reply", TRUE)>> /\ (~untold => data.case \in {asked, NoCase})
    \/ \E c \in Cases :
       /\ ~untold => asked = c
       /\ \/ Rest = Clear \o <<Reply(c)>>
          \/ Rest = <<SetData(Empty), Reply(c)>>
          \/ Rest = <<Reply(c)>>

Way ==
    \/ Rest = <<>>
    \/ Asking \/ Attaching \/ Confirming \/ GoingBack
    \/ Submitting \/ Leaving \/ Prompting \/ Replying

----------------------------------------------------------------------------

\* Submitted rows: of a form that was started, complete if it was begun, with
\* its files, one for each form.
RowsFit ==
    /\ \A i \in DOMAIN submitted :
        /\ Typed(submitted[i])
        /\ submitted[i].form <= forms
        /\ submitted[i].form \in begun => Reached("confirm", submitted[i])
        /\ \A x \in Files : /\ <<submitted[i].form, x>> \in acked => x \in submitted[i].atts
                            /\ x \in submitted[i].atts => <<submitted[i].form, x>> \in offered
    /\ \A i, j \in DOMAIN submitted : submitted[i].form = submitted[j].form => i = j

\* The number of the next form is new everywhere.
Numbered ==
    /\ \A f \in begun : f <= forms
    /\ \A x \in acked \cup offered : x[1] <= forms

Serial ==
    overlaps = 0 =>
        steps[2] = <<>> /\ Safe(state, data) /\ Way /\ RowsFit /\ Numbered

IInv == TypeInv /\ Serial /\ AnonymousStripped

----------------------------------------------------------------------------
(* Proofs                                                                  *)

(* Joining short sequences                                                 *)

LEMMA One == ASSUME NEW x PROVE Head(<<x>>) = x /\ Tail(<<x>>) = <<>>
  OBVIOUS

LEMMA Pair ==
    ASSUME NEW S, NEW p \in Seq(S), Len(p) = 2 PROVE p = <<p[1], p[2]>>
  OBVIOUS

LEMMA Triple ==
    ASSUME NEW S, NEW p \in Seq(S), Len(p) = 3 PROVE p = <<p[1], p[2], p[3]>>
  OBVIOUS

LEMMA Joins ==
    ASSUME NEW a, NEW b, NEW c
    PROVE  /\ <<a>> \o <<b>> = <<a, b>>
           /\ <<a>> \o <<b, c>> = <<a, b, c>>
           /\ <<a, b>> \o <<c>> = <<a, b, c>>
  <1> DEFINE S == {a, b, c}
  <1>1. /\ <<a>> \in Seq(S) /\ <<b>> \in Seq(S) /\ <<c>> \in Seq(S)
        /\ <<a, b>> \in Seq(S) /\ <<b, c>> \in Seq(S)
    OBVIOUS
  <1>2. <<a>> \o <<b>> = <<a, b>>
    <2> DEFINE p == <<a>> \o <<b>>
    <2>1. p \in Seq(S) /\ Len(p) = 2 /\ p[1] = a /\ p[2] = b
      BY <1>1, ConcatProperties
    <2> HIDE DEF p
    <2>2. p = <<a, b>>
      BY <2>1, Pair
    <2> QED BY <2>2 DEF p
  <1>3. <<a>> \o <<b, c>> = <<a, b, c>>
    <2> DEFINE p == <<a>> \o <<b, c>>
    <2>1. p \in Seq(S) /\ Len(p) = 3 /\ p[1] = a /\ p[2] = b /\ p[3] = c
      BY <1>1, ConcatProperties
    <2> HIDE DEF p
    <2>2. p = <<a, b, c>>
      BY <2>1, Triple
    <2> QED BY <2>2 DEF p
  <1>4. <<a, b>> \o <<c>> = <<a, b, c>>
    <2> DEFINE p == <<a, b>> \o <<c>>
    <2>1. p \in Seq(S) /\ Len(p) = 3 /\ p[1] = a /\ p[2] = b /\ p[3] = c
      BY <1>1, ConcatProperties
    <2> HIDE DEF p
    <2>2. p = <<a, b, c>>
      BY <2>1, Triple
    <2> QED BY <2>2 DEF p
  <1> QED BY <1>2, <1>3, <1>4

LEMMA EmptyIsData == Empty \in Data
  BY FormAssumption DEF Empty, Data

LEMMA StoredIsData == ASSUME NEW d \in Data PROVE Stored(d) \in Data
  BY DEF Stored, Data

\* update_data keeps the type of the data.
LEMMA AnswerFits ==
    ASSUME NEW a \in Answers, NEW d \in Data
    PROVE  [d EXCEPT ![a[1]] = a[2]] \in Data
  <1>1. CASE a \in {"anon"} \X {"yes", "no"}
    BY <1>1 DEF Data
  <1>2. CASE a \in {"name", "phone", "text"} \X {TRUE}
    BY <1>2 DEF Data
  <1>3. CASE a \in {"atts"} \X SUBSET Files
    BY <1>3 DEF Data
  <1>4. CASE a \in {"case"} \X Cases
    BY <1>4 DEF Data
  <1> QED BY <1>1, <1>2, <1>3, <1>4 DEF Answers

\* What the calls of each kind carry.
LEMMA CallsCarry ==
    ASSUME NEW o \in Calls
    PROVE  /\ o.op = "state" => o.state \in States /\ o.begins \in SUBSET (1 .. MaxForms)
           /\ o.op = "data" => o.data \in Data
           /\ o.op = "show" => o.data \in Data
           /\ o.op = "create" => o.data \in Data
           /\ o.op = "ack" => o.form \in 0 .. MaxForms /\ o.files \in SUBSET Files
           /\ o.op = "ask" => o.of \in FormStates \cup Cases
           /\ o.op = "reply" => o.case \in Cases
           /\ o.op = "read" => \E a \in Answers : o = Read(a[1], a[2])
           /\ o.op # "current"
  <1>1. CASE \E s \in States, fs \in SUBSET (1 .. MaxForms) : o = Enter(s, fs)
    BY <1>1 DEF Enter
  <1>2. CASE \E d \in Data : o = SetData(d) \/ o = Show(d) \/ o = Create(d)
    BY <1>2 DEF SetData, Show, Create
  <1>3. CASE \E a \in Answers : o = Read(a[1], a[2])
    <2>1. o.op = "read"
      BY <1>3 DEF Read
    <2> QED BY <1>3, <2>1
  <1>4. CASE \E f \in 0 .. MaxForms, fs \in SUBSET Files : o = Ack(f, fs)
    BY <1>4 DEF Ack
  <1>5. CASE \E q \in FormStates \cup Cases : o = Ask(q)
    BY <1>5 DEF Ask
  <1>6. CASE \E c \in Cases : o = Reply(c)
    BY <1>6 DEF Reply
  <1> QED BY <1>1, <1>2, <1>3, <1>4, <1>5, <1>6 DEF Calls

LEMMA AreCalls ==
    /\ \A s \in States : SetState(s) \in Calls
    /\ \A s \in States, f \in 1 .. MaxForms : Enter(s, {f}) \in Calls
    /\ \A d \in Data : SetData(d) \in Calls /\ Show(d) \in Calls /\ Create(d) \in Calls
    /\ \A a \in Answers : Read(a[1], a[2]) \in Calls
    /\ \A f \in 0 .. MaxForms, fs \in SUBSET Files : Ack(f, fs) \in Calls
    /\ \A q \in FormStates \cup Cases : Ask(q) \in Calls
    /\ \A c \in Cases : Reply(c) \in Calls
  BY DEF Calls, SetState

LEMMA ProgramsOf ==
    /\ \A x \in Calls : <<x>> \in Programs
    /\ \A x, y \in Calls : <<x, y>> \in Programs
    /\ \A x, y, z \in Calls : <<x, y, z>> \in Programs
    /\ \A w, x, y, z \in Calls : <<w, x, y, z>> \in Programs
    /\ <<>> \in Programs
    /\ <<Current>> \in Programs
    /\ \A a \in Turns : <<Read(a[1], a[2])>> \in Programs
  BY DEF Programs, Alone

LEMMA ClearFits == Clear \in Programs /\ \A x \in Calls : Clear \o <<x>> \in Programs
  <1>1. /\ SetState("none") \in Calls /\ SetData(Empty) \in Calls
    BY AreCalls, EmptyIsData DEF States
  <1>2. ASSUME NEW x PROVE Clear \o <<x>> = <<SetState("none"), SetData(Empty), x>>
    BY Joins DEF Clear
  <1> QED BY <1>1, <1>2, ProgramsOf DEF Clear

\* How a read goes on.
LEMMA ThenFits ==
    ASSUME NEW a \in Turns, NEW d \in Data
    PROVE  Then(Read(a[1], a[2]), d) \in Programs
  <1> DEFINE r == Read(a[1], a[2])
  <1>1. r.then = a[1] /\ r.value = a[2]
    BY DEF Read
  <1>2. CASE a \in {"attach"} \X SUBSET Files
    <2>1. Then(r, d) = <<Read("atts", d.atts \cup a[2]), Ack(d.form, a[2])>>
      BY <1>1, <1>2 DEF Then
    <2>0. d.form \in 0 .. MaxForms
      BY DEF Data
    <2>2. <<"atts", d.atts \cup a[2]>> \in Answers
      BY <1>2 DEF Answers, Data
    <2>3. Read("atts", d.atts \cup a[2]) \in Calls
      <3> DEFINE b == <<"atts", d.atts \cup a[2]>>
      <3>1. Read(b[1], b[2]) \in Calls
        BY <2>2, AreCalls
      <3> QED BY <3>1
    <2> QED BY <1>2, <2>0, <2>1, <2>3, AreCalls, ProgramsOf
  <1>3. CASE a[1] = "confirm"
    BY <1>1, <1>3, AreCalls, ProgramsOf DEF Then, States, FormStates
  <1>4. CASE a[1] = "submit"
    BY <1>1, <1>4, AreCalls, ProgramsOf, ClearFits DEF Then
  <1>5. CASE a[1] = "reply"
    BY <1>1, <1>5, AreCalls, ProgramsOf, ClearFits DEF Then, Data
  <1>6. CASE a[1] = "back"
    BY <1>1, <1>6, AreCalls, ProgramsOf DEF Then, Back, States, FormStates
  <1> QED BY <1>2, <1>3, <1>4, <1>5, <1>6 DEF Turns

LEMMA FirstRead ==
    /\ \A v \in {"yes", "no"} : Read("anon", v) \in Calls
    /\ \A k \in {"name", "phone", "text"} : Read(k, TRUE) \in Calls
    /\ \A c \in Cases : Read("case", c) \in Calls
  <1>1. \A k, v : <<k, v>> \in Answers => Read(k, v) \in Calls
    <2> SUFFICES ASSUME NEW k, NEW v, <<k, v>> \in Answers PROVE Read(k, v) \in Calls
      OBVIOUS
    <2> DEFINE a == <<k, v>>
    <2>1. Read(a[1], a[2]) \in Calls
      BY AreCalls
    <2> QED BY <2>1
  <1> QED BY <1>1 DEF Answers

LEMMA TurnFits ==
    /\ \A fs \in SUBSET Files : <<Read("attach", fs)>> \in Programs
    /\ \A k \in {"confirm", "submit", "reply"} : <<Read(k, TRUE)>> \in Programs
    /\ \A s \in States : <<Read("back", s)>> \in Programs
  <1>1. /\ \A fs \in SUBSET Files : <<"attach", fs>> \in Turns
        /\ \A k \in {"confirm", "submit", "reply"} : <<k, TRUE>> \in Turns
        /\ \A s \in States : <<"back", s>> \in Turns
    BY DEF Turns
  <1> QED BY <1>1, ProgramsOf

LEMMA MessageFits ==
    ASSUME NEW v \in Texts, NEW s \in States PROVE OnMessage(v, s) \in Programs
  BY TurnFits, FirstRead, AreCalls, ProgramsOf, ClearFits
  DEF OnMessage, OnReplyText, OnName, OnPhone, OnText, States, FormStates

\* The data a new form begins with.
Blank(n, t) == [Empty EXCEPT !.form = n, !.type = t]

LEMMA StartFormIs ==
    ASSUME NEW t
    PROVE  StartForm(t) =
               IF t = "corruption"
               THEN <<SetData(Blank(forms + 1, t)), Enter("anonymous", {forms + 1}),
                      Ask("anonymous")>>
               ELSE <<SetData(Blank(forms + 1, t)), Read("anon", "no"),
                      Enter("name", {forms + 1}), Ask("name")>>
  BY DEF StartForm, Blank

LEMMA BlankFits ==
    ASSUME NEW n \in 0 .. MaxForms, NEW t \in Types PROVE Blank(n, t) \in Data
  BY EmptyIsData DEF Blank, Data

LEMMA TapFits ==
    ASSUME TypeOK, NEW b \in Buttons, NEW s \in States, b \in Types => forms < MaxForms
    PROVE  OnTap(b, s) \in Programs
  <1>1. CASE b \in Cases
    <2>1. OnTap(b, s) = OnReplyStart(b)
      BY <1>1, FormAssumption DEF OnTap, Types, Choices
    <2>2. SetState("reply") \in Calls /\ Ask(b) \in Calls /\ Read("case", b) \in Calls
      BY <1>1, FirstRead, AreCalls DEF States
    <2> QED BY <2>1, <2>2, ProgramsOf DEF OnReplyStart
  <1>2. CASE b \in Types
    <2>1. forms + 1 \in 1 .. MaxForms /\ forms + 1 \in 0 .. MaxForms
      BY <1>2, FormAssumption DEF TypeOK
    <2>2. SetData(Blank(forms + 1, b)) \in Calls
      BY <1>2, <2>1, BlankFits, AreCalls
    <2>3. OnTap(b, s) = StartForm(b)
      BY <1>2, FormAssumption DEF OnTap, Types
    <2>4. /\ Enter("anonymous", {forms + 1}) \in Calls /\ Enter("name", {forms + 1}) \in Calls
          /\ Ask("anonymous") \in Calls /\ Ask("name") \in Calls
          /\ Read("anon", "no") \in Calls
      BY <2>1, FirstRead, AreCalls DEF States, FormStates
    <2> QED BY <2>2, <2>3, <2>4, StartFormIs, ProgramsOf
  <1>3. CASE b \in Choices
    BY <1>3, TurnFits, FirstRead, AreCalls, ProgramsOf, ClearFits, FormAssumption
    DEF OnTap, OnAnonymous, OnAttachmentsDone, OnBack, OnSubmit, States, FormStates, Types, Choices
  <1> QED BY <1>1, <1>2, <1>3 DEF Buttons

LEMMA NothingAfter == \A p \in Programs : p \o <<>> = p
  <1> SUFFICES ASSUME NEW p \in Programs PROVE p \o <<>> = p
    OBVIOUS
  <1>1. CASE p \in Seq(Calls)
    BY <1>1, ConcatEmptySeq
  <1>2. CASE p \in Alone
    <2>1. PICK x : p = <<x>>
      BY <1>2 DEF Alone
    <2>2. p \in Seq({x})
      BY <2>1
    <2> QED BY <2>2, ConcatEmptySeq
  <1> QED BY <1>1, <1>2 DEF Programs

\* A program is read off from its first call.
LEMMA FirstCall ==
    ASSUME NEW p \in Programs, p # <<>>
    PROVE  /\ Tail(p) \in Programs
           /\ \/ Head(p) \in Calls /\ p \in Seq(Calls)
              \/ Head(p) = Current /\ Tail(p) = <<>>
              \/ \E a \in Turns : Head(p) = Read(a[1], a[2]) /\ Tail(p) = <<>>
  <1>1. CASE p \in Seq(Calls)
    <2>1. Head(p) \in Calls /\ Tail(p) \in Seq(Calls) /\ Len(Tail(p)) = Len(p) - 1
      BY <1>1
    <2> QED BY <1>1, <2>1 DEF Programs
  <1>2. CASE p \in Alone
    <2>1. p = <<Current>> \/ \E a \in Turns : p = <<Read(a[1], a[2])>>
      BY <1>2 DEF Alone
    <2>2. CASE p = <<Current>>
      BY <2>2, One, ProgramsOf
    <2>3. CASE \E a \in Turns : p = <<Read(a[1], a[2])>>
      <3>1. PICK a \in Turns : p = <<Read(a[1], a[2])>>
        BY <2>3
      <3>2. Head(p) = Read(a[1], a[2]) /\ Tail(p) = <<>>
        BY <3>1, One
      <3> QED BY <3>2, ProgramsOf
    <2> QED BY <2>1, <2>2, <2>3
  <1> QED BY <1>1, <1>2 DEF Programs

LEMMA FirstCallCarries ==
    ASSUME TypeInv, NEW h \in Slots, ~Idle(h)
    PROVE  /\ Tail(steps[h]) \in Programs
           /\ Arg(h).op \notin {"read", "current"} => Arg(h) \in Calls
           /\ Arg(h).op = "read" =>
                  \/ \E a \in Answers : Arg(h) = Read(a[1], a[2]) /\ steps[h] \in Seq(Calls)
                  \/ \E a \in Turns : Arg(h) = Read(a[1], a[2]) /\ Tail(steps[h]) = <<>>
           /\ Arg(h).op = "current" => Tail(steps[h]) = <<>>
  <1> DEFINE p == steps[h]
  <1>1. p \in Programs /\ p # <<>>
    BY DEF TypeInv, Idle
  <1>2. /\ Tail(p) \in Programs
        /\ \/ Head(p) \in Calls /\ p \in Seq(Calls)
           \/ Head(p) = Current /\ Tail(p) = <<>>
           \/ \E a \in Turns : Head(p) = Read(a[1], a[2]) /\ Tail(p) = <<>>
    BY <1>1, FirstCall
  <1>3. CASE Head(p) \in Calls /\ p \in Seq(Calls)
    BY <1>2, <1>3, CallsCarry DEF Arg
  <1>4. CASE Head(p) = Current /\ Tail(p) = <<>>
    BY <1>2, <1>4 DEF Arg, Current
  <1>5. CASE \E a \in Turns : Head(p) = Read(a[1], a[2]) /\ Tail(p) = <<>>
    <2>1. Arg(h).op = "read"
      BY <1>5 DEF Arg, Read
    <2> QED BY <1>2, <1>5, <2>1 DEF Arg
  <1> QED BY <1>2, <1>3, <1>4, <1>5

\* An answer that is read becomes the data to be stored.
LEMMA AnswerIsStored ==
    ASSUME NEW a \in Answers, NEW d
    PROVE  Then(Read(a[1], a[2]), d) = <<SetData([d EXCEPT ![a[1]] = a[2]])>>
  <1>1. a[1] \in {"anon", "name", "phone", "text", "atts", "case"}
    BY DEF Answers
  <1> QED BY <1>1 DEF Then, Read

LEMMA InitTypes == Init => TypeInv
  <1> SUFFICES ASSUME Init PROVE TypeInv
    OBVIOUS
  <1>1. /\ steps \in [Slots -> Programs] /\ DOMAIN steps = Slots
        /\ \A h \in Slots : Len(steps[h]) <= 4
    BY ProgramsOf DEF Init
  <1>2. submitted \in Seq(Data) /\ \A i \in DOMAIN submitted : submitted[i] \in Data
    BY DEF Init
  <1>3. /\ state \in States /\ last \in {"state", "data"} /\ untold \in BOOLEAN
        /\ asked \in FormStates \cup Cases \cup {"none"}
    BY DEF Init, States
  <1>4. data \in Data /\ shown \in Data
    BY EmptyIsData DEF Init
  <1>5. begun \subseteq 1 .. MaxForms /\ {} = offered /\ {} = acked
    BY DEF Init
  <1>6. overlaps \in 0 .. MaxOverlaps /\ forms \in 0 .. MaxForms
    BY FormAssumption DEF Init
  <1> QED BY <1>1, <1>2, <1>3, <1>4, <1>5, <1>6 DEF TypeInv, TypeOK

LEMMA LongEnough == \A p \in Programs : Len(p) <= 4 /\ Len(p) \in Nat
  <1> SUFFICES ASSUME NEW p \in Programs PROVE Len(p) <= 4 /\ Len(p) \in Nat
    OBVIOUS
  <1>1. CASE p \in Seq(Calls)
    BY <1>1 DEF Programs
  <1>2. CASE p \in Alone
    BY <1>2 DEF Alone
  <1> QED BY <1>1, <1>2 DEF Programs

LEMMA ReceiveTypes ==
    ASSUME TypeInv, NEW h \in Slots, Receive(h) PROVE TypeInv'
  <1>1. ASSUME NEW p \in Programs, Arrive(h, p)
        PROVE  /\ steps' \in [Slots -> Programs]
               /\ DOMAIN steps' = Slots /\ \A g \in Slots : Len(steps'[g]) <= 4
               /\ overlaps' \in 0 .. MaxOverlaps
    <2>1. steps' \in [Slots -> Programs]
      BY <1>1 DEF Arrive, TypeInv
    <2>2. overlaps' \in 0 .. MaxOverlaps
      BY <1>1, FormAssumption DEF Arrive, TypeInv, TypeOK
    <2> QED BY <2>1, <2>2, LongEnough
  <1>2. ASSUME NEW v \in Texts, ReceiveMessage(h, v) PROVE TypeInv'
    <2>1. OnMessage(v, state) \in Programs
      BY MessageFits DEF TypeInv, TypeOK
    <2> QED BY <1>1, <1>2, <2>1 DEF ReceiveMessage, TypeInv, TypeOK, chat
  <1>3. ASSUME NEW fs \in SUBSET Files, ReceiveFiles(h, fs) PROVE TypeInv'
    <2>1. OnAttachment(fs) \in Programs
      BY TurnFits DEF OnAttachment
    <2>2. offered' \subseteq (1 .. MaxForms) \X Files
      BY <1>3 DEF ReceiveFiles, Noted, TypeInv, TypeOK, Data
    <2> QED BY <1>1, <1>3, <2>1, <2>2 DEF ReceiveFiles, TypeInv, TypeOK, chat
  <1>4. ASSUME NEW b \in Buttons, ReceiveTap(h, b) PROVE TypeInv'
    <2>1. OnTap(b, state) \in Programs
      BY <1>4, TapFits DEF ReceiveTap, TypeInv, TypeOK
    <2>2. forms' \in 0 .. MaxForms
      BY <1>4, FormAssumption DEF ReceiveTap, TypeInv, TypeOK
    <2> QED BY <1>1, <1>4, <2>1, <2>2 DEF ReceiveTap, TypeInv, TypeOK, chat
  <1> QED BY <1>2, <1>3, <1>4 DEF Receive

LEMMA HandleTypes ==
    ASSUME TypeInv, NEW h \in Slots, Handle(h) PROVE TypeInv'
  <1>1. ~Idle(h) /\ steps[h] \in Programs
    BY DEF Handle, DoSetState, DoSetData, DoRead, DoCurrent, DoShow, DoAck, DoCreate,
           DoAsk, DoReply, Call, TypeInv
  <1>2. ASSUME Return(h)
        PROVE  /\ steps' \in [Slots -> Programs]
               /\ DOMAIN steps' = Slots /\ \A g \in Slots : Len(steps'[g]) <= 4
    <2>1. steps' \in [Slots -> Programs]
      BY <1>1, <1>2, FirstCallCarries DEF Return, TypeInv
    <2> QED BY <2>1, LongEnough
  <1>3. ASSUME NEW p, p \o Tail(steps[h]) \in Programs, GoOn(h, p)
        PROVE  /\ steps' \in [Slots -> Programs]
               /\ DOMAIN steps' = Slots /\ \A g \in Slots : Len(steps'[g]) <= 4
    <2>1. steps' \in [Slots -> Programs]
      BY <1>3 DEF GoOn, TypeInv
    <2> QED BY <2>1, LongEnough
  <1>4. CASE DoSetState(h)
    <2>1. state' \in States /\ begun' \subseteq 1 .. MaxForms
      <3>1. Arg(h).op = "state" /\ Arg(h) \in Calls
        BY <1>1, <1>4, FirstCallCarries DEF DoSetState, Call, Arg
      <3>2. Arg(h).state \in States /\ Arg(h).begins \in SUBSET (1 .. MaxForms)
        BY <3>1, CallsCarry
      <3> QED BY <1>4, <3>2 DEF DoSetState, TypeInv, TypeOK
    <2>2. untold' \in BOOLEAN
      BY <1>4 DEF DoSetState
    <2> QED BY <1>2, <1>4, <2>1, <2>2 DEF DoSetState, TypeInv, TypeOK
  <1>5. CASE DoSetData(h)
    <2>1. data' \in Data
      BY <1>1, <1>5, FirstCallCarries, CallsCarry DEF DoSetData, Call, Arg
    <2> QED BY <1>2, <1>5, <2>1 DEF DoSetData, TypeInv, TypeOK, chat
  <1>6. CASE DoRead(h)
    <2> DEFINE p == Then(Arg(h), data)
    <2>1. p \o Tail(steps[h]) \in Programs
      <3>1. Arg(h).op = "read" /\ data \in Data
        BY <1>6 DEF DoRead, Call, Arg, TypeInv, TypeOK
      <3>2. CASE \E a \in Answers : Arg(h) = Read(a[1], a[2]) /\ steps[h] \in Seq(Calls)
        <4>1. PICK a \in Answers : Arg(h) = Read(a[1], a[2]) /\ steps[h] \in Seq(Calls)
          BY <3>2
        <4> DEFINE x == SetData([data EXCEPT ![a[1]] = a[2]])
        <4>2. p = <<x>> /\ x \in Calls
          BY <3>1, <4>1, AnswerIsStored, AnswerFits, AreCalls
        <4>3. /\ Tail(steps[h]) \in Seq(Calls) /\ <<x>> \in Seq(Calls)
              /\ Len(Tail(steps[h])) <= 3 /\ Len(Tail(steps[h])) \in Nat
          BY <1>1, <4>1, <4>2 DEF Idle, Programs
        <4>4. <<x>> \o Tail(steps[h]) \in Seq(Calls)
              /\ Len(<<x>> \o Tail(steps[h])) <= 4
          BY <4>3, ConcatProperties
        <4> QED BY <4>2, <4>4 DEF Programs
      <3>3. CASE \E a \in Turns : Arg(h) = Read(a[1], a[2]) /\ Tail(steps[h]) = <<>>
        <4>1. p \in Programs
          BY <3>1, <3>3, ThenFits
        <4>2. p \o <<>> = p
          BY <4>1, NothingAfter
        <4> QED BY <3>3, <4>1, <4>2
      <3> QED BY <1>1, <3>1, <3>2, <3>3, FirstCallCarries
    <2> QED BY <1>3, <1>6, <2>1 DEF DoRead, TypeInv, TypeOK, chat
  <1>7. CASE DoCurrent(h)
    <2>1. Tail(steps[h]) = <<>>
      BY <1>1, <1>7, FirstCallCarries DEF DoCurrent, Call, Arg
    <2>2. <<Read("back", state)>> \in Programs
      BY TurnFits DEF TypeInv, TypeOK
    <2>3. <<Read("back", state)>> \o <<>> = <<Read("back", state)>>
      BY <2>2, NothingAfter
    <2> QED BY <1>3, <1>7, <2>1, <2>2, <2>3 DEF DoCurrent, TypeInv, TypeOK, chat
  <1>8. CASE DoShow(h)
    <2>1. shown' \in Data
      BY <1>1, <1>8, FirstCallCarries, CallsCarry DEF DoShow, Call, Arg
    <2>2. asked' \in FormStates \cup Cases \cup {"none"}
      BY <1>8 DEF DoShow, FormStates
    <2> QED BY <1>2, <1>8, <2>1, <2>2 DEF DoShow, TypeInv, TypeOK
  <1>9. CASE DoAck(h)
    <2>1. Arg(h).form \in 0 .. MaxForms /\ Arg(h).files \in SUBSET Files
      BY <1>1, <1>9, FirstCallCarries, CallsCarry DEF DoAck, Call, Arg
    <2>2. acked' \subseteq (1 .. MaxForms) \X Files
      BY <1>9, <2>1 DEF DoAck, Noted, TypeInv, TypeOK
    <2> QED BY <1>2, <1>9, <2>2 DEF DoAck, TypeInv, TypeOK
  <1>10. CASE DoCreate(h)
    <2>1. Stored(Arg(h).data) \in Data
      BY <1>1, <1>10, FirstCallCarries, CallsCarry, StoredIsData DEF DoCreate, Call, Arg
    <2>2. submitted' \in Seq(Data)
      BY <1>10, <2>1 DEF DoCreate, TypeInv
    <2> QED BY <1>2, <1>10, <2>2 DEF DoCreate, TypeInv, TypeOK, chat
  <1>11. CASE DoAsk(h)
    <2>1. asked' \in FormStates \cup Cases \cup {"none"} /\ shown' \in Data
      BY <1>1, <1>11, FirstCallCarries, CallsCarry, EmptyIsData DEF DoAsk, Call, Arg
    <2> QED BY <1>2, <1>11, <2>1 DEF DoAsk, TypeInv, TypeOK
  <1>12. CASE DoReply(h)
    BY <1>2, <1>12 DEF DoReply, TypeInv, TypeOK, chat
  <1> QED BY <1>4, <1>5, <1>6, <1>7, <1>8, <1>9, <1>10, <1>11, <1>12 DEF Handle

LEMMA FailTypes ==
    ASSUME TypeInv, NEW h \in Slots, Fail(h) PROVE TypeInv'
  <1>1. steps' \in [Slots -> Programs]
    BY ProgramsOf DEF Fail, TypeInv
  <1> QED BY <1>1, LongEnough DEF Fail, TypeInv, TypeOK, chat

LEMMA TypeNext == TypeInv /\ [Next]_vars => TypeInv'
  <1> SUFFICES ASSUME TypeInv, [Next]_vars PROVE TypeInv'
    OBVIOUS
  <1>1. CASE ExpireState
    BY <1>1 DEF ExpireState, TypeInv, TypeOK, States, chat
  <1>2. CASE ExpireData
    BY <1>2, EmptyIsData DEF ExpireData, TypeInv, TypeOK, chat
  <1>3. CASE UNCHANGED vars
    BY <1>3 DEF vars, chat, TypeInv, TypeOK
  <1> QED BY <1>1, <1>2, <1>3, ReceiveTypes, HandleTypes, FailTypes DEF Next

----------------------------------------------------------------------------
(* One update after the other: the calls of the only handler under way     *)

LEMMA Firsts ==
    ASSUME NEW w, NEW x, NEW y, NEW z
    PROVE  /\ <<x>> # <<>> /\ Head(<<x>>) = x /\ Tail(<<x>>) = <<>>
           /\ <<x, y>> # <<>> /\ Head(<<x, y>>) = x /\ Tail(<<x, y>>) = <<y>>
           /\ <<x, y, z>> # <<>> /\ Head(<<x, y, z>>) = x /\ Tail(<<x, y, z>>) = <<y, z>>
           /\ <<w, x, y, z>> # <<>> /\ Head(<<w, x, y, z>>) = w
           /\ Tail(<<w, x, y, z>>) = <<x, y, z>>
  OBVIOUS

\* What Safe looks at besides state and data.
hist == <<forms, submitted, begun, shown, offered, acked, asked, untold>>

LEMMA Runs ==
    ASSUME TypeInv, NEW x, Rest # <<>>, Head(Rest) = x, Handle(1)
    PROVE  /\ UNCHANGED <<overlaps, forms>> /\ steps'[2] = steps[2]
           /\ x.op \notin {"read", "current"} => Rest' = Tail(Rest)
           /\ x.op = "state" =>
                  /\ state' = x.state /\ begun' = begun \cup x.begins
                  /\ untold' = (untold \/ x.state # "none")
                  /\ UNCHANGED <<data, submitted, shown, offered, acked, asked>>
           /\ x.op = "data" => data' = x.data /\ UNCHANGED <<state, hist>>
           /\ x.op = "read" =>
                  Rest' = Then(x, data) \o Tail(Rest) /\ UNCHANGED <<state, data, hist>>
           /\ x.op = "current" =>
                  /\ Rest' = <<Read("back", state)>> \o Tail(Rest)
                  /\ UNCHANGED <<state, data, hist>>
           /\ x.op = "show" =>
                  /\ shown' = x.data /\ asked' = "confirm" /\ untold' = FALSE
                  /\ UNCHANGED <<state, data, submitted, begun, offered, acked>>
           /\ x.op = "ack" =>
                  /\ acked' = acked \cup Noted(x.form, x.files)
                  /\ UNCHANGED <<state, data, submitted, begun, shown, offered, asked, untold>>
           /\ x.op = "create" =>
                  /\ submitted' = Append(submitted, Stored(x.data))
                  /\ UNCHANGED <<state, data, begun, shown, offered, acked, asked, untold>>
           /\ x.op = "ask" =>
                  /\ asked' = x.of /\ shown' = Empty /\ untold' = FALSE
                  /\ UNCHANGED <<state, data, submitted, begun, offered, acked>>
           /\ x.op = "reply" => UNCHANGED <<state, data, hist>>
  <1>0. DOMAIN steps = Slots /\ 1 \in Slots /\ 2 \in Slots
    BY DEF TypeInv, TypeOK, Slots
  <1>1. CASE DoSetState(1)
    BY <1>0, <1>1 DEF DoSetState, Call, Arg, Return, Rest
  <1>2. CASE DoSetData(1)
    BY <1>0, <1>2 DEF DoSetData, Call, Arg, Return, Rest, hist, chat
  <1>3. CASE DoRead(1)
    <2>1. Arg(1) = x /\ x.op = "read"
      BY <1>3 DEF DoRead, Call, Arg, Rest
    <2>2. GoOn(1, Then(x, data))
      BY <1>3, <2>1 DEF DoRead
    <2> QED BY <1>0, <1>3, <2>1, <2>2 DEF DoRead, GoOn, Rest, hist, chat
  <1>4. CASE DoCurrent(1)
    BY <1>0, <1>4 DEF DoCurrent, Call, Arg, GoOn, Rest, hist, chat
  <1>5. CASE DoShow(1)
    BY <1>0, <1>5 DEF DoShow, Call, Arg, Return, Rest
  <1>6. CASE DoAck(1)
    BY <1>0, <1>6 DEF DoAck, Call, Arg, Return, Rest
  <1>7. CASE DoCreate(1)
    BY <1>0, <1>7 DEF DoCreate, Call, Arg, Return, Rest, chat
  <1>8. CASE DoAsk(1)
    BY <1>0, <1>8 DEF DoAsk, Call, Arg, Return, Rest
  <1>9. CASE DoReply(1)
    BY <1>0, <1>9 DEF DoReply, Call, Arg, Return, Rest, hist, chat
  <1> QED BY <1>1, <1>2, <1>3, <1>4, <1>5, <1>6, <1>7, <1>8, <1>9 DEF Handle

LEMMA RunsEnter ==
    ASSUME TypeInv, NEW s, NEW fs, Rest # <<>>, Head(Rest) = Enter(s, fs), Handle(1)
    PROVE  /\ Rest' = Tail(Rest) /\ state' = s /\ begun' = begun \cup fs
           /\ untold' = (untold \/ s # "none")
           /\ UNCHANGED <<data, forms, submitted, shown, offered, acked, asked>>
  <1>1. LET x == Enter(s, fs) IN x.op = "state" /\ x.state = s /\ x.begins = fs
    BY DEF Enter
  <1> QED BY <1>1, Runs

LEMMA RunsState ==
    ASSUME TypeInv, NEW s, Rest # <<>>, Head(Rest) = SetState(s), Handle(1)
    PROVE  /\ Rest' = Tail(Rest) /\ state' = s
           /\ untold' = (untold \/ s # "none")
           /\ UNCHANGED <<data, forms, submitted, begun, shown, offered, acked, asked>>
  <1>1. Head(Rest) = Enter(s, {})
    BY DEF SetState
  <1>2. begun' = begun \cup {}
    BY <1>1, RunsEnter
  <1> QED BY <1>1, <1>2, RunsEnter

LEMMA RunsData ==
    ASSUME TypeInv, NEW d, Rest # <<>>, Head(Rest) = SetData(d), Handle(1)
    PROVE  Rest' = Tail(Rest) /\ data' = d /\ UNCHANGED <<state, hist>>
  <1>1. SetData(d).op = "data" /\ SetData(d).data = d
    BY DEF SetData
  <1> QED BY <1>1, Runs

LEMMA RunsRead ==
    ASSUME TypeInv, NEW k, NEW v, Rest # <<>>, Head(Rest) = Read(k, v), Handle(1)
    PROVE  Rest' = Then(Read(k, v), data) \o Tail(Rest) /\ UNCHANGED <<state, data, hist>>
  <1>1. Read(k, v).op = "read"
    BY DEF Read
  <1> QED BY <1>1, Runs

LEMMA RunsTurn ==
    ASSUME TypeInv, NEW k, NEW v, Rest = <<Read(k, v)>>, Handle(1)
    PROVE  Rest' = Then(Read(k, v), data) \o <<>> /\ UNCHANGED <<state, data, hist>>
  <1>1. Rest # <<>> /\ Head(Rest) = Read(k, v) /\ Tail(Rest) = <<>>
    BY Firsts
  <1> QED BY <1>1, RunsRead

\* An answer that is read becomes data to be stored.
LEMMA RunsAnswer ==
    ASSUME TypeInv, NEW k, NEW v, <<k, v>> \in Answers, NEW y, NEW z,
           Rest \in {<<Read(k, v), y>>, <<Read(k, v), y, z>>}, Handle(1)
    PROVE  /\ Rest = <<Read(k, v), y>> => Rest' = <<SetData([data EXCEPT ![k] = v]), y>>
           /\ Rest = <<Read(k, v), y, z>> =>
                  Rest' = <<SetData([data EXCEPT ![k] = v]), y, z>>
           /\ [data EXCEPT ![k] = v] \in Data
           /\ UNCHANGED <<state, data, hist>>
  <1> DEFINE a == <<k, v>>
  <1> DEFINE x == SetData([data EXCEPT ![a[1]] = a[2]])
  <1>1. Rest # <<>> /\ Head(Rest) = Read(k, v)
    BY Firsts
  <1>2. Then(Read(a[1], a[2]), data) = <<x>>
    BY AnswerIsStored
  <1>3. [data EXCEPT ![a[1]] = a[2]] \in Data
    BY AnswerFits DEF TypeInv, TypeOK
  <1>4. Rest' = <<x>> \o Tail(Rest) /\ UNCHANGED <<state, data, hist>>
    BY <1>1, <1>2, RunsRead
  <1>5. Rest = <<Read(k, v), y>> => Rest' = <<x, y>>
    <2>1. Tail(<<Read(k, v), y>>) = <<y>>
      BY Firsts
    <2>2. <<x>> \o <<y>> = <<x, y>>
      BY Joins
    <2> QED BY <1>4, <2>1, <2>2
  <1>6. Rest = <<Read(k, v), y, z>> => Rest' = <<x, y, z>>
    <2>1. Tail(<<Read(k, v), y, z>>) = <<y, z>>
      BY Firsts
    <2>2. <<x>> \o <<y, z>> = <<x, y, z>>
      BY Joins
    <2> QED BY <1>4, <2>1, <2>2
  <1> QED BY <1>3, <1>4, <1>5, <1>6

----------------------------------------------------------------------------
(* How state and data stay safe                                            *)

LEMMA EmptyIsNothing ==
    /\ ~Typed(Empty) /\ Empty.case = NoCase /\ Empty.form = 0
    /\ \A k \in {"anon", "name", "phone", "text", "atts", "case"} : \A v :
           ~Typed([Empty EXCEPT ![k] = v]) /\ [Empty EXCEPT ![k] = v].form = 0
    /\ \A k \in {"anon", "name", "phone", "text", "atts"} : \A v :
           [Empty EXCEPT ![k] = v].case = NoCase
  BY DEF Typed, Empty

LEMMA ReadKeeps ==
    ASSUME Safe(state, data), UNCHANGED <<state, data, hist>> PROVE Safe(state, data)'
  BY DEF Safe, Open, Fits, Told, Unsubmitted, hist

LEMMA SetDataKeeps ==
    ASSUME NEW d, Safe(state, d), data' = d, UNCHANGED <<state, hist>>
    PROVE  Safe(state, data)'
  BY DEF Safe, Open, Fits, Told, Unsubmitted, hist

LEMMA EnterKeeps ==
    ASSUME Safe(state, data), NEW s, NEW fs, Fits(s, data, begun \cup fs),
           state' = s, begun' = begun \cup fs, untold' = (untold \/ s # "none"),
           UNCHANGED <<data, forms, submitted, shown, offered, acked, asked>>
    PROVE  Safe(state, data)'
  BY DEF Safe, Open, Fits, Told, Unsubmitted

LEMMA EmptyIsSafe ==
    ASSUME NEW s, NEW d, Safe(s, d), forms \in Nat
    PROVE  Safe(s, Empty) /\ Safe("none", Empty) /\ Safe("none", d)
  BY EmptyIsNothing DEF Safe, Open, Fits, Told, Reached

LEMMA NoneFits == \A d, fs : /\ Fits("none", d, fs) /\ Fits("reply", d, fs)
                             /\ Fits("anonymous", d, fs)
  BY DEF Fits, Reached

\* A step back needs no more than the step had.
LEMMA FitsBefore ==
    ASSUME NEW d \in Data, NEW fs
    PROVE  /\ Fits("phone", d, fs) => Fits("name", d, fs)
           /\ Fits("text", d, fs) /\ d.anon # "yes" => Fits("phone", d, fs)
           /\ Fits("attachments", d, fs) => Fits("text", d, fs) /\ Fits("confirm", d, fs)
           /\ Fits("confirm", d, fs) => Fits("attachments", d, fs)
  BY DEF Fits, Reached, Data

----------------------------------------------------------------------------
(* Every kind of handler goes its way and keeps state and data safe        *)

\* An expiry takes one key away, a stutter none.
Fades == /\ state' \in {state, "none"} /\ data' \in {data, Empty}
         /\ UNCHANGED <<steps, overlaps, hist>>

LEMMA Expires == ExpireState \/ ExpireData \/ UNCHANGED vars => Fades
  BY DEF ExpireState, ExpireData, Fades, vars, hist, chat

LEMMA SafeFades ==
    ASSUME Safe(state, data), Fades, forms \in Nat PROVE Safe(state, data)'
  BY EmptyIsNothing DEF Fades, hist, Safe, Open, Fits, Told, Unsubmitted, Reached

LEMMA WayFades ==
    ASSUME TypeInv, Safe(state, data), Way, Fades PROVE Way'
  <1>0. /\ Rest' = Rest /\ forms \in Nat
        /\ UNCHANGED <<forms, submitted, begun, shown, offered, acked, asked, untold>>
    BY FormAssumption DEF Fades, Rest, hist, TypeInv, TypeOK
  <1>1. CASE Rest = <<>>
    BY <1>0, <1>1 DEF Way
  <1>2. CASE Asking
    <2>1. PICK s \in FormStates \ {"confirm"}, fs \in {{}, {forms}} :
        /\ fs # {} => forms # 0 /\ Unsubmitted(forms)
        /\ \/ Rest = <<Ask(s)>> /\ state \in {s, "none"}
           \/ Rest = <<Enter(s, fs), Ask(s)>> /\ Fits(s, data, begun \cup fs)
           \/ \E d \in Data :
              /\ Rest = <<SetData(d), Enter(s, fs), Ask(s)>>
              /\ Safe(state, d) /\ Fits(s, d, begun \cup fs)
           \/ \E v \in {"yes", "no"} :
              /\ Rest = <<Read("anon", v), Enter(s, fs), Ask(s)>>
              /\ Safe(state, [data EXCEPT !.anon = v])
              /\ Fits(s, [data EXCEPT !.anon = v], begun \cup fs)
           \/ \E k \in {"name", "phone", "text"} :
              /\ Rest = <<Read(k, TRUE), Enter(s, fs), Ask(s)>>
              /\ ~untold => asked = k
              /\ Safe(state, [data EXCEPT ![k] = TRUE])
              /\ Fits(s, [data EXCEPT ![k] = TRUE], begun \cup fs)
           \/ \E d \in Data :
              /\ Rest = <<SetData(d), Read("anon", "no"), Enter(s, fs), Ask(s)>>
              /\ Safe(state, d) /\ Safe(state, [d EXCEPT !.anon = "no"])
              /\ Fits(s, [d EXCEPT !.anon = "no"], begun \cup fs)
      BY <1>2 DEF Asking
    <2>2. ASSUME NEW d, Safe(state, d) PROVE Safe(state, d)'
      BY <1>0, <2>2 DEF Fades, Safe, Open, Fits, Told, Unsubmitted, Reached
    <2>3. ASSUME NEW k \in {"anon", "name", "phone", "text"}, NEW v,
                 Safe(state, [data EXCEPT ![k] = v]),
                 Fits(s, [data EXCEPT ![k] = v], begun \cup fs)
          PROVE  /\ Safe(state, [data EXCEPT ![k] = v])'
                 /\ Fits(s, [data EXCEPT ![k] = v], begun \cup fs)'
      <3>1. CASE data' = data
        BY <1>0, <2>3, <3>1 DEF Fades, Safe, Open, Fits, Told, Unsubmitted, Reached
      <3>2. CASE data' = Empty
        <4>1. /\ ~Typed([data EXCEPT ![k] = v]') /\ [data EXCEPT ![k] = v]'.form = 0
              /\ [data EXCEPT ![k] = v]'.case = NoCase
          BY <3>2, EmptyIsNothing
        <4>2. Fits(s, [data EXCEPT ![k] = v], begun \cup fs)'
          BY <4>1 DEF Fits
        <4>3. \/ untold' \/ (state' \in {"name", "phone", "text"} => asked' = state')
          BY <1>0, <2>3 DEF Fades, Safe, Told
        <4>4. Safe(state, [data EXCEPT ![k] = v])'
          BY <1>0, <4>1, <4>3 DEF Safe, Open, Fits, Told
        <4> QED BY <4>2, <4>4
      <3> QED BY <3>1, <3>2 DEF Fades
    <2>4. (fs # {} => forms # 0 /\ Unsubmitted(forms))'
      BY <1>0, <2>1 DEF Unsubmitted
    <2>5. fs \in {{}, {forms'}}
      BY <1>0
    <2>6. CASE Rest = <<Ask(s)>> /\ state \in {s, "none"}
      <3>1. Asking'
        BY <1>0, <2>4, <2>5, <2>6 DEF Asking, Fades
      <3> QED BY <3>1 DEF Way
    <2>7. CASE Rest = <<Enter(s, fs), Ask(s)>> /\ Fits(s, data, begun \cup fs)
      <3>1. Asking'
        BY <1>0, <2>4, <2>5, <2>7, EmptyIsNothing DEF Asking, Fades, Fits
      <3> QED BY <3>1 DEF Way
    <2>8. CASE \E d \in Data :
              /\ Rest = <<SetData(d), Enter(s, fs), Ask(s)>>
              /\ Safe(state, d) /\ Fits(s, d, begun \cup fs)
      <3>1. Asking'
        BY <1>0, <2>2, <2>4, <2>5, <2>8 DEF Asking
      <3> QED BY <3>1 DEF Way
    <2>9. CASE \E v \in {"yes", "no"} :
              /\ Rest = <<Read("anon", v), Enter(s, fs), Ask(s)>>
              /\ Safe(state, [data EXCEPT !.anon = v])
              /\ Fits(s, [data EXCEPT !.anon = v], begun \cup fs)
      <3>1. Asking'
        BY <1>0, <2>3, <2>4, <2>5, <2>9 DEF Asking
      <3> QED BY <3>1 DEF Way
    <2>10. CASE \E k \in {"name", "phone", "text"} :
              /\ Rest = <<Read(k, TRUE), Enter(s, fs), Ask(s)>>
              /\ ~untold => asked = k
              /\ Safe(state, [data EXCEPT ![k] = TRUE])
              /\ Fits(s, [data EXCEPT ![k] = TRUE], begun \cup fs)
      <3>1. Asking'
        BY <1>0, <2>3, <2>4, <2>5, <2>10 DEF Asking
      <3> QED BY <3>1 DEF Way
    <2>11. CASE \E d \in Data :
              /\ Rest = <<SetData(d), Read("anon", "no"), Enter(s, fs), Ask(s)>>
              /\ Safe(state, d) /\ Safe(state, [d EXCEPT !.anon = "no"])
              /\ Fits(s, [d EXCEPT !.anon = "no"], begun \cup fs)
      <3>1. Asking'
        BY <1>0, <2>2, <2>4, <2>5, <2>11 DEF Asking
      <3> QED BY <3>1 DEF Way
    <2> QED BY <2>1, <2>6, <2>7, <2>8, <2>9, <2>10, <2>11
  <1>3. CASE Attaching
    <2>1. Attaching'
      BY <1>0, <1>3, EmptyIsNothing
      DEF Fades, Attaching, Safe, Open, Fits, Told, Unsubmitted, Reached
    <2> QED BY <2>1 DEF Way
  <1>4. CASE Confirming
    <2>1. Confirming'
      BY <1>0, <1>4, EmptyIsNothing DEF Fades, Confirming, Fits
    <2> QED BY <2>1 DEF Way
  <1>5. CASE GoingBack
    <2>1. GoingBack'
      BY <1>0, <1>5, EmptyIsNothing DEF Fades, GoingBack, Fits
    <2> QED BY <2>1 DEF Way
  <1>6. CASE Submitting
    <2>1. Submitting'
      BY <1>0, <1>6, EmptyIsNothing DEF Fades, Submitting, Fits, Open, Unsubmitted
    <2> QED BY <2>1 DEF Way
  <1>7. CASE Leaving
    <2>1. Leaving'
      BY <1>0, <1>7 DEF Fades, Leaving
    <2> QED BY <2>1 DEF Way
  <1>8. CASE Prompting
    <2>1. Prompting'
      BY <1>0, <1>8, EmptyIsNothing
      DEF Fades, Prompting, Safe, Open, Fits, Told, Unsubmitted, Reached
    <2> QED BY <2>1 DEF Way
  <1>9. CASE Replying
    <2>1. Replying'
      BY <1>0, <1>9, EmptyIsNothing DEF Fades, Replying
    <2> QED BY <2>1 DEF Way
  <1> QED BY <1>1, <1>2, <1>3, <1>4, <1>5, <1>6, <1>7, <1>8, <1>9 DEF Way

LEMMA Pending ==
    ASSUME NEW d, Safe(state, d), UNCHANGED <<state, hist>> PROVE Safe(state, d)'
  BY DEF Safe, Open, Fits, Told, Unsubmitted, hist

LEMMA EndOfNone == <<>> \o <<>> = <<>>
  <1>1. <<>> \in Seq({})
    OBVIOUS
  <1> QED BY <1>1, ConcatEmptySeq

LEMMA EndOfOne == ASSUME NEW x PROVE <<x>> \o <<>> = <<x>>
  <1>1. <<x>> \in Seq({x})
    OBVIOUS
  <1> QED BY <1>1, ConcatEmptySeq

LEMMA EndOfTwo == ASSUME NEW x, NEW y PROVE <<x, y>> \o <<>> = <<x, y>>
  <1>1. <<x, y>> \in Seq({x, y})
    OBVIOUS
  <1> QED BY <1>1, ConcatEmptySeq

LEMMA EndOfThree == ASSUME NEW x, NEW y, NEW z PROVE <<x, y, z>> \o <<>> = <<x, y, z>>
  <1>1. <<x, y, z>> \in Seq({x, y, z})
    OBVIOUS
  <1> QED BY <1>1, ConcatEmptySeq

LEMMA ClearThen ==
    ASSUME NEW x PROVE Clear \o <<x>> = <<SetState("none"), SetData(Empty), x>>
  BY Joins DEF Clear

LEMMA AskingGoes ==
    ASSUME TypeInv, Safe(state, data), Asking, Handle(1)
    PROVE  Safe(state, data)' /\ Way'
  <1>1. PICK s \in FormStates \ {"confirm"}, fs \in {{}, {forms}} :
        /\ fs # {} => forms # 0 /\ Unsubmitted(forms)
        /\ \/ Rest = <<Ask(s)>> /\ state \in {s, "none"}
           \/ Rest = <<Enter(s, fs), Ask(s)>> /\ Fits(s, data, begun \cup fs)
           \/ \E d \in Data :
              /\ Rest = <<SetData(d), Enter(s, fs), Ask(s)>>
              /\ Safe(state, d) /\ Fits(s, d, begun \cup fs)
           \/ \E v \in {"yes", "no"} :
              /\ Rest = <<Read("anon", v), Enter(s, fs), Ask(s)>>
              /\ Safe(state, [data EXCEPT !.anon = v])
              /\ Fits(s, [data EXCEPT !.anon = v], begun \cup fs)
           \/ \E k \in {"name", "phone", "text"} :
              /\ Rest = <<Read(k, TRUE), Enter(s, fs), Ask(s)>>
              /\ ~untold => asked = k
              /\ Safe(state, [data EXCEPT ![k] = TRUE])
              /\ Fits(s, [data EXCEPT ![k] = TRUE], begun \cup fs)
           \/ \E d \in Data :
              /\ Rest = <<SetData(d), Read("anon", "no"), Enter(s, fs), Ask(s)>>
              /\ Safe(state, d) /\ Safe(state, [d EXCEPT !.anon = "no"])
              /\ Fits(s, [d EXCEPT !.anon = "no"], begun \cup fs)
    BY DEF Asking
  <1>2. ASSUME UNCHANGED <<forms, submitted>>
        PROVE  fs \in {{}, {forms'}} /\ (fs # {} => forms # 0 /\ Unsubmitted(forms))'
    BY <1>1, <1>2 DEF Unsubmitted
  <1>3. CASE Rest = <<Ask(s)>> /\ state \in {s, "none"}
    <2>1. Ask(s).op = "ask" /\ Ask(s).of = s
      BY DEF Ask
    <2>2. /\ Rest' = <<>> /\ asked' = s
          /\ UNCHANGED <<state, data, forms, submitted, begun, offered, acked>>
      BY <1>3, <2>1, Runs, Firsts
    <2>3. Safe(state, data)'
      BY <1>3, <2>2 DEF Safe, Open, Fits, Told, Unsubmitted, FormStates
    <2> QED BY <2>2, <2>3 DEF Way
  <1>4. CASE Rest = <<Enter(s, fs), Ask(s)>> /\ Fits(s, data, begun \cup fs)
    <2>1. /\ Rest' = <<Ask(s)>> /\ state' = s /\ begun' = begun \cup fs
          /\ untold' = (untold \/ s # "none")
          /\ UNCHANGED <<data, forms, submitted, shown, offered, acked, asked>>
      BY <1>4, RunsEnter, Firsts
    <2>2. Safe(state, data)'
      BY <1>4, <2>1, EnterKeeps
    <2>3. Asking'
      BY <1>2, <2>1 DEF Asking
    <2> QED BY <2>2, <2>3 DEF Way
  <1>5. ASSUME NEW d \in Data, Rest = <<SetData(d), Enter(s, fs), Ask(s)>>,
               Safe(state, d), Fits(s, d, begun \cup fs)
        PROVE  Safe(state, data)' /\ Way'
    <2>1. Rest' = <<Enter(s, fs), Ask(s)>> /\ data' = d /\ UNCHANGED <<state, hist>>
      BY <1>5, RunsData, Firsts
    <2>2. Safe(state, data)'
      BY <1>5, <2>1, SetDataKeeps
    <2>3. Asking'
      BY <1>2, <1>5, <2>1 DEF Asking, hist
    <2> QED BY <2>2, <2>3 DEF Way
  <1>6. ASSUME NEW k, NEW v, <<k, v>> \in Answers, Rest = <<Read(k, v), Enter(s, fs), Ask(s)>>,
               Safe(state, [data EXCEPT ![k] = v]),
               Fits(s, [data EXCEPT ![k] = v], begun \cup fs)
        PROVE  Safe(state, data)' /\ Way'
    <2>1. /\ Rest' = <<SetData([data EXCEPT ![k] = v]), Enter(s, fs), Ask(s)>>
          /\ [data EXCEPT ![k] = v] \in Data /\ UNCHANGED <<state, data, hist>>
      BY <1>6, RunsAnswer
    <2>2. Safe(state, data)'
      BY <2>1, ReadKeeps
    <2>3. PICK d \in Data : d = [data EXCEPT ![k] = v]
      BY <2>1
    <2>4. Safe(state, d)' /\ Fits(s, d, begun \cup fs)
      BY <1>6, <2>1, <2>3, Pending
    <2>5. Asking'
      BY <1>2, <2>1, <2>3, <2>4 DEF Asking, hist
    <2> QED BY <2>2, <2>5 DEF Way
  <1>7. CASE \E v \in {"yes", "no"} :
              /\ Rest = <<Read("anon", v), Enter(s, fs), Ask(s)>>
              /\ Safe(state, [data EXCEPT !.anon = v])
              /\ Fits(s, [data EXCEPT !.anon = v], begun \cup fs)
    <2>1. \A v \in {"yes", "no"} : <<"anon", v>> \in Answers
      BY DEF Answers
    <2> QED BY <1>6, <1>7, <2>1
  <1>8. CASE \E k \in {"name", "phone", "text"} :
              /\ Rest = <<Read(k, TRUE), Enter(s, fs), Ask(s)>>
              /\ ~untold => asked = k
              /\ Safe(state, [data EXCEPT ![k] = TRUE])
              /\ Fits(s, [data EXCEPT ![k] = TRUE], begun \cup fs)
    <2>1. \A k \in {"name", "phone", "text"} : <<k, TRUE>> \in Answers
      BY DEF Answers
    <2> QED BY <1>6, <1>8, <2>1
  <1>9. ASSUME NEW d \in Data,
               Rest = <<SetData(d), Read("anon", "no"), Enter(s, fs), Ask(s)>>,
               Safe(state, d), Safe(state, [d EXCEPT !.anon = "no"]),
               Fits(s, [d EXCEPT !.anon = "no"], begun \cup fs)
        PROVE  Safe(state, data)' /\ Way'
    <2>1. /\ Rest' = <<Read("anon", "no"), Enter(s, fs), Ask(s)>>
          /\ data' = d /\ UNCHANGED <<state, hist>>
      BY <1>9, RunsData, Firsts
    <2>2. Safe(state, data)'
      BY <1>9, <2>1, SetDataKeeps
    <2>3. Safe(state, [d EXCEPT !.anon = "no"])'
      BY <1>9, <2>1, Pending
    <2>4. Asking'
      BY <1>2, <1>9, <2>1, <2>3 DEF Asking, hist
    <2> QED BY <2>2, <2>4 DEF Way
  <1> QED BY <1>1, <1>3, <1>4, <1>5, <1>7, <1>8, <1>9

LEMMA AttachingGoes ==
    ASSUME TypeInv, Safe(state, data), Attaching, Handle(1)
    PROVE  Safe(state, data)' /\ Way'
  <1>0. data \in Data /\ forms \in Nat
    BY FormAssumption DEF TypeInv, TypeOK
  <1>1. PICK f \in 0 .. forms, fs \in SUBSET Files :
        /\ state \in {"attachments", "none"}
        /\ f # 0 => Unsubmitted(f)
        /\ \/ Rest = <<Read("attach", fs)>>
              /\ (Typed(data) => \A x \in fs : <<data.form, x>> \in offered)
           \/ \E all \in SUBSET Files :
              /\ Rest = <<Read("atts", all), Ack(f, fs)>>
              /\ Typed(data) =>
                     /\ f = data.form /\ all = data.atts \cup fs
                     /\ \A x \in fs : <<f, x>> \in offered
           \/ \E d \in Data :
              /\ Rest = <<SetData(d), Ack(f, fs)>>
              /\ Safe(state, d)
              /\ Typed(d) => f = d.form /\ fs \subseteq d.atts
           \/ /\ Rest = <<Ack(f, fs)>>
              /\ Typed(data) => f = data.form /\ fs \subseteq data.atts
    BY DEF Attaching
  <1>2. CASE /\ Rest = <<Read("attach", fs)>>
             /\ (Typed(data) => \A x \in fs : <<data.form, x>> \in offered)
    <2> DEFINE all == data.atts \cup fs
    <2>1. Then(Read("attach", fs), data) = <<Read("atts", all), Ack(data.form, fs)>>
      BY DEF Then, Read
    <2>2. /\ Rest' = <<Read("atts", all), Ack(data.form, fs)>>
          /\ UNCHANGED <<state, data, hist>>
      BY <1>2, <2>1, RunsTurn, EndOfTwo
    <2>3. data.form \in 0 .. forms /\ (data.form # 0 => Unsubmitted(data.form))
      BY <1>0 DEF Safe, Open, Data
    <2>4. all \in SUBSET Files
      BY <1>0 DEF Data
    <2>5. PICK g \in 0 .. forms, all2 \in SUBSET Files : g = data.form /\ all2 = all
      BY <2>3, <2>4
    <2>6. Attaching'
      BY <1>1, <1>2, <2>2, <2>3, <2>5 DEF Attaching, hist, Unsubmitted
    <2> QED BY <2>2, <2>6, ReadKeeps DEF Way
  <1>3. ASSUME NEW all \in SUBSET Files, Rest = <<Read("atts", all), Ack(f, fs)>>,
               Typed(data) =>
                   /\ f = data.form /\ all = data.atts \cup fs
                   /\ \A x \in fs : <<f, x>> \in offered
        PROVE  Safe(state, data)' /\ Way'
    <2>1. <<"atts", all>> \in Answers
      BY DEF Answers
    <2>2. /\ Rest' = <<SetData([data EXCEPT !["atts"] = all]), Ack(f, fs)>>
          /\ [data EXCEPT !["atts"] = all] \in Data /\ UNCHANGED <<state, data, hist>>
      BY <1>3, <2>1, RunsAnswer
    <2>3. PICK d \in Data : d = [data EXCEPT !["atts"] = all]
      BY <2>2
    <2>4. /\ d.atts = all /\ d.form = data.form /\ d.type = data.type /\ d.anon = data.anon
          /\ d.name = data.name /\ d.phone = data.phone /\ d.text = data.text
          /\ d.case = data.case
      BY <1>0, <2>3 DEF Data
    <2>5. Open(d)
      BY <1>3, <2>4 DEF Safe, Open, Typed
    <2>6. Fits(state, d, begun) /\ (~untold => Told(state, d))
      BY <1>1, <2>4 DEF Safe, Fits, Told, Typed, Reached
    <2>7. Safe(state, d)'
      BY <2>2, <2>5, <2>6, Pending DEF Safe
    <2>8. Typed(d) => f = d.form /\ fs \subseteq d.atts
      BY <1>3, <2>4 DEF Typed
    <2>9. Attaching'
      BY <1>1, <2>2, <2>3, <2>7, <2>8 DEF Attaching, hist, Unsubmitted
    <2> QED BY <2>2, <2>9, ReadKeeps DEF Way
  <1>4. ASSUME NEW d \in Data, Rest = <<SetData(d), Ack(f, fs)>>, Safe(state, d),
               Typed(d) => f = d.form /\ fs \subseteq d.atts
        PROVE  Safe(state, data)' /\ Way'
    <2>1. Rest' = <<Ack(f, fs)>> /\ data' = d /\ UNCHANGED <<state, hist>>
      BY <1>4, RunsData, Firsts
    <2>2. Safe(state, data)'
      BY <1>4, <2>1, SetDataKeeps
    <2>3. Attaching'
      BY <1>1, <1>4, <2>1 DEF Attaching, hist, Unsubmitted
    <2> QED BY <2>2, <2>3 DEF Way
  <1>5. CASE /\ Rest = <<Ack(f, fs)>>
             /\ (Typed(data) => f = data.form /\ fs \subseteq data.atts)
    <2>1. Ack(f, fs).op = "ack" /\ Ack(f, fs).form = f /\ Ack(f, fs).files = fs
      BY DEF Ack
    <2>2. /\ Rest' = <<>> /\ acked' = acked \cup Noted(f, fs)
          /\ UNCHANGED <<state, data, forms, submitted, begun, shown, offered, asked, untold>>
      BY <1>5, <2>1, Runs, Firsts
    <2>3. ASSUME Typed(data), NEW x \in Files, <<data.form, x>> \in acked'
          PROVE  x \in data.atts
      BY <1>5, <2>2, <2>3 DEF Noted, Safe, Open
    <2>4. Open(data)'
      BY <2>2, <2>3 DEF Safe, Open, Unsubmitted
    <2>5. Safe(state, data)'
      BY <2>2, <2>4 DEF Safe, Fits, Told
    <2> QED BY <2>2, <2>5 DEF Way
  <1> QED BY <1>1, <1>2, <1>3, <1>4, <1>5

LEMMA ConfirmingGoes ==
    ASSUME TypeInv, Safe(state, data), Confirming, Handle(1)
    PROVE  Safe(state, data)' /\ Way'
  <1>1. CASE Rest = <<Read("confirm", TRUE)>> /\ Fits("confirm", data, begun)
    <2>1. Then(Read("confirm", TRUE), data) =
              IF data.type = "none" THEN <<>> ELSE <<SetState("confirm"), Show(data)>>
      BY DEF Then, Read
    <2>2. Rest' = Then(Read("confirm", TRUE), data) \o <<>> /\ UNCHANGED <<state, data, hist>>
      BY <1>1, RunsTurn
    <2>3. CASE data.type = "none"
      <3>1. Rest' = <<>>
        BY <2>1, <2>2, <2>3, EndOfNone
      <3> QED BY <2>2, <3>1, ReadKeeps DEF Way
    <2>4. CASE data.type # "none"
      <3>1. Rest' = <<SetState("confirm"), Show(data)>>
        BY <2>1, <2>2, <2>4, EndOfTwo
      <3>2. PICK d \in Data : d = data
        BY DEF TypeInv, TypeOK
      <3>3. Confirming'
        BY <1>1, <2>2, <3>1, <3>2 DEF Confirming, hist
      <3> QED BY <2>2, <3>3, ReadKeeps DEF Way
    <2> QED BY <2>3, <2>4
  <1>2. ASSUME NEW d \in Data, data \in {d, Empty}, Rest = <<SetState("confirm"), Show(d)>>,
               Fits("confirm", data, begun)
        PROVE  Safe(state, data)' /\ Way'
    <2>1. Rest = <<Enter("confirm", {}), Show(d)>>
      BY <1>2 DEF SetState
    <2>2. /\ Rest' = <<Show(d)>> /\ state' = "confirm" /\ begun' = begun \cup {}
          /\ untold' = (untold \/ "confirm" # "none")
          /\ UNCHANGED <<data, forms, submitted, shown, offered, acked, asked>>
      BY <2>1, RunsEnter, Firsts
    <2>3. Safe(state, data)'
      <3>1. begun \cup {} = begun
        OBVIOUS
      <3> QED BY <1>2, <2>2, <3>1, EnterKeeps
    <2>4. Confirming'
      BY <1>2, <2>2 DEF Confirming
    <2> QED BY <2>3, <2>4 DEF Way
  <1>3. ASSUME NEW d \in Data, data \in {d, Empty}, Rest = <<Show(d)>>,
               state \in {"confirm", "none"}
        PROVE  Safe(state, data)' /\ Way'
    <2>1. Show(d).op = "show" /\ Show(d).data = d
      BY DEF Show
    <2>2. /\ Rest' = <<>> /\ shown' = d
          /\ UNCHANGED <<state, data, forms, submitted, begun, offered, acked>>
      BY <1>3, <2>1, Runs, Firsts
    <2>3. Safe(state, data)'
      BY <1>3, <2>2, EmptyIsNothing DEF Safe, Open, Fits, Told, Unsubmitted
    <2> QED BY <2>2, <2>3 DEF Way
  <1> QED BY <1>1, <1>2, <1>3 DEF Confirming

LEMMA GoingBackGoes ==
    ASSUME TypeInv, Safe(state, data), GoingBack, Handle(1)
    PROVE  Safe(state, data)' /\ Way'
  <1>0. data \in Data /\ state \in States
    BY DEF TypeInv, TypeOK
  <1>1. CASE Rest = <<Current>>
    <2>1. Current.op = "current"
      BY DEF Current
    <2>2. Rest' = <<Read("back", state)>> \o <<>> /\ UNCHANGED <<state, data, hist>>
      BY <1>1, <2>1, Runs, Firsts
    <2>3. Rest' = <<Read("back", state)>>
      BY <2>2, EndOfOne
    <2>4. Fits(state, data, begun)
      BY DEF Safe
    <2>5. GoingBack'
      BY <1>0, <2>2, <2>3, <2>4 DEF GoingBack, hist
    <2> QED BY <2>2, <2>5, ReadKeeps DEF Way
  <1>2. ASSUME NEW s \in States, Rest = <<Read("back", s)>>, Fits(s, data, begun)
        PROVE  Safe(state, data)' /\ Way'
    <2>1. Then(Read("back", s), data) = Back(s, data)
      BY DEF Then, Read
    <2>2. Rest' = Back(s, data) \o <<>> /\ UNCHANGED <<state, data, hist>>
      BY <1>2, <2>1, RunsTurn
    <2>3. CASE Back(s, data) = <<>>
      <3>1. Rest' = <<>>
        BY <2>2, <2>3, EndOfNone
      <3> QED BY <2>2, <3>1, ReadKeeps DEF Way
    <2>4. CASE Back(s, data) # <<>>
      <3>1. PICK p \in FormStates \ {"confirm"} :
                Back(s, data) = <<SetState(p), Ask(p)>> /\ Fits(p, data, begun)
        <4>1. CASE s = "phone"
          BY <1>0, <1>2, <4>1, FitsBefore DEF Back, FormStates
        <4>2. CASE s = "text" /\ data.anon = "yes"
          BY <1>0, <1>2, <4>2, NoneFits DEF Back, FormStates
        <4>3. CASE s = "text" /\ data.anon # "yes"
          BY <1>0, <1>2, <4>3, FitsBefore DEF Back, FormStates
        <4>4. CASE s = "attachments"
          BY <1>0, <1>2, <4>4, FitsBefore DEF Back, FormStates
        <4>5. CASE s = "confirm"
          BY <1>0, <1>2, <4>5, FitsBefore DEF Back, FormStates
        <4> QED BY <2>4, <4>1, <4>2, <4>3, <4>4, <4>5 DEF Back
      <3>2. Rest' = <<Enter(p, {}), Ask(p)>>
        BY <2>2, <3>1, EndOfTwo DEF SetState
      <3>3. begun' \cup {} = begun
        BY <2>2 DEF hist
      <3>4. Asking'
        BY <2>2, <3>1, <3>2, <3>3 DEF Asking
      <3> QED BY <2>2, <3>4, ReadKeeps DEF Way
    <2> QED BY <2>3, <2>4
  <1> QED BY <1>1, <1>2 DEF GoingBack

\* state.clear() leaves nothing that could be unsafe.
LEMMA ClearState ==
    ASSUME TypeInv, Safe(state, data), NEW p,
           Rest # <<>>, Head(Rest) = SetState("none"), Tail(Rest) = p, Handle(1)
    PROVE  /\ Rest' = p /\ state' = "none" /\ Safe(state, data)'
           /\ UNCHANGED <<data, hist>>
  <1>1. /\ Rest' = Tail(Rest) /\ state' = "none" /\ untold' = (untold \/ "none" # "none")
        /\ UNCHANGED <<data, forms, submitted, begun, shown, offered, acked, asked>>
    BY RunsState
  <1>2. untold \in BOOLEAN
    BY DEF TypeInv, TypeOK
  <1>3. UNCHANGED hist
    BY <1>1, <1>2 DEF hist
  <1>4. Safe(state, data)'
    BY <1>1, <1>3 DEF Safe, Open, Fits, Told, Unsubmitted, Reached, hist
  <1> QED BY <1>1, <1>3, <1>4

LEMMA ClearData ==
    ASSUME TypeInv, Safe(state, data), NEW p,
           Rest # <<>>, Head(Rest) = SetData(Empty), Tail(Rest) = p, Handle(1)
    PROVE  /\ Rest' = p /\ data' = Empty /\ Safe(state, data)'
           /\ UNCHANGED <<state, hist>>
  <1>1. Rest' = Tail(Rest) /\ data' = Empty /\ UNCHANGED <<state, hist>>
    BY RunsData
  <1>2. Safe(state, Empty)
    BY EmptyIsSafe, FormAssumption DEF TypeInv, TypeOK
  <1> QED BY <1>1, <1>2, SetDataKeeps

LEMMA SubmittingGoes ==
    ASSUME TypeInv, Safe(state, data), Submitting, Handle(1)
    PROVE  Safe(state, data)' /\ Way'
  <1>1. CASE /\ Rest = <<Read("submit", TRUE)>>
             /\ Fits("confirm", data, begun)
             /\ (~untold /\ Typed(data) /\ data.form \in begun => shown = data)
    <2>1. Then(Read("submit", TRUE), data) =
              IF data.type = "none" THEN <<>> ELSE Clear \o <<Create(data)>>
      BY DEF Then, Read
    <2>2. Rest' = Then(Read("submit", TRUE), data) \o <<>> /\ UNCHANGED <<state, data, hist>>
      BY <1>1, RunsTurn
    <2>3. CASE data.type = "none"
      <3>1. Rest' = <<>>
        BY <2>1, <2>2, <2>3, EndOfNone
      <3> QED BY <2>2, <3>1, ReadKeeps DEF Way
    <2>4. CASE data.type # "none"
      <3>1. Rest' = Clear \o <<Create(data)>>
        BY <2>1, <2>2, <2>4, ClearThen, EndOfThree
      <3>2. PICK d \in Data : d = data
        BY DEF TypeInv, TypeOK
      <3>3. Typed(d) /\ Open(d)
        BY <2>4, <3>2 DEF Typed, Safe
      <3>4. Submitting'
        BY <1>1, <2>2, <3>1, <3>2, <3>3 DEF Submitting, hist, Open, Unsubmitted
      <3> QED BY <2>2, <3>4, ReadKeeps DEF Way
    <2> QED BY <2>3, <2>4
  <1>2. ASSUME NEW d \in Data,
               Typed(d), Open(d), Fits("confirm", d, begun),
               ~untold /\ d.form \in begun => shown = d,
               \/ Rest = Clear \o <<Create(d)>>
               \/ Rest = <<SetData(Empty), Create(d)>> /\ state = "none"
               \/ Rest = <<Create(d)>> /\ data = Empty
        PROVE  Safe(state, data)' /\ Way'
    <2>1. CASE Rest = Clear \o <<Create(d)>>
      <3>0. Rest = <<SetState("none"), SetData(Empty), Create(d)>>
        BY <2>1, ClearThen
      <3>1. /\ Rest # <<>> /\ Head(Rest) = SetState("none")
            /\ Tail(Rest) = <<SetData(Empty), Create(d)>>
        BY <3>0, Firsts
      <3>2. /\ Rest' = <<SetData(Empty), Create(d)>> /\ state' = "none"
            /\ Safe(state, data)' /\ UNCHANGED hist
        BY <3>1, ClearState
      <3>3. Submitting'
        BY <1>2, <3>2 DEF Submitting, hist, Open, Unsubmitted
      <3> QED BY <3>2, <3>3 DEF Way
    <2>2. CASE Rest = <<SetData(Empty), Create(d)>> /\ state = "none"
      <3>1. Rest' = <<Create(d)>> /\ data' = Empty /\ Safe(state, data)' /\ UNCHANGED hist
        BY <2>2, ClearData, Firsts
      <3>2. Submitting'
        BY <1>2, <3>1 DEF Submitting, hist, Open, Unsubmitted
      <3> QED BY <3>1, <3>2 DEF Way
    <2>3. CASE Rest = <<Create(d)>> /\ data = Empty
      <3>1. Create(d).op = "create"
        BY DEF Create
      <3>2. /\ Rest' = <<>>
            /\ UNCHANGED <<state, data, forms, begun, shown, offered, acked, asked, untold>>
        BY <2>3, <3>1, Runs, Firsts
      <3>3. Safe(state, data)'
        BY <2>3, <3>2, EmptyIsNothing DEF Safe, Open, Fits, Told
      <3> QED BY <3>2, <3>3 DEF Way
    <2> QED BY <1>2, <2>1, <2>2, <2>3
  <1> QED BY <1>1, <1>2 DEF Submitting

LEMMA LeavingGoes ==
    ASSUME TypeInv, Safe(state, data), Leaving, Handle(1)
    PROVE  Safe(state, data)' /\ Way'
  <1>1. CASE Rest = Clear
    <2>1. Rest' = <<SetData(Empty)>> /\ Safe(state, data)'
      BY <1>1, ClearState, Firsts DEF Clear
    <2> QED BY <2>1 DEF Way, Leaving
  <1>2. CASE Rest = <<SetData(Empty)>>
    <2>1. Rest' = <<>> /\ Safe(state, data)'
      BY <1>2, ClearData, Firsts
    <2> QED BY <2>1 DEF Way
  <1> QED BY <1>1, <1>2 DEF Leaving

LEMMA PromptingGoes ==
    ASSUME TypeInv, Safe(state, data), Prompting, Handle(1)
    PROVE  Safe(state, data)' /\ Way'
  <1>0. data \in Data
    BY DEF TypeInv, TypeOK
  <1>1. ASSUME NEW c \in Cases, Rest = <<SetState("reply"), Read("case", c), Ask(c)>>
        PROVE  Safe(state, data)' /\ Way'
    <2>1. /\ Rest' = <<Read("case", c), Ask(c)>> /\ state' = "reply"
          /\ untold' = (untold \/ "reply" # "none")
          /\ UNCHANGED <<data, forms, submitted, begun, shown, offered, acked, asked>>
      BY <1>1, RunsState, Firsts
    <2>2. Safe(state, data)'
      BY <2>1 DEF Safe, Open, Fits, Unsubmitted, Reached
    <2>3. Prompting'
      BY <2>1 DEF Prompting
    <2> QED BY <2>2, <2>3 DEF Way
  <1>2. ASSUME NEW c \in Cases, state \in {"reply", "none"}, untold,
               Rest = <<Read("case", c), Ask(c)>>
        PROVE  Safe(state, data)' /\ Way'
    <2>1. <<"case", c>> \in Answers
      BY DEF Answers
    <2>2. /\ Rest' = <<SetData([data EXCEPT !["case"] = c]), Ask(c)>>
          /\ [data EXCEPT !["case"] = c] \in Data /\ UNCHANGED <<state, data, hist>>
      BY <1>2, <2>1, RunsAnswer
    <2>3. PICK d \in Data : d = [data EXCEPT !["case"] = c]
      BY <2>2
    <2>4. d.case = c /\ d.form = data.form /\ d.type = data.type /\ d.atts = data.atts
      BY <1>0, <2>3 DEF Data
    <2>5. Safe(state, d)
      BY <1>2, <2>4 DEF Safe, Open, Fits, Typed, Reached
    <2>6. Safe(state, d)'
      BY <2>2, <2>5, Pending
    <2>7. Prompting'
      BY <1>2, <2>2, <2>3, <2>4, <2>6 DEF Prompting, hist
    <2> QED BY <2>2, <2>7, ReadKeeps DEF Way
  <1>3. ASSUME NEW c \in Cases, state \in {"reply", "none"}, NEW d \in Data,
               Rest = <<SetData(d), Ask(c)>>, untold, Safe(state, d), d.case = c
        PROVE  Safe(state, data)' /\ Way'
    <2>1. Rest' = <<Ask(c)>> /\ data' = d /\ UNCHANGED <<state, hist>>
      BY <1>3, RunsData, Firsts
    <2>2. Safe(state, data)'
      BY <1>3, <2>1, SetDataKeeps
    <2>3. Prompting'
      BY <1>3, <2>1 DEF Prompting
    <2> QED BY <2>2, <2>3 DEF Way
  <1>4. ASSUME NEW c \in Cases, state \in {"reply", "none"}, Rest = <<Ask(c)>>,
               data.case \in {c, NoCase}
        PROVE  Safe(state, data)' /\ Way'
    <2>1. Ask(c).op = "ask" /\ Ask(c).of = c
      BY DEF Ask
    <2>2. /\ Rest' = <<>> /\ asked' = c
          /\ UNCHANGED <<state, data, forms, submitted, begun, offered, acked>>
      BY <1>4, <2>1, Runs, Firsts
    <2>3. Safe(state, data)'
      BY <1>4, <2>2 DEF Safe, Open, Fits, Told, Unsubmitted
    <2> QED BY <2>2, <2>3 DEF Way
  <1> QED BY <1>1, <1>2, <1>3, <1>4 DEF Prompting

LEMMA ReplyingGoes ==
    ASSUME TypeInv, Safe(state, data), Replying, Handle(1)
    PROVE  Safe(state, data)' /\ Way'
  <1>1. CASE Rest = <<Read("reply", TRUE)>> /\ (~untold => data.case \in {asked, NoCase})
    <2>1. Then(Read("reply", TRUE), data) =
              IF data.case = NoCase THEN <<>> ELSE Clear \o <<Reply(data.case)>>
      BY DEF Then, Read
    <2>2. Rest' = Then(Read("reply", TRUE), data) \o <<>> /\ UNCHANGED <<state, data, hist>>
      BY <1>1, RunsTurn
    <2>3. CASE data.case = NoCase
      <3>1. Rest' = <<>>
        BY <2>1, <2>2, <2>3, EndOfNone
      <3> QED BY <2>2, <3>1, ReadKeeps DEF Way
    <2>4. CASE data.case # NoCase
      <3>1. Rest' = Clear \o <<Reply(data.case)>>
        BY <2>1, <2>2, <2>4, ClearThen, EndOfThree
      <3>2. data.case \in Cases
        BY <2>4 DEF TypeInv, TypeOK, Data
      <3>3. Replying'
        BY <1>1, <2>2, <2>4, <3>1, <3>2 DEF Replying, hist
      <3> QED BY <2>2, <3>3, ReadKeeps DEF Way
    <2> QED BY <2>3, <2>4
  <1>2. ASSUME NEW c \in Cases, ~untold => asked = c,
               \/ Rest = Clear \o <<Reply(c)>>
               \/ Rest = <<SetData(Empty), Reply(c)>>
               \/ Rest = <<Reply(c)>>
        PROVE  Safe(state, data)' /\ Way'
    <2>1. CASE Rest = Clear \o <<Reply(c)>>
      <3>0. Rest = <<SetState("none"), SetData(Empty), Reply(c)>>
        BY <2>1, ClearThen
      <3>1. /\ Rest # <<>> /\ Head(Rest) = SetState("none")
            /\ Tail(Rest) = <<SetData(Empty), Reply(c)>>
        BY <3>0, Firsts
      <3>2. Rest' = <<SetData(Empty), Reply(c)>> /\ Safe(state, data)' /\ UNCHANGED hist
        BY <3>1, ClearState
      <3>3. Replying'
        BY <1>2, <3>2 DEF Replying, hist
      <3> QED BY <3>2, <3>3 DEF Way
    <2>2. CASE Rest = <<SetData(Empty), Reply(c)>>
      <3>1. Rest' = <<Reply(c)>> /\ Safe(state, data)' /\ UNCHANGED hist
        BY <2>2, ClearData, Firsts
      <3>2. Replying'
        BY <1>2, <3>1 DEF Replying, hist
      <3> QED BY <3>1, <3>2 DEF Way
    <2>3. CASE Rest = <<Reply(c)>>
      <3>1. Reply(c).op = "reply"
        BY DEF Reply
      <3>2. Rest' = <<>> /\ UNCHANGED <<state, data, hist>>
        BY <2>3, <3>1, Runs, Firsts
      <3> QED BY <3>2, ReadKeeps DEF Way
    <2> QED BY <1>2, <2>1, <2>2, <2>3
  <1> QED BY <1>1, <1>2 DEF Replying

LEMMA WayGoes ==
    ASSUME TypeInv, Safe(state, data), Way, Handle(1) PROVE Safe(state, data)' /\ Way'
  <1>1. Rest # <<>>
    BY DEF Handle, DoSetState, DoSetData, DoRead, DoCurrent, DoShow, DoAck, DoCreate,
           DoAsk, DoReply, Call, Idle, Rest
  <1> QED BY <1>1, AskingGoes, AttachingGoes, ConfirmingGoes, GoingBackGoes,
             SubmittingGoes, LeavingGoes, PromptingGoes, ReplyingGoes DEF Way

----------------------------------------------------------------------------
(* What the first call of every rest says, and the rows                    *)

LEMMA Kinds ==
    /\ \A s, fs : Enter(s, fs).op = "state" /\ Enter(s, fs).begins = fs
    /\ \A s : SetState(s).op = "state" /\ SetState(s).begins = {}
    /\ \A d : SetData(d).op = "data" /\ Show(d).op = "show"
    /\ \A d : Create(d).op = "create" /\ Create(d).data = d
    /\ \A k, v : Read(k, v).op = "read" /\ Read(k, v).then = k
    /\ \A f, fs : Ack(f, fs).op = "ack" /\ Ack(f, fs).form = f
    /\ \A q : Ask(q).op = "ask"
    /\ \A c : Reply(c).op = "reply" /\ Reply(c).case = c
    /\ Current.op = "current"
  BY DEF Enter, SetState, SetData, Show, Create, Read, Ack, Ask, Reply, Current

\* What is entered, acknowledged, created, answered or replied to.
Due(x) ==
    /\ x.op = "state" => \/ x.begins = {}
                         \/ x.begins = {forms} /\ forms # 0 /\ Unsubmitted(forms)
    /\ x.op = "ack" => x.form \in 0 .. forms /\ (x.form # 0 => Unsubmitted(x.form))
    /\ x.op = "create" =>
           /\ x.data \in Data /\ Typed(x.data) /\ Open(x.data) /\ Fits("confirm", x.data, begun)
           /\ ~untold /\ x.data.form \in begun => shown = x.data
    /\ x.op = "reply" /\ ~untold => x.case = asked
    /\ x.op = "read" /\ x.then \in {"name", "phone", "text"} /\ ~untold => x.then = asked

LEMMA WayIsDue == ASSUME Way, Rest # <<>> PROVE Due(Head(Rest))
  <1> DEFINE x == Head(Rest)
  <1>1. CASE Asking
    <2>1. PICK s \in FormStates \ {"confirm"}, fs \in {{}, {forms}} :
               /\ fs # {} => forms # 0 /\ Unsubmitted(forms)
               /\ \/ Rest = <<Ask(s)>>
                  \/ Rest = <<Enter(s, fs), Ask(s)>>
                  \/ \E d \in Data : Rest = <<SetData(d), Enter(s, fs), Ask(s)>>
                  \/ \E k, v : /\ Rest = <<Read(k, v), Enter(s, fs), Ask(s)>>
                               /\ k = "anon" \/ (~untold => asked = k)
                  \/ \E d \in Data :
                         Rest = <<SetData(d), Read("anon", "no"), Enter(s, fs), Ask(s)>>
      BY <1>1 DEF Asking
    <2>2. \/ x.op \in {"data", "ask"}
          \/ x.op = "state" /\ x.begins = fs
          \/ x.op = "read" /\ (x.then = "anon" \/ (~untold => asked = x.then))
      <3>1. CASE Rest = <<Ask(s)>> \/ Rest = <<Enter(s, fs), Ask(s)>>
        BY <3>1, Firsts, Kinds
      <3>2. ASSUME NEW d, \/ Rest = <<SetData(d), Enter(s, fs), Ask(s)>>
                          \/ Rest = <<SetData(d), Read("anon", "no"), Enter(s, fs), Ask(s)>>
            PROVE  x.op = "data"
        BY <3>2, Firsts, Kinds
      <3>3. ASSUME NEW k, NEW v, Rest = <<Read(k, v), Enter(s, fs), Ask(s)>>
            PROVE  x.op = "read" /\ x.then = k
        BY <3>3, Firsts, Kinds
      <3> QED BY <2>1, <3>1, <3>2, <3>3
    <2>3. fs = {} \/ (fs = {forms} /\ forms # 0 /\ Unsubmitted(forms))
      BY <2>1
    <2> QED BY <2>2, <2>3 DEF Due
  <1>2. CASE Attaching
    <2>1. PICK f \in 0 .. forms, fs \in SUBSET Files :
               /\ f # 0 => Unsubmitted(f)
               /\ \/ Rest = <<Read("attach", fs)>>
                  \/ \E all : Rest = <<Read("atts", all), Ack(f, fs)>>
                  \/ \E d : Rest = <<SetData(d), Ack(f, fs)>>
                  \/ Rest = <<Ack(f, fs)>>
      BY <1>2 DEF Attaching
    <2>2. \/ x.op = "data" \/ (x.op = "read" /\ x.then \in {"attach", "atts"})
          \/ x.op = "ack" /\ x.form = f
      <3>1. CASE Rest = <<Read("attach", fs)>> \/ Rest = <<Ack(f, fs)>>
        BY <3>1, Firsts, Kinds
      <3>2. ASSUME NEW all, Rest = <<Read("atts", all), Ack(f, fs)>>
            PROVE  x.op = "read" /\ x.then = "atts"
        BY <3>2, Firsts, Kinds
      <3>3. ASSUME NEW d, Rest = <<SetData(d), Ack(f, fs)>> PROVE x.op = "data"
        BY <3>3, Firsts, Kinds
      <3> QED BY <2>1, <3>1, <3>2, <3>3
    <2> QED BY <2>1, <2>2 DEF Due
  <1>3. CASE Confirming
    <2>1. \/ Rest = <<Read("confirm", TRUE)>>
          \/ \E d : Rest = <<SetState("confirm"), Show(d)>> \/ Rest = <<Show(d)>>
      BY <1>3 DEF Confirming
    <2>2. \/ x.op = "state" /\ x.begins = {}
          \/ x.op = "show" \/ (x.op = "read" /\ x.then = "confirm")
      <3>1. ASSUME NEW d, Rest = <<SetState("confirm"), Show(d)>>
            PROVE  x.op = "state" /\ x.begins = {}
        BY <3>1, Firsts, Kinds
      <3>2. ASSUME NEW d, Rest = <<Show(d)>> PROVE x.op = "show"
        BY <3>2, Firsts, Kinds
      <3>3. CASE Rest = <<Read("confirm", TRUE)>>
        BY <3>3, Firsts DEF Read
      <3> QED BY <2>1, <3>1, <3>2, <3>3
    <2> QED BY <2>2 DEF Due
  <1>4. CASE GoingBack
    <2>1. x.op = "current" \/ (x.op = "read" /\ x.then = "back")
      BY <1>4, Firsts, Kinds DEF GoingBack
    <2> QED BY <2>1 DEF Due
  <1>5. CASE Submitting
    <2>1. CASE Rest = <<Read("submit", TRUE)>>
      <3>1. x.op = "read" /\ x.then = "submit"
        BY <2>1, Firsts DEF Read
      <3> QED BY <3>1 DEF Due
    <2>2. ASSUME NEW d \in Data,
                 Typed(d), Open(d), Fits("confirm", d, begun),
                 ~untold /\ d.form \in begun => shown = d,
                 \/ Rest = Clear \o <<Create(d)>>
                 \/ Rest = <<SetData(Empty), Create(d)>>
                 \/ Rest = <<Create(d)>>
          PROVE  Due(x)
      <3>1. CASE Rest = Clear \o <<Create(d)>>
        <4>1. Rest = <<SetState("none"), SetData(Empty), Create(d)>>
          BY <3>1, ClearThen
        <4>2. x.op = "state" /\ x.begins = {}
          BY <4>1, Firsts, Kinds
        <4> QED BY <4>2 DEF Due
      <3>2. CASE Rest = <<SetData(Empty), Create(d)>>
        <4>1. x.op = "data"
          BY <3>2, Firsts, Kinds
        <4> QED BY <4>1 DEF Due
      <3>3. CASE Rest = <<Create(d)>>
        <4>1. x.op = "create" /\ x.data = d
          BY <3>3, Firsts, Kinds
        <4> QED BY <2>2, <4>1 DEF Due
      <3> QED BY <2>2, <3>1, <3>2, <3>3
    <2> QED BY <1>5, <2>1, <2>2 DEF Submitting
  <1>6. CASE Leaving
    <2>1. x.op = "data" \/ (x.op = "state" /\ x.begins = {})
      BY <1>6, Firsts, Kinds DEF Leaving, Clear
    <2> QED BY <2>1 DEF Due
  <1>7. CASE Prompting
    <2>1. \/ \E c : Rest = <<SetState("reply"), Read("case", c), Ask(c)>>
          \/ \E c : Rest = <<Read("case", c), Ask(c)>> \/ Rest = <<Ask(c)>>
          \/ \E c, d : Rest = <<SetData(d), Ask(c)>>
      BY <1>7 DEF Prompting
    <2>2. \/ x.op \in {"data", "ask"} \/ (x.op = "read" /\ x.then = "case")
          \/ x.op = "state" /\ x.begins = {}
      BY <2>1, Firsts, Kinds
    <2> QED BY <2>2 DEF Due
  <1>8. CASE Replying
    <2>1. CASE Rest = <<Read("reply", TRUE)>>
      <3>1. x.op = "read" /\ x.then = "reply"
        BY <2>1, Firsts DEF Read
      <3> QED BY <3>1 DEF Due
    <2>2. ASSUME NEW c, ~untold => asked = c,
                 \/ Rest = Clear \o <<Reply(c)>>
                 \/ Rest = <<SetData(Empty), Reply(c)>>
                 \/ Rest = <<Reply(c)>>
          PROVE  Due(x)
      <3>1. CASE Rest = Clear \o <<Reply(c)>>
        <4>1. Rest = <<SetState("none"), SetData(Empty), Reply(c)>>
          BY <3>1, ClearThen
        <4>2. x.op = "state" /\ x.begins = {}
          BY <4>1, Firsts, Kinds
        <4> QED BY <4>2 DEF Due
      <3>2. CASE Rest = <<SetData(Empty), Reply(c)>>
        <4>1. x.op = "data"
          BY <3>2, Firsts, Kinds
        <4> QED BY <4>1 DEF Due
      <3>3. CASE Rest = <<Reply(c)>>
        <4>1. x.op = "reply" /\ x.case = c
          BY <3>3, Firsts, Kinds
        <4> QED BY <2>2, <4>1 DEF Due
      <3> QED BY <2>2, <3>1, <3>2, <3>3
    <2> QED BY <1>8, <2>1, <2>2 DEF Replying
  <1> QED BY <1>1, <1>2, <1>3, <1>4, <1>5, <1>6, <1>7, <1>8 DEF Way

LEMMA RowsGo ==
    ASSUME TypeInv, Way, RowsFit, Numbered, Handle(1) PROVE RowsFit' /\ Numbered'
  <1> DEFINE x == Head(Rest)
  <1>1. Rest # <<>>
    BY DEF Handle, DoSetState, DoSetData, DoRead, DoCurrent, DoShow, DoAck, DoCreate,
           DoAsk, DoReply, Call, Idle, Rest
  <1>2. x.op \in {"state", "data", "read", "current", "show", "ack", "create", "ask", "reply"}
    BY DEF Handle, DoSetState, DoSetData, DoRead, DoCurrent, DoShow, DoAck, DoCreate,
           DoAsk, DoReply, Call, Rest
  <1>3. Due(x)
    BY <1>1, WayIsDue
  <1>4. CASE x.op \notin {"state", "ack", "create"}
    <2>1. UNCHANGED <<forms, submitted, begun, offered, acked>>
      BY <1>1, <1>2, <1>4, Runs DEF hist
    <2> QED BY <2>1 DEF RowsFit, Numbered
  <1>5. CASE x.op = "state"
    <2>1. /\ begun' = begun \cup x.begins
          /\ UNCHANGED <<forms, submitted, offered, acked>>
      BY <1>1, <1>5, Runs
    <2>2. x.begins = {} \/ (x.begins = {forms} /\ Unsubmitted(forms))
      BY <1>3, <1>5 DEF Due
    <2>3. forms \in Nat
      BY FormAssumption DEF TypeInv, TypeOK
    <2> QED BY <2>1, <2>2, <2>3 DEF RowsFit, Numbered, Unsubmitted
  <1>6. CASE x.op = "ack"
    <2>1. /\ acked' = acked \cup Noted(x.form, x.files)
          /\ UNCHANGED <<forms, submitted, begun, offered>>
      BY <1>1, <1>6, Runs
    <2>2. x.form \in 0 .. forms /\ (x.form # 0 => Unsubmitted(x.form))
      BY <1>3, <1>6 DEF Due
    <2>3. \A y \in acked' : y \in acked \/ (y[1] = x.form /\ x.form # 0)
      BY <2>1 DEF Noted
    <2>4. \A i \in DOMAIN submitted, z \in Files :
              <<submitted[i].form, z>> \in acked' => <<submitted[i].form, z>> \in acked
      BY <2>2, <2>3 DEF Unsubmitted
    <2>5. RowsFit'
      BY <2>1, <2>4 DEF RowsFit
    <2>6. Numbered'
      BY <2>1, <2>2, <2>3 DEF Numbered
    <2> QED BY <2>5, <2>6
  <1>7. CASE x.op = "create"
    <2> DEFINE d == x.data
    <2> DEFINE new == Stored(d)
    <2>1. /\ d \in Data /\ Typed(d) /\ Open(d) /\ Fits("confirm", d, begun)
      BY <1>3, <1>7 DEF Due
    <2>2. submitted' = Append(submitted, new) /\ UNCHANGED <<forms, begun, offered, acked>>
      BY <1>1, <1>7, Runs
    <2>3. /\ new \in Data /\ Typed(new) /\ new.form = d.form /\ new.atts = d.atts
          /\ Reached("confirm", d) => Reached("confirm", new)
      BY <2>1, StoredIsData DEF Stored, Typed, Reached, Data
    <2>4. /\ new.form <= forms /\ Unsubmitted(new.form)
          /\ new.form \in begun => Reached("confirm", new)
          /\ \A z \in Files : /\ <<new.form, z>> \in acked => z \in new.atts
                              /\ z \in new.atts => <<new.form, z>> \in offered
      BY <2>1, <2>3 DEF Open, Fits
    <2> HIDE DEF new, d
    <2>5. /\ DOMAIN submitted = 1 .. Len(submitted) /\ Len(submitted) \in Nat
          /\ DOMAIN submitted' = 1 .. Len(submitted) + 1
          /\ submitted'[Len(submitted) + 1] = new
          /\ \A i \in DOMAIN submitted : submitted'[i] = submitted[i]
      BY <2>2, <2>3 DEF TypeInv
    <2>6. \A i \in DOMAIN submitted' : i \in DOMAIN submitted \/ i = Len(submitted) + 1
      BY <2>5
    <2>7. ASSUME NEW i \in DOMAIN submitted'
          PROVE  /\ Typed(submitted'[i])
                 /\ submitted'[i].form <= forms
                 /\ submitted'[i].form \in begun => Reached("confirm", submitted'[i])
                 /\ \A z \in Files :
                        /\ <<submitted'[i].form, z>> \in acked => z \in submitted'[i].atts
                        /\ z \in submitted'[i].atts => <<submitted'[i].form, z>> \in offered
      BY <2>3, <2>4, <2>5, <2>6 DEF RowsFit
    <2>8. ASSUME NEW i \in DOMAIN submitted', NEW j \in DOMAIN submitted',
                 submitted'[i].form = submitted'[j].form
          PROVE  i = j
      BY <2>4, <2>5, <2>6, <2>8 DEF RowsFit, Unsubmitted
    <2>9. RowsFit'
      BY <2>2, <2>7, <2>8 DEF RowsFit
    <2>10. Numbered'
      BY <2>2 DEF Numbered
    <2> QED BY <2>9, <2>10
  <1> QED BY <1>2, <1>4, <1>5, <1>6, <1>7

----------------------------------------------------------------------------
(* What an update finds and what it starts                                 *)

\* Without an overlap an update finds everything safe.
LEMMA Arrives ==
    ASSUME TypeInv, Serial, NEW h \in Slots, NEW p, Arrive(h, p), overlaps' = 0
    PROVE  /\ overlaps = 0 /\ Safe(state, data) /\ RowsFit /\ Numbered
           /\ Rest' = p /\ steps'[2] = <<>>
  <1>1. overlaps = 0 /\ \A g \in Slots : Idle(g)
    BY DEF Arrive, TypeInv, TypeOK
  <1>2. h = 1
    BY <1>1 DEF Arrive, Slots
  <1>3. steps[2] = <<>> /\ Safe(state, data) /\ RowsFit /\ Numbered
    BY <1>1 DEF Serial
  <1>4. Rest' = p /\ steps'[2] = steps[2]
    BY <1>2 DEF Arrive, TypeInv, TypeOK, Slots, Rest
  <1> QED BY <1>1, <1>3, <1>4

\* An answer arrives in the step that it was asked for in.
LEMMA AnswerArrives ==
    ASSUME TypeInv, Safe(state, data), UNCHANGED <<state, data, hist>>,
           NEW k, NEW v, NEW s \in FormStates \ {"confirm"},
           Rest' = <<Read(k, v), SetState(s), Ask(s)>>,
           \/ k \in {"name", "phone", "text"} /\ v = TRUE /\ state = k
           \/ k = "anon" /\ v \in {"yes", "no"} /\ state = "anonymous",
           Fits(s, [data EXCEPT ![k] = v], begun)
    PROVE  Asking'
  <1> DEFINE d == [data EXCEPT ![k] = v]
  <1>1. /\ d.form = data.form /\ d.type = data.type /\ d.atts = data.atts
        /\ d.case = data.case /\ (k # "anon" => d.anon = data.anon)
        /\ (data.name => d.name) /\ (data.phone => d.phone) /\ (data.text => d.text)
    BY DEF TypeInv, TypeOK, Data
  <1>2. k # "anon" /\ ~untold => asked = k
    BY DEF Safe, Told
  <1>3. Open(d)
    BY <1>1 DEF Safe, Open, Typed
  <1>4. Fits(state, d, begun) /\ (~untold => Told(state, d))
    BY <1>1 DEF Safe, Fits, Told, Typed, Reached
  <1>5. Safe(state, d)'
    BY <1>3, <1>4, Pending DEF Safe
  <1>6. Rest' = <<Read(k, v), Enter(s, {}), Ask(s)>>
    BY DEF SetState
  <1>7. begun' \cup {} = begun
    BY DEF hist
  <1>8. CASE k \in {"name", "phone", "text"}
    BY <1>2, <1>5, <1>6, <1>7, <1>8 DEF Asking, hist
  <1>9. CASE k = "anon"
    BY <1>5, <1>6, <1>7, <1>9 DEF Asking, hist
  <1> QED BY <1>8, <1>9

LEMMA MessageArrives ==
    ASSUME TypeInv, Serial, NEW h \in Slots, NEW v \in Texts, ReceiveMessage(h, v),
           overlaps' = 0
    PROVE  Safe(state, data)' /\ Way' /\ RowsFit' /\ Numbered' /\ steps'[2] = <<>>
  <1>0. /\ UNCHANGED <<state, data, hist>> /\ data \in Data
        /\ Safe(state, data) /\ RowsFit /\ Numbered /\ OnMessage(v, state) # <<>>
        /\ Rest' = OnMessage(v, state) /\ steps'[2] = <<>>
    BY Arrives DEF ReceiveMessage, Arrive, hist, chat, TypeInv, TypeOK
  <1>1. RowsFit' /\ Numbered'
    BY <1>0 DEF RowsFit, Numbered, hist
  <1>2. Safe(state, data)'
    BY <1>0, ReadKeeps
  <1>3. Fits(state, data, begun)
    BY <1>0 DEF Safe
  <1>4. Way'
    <2>1. CASE state = "reply"
      <3>1. Rest' = <<Read("reply", TRUE)>>
        BY <1>0, <2>1 DEF OnMessage, OnReplyText
      <3>2. (~untold => data.case \in {asked, NoCase})'
        BY <1>0, <2>1 DEF Safe, Told, hist
      <3> QED BY <3>1, <3>2 DEF Replying, Way
    <2>2. CASE state = "name"
      <3>1. Rest' = <<Read("name", TRUE), SetState("phone"), Ask("phone")>>
        BY <1>0, <2>2 DEF OnMessage, OnName
      <3>2. Fits("phone", [data EXCEPT !["name"] = TRUE], begun)
        BY <1>0, <1>3, <2>2 DEF Fits, Reached, Typed, Data
      <3>3. Asking'
        BY <1>0, <2>2, <3>1, <3>2, AnswerArrives DEF FormStates
      <3> QED BY <3>3 DEF Way
    <2>3. CASE state = "phone"
      <3>1. Rest' = <<Read("phone", TRUE), SetState("text"), Ask("text")>>
        BY <1>0, <2>3 DEF OnMessage, OnPhone
      <3>2. Fits("text", [data EXCEPT !["phone"] = TRUE], begun)
        BY <1>0, <1>3, <2>3 DEF Fits, Reached, Typed, Data
      <3>3. Asking'
        BY <1>0, <2>3, <3>1, <3>2, AnswerArrives DEF FormStates
      <3> QED BY <3>3 DEF Way
    <2>4. CASE state = "text"
      <3>1. Rest' = <<Read("text", TRUE), SetState("attachments"), Ask("attachments")>>
        BY <1>0, <2>4 DEF OnMessage, OnText
      <3>2. Fits("attachments", [data EXCEPT !["text"] = TRUE], begun)
        BY <1>0, <1>3, <2>4 DEF Fits, Reached, Typed, Data
      <3>3. Asking'
        BY <1>0, <2>4, <3>1, <3>2, AnswerArrives DEF FormStates
      <3> QED BY <3>3 DEF Way
    <2>5. CASE state \notin {"reply", "name", "phone", "text"}
      <3>1. Rest' = Clear
        BY <1>0, <2>5 DEF OnMessage
      <3> QED BY <3>1 DEF Leaving, Way
    <2> QED BY <2>1, <2>2, <2>3, <2>4, <2>5
  <1> QED BY <1>0, <1>1, <1>2, <1>4

LEMMA FilesArrive ==
    ASSUME TypeInv, Serial, NEW h \in Slots, NEW fs \in SUBSET Files, ReceiveFiles(h, fs),
           overlaps' = 0
    PROVE  Safe(state, data)' /\ Way' /\ RowsFit' /\ Numbered' /\ steps'[2] = <<>>
  <1>0. /\ UNCHANGED <<state, data, forms, submitted, begun, shown, acked, asked, untold>>
        /\ offered' = offered \cup Noted(data.form, fs)
        /\ state = "attachments" /\ Safe(state, data) /\ RowsFit /\ Numbered
        /\ Rest' = <<Read("attach", fs)>> /\ steps'[2] = <<>>
    BY Arrives DEF ReceiveFiles, TakesFiles, OnAttachment
  <1>1. data.form <= forms /\ (Typed(data) <=> data.form # 0)
    BY <1>0 DEF Safe, Open
  <1>2. RowsFit'
    BY <1>0 DEF RowsFit
  <1>3. Numbered'
    <2>1. \A y \in offered' : y \in offered \/ y[1] = data.form
      BY <1>0 DEF Noted
    <2> QED BY <1>0, <1>1, <2>1 DEF Numbered
  <1>4. Safe(state, data)'
    BY <1>0 DEF Safe, Open, Fits, Told, Unsubmitted
  <1>5. Typed(data) => \A x \in fs : <<data.form, x>> \in offered'
    BY <1>0, <1>1 DEF Noted
  <1>6. 0 \in 0 .. forms'
    BY <1>0, FormAssumption DEF TypeInv, TypeOK
  <1>7. Attaching'
    BY <1>0, <1>5, <1>6 DEF Attaching
  <1> QED BY <1>0, <1>2, <1>3, <1>4, <1>7 DEF Way

\* A new form is of a number that nothing knows yet.
LEMMA FormArrives ==
    ASSUME TypeInv, Serial, NEW h \in Slots, NEW b \in Types, ReceiveTap(h, b),
           overlaps' = 0
    PROVE  Safe(state, data)' /\ Way' /\ RowsFit' /\ Numbered' /\ steps'[2] = <<>>
  <1>0. /\ UNCHANGED <<state, data, submitted, begun, shown, offered, acked, asked, untold>>
        /\ forms' = forms + 1 /\ forms + 1 \in 0 .. MaxForms /\ forms \in Nat
        /\ Safe(state, data) /\ RowsFit /\ Numbered
        /\ Rest' = OnTap(b, state) /\ steps'[2] = <<>>
    <2>1. Safe(state, data) /\ RowsFit /\ Numbered
      BY Arrives DEF ReceiveTap
    <2>2. Rest' = OnTap(b, state) /\ steps'[2] = <<>>
      BY Arrives DEF ReceiveTap
    <2>3. /\ UNCHANGED <<state, data, submitted, begun, shown, offered, acked, asked, untold>>
          /\ forms' = forms + 1 /\ forms < MaxForms
      BY DEF ReceiveTap, chat
    <2>4. forms \in Nat /\ forms + 1 \in 0 .. MaxForms
      BY <2>3, FormAssumption DEF TypeInv, TypeOK
    <2> QED BY <2>1, <2>2, <2>3, <2>4
  <1>1. \A i \in DOMAIN submitted : submitted[i].form \in Nat /\ submitted[i].form <= forms
    BY <1>0, FormAssumption DEF RowsFit, TypeInv, TypeOK, Data
  <1>2. \A i \in DOMAIN submitted :
            submitted[i].form <= forms + 1 /\ submitted[i].form # forms + 1
    BY <1>0, <1>1
  <1>3. RowsFit'
    BY <1>0, <1>2 DEF RowsFit
  <1>4. /\ \A f \in begun : f <= forms + 1 /\ f # forms + 1
        /\ \A x \in acked \cup offered : x[1] <= forms + 1 /\ x[1] # forms + 1
    <2>1. /\ \A f \in begun : f \in Nat /\ f <= forms
          /\ \A x \in acked \cup offered : x[1] \in Nat /\ x[1] <= forms
      BY <1>0, FormAssumption DEF Numbered, TypeInv, TypeOK
    <2> QED BY <1>0, <2>1
  <1>5. Numbered'
    BY <1>0, <1>4 DEF Numbered
  <1>6. data.form \in Nat /\ data.form <= forms + 1
    BY <1>0, FormAssumption DEF Safe, Open, TypeInv, TypeOK, Data
  <1>7. Safe(state, data)'
    BY <1>0, <1>6 DEF Safe, Open, Fits, Told, Unsubmitted
  <1>8. PICK d \in Data : d = Blank(forms + 1, b)
    BY <1>0, BlankFits
  <1>9. d.form = forms + 1 /\ d.type = b /\ d.atts = {} /\ d.case = NoCase
    BY <1>8 DEF Blank, Empty
  <1>10. ASSUME NEW e, e.form = forms + 1, e.type = b, e.atts = {}, e.case = NoCase
         PROVE  Safe(state, e)'
    <2>1. Typed(e)
      BY <1>10 DEF Typed, Types
    <2>2. Open(e)'
      BY <1>0, <1>2, <1>4, <1>10, <2>1 DEF Open, Unsubmitted
    <2>3. e.form \notin begun'
      BY <1>0, <1>4, <1>10
    <2>4. Fits(state', e, begun')
      BY <2>3 DEF Fits
    <2>5. (~untold => Told(state, e))'
      BY <1>0, <1>10, <2>3 DEF Safe, Told
    <2> QED BY <2>2, <2>4, <2>5 DEF Safe
  <1>11. Safe(state, d)' /\ Safe(state, [d EXCEPT !.anon = "no"])'
    <2> DEFINE e == [d EXCEPT !.anon = "no"]
    <2>1. e.form = forms + 1 /\ e.type = b /\ e.atts = {} /\ e.case = NoCase
      BY <1>9 DEF Data
    <2>2. Safe(state, e)'
      BY <1>10, <2>1
    <2> QED BY <1>9, <1>10, <2>2
  <1>12. {forms + 1} \in {{}, {forms'}} /\ forms' # 0 /\ Unsubmitted(forms)'
    BY <1>0, <1>2 DEF Unsubmitted
  <1>13. OnTap(b, state) = StartForm(b)
    BY FormAssumption DEF OnTap, Types
  <1>14. CASE b = "corruption"
    <2>1. Rest' = <<SetData(d), Enter("anonymous", {forms + 1}), Ask("anonymous")>>
      BY <1>0, <1>8, <1>13, <1>14, StartFormIs
    <2>2. Fits("anonymous", d, begun' \cup {forms + 1})
      BY NoneFits
    <2>3. Asking'
      BY <1>11, <1>12, <2>1, <2>2 DEF Asking, FormStates
    <2> QED BY <1>0, <1>3, <1>5, <1>7, <2>3 DEF Way
  <1>15. CASE b # "corruption"
    <2>1. Rest' = <<SetData(d), Read("anon", "no"), Enter("name", {forms + 1}), Ask("name")>>
      BY <1>0, <1>8, <1>13, <1>15, StartFormIs
    <2>2. Fits("name", [d EXCEPT !.anon = "no"], begun' \cup {forms + 1})
      BY DEF Fits, Reached, Data
    <2>3. Asking'
      BY <1>11, <1>12, <2>1, <2>2 DEF Asking, FormStates
    <2> QED BY <1>0, <1>3, <1>5, <1>7, <2>3 DEF Way
  <1> QED BY <1>14, <1>15

LEMMA TapArrives ==
    ASSUME TypeInv, Serial, NEW h \in Slots, NEW b \in Buttons, ReceiveTap(h, b),
           overlaps' = 0, b \notin Types
    PROVE  Safe(state, data)' /\ Way' /\ RowsFit' /\ Numbered' /\ steps'[2] = <<>>
  <1>0. /\ UNCHANGED <<state, data, hist>> /\ data \in Data
        /\ Safe(state, data) /\ RowsFit /\ Numbered /\ OnTap(b, state) # <<>>
        /\ Rest' = OnTap(b, state) /\ steps'[2] = <<>>
    BY Arrives DEF ReceiveTap, Arrive, hist, chat, TypeInv, TypeOK
  <1>1. RowsFit' /\ Numbered' /\ Safe(state, data)'
    BY <1>0, ReadKeeps DEF RowsFit, Numbered, hist
  <1>2. Fits(state, data, begun)
    BY <1>0 DEF Safe
  <1>3. CASE b \in Cases
    <2>1. OnTap(b, state) = OnReplyStart(b)
      BY <1>3, FormAssumption DEF OnTap, Types, Choices
    <2>2. Prompting'
      BY <1>0, <1>3, <2>1 DEF Prompting, OnReplyStart
    <2> QED BY <1>0, <1>1, <2>2 DEF Way
  <1>4. CASE b \in {"yes", "no"}
    <2>1. state = "anonymous"
      BY <1>0, <1>4, FormAssumption DEF OnTap, Types, Choices
    <2>2. Rest' = OnAnonymous(b)
      BY <1>0, <1>4, <2>1, FormAssumption DEF OnTap, Types, Choices
    <2>3. CASE b = "yes"
      <3>1. Rest' = <<Read("anon", b), SetState("text"), Ask("text")>>
        BY <2>2, <2>3 DEF OnAnonymous
      <3>2. Fits("text", [data EXCEPT !["anon"] = b], begun)
        BY <1>0, <2>3 DEF Fits, Reached, Data
      <3>3. Asking'
        BY <1>0, <1>4, <2>1, <3>1, <3>2, AnswerArrives DEF FormStates
      <3> QED BY <1>0, <1>1, <3>3 DEF Way
    <2>4. CASE b = "no"
      <3>1. Rest' = <<Read("anon", b), SetState("name"), Ask("name")>>
        BY <2>2, <2>4 DEF OnAnonymous
      <3>2. Fits("name", [data EXCEPT !["anon"] = b], begun)
        BY <1>0, <2>4 DEF Fits, Reached, Data
      <3>3. Asking'
        BY <1>0, <1>4, <2>1, <3>1, <3>2, AnswerArrives DEF FormStates
      <3> QED BY <1>0, <1>1, <3>3 DEF Way
    <2> QED BY <1>4, <2>3, <2>4
  <1>5. CASE b = "cancel"
    <2>1. Rest' = Clear
      BY <1>0, <1>5, FormAssumption DEF OnTap, Types, Choices
    <2> QED BY <1>0, <1>1, <2>1 DEF Leaving, Way
  <1>6. CASE b = "done"
    <2>1. state = "attachments"
      BY <1>0, <1>6, FormAssumption DEF OnTap, Types, Choices
    <2>2. Rest' = <<Read("confirm", TRUE)>>
      BY <1>0, <1>6, <2>1, FormAssumption DEF OnTap, OnAttachmentsDone, Types, Choices
    <2>3. Fits("confirm", data, begun)
      BY <1>0, <1>2, <2>1, FitsBefore
    <2>4. Confirming'
      BY <1>0, <2>2, <2>3 DEF Confirming, hist
    <2> QED BY <1>0, <1>1, <2>4 DEF Way
  <1>7. CASE b = "back"
    <2>1. Rest' = <<Current>>
      BY <1>0, <1>7, FormAssumption DEF OnTap, OnBack, Types, Choices
    <2>2. GoingBack'
      BY <2>1 DEF GoingBack
    <2> QED BY <1>0, <1>1, <2>2 DEF Way
  <1>8. CASE b = "submit"
    <2>1. state = "confirm"
      BY <1>0, <1>8, FormAssumption DEF OnTap, Types, Choices
    <2>2. Rest' = <<Read("submit", TRUE)>>
      BY <1>0, <1>8, <2>1, FormAssumption DEF OnTap, OnSubmit, Types, Choices
    <2>3. ~untold /\ Typed(data) /\ data.form \in begun => shown = data
      BY <1>0, <2>1 DEF Safe, Told
    <2>4. Submitting'
      BY <1>0, <1>2, <2>1, <2>2, <2>3 DEF Submitting, hist
    <2> QED BY <1>0, <1>1, <2>4 DEF Way
  <1> QED BY <1>3, <1>4, <1>5, <1>6, <1>7, <1>8 DEF Buttons, Choices

----------------------------------------------------------------------------
(* The inductive invariant                                                 *)

LEMMA IInvInit == Init => IInv
  <1> SUFFICES ASSUME Init PROVE IInv
    OBVIOUS
  <1>1. TypeInv
    BY InitTypes
  <1>2. Rest = <<>> /\ steps[2] = <<>> /\ RowsFit /\ Numbered
    BY DEF Init, Rest, Slots, RowsFit, Numbered
  <1>3. Safe(state, data)
    BY EmptyIsNothing DEF Init, Safe, Open, Fits, Told
  <1>4. AnonymousStripped
    BY DEF Init, AnonymousStripped, Rows
  <1> QED BY <1>1, <1>2, <1>3, <1>4 DEF IInv, Serial, Way

\* Wherever a handler breaks off, state and data are safe already.
LEMMA SerialNext == IInv /\ [Next]_vars => Serial'
  <1> SUFFICES ASSUME IInv, [Next]_vars, overlaps' = 0
               PROVE  /\ steps'[2] = <<>>
                      /\ Safe(state, data)' /\ Way' /\ RowsFit' /\ Numbered'
    BY DEF Serial
  <1>0. TypeInv /\ Serial
    BY DEF IInv
  <1> DEFINE Goal == /\ steps'[2] = <<>>
                     /\ Safe(state, data)' /\ Way' /\ RowsFit' /\ Numbered'
  <1>1. ASSUME NEW h \in Slots, Receive(h) PROVE Goal
    BY <1>0, <1>1, MessageArrives, FilesArrive, FormArrives, TapArrives DEF Receive
  <1>2. ASSUME NEW h \in Slots, Handle(h) PROVE Goal
    <2>1. overlaps' = overlaps /\ ~Idle(h)
      BY <1>2 DEF Handle, DoSetState, DoSetData, DoRead, DoCurrent, DoShow, DoAck,
                  DoCreate, DoAsk, DoReply, Call
    <2>2. steps[2] = <<>> /\ Safe(state, data) /\ Way /\ RowsFit /\ Numbered
      BY <1>0, <2>1 DEF Serial
    <2>3. h = 1 /\ Handle(1)
      BY <1>2, <2>1, <2>2 DEF Slots, Idle
    <2>4. Rest # <<>>
      BY <2>1, <2>3 DEF Idle, Rest
    <2>5. steps'[2] = steps[2]
      BY <1>0, <2>3, <2>4, Runs
    <2> QED BY <1>0, <2>2, <2>3, <2>5, WayGoes, RowsGo
  <1>3. ASSUME NEW h \in Slots, Fail(h) PROVE Goal
    <2>1. ~Idle(h) /\ UNCHANGED <<overlaps, state, data, hist>>
      BY <1>3 DEF Fail, hist, chat
    <2>2. steps[2] = <<>> /\ Safe(state, data) /\ RowsFit /\ Numbered
      BY <1>0, <2>1 DEF Serial
    <2>3. h = 1
      BY <2>1, <2>2 DEF Slots, Idle
    <2>4. Rest' = <<>> /\ steps'[2] = <<>>
      BY <1>0, <1>3, <2>2, <2>3 DEF Fail, Rest, Slots, TypeInv, TypeOK
    <2>5. Safe(state, data)' /\ RowsFit' /\ Numbered'
      BY <2>1, <2>2, ReadKeeps DEF RowsFit, Numbered, hist
    <2> QED BY <2>4, <2>5 DEF Way
  <1>4. ASSUME ExpireState \/ ExpireData \/ UNCHANGED vars PROVE Goal
    <2>1. Fades
      BY <1>4, Expires
    <2>2. steps[2] = <<>> /\ Safe(state, data) /\ Way /\ RowsFit /\ Numbered
      BY <1>0, <2>1 DEF Serial, Fades
    <2>3. forms \in Nat
      BY <1>0, FormAssumption DEF TypeInv, TypeOK
    <2>4. Safe(state, data)' /\ Way'
      BY <1>0, <2>1, <2>2, <2>3, SafeFades, WayFades
    <2> QED BY <2>1, <2>2, <2>4 DEF RowsFit, Numbered, Fades, hist
  <1> QED BY <1>1, <1>2, <1>3, <1>4 DEF Next

\* A row is stored without name and phone if it is anonymous, by any handler.
LEMMA StrippedNext ==
    TypeInv /\ AnonymousStripped /\ [Next]_vars => AnonymousStripped'
  <1> SUFFICES ASSUME TypeInv, AnonymousStripped, [Next]_vars PROVE AnonymousStripped'
    OBVIOUS
  <1>1. ASSUME NEW h \in Slots, DoCreate(h) PROVE AnonymousStripped'
    <2> DEFINE new == Stored(Arg(h).data)
    <2>1. Arg(h).data \in Data
      BY <1>1, FirstCallCarries, CallsCarry DEF DoCreate, Call, Arg
    <2>2. new \in Data /\ (new.anon = "yes" => ~new.name /\ ~new.phone)
      BY <2>1, StoredIsData DEF Stored, Data
    <2>3. submitted' = Append(submitted, new)
      BY <1>1 DEF DoCreate
    <2> HIDE DEF new
    <2>4. \A i \in DOMAIN submitted' :
              \/ i \in DOMAIN submitted /\ submitted'[i] = submitted[i]
              \/ submitted'[i] = new
      BY <2>2, <2>3 DEF TypeInv
    <2> QED BY <2>2, <2>4 DEF AnonymousStripped, Rows
  <1>2. UNCHANGED submitted \/ \E h \in Slots : DoCreate(h)
    BY DEF Next, Receive, ReceiveMessage, ReceiveFiles, ReceiveTap, Handle, DoSetState,
           DoSetData, DoRead, DoCurrent, DoShow, DoAck, DoAsk, DoReply, Fail, ExpireState,
           ExpireData, vars
  <1>3. CASE UNCHANGED submitted
    BY <1>3 DEF AnonymousStripped, Rows
  <1> QED BY <1>1, <1>2, <1>3

LEMMA IInvNext == IInv /\ [Next]_vars => IInv'
  BY TypeNext, SerialNext, StrippedNext DEF IInv

\* What is due of the call that the only handler comes to.
LEMMA CallIsDue ==
    ASSUME IInv, overlaps = 0, NEW h \in Slots, NEW o, Call(h, o)
    PROVE  Arg(h).op = o /\ Due(Arg(h))
  <1>1. h = 1 /\ Way /\ Rest # <<>> /\ Arg(h) = Head(Rest)
    BY DEF IInv, Serial, Slots, Idle, Arg, Rest, Call
  <1> QED BY <1>1, WayIsDue DEF Call, Arg

----------------------------------------------------------------------------

\* As long as updates come one after the other, state and data are safe between
\* any two calls: wherever a handler breaks off, they are those of a step that
\* has the answers before it, of a form not submitted, with the files it
\* acknowledged; and the rest of a handler keeps them so.
THEOREM Invariance == Spec => []IInv
  BY IInvInit, IInvNext, PTL DEF Spec

\* Every variable keeps its type, with any overlaps and failures.
THEOREM TypeCorrectness == Spec => []TypeOK
  <1>1. IInv => TypeOK
    BY DEF IInv, TypeInv
  <1> QED BY Invariance, <1>1, PTL

\* Without overlaps a submission of a form whose start came through has all the
\* answers its kind asks for, wherever handlers broke off and whatever back
\* steps, abandoned forms and expired keys led to it (on_submit relies on the
\* order of the states).
THEOREM Complete == Spec => []SubmittedComplete
  <1>1. IInv => SubmittedComplete
    BY DEF IInv, TypeInv, TypeOK, Data, Serial, RowsFit, Typed, Reached, SubmittedComplete, Rows
  <1> QED BY Invariance, <1>1, PTL

\* Without overlaps what is submitted is what the last summary showed, if the
\* summary of this step came through, wherever other handlers broke off
\* (_show_confirm, on_submit).
THEOREM AsShown == Spec => []SubmittedAsShown
  <1>1. IInv => SubmittedAsShown
    <2> SUFFICES ASSUME IInv, overlaps = 0, ~untold, NEW h \in Slots,
                        Call(h, "create"), Arg(h).data.form \in begun
                 PROVE  Arg(h).data = shown
      BY DEF SubmittedAsShown
    <2>1. Arg(h).op = "create" /\ Due(Arg(h))
      BY CallIsDue
    <2> QED BY <2>1 DEF Due
  <1> QED BY Invariance, <1>1, PTL

\* Without overlaps a submission has all files that were acknowledged for its
\* form and none but those sent in it, wherever handlers broke off, between the
\* storing of a file and the answer too (on_attachment).
THEOREM FilesKept == Spec => []AttachmentsKept
  <1>1. IInv => AttachmentsKept
    BY DEF IInv, Serial, RowsFit, AttachmentsKept, Rows
  <1> QED BY Invariance, <1>1, PTL

\* Without overlaps one form becomes one submission, wherever a handler breaks
\* off (on_submit clears it first).
THEOREM Once == Spec => []SubmittedOnce
  <1>1. IInv => SubmittedOnce
    BY DEF IInv, Serial, RowsFit, SubmittedOnce
  <1> QED BY Invariance, <1>1, PTL

\* Without overlaps a text goes to the author of the case whose prompt came
\* last, or answers the step that was asked for last, unless the handler that
\* set the state last broke off before it said so (on_reply_start,
\* on_reply_text).
THEOREM TextGoesRight == Spec => []TextGoesWhereAsked
  <1>1. IInv => TextGoesWhereAsked
    <2> SUFFICES ASSUME IInv, overlaps = 0, ~untold, NEW h \in Slots
                 PROVE  /\ Call(h, "reply") => Arg(h).case = asked
                        /\ Call(h, "read") /\ Arg(h).then \in {"name", "phone", "text"} =>
                               Arg(h).then = asked
      BY DEF TextGoesWhereAsked
    <2>1. Call(h, "reply") => Arg(h).op = "reply" /\ Due(Arg(h))
      BY CallIsDue
    <2>2. Call(h, "read") => Arg(h).op = "read" /\ Due(Arg(h))
      BY CallIsDue
    <2> QED BY <2>1, <2>2 DEF Due
  <1> QED BY Invariance, <1>1, PTL

\* With any overlaps, an anonymous submission has neither name nor phone
\* (SubmissionService.create drops them whatever the data say).
THEOREM NamesDropped == Spec => []AnonymousStripped
  <1>1. IInv => AnonymousStripped
    BY DEF IInv
  <1> QED BY Invariance, <1>1, PTL

=============================================================================

--------------------------- MODULE SubmissionForm ---------------------------
(***************************************************************************)
(* What one person is asked for: the steps of the form that submits an     *)
(* appeal or a complaint and, if he is a responsible too, the texts of     *)
(* replies.  Both share his state and his data, two Redis keys, each with  *)
(* a TTL of its own.  An update chooses its handler by the state it finds  *)
(* on arrival; the handler is the sequence of the calls it makes, to the   *)
(* storage and to Telegram.  The handlers of two updates interleave        *)
(* between these calls (the dispatcher isolates no events), and a handler  *)
(* may end at any of them: a call raises, or the process dies.             *)
(***************************************************************************)
EXTENDS Naturals, Sequences, FiniteSets

CONSTANTS
    Files,        \* photos and documents the person may attach
    Cases,        \* submissions of others whose reply button he has
    NoCase,       \* the data name no such submission
    MaxForms,     \* bound: how often the form is started
    MaxSubmits,   \* bound: submit is not tapped after that many submissions
    MaxOverlaps,  \* bound: updates that arrive while another is handled
    Expiry        \* TRUE if the TTLs may run out

\* The buttons besides those of replies.
Types == {"appeal", "corruption"}
Choices == {"yes", "no", "cancel", "done", "back", "submit"}

ASSUME FormAssumption ==
    /\ MaxForms \in Nat /\ MaxSubmits \in Nat /\ MaxOverlaps \in Nat /\ Expiry \in BOOLEAN
    /\ NoCase \notin Cases /\ Cases \cap (Types \cup Choices) = {}

VARIABLES
    state,      \* the state key, "none" when it is absent
    data,       \* the data key, Empty when it is absent
    last,       \* the key written last: the other one expires first
    steps,      \* per slot the storage calls its handler has still to make
    overlaps,   \* how many updates arrived while another was handled
    forms,      \* how many forms were started; the number is the form's id
    submitted,  \* the committed submissions
    begun,      \* history: forms whose start came to its first step
    shown,      \* history: the data of the last summary, Empty once something else is asked
    offered,    \* history: files sent while the data were those of a form
    acked,      \* history: of these, the ones acknowledged
    asked,      \* history: the last question put, a step of the form or a case
    untold      \* history: the state was set since, and nothing said of it

chat == <<begun, shown, offered, acked, asked, untold>>
vars == <<state, data, last, steps, overlaps, forms, submitted, chat>>

Slots == {1, 2}
FormStates == {"anonymous", "name", "phone", "text", "attachments", "confirm"}
States == FormStates \cup {"none", "reply"}   \* "reply" is ResponseForm.text

\* What a message's text can be: acceptable; too long or, for a phone, not
\* one; or a command, which is text to the filter F.text.  The data keep only
\* whether a field was given.
Texts == {"ok", "bad", "/cancel", "/start"}

Data == [form : 0 .. MaxForms, type : Types \cup {"none"}, anon : {"unset", "yes", "no"},
         name : BOOLEAN, phone : BOOLEAN, text : BOOLEAN, atts : SUBSET Files,
         case : Cases \cup {NoCase}]
Empty == [form |-> 0, type |-> "none", anon |-> "unset",
          name |-> FALSE, phone |-> FALSE, text |-> FALSE, atts |-> {}, case |-> NoCase]

Init ==
    /\ state = "none"
    /\ data = Empty
    /\ last = "data"
    /\ steps = [h \in Slots |-> <<>>]
    /\ overlaps = 0
    /\ forms = 0
    /\ submitted = <<>>
    /\ begun = {}
    /\ shown = Empty
    /\ offered = {}
    /\ acked = {}
    /\ asked = "none"
    /\ untold = FALSE

----------------------------------------------------------------------------
(* Calls to the storage and to Telegram; a Read goes on as Then says       *)

\* set_state; with the first step of a form the form has begun.
Enter(s, fs) == [op |-> "state", state |-> s, begins |-> fs]
SetState(s) == Enter(s, {})
SetData(d) == [op |-> "data", data |-> d]
Read(k, v) == [op |-> "read", then |-> k, value |-> v]
Current == [op |-> "current"]
Show(d) == [op |-> "show", data |-> d]
Ack(f, fs) == [op |-> "ack", form |-> f, files |-> fs]
Create(d) == [op |-> "create", data |-> d]
Ask(q) == [op |-> "ask", of |-> q]
Reply(c) == [op |-> "reply", case |-> c]

Clear == <<SetState("none"), SetData(Empty)>>

----------------------------------------------------------------------------
(* The handlers                                                            *)

\* Mutant: a new form keeps the data of the one it replaces.
StartForm_Update(t) ==
    LET new == SetData([data EXCEPT !.form = forms + 1, !.type = t])
    IN  IF t = "corruption"
        THEN <<new, Enter("anonymous", {forms + 1}), Ask("anonymous")>>
        ELSE <<new, Read("anon", "no"), Enter("name", {forms + 1}), Ask("name")>>

StartForm(t) ==
    LET new == SetData([Empty EXCEPT !.form = forms + 1, !.type = t])
    IN  IF t = "corruption"
        THEN <<new, Enter("anonymous", {forms + 1}), Ask("anonymous")>>
        ELSE <<new, Read("anon", "no"), Enter("name", {forms + 1}), Ask("name")>>

\* Mutant: the name is not asked whatever the answer.
OnAnonymous_SkipName(v) == <<Read("anon", v), SetState("text"), Ask("text")>>

OnAnonymous(v) ==
    IF v = "yes" THEN <<Read("anon", v), SetState("text"), Ask("text")>>
                 ELSE <<Read("anon", v), SetState("name"), Ask("name")>>

OnName(v) ==
    IF v = "bad" THEN <<>> ELSE <<Read("name", TRUE), SetState("phone"), Ask("phone")>>

OnPhone(v) ==
    IF v # "ok" THEN <<>> ELSE <<Read("phone", TRUE), SetState("text"), Ask("text")>>

OnText(v) ==
    IF v = "bad" THEN <<>>
    ELSE <<Read("text", TRUE), SetState("attachments"), Ask("attachments")>>

\* A photo, a document or the files of an album (MediaGroupMiddleware).
OnAttachment(fs) == <<Read("attach", fs)>>

OnAttachmentsDone == <<Read("confirm", TRUE)>>

OnBack == <<Current>>

OnSubmit == <<Read("submit", TRUE)>>

\* Mutant: the case of an earlier prompt is kept.
OnReplyStart_FirstCase(c) ==
    <<SetState("reply"), Read("case", IF data.case = NoCase THEN c ELSE data.case), Ask(c)>>

\* on_reply_start, authorized: whatever the person was at is left, its data stay.
OnReplyStart(c) == <<SetState("reply"), Read("case", c), Ask(c)>>

OnReplyText == <<Read("reply", TRUE)>>

\* on_back, once it knows the state and the data.
Back(s, d) ==
    CASE s = "phone" -> <<SetState("name"), Ask("name")>>
      [] s = "text" /\ d.anon = "yes" -> <<SetState("anonymous"), Ask("anonymous")>>
      [] s = "text" /\ d.anon # "yes" -> <<SetState("phone"), Ask("phone")>>
      [] s = "attachments" -> <<SetState("text"), Ask("text")>>
      [] s = "confirm" -> <<SetState("attachments"), Ask("attachments")>>
      [] OTHER -> <<>>

\* Mutant: nothing is cleared when the form is submitted.
Then_NoClear(r, d) ==
    CASE r.then = "back" -> Back(r.value, d)
      [] r.then = "attach" -> <<Read("atts", d.atts \cup r.value), Ack(d.form, r.value)>>
      [] r.then = "confirm" ->
            IF d.type = "none" THEN <<>> ELSE <<SetState("confirm"), Show(d)>>
      [] r.then = "submit" ->
            IF d.type = "none" THEN <<>> ELSE <<Create(d)>>
      [] r.then = "reply" -> IF d.case = NoCase THEN <<>> ELSE Clear \o <<Reply(d.case)>>
      [] OTHER -> <<SetData([d EXCEPT ![r.then] = r.value])>>

\* How the handler that reads d goes on; update_data writes back all of it.
\* Without its type _show_confirm raises and on_submit gives up; without its
\* case on_reply_text raises.
Then(r, d) ==
    CASE r.then = "back" -> Back(r.value, d)
      [] r.then = "attach" -> <<Read("atts", d.atts \cup r.value), Ack(d.form, r.value)>>
      [] r.then = "confirm" ->
            IF d.type = "none" THEN <<>> ELSE <<SetState("confirm"), Show(d)>>
      [] r.then = "submit" ->
            IF d.type = "none" THEN <<>> ELSE Clear \o <<Create(d)>>
      [] r.then = "reply" -> IF d.case = NoCase THEN <<>> ELSE Clear \o <<Reply(d.case)>>
      [] OTHER -> <<SetData([d EXCEPT ![r.then] = r.value])>>

----------------------------------------------------------------------------

\* Mutant: files are taken in the confirm step too.
TakesFiles_Confirm(s) == s \in {"attachments", "confirm"}

TakesFiles(s) == s = "attachments"

\* The handler of a message.  The router of the reply's text comes first, the
\* form's before the one of /start, and its text handlers before cmd_cancel.
OnMessage(v, s) ==
    CASE s = "reply" -> OnReplyText
      [] s = "name" -> OnName(v)
      [] s = "phone" -> OnPhone(v)
      [] s = "text" -> OnText(v)
      [] s \in {"anonymous", "confirm"} /\ v \in {"/cancel", "/start"} -> Clear
      [] s = "none" /\ v = "/start" -> Clear
      [] OTHER -> <<>>

\* The handler of a tap on a button of any message still in the chat.
OnTap(b, s) ==
    CASE b \in Cases -> OnReplyStart(b)
      [] b \in Types -> StartForm(b)
      [] b \in {"yes", "no"} /\ s = "anonymous" -> OnAnonymous(b)
      [] b = "cancel" /\ s \in FormStates -> Clear
      [] b = "done" /\ s = "attachments" -> OnAttachmentsDone
      [] b = "back" /\ s \in FormStates -> OnBack
      [] b = "submit" /\ s = "confirm" -> OnSubmit
      [] OTHER -> <<>>

Buttons == Cases \cup Types \cup Choices

Idle(h) == steps[h] = <<>>

\* The second slot is for the update that arrives while the first is busy.
Arrive(h, program) ==
    /\ Idle(h)
    /\ h = 1 \/ ~Idle(1)
    /\ program # <<>>
    /\ overlaps' = IF \E g \in Slots : ~Idle(g) THEN overlaps + 1 ELSE overlaps
    /\ overlaps' <= MaxOverlaps
    /\ steps' = [steps EXCEPT ![h] = program]

ReceiveMessage(h, v) ==
    /\ Arrive(h, OnMessage(v, state))
    /\ UNCHANGED <<state, data, last, forms, submitted, chat>>

\* Files of form f; without data they are of no form.
Noted(f, fs) == ({f} \ {0}) \X fs

ReceiveFiles(h, fs) ==
    /\ TakesFiles(state)
    /\ Arrive(h, OnAttachment(fs))
    /\ offered' = offered \cup Noted(data.form, fs)
    /\ UNCHANGED <<state, data, last, forms, submitted, begun, shown, acked, asked, untold>>

\* The menu's buttons start a form in every state.
ReceiveTap(h, b) ==
    /\ b \in Types => forms < MaxForms
    /\ b = "submit" => Len(submitted) < MaxSubmits
    /\ Arrive(h, OnTap(b, state))
    /\ forms' = IF b \in Types THEN forms + 1 ELSE forms
    /\ UNCHANGED <<state, data, last, submitted, chat>>

----------------------------------------------------------------------------
(* The steps of the handlers                                               *)

Call(h, o) == ~Idle(h) /\ Head(steps[h]).op = o
Arg(h) == Head(steps[h])
Return(h) == steps' = [steps EXCEPT ![h] = Tail(@)]
GoOn(h, program) == steps' = [steps EXCEPT ![h] = program \o Tail(@)]

\* set_state; nobody is told yet, and nothing is expected of him without one.
DoSetState(h) ==
    /\ Call(h, "state")
    /\ state' = Arg(h).state
    /\ last' = "state"
    /\ begun' = begun \cup Arg(h).begins
    /\ untold' = (untold \/ Arg(h).state # "none")
    /\ Return(h)
    /\ UNCHANGED <<data, overlaps, forms, submitted, shown, offered, acked, asked>>

DoSetData(h) ==
    /\ Call(h, "data")
    /\ data' = Arg(h).data
    /\ last' = "data"
    /\ Return(h)
    /\ UNCHANGED <<state, overlaps, forms, submitted, chat>>

DoRead(h) ==
    /\ Call(h, "read")
    /\ GoOn(h, Then(Arg(h), data))
    /\ UNCHANGED <<state, data, last, overlaps, forms, submitted, chat>>

\* on_back asks for the state again before it reads the data.
DoCurrent(h) ==
    /\ Call(h, "current")
    /\ GoOn(h, <<Read("back", state)>>)
    /\ UNCHANGED <<state, data, last, overlaps, forms, submitted, chat>>

\* The last part of the summary, with the buttons.
DoShow(h) ==
    /\ Call(h, "show")
    /\ shown' = Arg(h).data
    /\ asked' = "confirm"
    /\ untold' = FALSE
    /\ Return(h)
    /\ UNCHANGED <<state, data, last, overlaps, forms, submitted, begun, offered, acked>>

DoAck(h) ==
    /\ Call(h, "ack")
    /\ acked' = acked \cup Noted(Arg(h).form, Arg(h).files)
    /\ Return(h)
    /\ UNCHANGED <<state, data, last, overlaps, forms, submitted>>
    /\ UNCHANGED <<begun, shown, offered, asked, untold>>

\* SubmissionService.create: an anonymous row has neither name nor phone.
Stored(d) == IF d.anon = "yes" THEN [d EXCEPT !.name = FALSE, !.phone = FALSE] ELSE d

\* SubmissionService.create and the commit after it.
DoCreate(h) ==
    /\ Call(h, "create")
    /\ submitted' = Append(submitted, Stored(Arg(h).data))
    /\ Return(h)
    /\ UNCHANGED <<state, data, last, overlaps, forms, chat>>

\* The question of a step, or the prompt for a reply, reaches the chat.
DoAsk(h) ==
    /\ Call(h, "ask")
    /\ asked' = Arg(h).of
    /\ shown' = Empty
    /\ untold' = FALSE
    /\ Return(h)
    /\ UNCHANGED <<state, data, last, overlaps, forms, submitted>>
    /\ UNCHANGED <<begun, offered, acked>>

\* The reply goes to the author of the case (an op "text" of SubmissionActions).
DoReply(h) ==
    /\ Call(h, "reply")
    /\ Return(h)
    /\ UNCHANGED <<state, data, last, overlaps, forms, submitted, chat>>

\* A call raises, to Redis, to the database or to Telegram, before or after it
\* took effect, or the process dies: the handler ends where it is and what it
\* has stored stays.  The update does not come again.
Fail(h) ==
    /\ ~Idle(h)
    /\ steps' = [steps EXCEPT ![h] = <<>>]
    /\ UNCHANGED <<state, data, last, overlaps, forms, submitted, chat>>

\* The TTL of the key written first runs out, then the other's.
ExpireState ==
    /\ Expiry
    /\ state # "none"
    /\ last = "data" \/ data = Empty
    /\ state' = "none"
    /\ UNCHANGED <<data, last, steps, overlaps, forms, submitted, chat>>

ExpireData ==
    /\ Expiry
    /\ data # Empty
    /\ last = "state" \/ state = "none"
    /\ data' = Empty
    /\ UNCHANGED <<state, last, steps, overlaps, forms, submitted, chat>>

----------------------------------------------------------------------------

Receive(h) ==
    \/ \E v \in Texts : ReceiveMessage(h, v)
    \/ \E fs \in SUBSET Files \ {{}} : ReceiveFiles(h, fs)
    \/ \E b \in Buttons : ReceiveTap(h, b)

Handle(h) ==
    \/ DoSetState(h)
    \/ DoSetData(h)
    \/ DoRead(h)
    \/ DoCurrent(h)
    \/ DoShow(h)
    \/ DoAck(h)
    \/ DoCreate(h)
    \/ DoAsk(h)
    \/ DoReply(h)

Next ==
    \/ \E h \in Slots : Receive(h) \/ Handle(h) \/ Fail(h)
    \/ ExpireState
    \/ ExpireData

Spec == Init /\ [][Next]_vars

----------------------------------------------------------------------------

\* Types of the variables; a handler makes at most four calls.
TypeOK ==
    /\ state \in States
    /\ data \in Data
    /\ last \in {"state", "data"}
    /\ DOMAIN steps = Slots /\ \A h \in Slots : Len(steps[h]) <= 4
    /\ overlaps \in 0 .. MaxOverlaps
    /\ forms \in 0 .. MaxForms
    /\ \A i \in DOMAIN submitted : submitted[i] \in Data
    /\ begun \subseteq 1 .. MaxForms
    /\ shown \in Data
    /\ offered \subseteq (1 .. MaxForms) \X Files
    /\ acked \subseteq (1 .. MaxForms) \X Files
    /\ asked \in FormStates \cup Cases \cup {"none"}
    /\ untold \in BOOLEAN

Rows == {submitted[i] : i \in DOMAIN submitted}

\* A submission of a form whose start came through has its type, its text and
\* an answer about anonymity and, unless it is anonymous, name and phone,
\* wherever later handlers broke off and whatever back steps, abandoned forms
\* and expired keys led to it, as long as updates come one after the other
\* (on_submit asks nothing of the kind, it relies on the order of the states).
SubmittedComplete ==
    overlaps = 0 => \A s \in Rows : s.form \in begun =>
        /\ s.type # "none" /\ s.text /\ s.anon # "unset"
        /\ s.anon = "no" => s.name /\ s.phone

\* What is submitted is what the last summary showed, if the summary of this
\* very step came through, wherever other handlers broke off, as long as
\* updates come one after the other (_show_confirm, on_submit).
SubmittedAsShown ==
    overlaps = 0 /\ ~untold => \A h \in Slots :
        Call(h, "create") /\ Arg(h).data.form \in begun => Arg(h).data = shown

\* A submission carries every file that was acknowledged and none but those
\* sent in its own form, wherever handlers broke off, before the answer too,
\* as long as updates come one after the other (on_attachment).
AttachmentsKept ==
    overlaps = 0 => \A s \in Rows, f \in Files :
        /\ <<s.form, f>> \in acked => f \in s.atts
        /\ f \in s.atts => <<s.form, f>> \in offered

\* An anonymous submission keeps neither name nor phone, even if both answers
\* to the anonymity question are handled at once (SubmissionService.create).
AnonymousStripped ==
    \A s \in Rows : s.anon = "yes" => ~s.name /\ ~s.phone

\* A text is used for what the person was last asked for: it is sent to the
\* author of the case whose prompt he saw last, or becomes the answer of the
\* step asked for last, whatever prompts, forms and abandoned steps came
\* before, if the handler that set the state last told him of it, and as long
\* as updates come one after the other (on_reply_start, on_reply_text: one
\* submission_id for all prompts).
TextGoesWhereAsked ==
    overlaps = 0 /\ ~untold => \A h \in Slots :
        /\ Call(h, "reply") => Arg(h).case = asked
        /\ Call(h, "read") /\ Arg(h).then \in {"name", "phone", "text"} => Arg(h).then = asked

\* One form becomes one submission: a tap on Submit that comes after another was
\* handled, on whatever old message and wherever a handler broke off, finds the
\* form gone (on_submit).
SubmittedOnce ==
    overlaps = 0 =>
        \A i, j \in DOMAIN submitted : submitted[i].form = submitted[j].form => i = j

----------------------------------------------------------------------------
(* What does not hold of the code                                          *)

\* bot/handlers/submission.py:264: "Clear state up front so a concurrent second
\* tap hits the guard above".  Not so: both may have passed the guard.
OneSubmissionPerForm ==
    \A i, j \in DOMAIN submitted : submitted[i].form = submitted[j].form => i = j

\* The same without regard to what broke off.  start_form stores the new data
\* (48) before the state (50, 76): if it ends in between, the old state may be
\* confirm, and Submit under the old summary stores a form without a text.
EveryRowComplete ==
    overlaps = 0 => \A s \in Rows : s.text

\* _show_confirm sets the state (237) before the summary is sent (241, 242): if
\* that fails, Submit under an older summary stores what was never shown.
EveryRowAsShown ==
    overlaps = 0 => \A h \in Slots : Call(h, "create") => Arg(h).data = shown

\* on_attachment stores the files (163) before the answer (164): the one that
\* could not be answered is submitted too.
OnlyAcknowledgedFiles ==
    overlaps = 0 => \A s \in Rows : \A f \in s.atts : <<s.form, f>> \in acked

\* on_reply_start sets state and data (responsible.py:82-83) before the prompt
\* (85): if one of them fails, a text for the step of a form, or for another
\* case, goes to the author of a case he was not prompted for.
EveryTextGoesWhereAsked ==
    overlaps = 0 => \A h \in Slots : Call(h, "reply") => Arg(h).case = asked

=============================================================================

------------------------------ MODULE SafeSend ------------------------------
(***************************************************************************)
(* Sending one text to one chat.  split_text cuts a text longer than a     *)
(* Telegram message into parts, at a newline or else a space in the second *)
(* half of the window, or else at the limit; then the parts are sent one   *)
(* after the other.  A "card" is what dispatch_to_responsibles sends with  *)
(* _send_with_retry, the last part carrying the buttons; a "note" is what  *)
(* safe_send sends to an applicant.  Both try a part once more after flood *)
(* control.                                                                *)
(***************************************************************************)
EXTENDS Naturals, Sequences

CONSTANTS
    Limit,      \* TELEGRAM_MAX
    MaxLength   \* bound on the length of the texts tried

ASSUME SplitAssumption == Limit \in Nat /\ Limit >= 2 /\ MaxLength \in Nat

VARIABLES
    text,       \* what is to be sent
    kind,       \* and by which function
    remaining,  \* what split_text has not yet cut off
    chunks,     \* the parts
    finished,   \* split_text has returned
    starts,     \* history: how much of the text was cut off before each part
    part,       \* the part at hand, beyond the chunks after the last
    attempt,    \* attempts made for it
    got,        \* the parts the chat received, in their order
    result      \* what the caller is told: "none" yet, "sent", "not", "raised"

splitting == <<remaining, chunks, finished, starts>>
sending == <<part, attempt, got, result>>
sendVars == <<text, kind, splitting, sending>>

Blank == {"space", "newline"}
Chars == Blank \cup {"ink"}
Texts == UNION {[1 .. n -> Chars] : n \in 0 .. MaxLength}

SendInit ==
    /\ text \in Texts
    /\ kind \in {"card", "note"}
    /\ remaining = text
    /\ chunks = <<>>
    /\ finished = FALSE
    /\ starts = <<>>
    /\ part = 1
    /\ attempt = 0
    /\ got = <<>>
    /\ result = "none"

-----------------------------------------------------------------------------
(* split_text: one step is one turn of the while loop.                     *)

\* str.rfind as the number of characters before the last c; 0 stands for -1
\* too, both are below half the limit.
Rfind(window, c) ==
    LET at == {i \in DOMAIN window : window[i] = c}
    IN IF at = {} THEN 0 ELSE CHOOSE n \in 0 .. Len(window) :
           n + 1 \in at /\ \A i \in at : i <= n + 1

\* str.rstrip and str.lstrip: a text is stripped where a character remains.
Inked(s) == {i \in DOMAIN s : s[i] \notin Blank}

Rstrip(s) ==
    IF Inked(s) = {} THEN <<>>
    ELSE SubSeq(s, 1, CHOOSE i \in Inked(s) : \A j \in Inked(s) : j <= i)

\* Mutant: the blank at the cut alone is dropped.
Lstrip_One(s) == Tail(s)

Lstrip(s) ==
    IF Inked(s) = {} THEN <<>>
    ELSE SubSeq(s, CHOOSE i \in Inked(s) : \A j \in Inked(s) : i <= j, Len(s))

CutAt(window) ==
    IF Rfind(window, "newline") >= Limit \div 2 THEN Rfind(window, "newline")
    ELSE IF Rfind(window, "space") >= Limit \div 2 THEN Rfind(window, "space")
    ELSE Limit

\* A part that begins where the remaining text does.
Part(s) ==
    /\ chunks' = Append(chunks, s)
    /\ starts' = Append(starts, Len(text) - Len(remaining))

Cut ==
    /\ ~finished
    /\ Len(remaining) > Limit
    /\ LET cut == CutAt(SubSeq(remaining, 1, Limit)) IN
       /\ Part(Rstrip(SubSeq(remaining, 1, cut)))
       /\ remaining' = Lstrip(SubSeq(remaining, cut + 1, Len(remaining)))
    /\ UNCHANGED <<text, kind, finished, sending>>

\* The rest, if there is one; a short text is its only part, even if empty.
Rest ==
    /\ ~finished
    /\ Len(remaining) <= Limit
    /\ IF remaining # <<>> \/ chunks = <<>> THEN Part(remaining)
       ELSE UNCHANGED <<chunks, starts>>
    /\ finished' = TRUE
    /\ UNCHANGED <<text, kind, remaining, sending>>

-----------------------------------------------------------------------------
(* _send_with_retry and safe_send: one step is one attempt.                *)

Sending == finished /\ result = "none" /\ part <= Len(chunks)
NextPart == part' = part + 1 /\ attempt' = 0

\* send_message returns.
Delivered ==
    /\ Sending
    /\ attempt < 2
    /\ got' = Append(got, part)
    /\ NextPart
    /\ UNCHANGED <<text, kind, splitting, result>>

\* TelegramRetryAfter: after the pause the part is tried once more.
Flooded ==
    /\ Sending
    /\ attempt < 2
    /\ attempt' = attempt + 1
    /\ UNCHANGED <<text, kind, splitting, part, got, result>>

\* Mutant: the card goes on with its next part like a note.
GiveUp_GoOn ==
    /\ Sending
    /\ attempt = 2
    /\ NextPart
    /\ UNCHANGED <<text, kind, splitting, got, result>>

\* The second attempt was flooded too: the card is not sent any further, the
\* note goes on with its next part.
GiveUp ==
    /\ Sending
    /\ attempt = 2
    /\ IF kind = "card" THEN result' = "not" /\ UNCHANGED <<part, attempt>>
                        ELSE NextPart /\ UNCHANGED result
    /\ UNCHANGED <<text, kind, splitting, got>>

\* TelegramForbiddenError: the bot is blocked.
Forbidden ==
    /\ Sending
    /\ attempt < 2
    /\ result' = "not"
    /\ UNCHANGED <<text, kind, splitting, part, attempt, got>>

\* Any other exception leaves the function and ends the caller.
Raises ==
    /\ Sending
    /\ attempt < 2
    /\ result' = "raised"
    /\ UNCHANGED <<text, kind, splitting, part, attempt, got>>

\* After the last part.
Finish ==
    /\ finished /\ result = "none"
    /\ part > Len(chunks)
    /\ result' = "sent"
    /\ UNCHANGED <<text, kind, splitting, part, attempt, got>>

SendNext == Cut \/ Rest \/ Delivered \/ Flooded \/ GiveUp \/ Forbidden \/ Raises \/ Finish

\* Every call to Telegram returns or raises, every pause ends.
SendSpec == SendInit /\ [][SendNext]_sendVars /\ WF_sendVars(SendNext)

-----------------------------------------------------------------------------
(* Properties                                                              *)

\* Types of the variables.
SendTypeOK ==
    /\ text \in Seq(Chars) /\ kind \in {"card", "note"}
    /\ remaining \in Seq(Chars)
    /\ chunks \in Seq(Seq(Chars)) /\ starts \in Seq(Nat)
    /\ finished \in BOOLEAN
    /\ part \in Nat \ {0} /\ attempt \in 0 .. 2
    /\ got \in Seq(Nat)
    /\ result \in {"none", "sent", "not", "raised"}

\* Every part fits into a message (split_text).
PartsFit == \A i \in DOMAIN chunks : Len(chunks[i]) <= Limit

\* Cutting loses and reorders nothing but blanks at the cuts: every part is the
\* text as it stands there, the parts follow each other, and a character of the
\* text that is in no part is a blank (split_text).
End(i) == starts[i] + Len(chunks[i])

NothingLost ==
    finished =>
        /\ \A i \in DOMAIN chunks : End(i) <= Len(text)
        /\ \A i \in DOMAIN chunks : \A k \in DOMAIN chunks[i] : chunks[i][k] = text[starts[i] + k]
        /\ \A i, j \in DOMAIN chunks : i < j => End(i) <= starts[j]
        /\ \A k \in Inked(text) : \E i \in DOMAIN chunks : starts[i] < k /\ k <= End(i)

\* A text that begins with a character has no part Telegram would refuse as
\* empty.  (Every message the bot sends begins with a label.)
NoBlankPart ==
    finished /\ text # <<>> /\ text[1] \notin Blank =>
        \A i \in DOMAIN chunks : Inked(chunks[i]) # {}

\* A word is broken only where the second half of the window has no blank:
\* otherwise the part ends before one (split_text).
WordsKept ==
    [][ Cut => \/ remaining[Len(chunks'[Len(chunks')]) + 1] \in Blank
               \/ \A i \in Limit \div 2 + 1 .. Limit : remaining[i] \notin Blank ]_sendVars

\* A card is recorded as delivered only when the chat has the whole text, each
\* part once and in order, so that the last one carries the buttons
\* (dispatch_to_responsibles).
CardDeliveredWhole ==
    kind = "card" /\ result = "sent" => got = [i \in DOMAIN chunks |-> i]

\* No part reaches a chat twice or before an earlier one, retries included
\* (_send_with_retry, safe_send).
PartsInOrder == \A i, j \in DOMAIN got : i < j => got[i] < got[j]

\* Whatever the text, the loops end: cutting makes it shorter, and two
\* attempts per part bound the time a sender takes.
SendingEnds == <>(result # "none")

\* bot/services/submissions.py:253: safe_send "Returns True if delivered".  Not
\* so after two flood controls in a row.
TrueMeansDelivered ==
    kind = "note" /\ result = "sent" => got = [i \in DOMAIN chunks |-> i]

=============================================================================

-------------------------------- MODULE Roles --------------------------------
(***************************************************************************)
(* What changes a user's row once he exists: an admin's tap on an assign   *)
(* or revoke button, with the journal of it and the personal "/" menu that *)
(* follows the roles; and his own choice of a language.  Each tap is       *)
(* handled in a session of its own: the row is selected, one attribute is  *)
(* set and written, and the rest is done with what the session knows.      *)
(***************************************************************************)
EXTENDS Naturals, Sequences, SequencesExt

CONSTANTS
    People,     \* users whose rows are changed
    Languages,  \* the locales
    Taps,       \* the taps on assign, revoke and language buttons
    Faults      \* TRUE if sessions and calls to Telegram may fail

ASSUME RolesAssumption == Faults \in BOOLEAN /\ "none" \notin Languages

VARIABLES
    row,        \* committed resp_appeal and resp_corruption, as a set; language
    audit,      \* committed assign_role and revoke_role rows
    menu,       \* the registry commands in the user's menu, as roles; its language
    pc,         \* where the handler of a tap is
    op,         \* what the tap asks for
    knows,      \* the row in the handler's session
    told,       \* history: the language the user was last told to have
    overlap,    \* history: two handlers for one user were open at once
    missed      \* history: something the user was to be shown, or was shown,
                \* did not come about

history == <<told, overlap, missed>>
vars == <<row, audit, menu, pc, op, knows, history>>

Role == {"appeal", "corruption"}
Op == [sign : {"+", "-"}, user : People, what : Role]
      \cup [sign : {"="}, user : People, what : Languages]
NoOp == [sign |-> "none"]

Blank == [roles |-> {}, language |-> "none"]

Open(t) == pc[t] \in {"write", "told", "menu"}

Init ==
    /\ row = [u \in People |-> Blank]
    /\ audit = <<>>
    /\ menu = [u \in People |-> Blank]
    /\ pc = [t \in Taps |-> "idle"]
    /\ op = [t \in Taps |-> NoOp]
    /\ knows = [t \in Taps |-> Blank]
    /\ told = [u \in People |-> "none"]
    /\ overlap = FALSE
    /\ missed = FALSE

\* The attribute a button sets.
Applied(o, r) ==
    CASE o.sign = "+" -> [r EXCEPT !.roles = @ \cup {o.what}]
      [] o.sign = "-" -> [r EXCEPT !.roles = @ \ {o.what}]
      [] o.sign = "=" -> [r EXCEPT !.language = o.what]

\* session.get of the target, or the middleware's select of the sender.  The
\* buttons of /responsibles, /assign and /language stay in the chat and may be
\* tapped whatever the row is by then.
SelectTarget(t, o) ==
    /\ pc[t] = "idle"
    /\ op' = [op EXCEPT ![t] = o]
    /\ knows' = [knows EXCEPT ![t] = row[o.user]]
    /\ pc' = [pc EXCEPT ![t] = "write"]
    /\ overlap' = (overlap \/ \E s \in Taps \ {t} : Open(s) /\ op[s].user = o.user)
    /\ UNCHANGED <<row, audit, menu, told, missed>>

\* There is an UPDATE only if the value differs from the one selected; it
\* writes the one attribute that was set.
Changes(t) == Applied(op[t], knows[t]) # knows[t]
Written(t) == IF Changes(t) THEN Applied(op[t], row[op[t].user]) ELSE row[op[t].user]

\* Another session has written the row and not yet committed.
Locked(t) ==
    \E s \in Taps \ {t} : pc[s] = "told" /\ op[s].user = op[t].user /\ Changes(s)

Audited(t) == Append(audit, op[t])

\* session.commit() of a change of roles and its audit row.
CommitRoles(t) ==
    /\ pc[t] = "write" /\ op[t].sign # "="
    /\ ~(Changes(t) /\ Locked(t))
    /\ row' = [row EXCEPT ![op[t].user] = Written(t)]
    /\ audit' = Audited(t)
    /\ knows' = [knows EXCEPT ![t] = Applied(op[t], @)]
    /\ pc' = [pc EXCEPT ![t] = "menu"]
    /\ UNCHANGED <<menu, op, history>>

\* set_locale flushes; the message now says that the language is set.
TellLanguage(t) ==
    /\ pc[t] = "write" /\ op[t].sign = "="
    /\ ~(Changes(t) /\ Locked(t))
    /\ told' = [told EXCEPT ![op[t].user] = op[t].what]
    /\ pc' = [pc EXCEPT ![t] = "told"]
    /\ UNCHANGED <<row, audit, menu, op, knows, overlap, missed>>

\* The commit comes when the handler has sent the main menu, too.
CommitLanguage(t) ==
    /\ pc[t] = "told"
    /\ row' = [row EXCEPT ![op[t].user] = Written(t)]
    /\ pc' = [pc EXCEPT ![t] = "done"]
    /\ UNCHANGED <<audit, menu, op, knows, history>>

\* Mutant: the audit row has a session of its own and stays.
Fail_Audited(t) ==
    /\ Faults
    /\ pc[t] \in {"write", "told"}
    /\ audit' = IF op[t].sign = "=" THEN audit ELSE Audited(t)
    /\ pc' = [pc EXCEPT ![t] = "done"]
    /\ missed' = (missed \/ pc[t] = "told")
    /\ UNCHANGED <<row, menu, op, knows, told, overlap>>

\* An exception before the commit: change and audit row are rolled back, and
\* what the user was told is not true.
Fail(t) ==
    /\ Faults
    /\ pc[t] \in {"write", "told"}
    /\ pc' = [pc EXCEPT ![t] = "done"]
    /\ missed' = (missed \/ pc[t] = "told")
    /\ UNCHANGED <<row, audit, menu, op, knows, told, overlap>>

\* Mutant: without a role left the menu is not touched.
MenuOf_KeepLast(t) == IF knows[t].roles = {} THEN menu[op[t].user] ELSE knows[t]

\* set_personal_commands: from the session's target; with no role left the
\* chat's list is deleted.
MenuOf(t) == IF knows[t].roles = {} THEN Blank ELSE knows[t]

\* _refresh_commands passes over an error.
SetMenu(t) ==
    /\ pc[t] = "menu"
    /\ \/ menu' = [menu EXCEPT ![op[t].user] = MenuOf(t)] /\ UNCHANGED missed
       \/ Faults /\ missed' = TRUE /\ UNCHANGED menu
    /\ pc' = [pc EXCEPT ![t] = "done"]
    /\ UNCHANGED <<row, audit, op, knows, told, overlap>>

Next ==
    \E t \in Taps :
        \/ \E o \in Op : SelectTarget(t, o)
        \/ CommitRoles(t)
        \/ TellLanguage(t)
        \/ CommitLanguage(t)
        \/ Fail(t)
        \/ SetMenu(t)

Spec == Init /\ [][Next]_vars

----------------------------------------------------------------------------

\* Types of the variables.
Row == [roles : SUBSET Role, language : Languages \cup {"none"}]
TypeOK ==
    /\ row \in [People -> Row]
    /\ audit \in Seq(Op)
    /\ menu \in [People -> Row]
    /\ pc \in [Taps -> {"idle", "write", "told", "menu", "done"}]
    /\ op \in [Taps -> Op \cup {NoOp}]
    /\ knows \in [Taps -> Row]
    /\ told \in [People -> Languages \cup {"none"}]
    /\ overlap \in BOOLEAN /\ missed \in BOOLEAN

\* The roles somebody has according to the journal alone: of the entries about
\* the role the last one assigns it.
Journalled(u) ==
    {r \in Role : \E i \in DOMAIN audit :
        /\ audit[i] = [sign |-> "+", user |-> u, what |-> r]
        /\ \A j \in DOMAIN audit : j > i => audit[j].user # u \/ audit[j].what # r}

Quiet == \A t \in Taps : ~Open(t)

\* A change of anybody's roles is journalled in the same transaction and is
\* the one the entry names: concurrent handlers of the same target never write
\* the other role.
ChangesJournalled ==
    [][ \A u \in People : row'[u].roles # row[u].roles =>
          /\ Len(audit') = Len(audit) + 1
          /\ Last(audit').user = u
          /\ row'[u] = Applied(Last(audit'), row[u]) ]_vars

\* As long as a user's handlers do not overlap the journal gives his roles,
\* whatever failed (one transaction for change and audit row).
JournalSerial == ~overlap => \A u \in People : row[u].roles = Journalled(u)

\* Once such handlers are done he sees what he has: the commands of his roles
\* in the menu (set_personal_commands), and the bot speaks the language it has
\* told him last (on_language_chosen), unless a call failed.
ShownSerial ==
    Quiet /\ ~overlap /\ ~missed =>
        \A u \in People : menu[u].roles = row[u].roles /\ told[u] = row[u].language

----------------------------------------------------------------------------
(* What overlapping or failing handlers break.                             *)

\* tests/test_responsible_admin.py:229: once a role was assigned, and not
\* revoked later, the user has it.
AssignedIsResponsible == \A u \in People : Journalled(u) \subseteq row[u].roles

\* bot/runners/commands.py:69: "Set this user's private '/' menu according to
\* their roles."
MenuFollowsRoles == Quiet /\ ~missed => \A u \in People : menu[u].roles = row[u].roles

\* bot/runners/commands.py:1: the command menu is "localized per locale"; the
\* personal one keeps the language of the last change of roles.
MenuFollowsLanguage ==
    Quiet /\ ~overlap /\ ~missed =>
        \A u \in People : row[u].roles # {} => menu[u].language = row[u].language

\* bot/handlers/start.py:41: what "language-set" tells the user is so.
ToldIsSo == Quiet => told = [u \in People |-> row[u].language]

=============================================================================

# A formal model of the anti-corruption bot

The repository is a Telegram bot (aiogram, PostgreSQL through SQLAlchemy, Redis
for form state) through which people submit appeals and corruption complaints,
anonymously if they wish, and with which responsibles handle them, in Telegram
or, through a bridge in the same process, in Matrix.  This directory holds TLA+
modules translated from its source, TLC configurations that check them on small
instances, and TLAPS proofs, for every value of the constants, of every safety
property the runs check.  `PROJECT.json` says which lines every definition stands for.

1. [The system and its hazards](#1-the-system)
2. [Plan](#2-plan)
3. [Modules and code](#3-modules-and-code)
4. [What the runs show](#4-what-the-runs-show)
5. [Where code and words disagree](#5-where-code-and-words-disagree)
6. [Proofs](#6-proofs)
7. [Fairness, bounds, abstractions](#7-fairness-bounds-abstractions)
8. [Not modelled](#8-not-modelled)
9. [Running it](#9-running-it)

## 1. The system

One process, one asyncio loop.  Every Telegram update is a task of its own with
a database session of its own (READ COMMITTED); tasks interleave at every
`await`.  Nothing serialises the updates of one person.  The Matrix bridge is
one more task, which handles one event after the other, room by room.  Shared state is in
three places with different lifetimes: PostgreSQL (transactions, row locks,
unique indexes), Redis (two keys per person with a TTL each, throttle keys),
and the process (album buffers, the bridge's connection).  The networks of
Telegram and Matrix may flood-control, refuse, raise, or never answer.

| Component | State | Operations | Talks to |
|---|---|---|---|
| **Submission actions** (`services/actions.py`, `handlers/responsible.py`, commands in `matrix/bridge.py`) | a `submissions` row, its events, audits, responses | authorize, take, close, reply; prompt and text of a Telegram reply | repositories (conditional UPDATEs), cards, applicant |
| **Submission form** (`handlers/submission.py`, the prompts of `handlers/responsible.py`) | FSM state and data of a person | start, type, anonymity, name, phone, text, attachments, back, summary, submit, cancel; reply prompt and its text | Redis; Intake on submit, actions on a reply |
| **Intake** (`services/submissions.py: create`, repositories, `security/crypto.py`) | ticket counters, submissions, files, anonymous tokens, audits | create, resolve the author's chat | PostgreSQL; cards after the commit |
| **My submissions** (`handlers/my_submissions.py`) | none | list one's own | Intake's tables |
| **Cards** (`dispatch_to_responsibles`, `update_all_cards`, `announce`, `refresh`, `_repost`) | messages in two channels, delivery rows | dispatch, redraw, `!karta` copies | Telegram, Matrix, called by submit and by actions |
| **Sending** (`_send_with_retry`, `safe_send`) and **splitting** (`utils/text.py`) | none beyond a call | send a text in parts, retry once after flood control | Telegram |
| **Update pipeline** (`factory.py`, `middlewares/`, `handlers/errors.py`) | `users` rows, throttle keys | session, get-or-create the sender, admin flag, throttle, commit or roll back | every handler |
| **Album middleware** (`middlewares/media_group.py`) | one list per album | buffer, debounce, hand over | the attachments step of the form |
| **Matrix direct rooms** (`matrix/bridge.py`, `matrix/client.py`) | `users.matrix_room_id`, rooms, posts, delivery rows | join on invite, create on first card, bind, post files and card, find the case of a reply | announce, Matrix commands |
| **Matrix sync loop** (`bridge.run`, `client.run_sync`) | connection, backoff, `started_ms`; two clocks | connect, sync, filter by age, reconnect | actions, direct rooms |
| **Matrix rendering and commands** (`matrix/render.py`) | none | parse a command, render a card | sync loop |
| **Registry** (`handlers/registry.py`, `filters/roles.py`) | one message per reader | list, page, filter, order, open, act | repositories, actions |
| **Roles and menus** (`handlers/admin.py`, `runners/commands.py`) | role flags, audit rows, "/" menus | assign, revoke, refresh the menu | every authorization |
| **Start and language** (`handlers/start.py`, `middlewares/i18n_manager.py`) | `users.language` | choose a language, show the menu | the row that role changes write |
| **Startup and shutdown** (`__main__.py`, `db/migrate.py`, `runners/`) | process, revision of the schema, open connections | migrate with retries, start, serve, shut down, cancel and await the bridge, release | all |
| **Schema, configuration, log redaction, keyboards** | none that changes | | |

What is hard, per component, and what makes it correct:

* **Submission actions.**  Several responsibles press the same buttons at once,
  from two channels; authorization, update and fan-out are separate awaits; the
  process may die between any two.  Correct: one claim wins and stays the
  owner, closing is final, row, events, audits and responses agree, nobody is
  told of something that may still be rolled back, the applicant is told once,
  no lock outlives its handler.
* **Submission form.**  Old keyboards stay alive, state and data are two keys
  that expire separately, double taps and simultaneous answers interleave, a
  handler may break off between any two of its calls and its update does not come
  again, and the reply prompts of a responsible use the same two keys.
  Correct: what is submitted is complete, is what the summary showed, with the
  files that were acknowledged, once; a text goes where it was asked for.  Where a
  break makes these false, it is stated what is left of them.
* **Intake.**  Numbers from a counter row, random public ids, failures after
  the number was taken, the turn of the year.  Correct: gapless numbers, all or
  nothing, replies find the right author and nothing stored names an anonymous
  one.
* **Cards.**  Dispatch, take, close and `!karta` run in sessions that know only
  what was committed when they read it; sends are skipped or raise half-way.
  Correct: no card ahead of the database or behind it without a reason, rows
  match cards, everybody gets one.
* **Sending, splitting.**  Retries and parts.  Correct: a recorded card is
  whole, parts come once and in order, parts fit and lose nothing.
* **Update pipeline.**  First contacts race on a unique index; throttle keys
  expire under concurrent updates.  Correct: nobody fails for being fast, one
  accepted update per window, no window prolonged by tapping.
* **Album.**  Messages that come late, while the handler works or after it.
  Correct: in time means handed over, nothing twice, no buffer for ever.
* **Matrix.**  Reconnects and restarts replay events, whose age is the
  difference of two clocks, and a response brings those of several rooms in any
  order of the rooms; rooms are created and bound by
  sessions that overlap, keeping row locks while the network is asked.
  Correct: an event acts at most once, not before an older one of its room, and
  not in vain, replies to what was posted find their case, no deadlock.
* **Process.**  Attempts to migrate fail half-way, start-up fails, the bridge
  goes on while the dispatcher shuts down, the process is killed anywhere.
  Correct: nothing is served half migrated, a stop ends and leaves nothing open,
  bot and bridge come back.
* **Registry.**  Offsets into a list that grows, two statements per list, stale
  and made-up payloads, rights that change.  Correct: a reader misses nothing,
  sees only his types, and sees his own action.
* **Roles and language.**  Read-modify-write on ORM objects, menus without
  order, an answer before the commit.  Correct: the journal gives the roles, the
  menu follows them, and what a user was told is so.

`PROJECT.json` lists the hazards that matter most, each at its line with the
properties that would catch it, or with the reason why none does.  Losses the
code accepts are not in that list: a reply whose process dies between its commit
and its sending ("the response row is kept either way", `actions.py`), a
submission committed but not yet dispatched, a form cleared before its commit
fails, a card for somebody without a Matrix room, a bridge that passes over what
is older than its start.

## 2. Plan

Abstract specifications: `CaseLifecycle`, what is promised about a case, which
`SubmissionActions` implements, and `CardLifecycle`, what is promised about its
cards, which `CardSync` implements (both checked and proved).

| Order | Module | Composes / uses | Status |
|---|---|---|---|
| 1 | `CaseLifecycle`, `SubmissionActions` | the second implements the first | checked, proved |
| 2 | `SubmissionForm` | | checked, proved |
| 3 | `Intake` | | checked, proved but for `NoDeadlock` |
| 4 | `CardLifecycle`, `CardSync` | dispatch, take and close together; the second implements the first | checked, proved but for liveness |
| 5 | `MatrixDm`, `MatrixSync` | | checked, proved but for liveness |
| 6 | `Updates` | | checked, proved but for liveness |
| 7 | `Album` | | checked, proved but for liveness |
| 8 | `SafeSend` | the split of a text and the sending of its parts | checked, proved but for liveness |
| 9 | `Roles` | | checked, proved |
| 10 | `Registry` | | checked, proved |
| 11 | reply prompts in `SubmissionForm` | form and prompts of one person over one pair of keys | checked, proved |
| 12 | `BotProcess` | the process, and `MatrixSync` as a task in it | checked, proved but for liveness |
| 13 | clock skew in `MatrixSync`; files, posts and replies in `MatrixDm`; `!karta` in `CardSync`; the language in `Roles` | | checked, proved |
| 14 | handlers that break off in `SubmissionForm`; rooms in `MatrixSync`; the second look of a first contact in `Updates` | | checked, proved |
| 15 | status filters in `Registry`'s passes | | open: nothing in the code promises what such a pass sees |

Section 6 has the theorems.  No safety property that a run checks is without one;
what is left to TLC is liveness (the end of section 6).

## 3. Modules and code

Common conventions.  A handler's program counter names the await it is
suspended at; what happens between two awaits that nothing can separate is one
action.  A session's uncommitted writes are kept apart from the tables (fields
named `wrote`, `writes`, `posted`, `sent`, `kept`, `own`), appear with the commit and vanish with
a failure.  A row lock is held from the UPDATE or INSERT to the end of the
transaction.  Variables marked *history* record what properties speak about and
guard nothing, except where a bound says so.  Operators whose name holds an
underscore (`Take_NoGuard`, ...) are mutants: they stand before the definition
they would replace and nothing uses them.

**`CaseLifecycle`** — the promise: a case moves forward, the first claim fixes
the owner, each change adds one public entry.

**`SubmissionActions`** — `row` is the row of `submissions`, `lock` its row
lock, `events`, `audits`, `responses` the journal tables, `handlers` the people with
the role flag, `prompted` the FSM states of reply prompts.  An op
is one handler invocation: *take* and *close* (a button or a Matrix command, the
same code), *ask* (the reply button), *text* (what follows its prompt) or
*mxreply* (a Matrix reply), going through authorize, the UPDATE that may
wait, the journal, the commit, the cards and the applicant.  `Fail` rolls back
(DbSessionMiddleware), `Crash` ends the process: locks and uncommitted rows go,
Redis stays.

**`SubmissionForm`** — `state` and `data` are the two Redis keys; a handler is
the sequence of storage calls it still has to make (`steps`), so `set_state`,
`update_data` and `clear` of two updates interleave exactly as in Redis.
`update_data` is a read and a write.  Questions, prompts, summaries and acknowledgements are
calls too, and `Fail` ends a handler at any call: it raises before or after it took
effect, or the process dies.  `on_error` does nothing about the form, and the
update does not come again: aiogram confirms it before its handler runs, and a
start drops what waits (`config.py:86`, `polling.py:10`).  The dispatcher chooses the handler by the
state on arrival and in the routers' order, which is why a command can be an
answer.  A person who is a responsible too has the reply buttons of `Cases`:
`on_reply_start` puts him into state `reply` and leaves the form's data where
they are, `on_reply_text` clears both keys.  *History* is what went through the
chat: `begun` the forms whose start came to its first step, `shown` the last
summary, `offered` and `acked` the files sent and acknowledged, `asked` the last
question that arrived, `untold` that the state was set since and nothing said of it.
What authorizes a prompt, and what becomes of the text, is in
`SubmissionActions`.

**`Intake`** — `create` statement by statement: counter upsert, insert with a
drawn public id, files, token, audit, commit.  Unique indexes make an inserter
wait for an uncommitted rival.  `NewYear` and `MoveTokens` are the environment.

**`CardLifecycle`** — the promise: a card is posted once, with a status the case has
had; it is redrawn only where its delivery is recorded, and never back to an
untaken case; records are of posted cards and stay.

**`CardSync`** — `card` is what each recipient's card shows, `rows` the
committed delivery rows, `sent` those of open sessions.  Take
and close appear as `CommitStatus` and a redraw of what they then select;
`!karta` loads, posts and stores (`Repost...`), and the copy is a card like the
others from then on.  `missed` are the cards the latest redraw of their channel
did not find, `crossed` tells that two redraws ran at once: the two ways in which
a card is left behind without a fault.  It maps to `CardLifecycle` with `Had`, the
statuses whose handler has committed.

**`MatrixDm`** — a room is named by its creator, an announce or the n-th
opening by the person himself, and by the person; `bound` is
`users.matrix_room_id`.  Announces and the sync loop are sessions with a
snapshot `snap` of the rooms they selected, and a lock per user row.  `posts` is
what was posted in a room, `added` and `deliveries` the rows of it, uncommitted
and committed; `Heard` is `_resolve` of a reply to a post.

**`MatrixSync`** — the actions of the bridge's task; `started` is `started_ms`.
Everybody writes in a room of his own.  By room, `upto` is how far the responses of
the connection go and `pos` how far their callbacks have run: `Receive` is a
response, with everything that was sent since the last one, and matrix-nio runs its
callbacks to the end of one room (`reading`) before it goes on to another.  A new connection reads
some of the latest events of every room again.  Events carry the homeserver's time,
which is `skew` ahead of the bot's.

**`BotProcess`** — `phase` is where `main` is: an attempt to migrate, the wait
before the next, start-up, serving, and the awaits that end it.  It extends
`MatrixSync`, whose steps are those of the bridge's task while the process lives.
`open` are the resources with open connections: the dispatcher's shutdown
releases all of them, the bridge and updates under way open them again,
`main` releases them once more.  `CancelLost` is what matrix-nio does when the
cancellation arrives in `sync_forever`: it returns, and `run` goes round again.

**`Album`** — one action per stretch between awaits of `__call__`.  The handler
reads the list once, when it is called.

**`Updates`** — the chain of middlewares, an action per await.  `gate` and
`noteGate` are the two Redis keys as their times of expiry.  `Taken` is the unique
index on `tg_id`; an INSERT that fails on it is rolled back and followed by another
SELECT (`RereadUser`), and `clash` are the updates that found no row then either.

**`SafeSend`** — `text`, `remaining` and `chunks` are the locals of `split_text`,
one step per turn of its loop over inked characters, spaces and newlines; `starts`
(*history*) is how much of the text was cut off before each part.  Then one step
per attempt to send a part, with what Telegram may answer.

**`Roles`** — `knows` is the row as the handler's session selected it; a
write is emitted only for an attribute that differs from it.  Role changes commit
before they show anything; the choice of a language is flushed, told, and
committed when the middleware's session ends.

**`Registry`** — `screen` is the message, `task` a tap under way: `Count`,
`Select`, `EditList` for a list, `Find` and what follows for a detail.  `Old`
are payloads of other messages or of a client of the reader's own making.
`Outcomes` is how far others take each submission, which bounds their commits.
`ORDER BY` is `Sorted`: the n-th row is the one that has n - 1 rows ahead.  `raced`,
`there` and `pass` are *history*.

Where two modules are proved about together (`MiddlewareProofs`, `CardProofs`,
`StaffProofs`) the names of the second are its own: `AlbumNext`, `SendSpec`,
`RegistryInit` and so on.

## 4. What the runs show

| Run | Properties | What it shows |
|---|---|---|
| `actions` | `TypeOK` `WinnerIsOwner` `JournalComplete` `NeverAheadOfDatabase` `SeenOwnerRespected` `ClosedNoticeOnce` `LockIsLetGo` `ImplementsCase` | three handlers of any kinds, two colleagues and an admin, with failures, crashes and role changes at every await |
| `form` | `SubmittedComplete` `SubmittedAsShown` `AttachmentsKept` `SubmittedOnce` `TextGoesWhereAsked` | two forms and two reply prompts of one person, keys that expire, handlers that break off at any call.  As long as no two updates of the person overlap: a form becomes one submission at most, with all files acknowledged and none of another form; it is complete if the form's start came through; and it is what was shown, and a text goes where it was asked for, if the state was announced |
| `intake` | `TicketsRunOn` `AllOrNothing` `RepliesReachTheAuthor` `AnonymousNamesNobody` | three creates at once over a turn of the year, with any mixture of name, phone and anonymity |
| `cards` | `RowsTrackCards` `StaleOnlyIfMissed` `ImplementsCards` `EveryoneGetsCard` | dispatch, take, close and a `!karta`, with skips, exceptions, a crash; cards live as `CardLifecycle` says, without a fault everybody is served, and a card is behind the database only if the redraw could not know it |
| `dm` | `CardsHaveHome` `RepliesAreHeard` `EveryAnnounceEnds` | two announces and the sync loop over two people's rooms; what was posted with a card can be replied to; user rows are locked in one order |
| `process` | `ActsOnceInOrder` `SentWhileUpIsHandled` `NothingLeftOpen` `ServesAtHead` `ServesAgain` `StopsWhenTold` | failed migrations and starts, stops, kills and restarts, a homeserver and a database that come and go, clocks that differ, two rooms: no event acts twice, nor before an older one of its room |
| `updates` | `OnePerWindow` `FirstContactsDoNotClash` | three updates of one sender over several windows; of first contacts at once, those that fail on the unique index go on with the row of the first |
| `album` | `AlbumHandedOver` | two albums, one above the cap: what comes in time is handed over, and a buffer goes with its call |
| `send` | `NothingLost` `CardDeliveredWhole` | every text of inked characters, spaces and newlines up to length 8 with limit 4, split and sent as a card or a note under any answers |
| `roles` | `JournalSerial` `ShownSerial` | three taps that change roles or language of two users, failing sessions and menus |
| `registry` | `PassSeesAll` `OnlyOwnTypes` `OwnActionShown` | a reader pages through three appeals and a complaint, one to a page, while they come in: a list may grow between two pages of a pass and show a row again.  Two taps at once, stale and made-up payloads, rights revoked |
| `foreign_reply` | `AnsweredByOwner` | ends in a counterexample: section 5 |

The modules state more than the runs list, to keep the runs to what is hardest
to get right.  These hold on the same instances too; add the name to the cfg to
check it again.  Proved in section 6: the `TypeOK`s; `HistoryExplainsRow`;
`AnonymousStripped` (`SubmissionForm`); `CallersNeverCollide` (`Intake`);
`NoCardAhead`, `ButtonsStayGone` (`CardSync`); `FirstRoomKeptSerial` (`MatrixDm`);
`AdminsGetTheirFlag` (`Updates`); `ChangesJournalled` (`Roles`); `NoneTwice`
(`Album`); `PartsFit`, `NoBlankPart`, `WordsKept`, `PartsInOrder` (`SafeSend`);
`ListIsAPage` (`Registry`).  Only checked: `NoDeadlock` (`Intake`);
`EveryRedrawEnds` (`CardSync`); `UpdatesEnd` (`Updates`); `BuffersGo` (`Album`);
`SendingEnds` (`SafeSend`).

Every property of these runs has a mutant in `PROJECT.json`: a definition
changed the way a plausible bug would change the code, with which TLC finds the
property violated.  Properties whose names end in *Serial*, those of `form` and
part of `RepliesAreHeard` and `StaleOnlyIfMissed` say what holds as long as
handlers do not overlap; section 5 says what happens when they do.  Those of
`form` that speak of forms begun or states announced say what is left when
handlers break off; section 5 has the forms that a break refutes.

## 5. Where code and words disagree

One disagreement is kept as a run that ends in a counterexample: `foreign_reply`.
`actions.py:85-86` says "With require_owner (reply/close) they must also be the
assignee or an admin", but the text that follows the reply prompt is only checked
for the case's type, so that an applicant may be answered by somebody who was
never the owner, or is no admin any more.

The other sentences are stated as definitions beside the properties they sharpen.
Add the name to the module's cfg as an INVARIANT (PROPERTY where it says so) and
TLC prints the execution (`OneSubmissionPerForm` needs `MaxOverlaps = 1`).  Most need overlapping handlers or a fault in a small
window, and are trade-offs as much as defects.

| Module | Definition | Sentence | What the code does |
|---|---|---|---|
| `SubmissionActions` | `EventsFormChain` | `repositories.py:255` "Capturing the prior status in the same conditional UPDATE avoids a stale read" | SELECT, then UPDATE: a take in between makes the close event start at `new` |
| `SubmissionActions` | `ClosedByOwner` (PROPERTY) | `actions.py:86` "colleagues can't act on each other's cases" | the owner is tested in an earlier statement than the UPDATE |
| `SubmissionForm` | `OneSubmissionPerForm` | `submission.py:264` "Clear state up front so a concurrent second tap hits the guard above" | both taps may read before either clears |
| `SubmissionForm` | `EveryRowComplete` | nothing promises it | `start_form` stores the new data (48) before the state (50, 76): if it breaks off in between in state `confirm`, Submit under the old summary stores a form without a text |
| `SubmissionForm` | `EveryRowAsShown` | nothing promises it | `_show_confirm` sets the state (237) before it sends the summary (241-242): if that fails, Submit under an older summary stores what was not shown |
| `SubmissionForm` | `OnlyAcknowledgedFiles` | nothing promises it | `on_attachment` stores the files (163) before it answers (164) |
| `SubmissionForm` | `EveryTextGoesWhereAsked` | nothing promises it | state, data and prompt of a reply are three calls (`responsible.py:82-85`): after a break the next text, meant for a form or for the prompt before, goes to the author of a case he was not prompted for |
| `CardSync` | `CardsInSync` | `README.md:40` all cards are updated synchronously | a redraw knows only committed delivery rows, a `!karta` copy included; two redraws are unordered |
| `BotProcess` | `AlwaysStops` (PROPERTY) | `__main__.py:68` "Always release resources even if startup (set_commands etc.) fails" | the release comes after an await of the cancelled bridge; matrix-nio's `sync_forever` catches the cancellation and returns, `run` reconnects, and the await never ends |
| `MatrixDm` | `FirstRoomKept` (PROPERTY) | `repositories.py:94` "a later room never replaces the first" | the guard reads the session's copy, the UPDATE has no condition |
| `Album` | `OnceWithTheFullList` | `media_group.py:4-6` "invokes the handler ONCE for the first message with the full list" | late messages are lost or start a second call |
| `Updates` | `FloodDoesNoUserWork` | `throttling.py:4-5` "BEFORE any DB session/user work" | the throttle is an inner middleware, after session and user |
| `SafeSend` | `TrueMeansDelivered` | `submissions.py:253` "Returns True if delivered" | two flood controls in a row lose the part and return True |
| `Roles` | `AssignedIsResponsible` | `test_responsible_admin.py:229` after an assign the flag is set | an assign that finds the flag set emits no UPDATE while a revoke commits |
| `Roles` | `MenuFollowsRoles` | `commands.py:69` the menu is "according to their roles" | each of two handlers builds it from its own copy |
| `MatrixDm` | `AllPostsHeard` | nothing promises it | a file whose card then fails has no delivery row: a reply to it is not understood |
| `Roles` | `MenuFollowsLanguage` | `commands.py:1` the menu is "localized per locale" | the personal menu keeps the language it was built in until the roles change again |
| `Roles` | `ToldIsSo` | `start.py:41`, the text `language-set` | said after a flush; if the menu that follows cannot be sent, the session rolls the language back |

The modules show some more without a definition of their own:

* `handlers/__init__.py:3` says the cancel handler takes "precedence over form
  states", but it is registered after the text steps, so that `/cancel` sent at
  a text step is stored as the answer (`OnMessage`).  In state `reply` it is
  worse: `/cancel` and `/start` after a reply prompt are recorded and sent to the
  applicant.
* A prompt that overlaps a clear can leave state `reply` without a
  `submission_id`; `on_reply_text` then raises on every text until the state
  expires or a menu button is tapped (`Then`, the case of `reply`).
* `webhook.py:49` says "Block until cancelled (e.g. SIGTERM)"; `asyncio.run`
  handles SIGINT only, so that SIGTERM ends the process without its `finally`
  in webhook mode (`Kill`).

## 6. Proofs

Each module named `...Proofs` extends the modules it is about and proves theorems of
their specifications for every value of the constants.  All of them are built
alike: `IInv` is the inductive invariant, `IInvInit` and `IInvNext` say that it
holds at first and that every step keeps it, `Invariance` is `Spec => []IInv`, and
the theorems below follow from it.  The second module of a pair has `AlbumInv`,
`SendInv` and `RegistryInv` instead.

None of the properties is inductive as it stands: each speaks of what is committed,
posted, shown or submitted, and says nothing of the handler that is about to do so.
The invariant adds what handlers on their way have established.  TLC finds
each of them an invariant of the component's instance as well, when its definitions
are put beside the MC module (in `Intake` without `Shape`, which compares a form
with a string).

| Module | Theorem | Statement |
|---|---|---|
| `SubmissionActionsProofs` | `TypeCorrectness` | `Spec => []TypeOK` |
| | `HistoryExplains` | `Spec => []HistoryExplainsRow` |
| | `OneWinner` | `Spec => []WinnerIsOwner` |
| | `Journal` | `Spec => []JournalComplete` |
| | `CommittedBeforeFanOut` | `Spec => []NeverAheadOfDatabase` |
| | `SeenOwnersRespected` | `Spec => []SeenOwnerRespected` |
| | `OneClosedNotice` | `Spec => []ClosedNoticeOnce` |
| | `LockLetGo` | `Spec => []LockIsLetGo` |
| | `Refinement` | `Spec => ImplementsCase` |
| `SubmissionFormProofs` | `TypeCorrectness` | `Spec => []TypeOK` |
| | `Complete` | `Spec => []SubmittedComplete` |
| | `AsShown` | `Spec => []SubmittedAsShown` |
| | `FilesKept` | `Spec => []AttachmentsKept` |
| | `Once` | `Spec => []SubmittedOnce` |
| | `TextGoesRight` | `Spec => []TextGoesWhereAsked` |
| | `NamesDropped` | `Spec => []AnonymousStripped` |
| `IntakeProofs` | `TypeCorrectness` | `Spec => []TypeOK` |
| | `TicketNumbers` | `Spec => []TicketsRunOn` |
| | `NoCollision` | `Spec => []CallersNeverCollide` |
| | `WholeSubmissions` | `Spec => []AllOrNothing` |
| | `ReplyGoesToAuthor` | `Spec => []RepliesReachTheAuthor` |
| | `Anonymity` | `Spec => []AnonymousNamesNobody` |
| `CardProofs` | `TypeCorrectness` | `Spec => []TypeOK` |
| | `RowsMatchCards` | `Spec => []RowsTrackCards` |
| | `CardsFollowTheRow` | `Spec => []NoCardAhead` |
| | `OnlyMissedCardsAreStale` | `Spec => []StaleOnlyIfMissed` |
| | `ButtonsNeverReturn` | `Spec => ButtonsStayGone`, an action property |
| | `CardRefinement` | `Spec => ImplementsCards` |
| | `SendTypes` | `SendSpec => []SendTypeOK` |
| | `SendNothingLost` | `SendSpec => []NothingLost` |
| | `SendPartsFit` | `SendSpec => []PartsFit` |
| | `SendNoBlankPart` | `SendSpec => []NoBlankPart` |
| | `SendWordsKept` | `SendSpec => WordsKept`, an action property |
| | `CardsDeliveredWhole` | `SendSpec => []CardDeliveredWhole` |
| | `SendPartsInOrder` | `SendSpec => []PartsInOrder` |
| `MatrixDmProofs` | `TypeCorrectness` | `Spec => []TypeOK` |
| | `RecipientsAreKnown` | `Spec => []CardsHaveHome` |
| | `RepliesFindTheirCase` | `Spec => []RepliesAreHeard` |
| | `FirstRoomStays` | `Spec => FirstRoomKeptSerial`, an action property |
| `BotProcessProofs` | `TypeCorrectness` | `Spec => []TypeOK` |
| | `ActedOnceInOrder` | `Spec => []ActsOnceInOrder` |
| | `NothingSentIsLost` | `Spec => []SentWhileUpIsHandled` |
| | `AllReleased` | `Spec => []NothingLeftOpen` |
| | `AtHead` | `Spec => []ServesAtHead` |
| `MiddlewareProofs` | `TypeCorrectness` | `Spec => []TypeOK` |
| | `OneAcceptedPerWindow` | `Spec => []OnePerWindow` |
| | `FirstContacts` | `Spec => []FirstContactsDoNotClash` |
| | `AdminsFlagged` | `Spec => []AdminsGetTheirFlag` |
| | `AlbumTypes` | `AlbumSpec => []AlbumTypeOK` |
| | `AlbumsHandedOver` | `AlbumSpec => []AlbumHandedOver` |
| | `AlbumsNoneTwice` | `AlbumSpec => []NoneTwice` |
| `StaffProofs` | `TypeCorrectness` | `Spec => []TypeOK` |
| | `JournalTellsRoles` | `Spec => []JournalSerial` |
| | `UserSeesTheRow` | `Spec => []ShownSerial` |
| | `EveryChangeIsJournalled` | `Spec => ChangesJournalled`, an action property |
| | `RegistryTypes` | `RegistrySpec => []RegistryTypeOK` |
| | `PassesSeeAll` | `RegistrySpec => []PassSeesAll` |
| | `ListsAreAPage` | `RegistrySpec => []ListIsAPage` |
| | `OnlyOwnTypesShown` | `RegistrySpec => []OnlyOwnTypes` |
| | `OwnActionsShown` | `RegistrySpec => []OwnActionShown` |

**What is assumed of the constants** is the `ASSUME` of each module, which TLC
evaluates on every run: sets that name different things are disjoint (channels,
copies and the three handlers; a session and an announce; the payload of a case
button and that of a step button, `react:` and `form:` in the code), numbers are
natural, windows, delays and the size of a page are not zero, a part has room for two
characters, submissions are finitely many, admins are people, only complaints about
corruption are anonymous.  Sets of people, handlers, cases, files,
recipients, albums and payloads are of any size, and the bounds of section 7 are any numbers.

**`SubmissionActions`.**

* `PcFits`: each await belongs to the kinds that pass through it, and what a
  handler has written is what it writes before that point;
* `OutcomeFits`: exactly the operations past their commit are committed and
  journalled, and only these are shown to anybody;
* `LockFits`: the lock's holder is the one between its UPDATE and its commit,
  and the WHERE it matched still holds of the committed row.  This is
  the heart: it is why a commit may take the row from `new` to `in_progress`
  without looking again;
* `RowFits`: the shapes a row and its events can have together, the stale
  `from_status` of a close included;
* `WinnerFits`: a committed take or close is the one the row names;
* `SeenFits`: an owner once read is the owner for good.

The refinement follows from `IInv` and the observation that only a commit of a take
or a close changes what `CaseLifecycle` sees.

**`SubmissionForm`.**  The invariant is `TypeInv`, `Serial` and `AnonymousStripped`;
the first and the last hold with any overlaps, because `create` itself drops what an
anonymous submission must not keep.  `Serial` says of updates that do not overlap
that state and data are `Safe` after every single call and not only at the
end of a handler, because it may end there: the data are `Open` (of a form that is
not submitted, with its files), they have the answers the state relies on if the
form has begun (`Fits`), and who was told of his state knows what it is (`Told`).
The hard part is what lies between: `Way` says for every rest of a handler, call by
call (`Asking`, `Attaching`, `Confirming`, `GoingBack`, `Submitting`, `Leaving`,
`Prompting`, `Replying`), what must be so for each of its calls to keep `Safe`, even
when either key expires half-way.  A break is then the easy case: the rest is empty
and `Safe` holds already.  `RowsFit` is about what is already submitted, `Numbered`
about the numbers of forms.

**`Intake`.**  `OwnFits` says that a handler past the counter has the number after
the committed ones, and that its row is made from its form; `KeptFits`, that
its other rows are those of the steps it has done; `Apart`, that the counter's
lock has one holder and every row an id of its own.  Gapless numbers follow
because the one who holds the lock is the only one who can commit a number.
`TokensFit` ties each token to a stored anonymous submission.

**`CardSync`.**  `TodoFits` and `SnapFits` say what a handler's place tells of the
cards before it, and that it shows nothing that is not committed; `OneRedraw`,
that redraws that do not cross are one at most and show what is the case; `Behind`,
that a card that is behind was missed or is still `Pending`.  `ButtonsStayGone`
needs `NoCardAhead` and the ranks of the statuses.  The refinement of
`CardLifecycle` needs `HadFits`: what a handler has read of the case it has had, and
what a redraw has read is not `new`, because it follows a commit of its own.

**`MatrixDm`.**  `SnapFits`: a room somebody is known to have is his and is
committed, or will be by the session that holds the lock of his row; `AddedFits` and
`PostsFit`: what was posted is on its way into the deliveries; `Serial`: without
overlapping sessions what a session knows of rooms is what is committed.

**`BotProcess`.**  `PhaseFits` and `ReleasesFit`: what `main` has reached tells what
is open and where the bridge can be; `StampsFit`: the homeserver's stamps of a room
are in the order of arrival, and what was sent since a connection is not older than
its start; `ReadOnce`: of every room, a connection passes over what an earlier one has
acted upon, and has itself acted upon no more than it has read.  This is
where the assumption on clocks is needed.  `LateFits` covers the instant at
which the bounded clock stops.

**`Updates`.**  `Windows`: the throttle key expires one window after the last
update that was accepted, whatever came in between; `OneWriter`: at most one
transaction has written a sender's row, an INSERT is of a row that is not
there, and whoever has failed on the index finds a row when he reads again; `FlagOnItsWay`: past `SetAdmin` an admin's flag is committed or written.

**`Roles`.**  `Alone`, `Knowing`: without overlapping taps a handler's copy of the row
is the row; `Showing`: what somebody does not see yet he is about to be shown.
That every change of roles has its entry (`ChangesJournalled`) needs no such
restriction.

**`SafeSend`.**  What `split_text` returns needs no induction over the text once its
loop is steps of the model: `PartsStand` and `Covered` say after every turn that the
parts so far stand in the text one after the other, each as it is there, and that
what lies between them and before `remaining` is blank.  `CutFits` and
`RestFits` keep it, from what `rfind`, `rstrip` and `lstrip` return (`RfindFacts`,
`RstripFacts`, `LstripFacts`, which need the least and the greatest element of a set
of numbers).  `PartsInked` and the order of `got` are the rest.

**`Album`.**  `BufferFits`: the buffer begins with what came in time up to the cap;
`ListsFit`: the list being worked on begins the buffer and an earlier one shares no
message with it; `BufferOnce` and `ListsOnce`: no message is in two places.

**`Registry`.**  `RightsFit` and `ActionFits` say of a task at every await that what
it is about to show was checked, and that a row it acted on has the status it
gave or a later one.  `ListFits`: a list under way holds, of what was there, all
that has neither too many nor too few rows ahead of it.  That `Sorted` puts them at
these places (`SortedFacts`) is counting: no two rows have as many ahead, none
has all, so every place is taken (`PlacesTaken`).  `PassFits` is why nothing is
missed: a submission that was there when the pass began and has not been seen has at
least as many rows ahead of it as the pages passed hold, and commits only add to them
(`AheadGrows`); while one remains the screen offers another page.  `Lone` says that a
tap handled alone is the only one, so that no other list comes in between.

**Only model-checked:**

* Liveness: `EveryoneGetsCard`, `EveryAnnounceEnds`, `ServesAgain`,
  `StopsWhenTold` and those that section 4 names beside the runs.  Fairness and
  ENABLED are beyond the prover.
* `NoDeadlock` of `Intake`, which speaks of ENABLED; that the user rows of
  `MatrixDm` are locked in one order is checked by `EveryAnnounceEnds`.

## 7. Fairness, bounds, abstractions

**Fairness.**  Weak fairness on the next step of a handler that has begun: the
event loop resumes a task whose await is over, PostgreSQL wakes a waiter when
the lock is free, and a network call ends by an answer or an error (aiogram and
nio have timeouts).  Weak fairness is enough because a lock that is free stays
free for a waiter of the modelled row until somebody takes it, and there are
finitely many handlers.  It is assumed in `CardSync`, `MatrixDm`, `Updates`,
`Album` and `SafeSend`, which state liveness.  `BotProcess` assumes it of `main`,
including that docker-compose starts an ended process again (`restart:
unless-stopped`), and of the bridge's task.  In `CardSync` it is per handler and
per copy.
`SubmissionActions` and `Intake` assume none: that nobody waits for ever is a
safety property there, of who holds the lock (`LockIsLetGo`) and of some
handler being able to go on (`NoDeadlock`).  Nothing else is fair: no update has to arrive, no
person has to act, nothing has to fail, no key has to expire, the homeserver
and the database need not come back (`ServesAgain` assumes that they do).

**Bounds**, all of them CONSTANTS or the sizes of sets:

| Module | Instance | Why it is enough |
|---|---|---|
| `SubmissionActions` | 3 ops, 2 colleagues and an admin | a race has two parties; the third comes after or in between; every op takes any kind; the proofs cover the rest |
| `SubmissionForm` | 1 file, 2 cases, 2 forms, 2 submits, any breaks, no overlap (`MaxOverlaps` = 0) | leftovers pass from one form or prompt to the next; the run's properties speak of updates that do not overlap, and `AnonymousStripped`, which speaks of the others too, is proved |
| `Intake` | 3 handlers, 3 forms, 3 codes, 2 years | a waiter behind a waiter; a code taken; a counter of each year |
| `CardSync` | 2 recipients in Telegram, 1 in Matrix, 1 copy, 4 handlers | a loop interrupted after its first recipient; there is one dispatch, one winning take and one close per case |
| `MatrixDm` | 2 people of whom one opens up to 2 rooms himself, 2 announces with a file each | opposite lock orders need two rows and two sessions, each of which creates both rooms; a room opened before, during and after an announce |
| `BotProcess` | 2 rooms, 2 events, delays 2 to 4, restarts in 2, a homeserver whose clock agrees or is 1 ahead, faults for 2 ticks, 1 revision, 2 attempts (10 in the code) | doubling reaches its cap; two events of one room or one in each, before, during and after a connection and a process; a failure that is retried and the last one |
| `Album` | albums of 4 and 2, cap 3 | below, at and above the cap; messages left for a second call |
| `Updates` | 3 updates, windows of 2 ticks, notice 2 windows (4 in the code), 6 ticks | accepted, dropped, and accepted again after the window |
| `SafeSend` | length 8, limit 4 | first, middle and last part; cuts at the limit, at its half, in a run of blanks |
| `Roles` | 2 people, 2 languages, 3 taps | assign, revoke, and a third that overlaps both; a language told and taken back |
| `Registry` | 3 appeals and a complaint, pages of 1, 3 taps of which 2 at once, a colleague who closes one of them | a pass that begins over two appeals, finds a third on its way, sees a row twice and ends on a page that was not there at first; a stale tap between two statements of another |

Deadlock checking is off in every configuration: each instance ends when its
updates are used up.  That nobody waits for ever is stated as the properties
named above instead.

**Assumptions of properties.**  `ActsOnceInOrder` supposes that the homeserver's
clock is ahead by less than the shortest reconnect (5 s in the code) and than a
restart takes: otherwise events that were handled look new to the next
connection.  `SentWhileUpIsHandled` supposes that it is not behind.  That events of
different rooms are acted upon in their order is not stated, because it is not so.

**Abstractions.**  Texts are whether they were given; names, codes and files
are model values; encryption is the pair of author and submission it was made
for; time is ticks.  One module looks at one case, one sender or one reader
where what the code does to two of them is independent.  A sync response brings
everything since the last one: the homeserver's limit on the events per room and
response, which would leave gaps, is not modelled.  The releases at the end of `main`
(`__main__.py:69-71`) are taken not to raise, and docker-compose to start the process
after an orderly stop as well, a little more than `unless-stopped` gives.

## 8. Not modelled

* Schema DDL, configuration, log redaction, keyboards, locales: values, strings
  and layout.  Constraints and buttons appear where they are met.
* The inside of Alembic, aiohttp, aiogram and matrix-nio: one action each, with
  the outcomes the code can see.
* Matrix command parsing and HTML rendering: wording; the parsed command is
  the kind of an op, and which case a reply means is `Heard` of `MatrixDm`.
* A start without migrations (`__main__.py:26`, a setting): the schema is then
  whatever somebody else made of it.
* Several processes: the repository runs one (`docker-compose.yml`), album
  buffers and the bridge are in its memory.

## 9. Running it

    tlc -config MCIntake.cfg MCIntake          # any pair of MC module and cfg
    tlapm SubmissionFormProofs.tla             # any module named ...Proofs: up to two minutes

The one run that ends in a counterexample by intention is that of section 5.

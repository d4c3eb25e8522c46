# LarkLedger in TLA+

LarkLedger is a self-hosted bookkeeping service for Feishu/Lark. A chat message becomes
a row of `processed_events`; a worker interprets it (with an AI model where no
deterministic command matches), commits a ledger write, a report or a command that waits
for the user's confirmation, and leaves the reply in an outbox that a second worker
delivers. Browsers and API clients work on the same tables. This directory holds TLA+
modules of that machinery, the TLC configurations that check them and the TLAPS proofs
about them. Paths below are relative to `src/lark_ledger/` unless they start with `docs/`.

    tlc -workers 2 -config MCEventWorker.cfg MCEventWorker     a run
    tlapm EventWorkerProofs.tla                                the proofs of a module

`PROJECT.json` lists every run, the lines each definition models, the hazards the
properties are for, and the disagreement that a run shows.

## 1. The system

| Component | State | Operations | Hard because |
|---|---|---|---|
| Event queue, EventWorker (`services/events.py`, `worker.py`) | `processed_events`: status, owner, lease, retry time, attempts, `business_committed_at` | receive, claim a batch (SKIP LOCKED), complete, record failure, stop | leases expire under a running worker, takeovers, crashes between two transactions |
| Message processor (`services/message_processor.py`) | none of its own; writes the business tables | pre-check, interpret (minutes), one business transaction | the check and the commit are far apart and the commit does not look at the lease |
| Reply outbox, ReplyWorker (`services/outbox.py`, `reply_worker.py`) | `reply_outbox`: status, owner, lease, retry, remote ids | claim in sequence order, upload, send, mark, retry | answers get lost after Feishu created the message; replies of one event are ordered |
| Pending confirmations (`services/pending.py`) | `pending_commands`: frozen command, status, expiry, fingerprint | freeze, confirm, cancel, expire, delete | confirm, cancel, expiry and skip race; a failed command is rolled back and then recorded |
| Recurring rules, RecurringWorker (`services/recurring.py`, `recurring_worker.py`) | `recurring_rules`, `recurring_occurrences` | create, move, pause, resume, disable, skip; sweep of due rules | schedule edits, skips and confirms meet the sweep; a period must be asked for once |
| Operators' tools (`services/event_replay.py`, `replay.py`, `dead_letter.py`) | `dead_letter_actions`, `event_replay_audits` | list, replay an event or a reply, resolve | the list is old when its button is pressed; two operators see the same row; a requeue and its audit row are two transactions |
| Retention (`services/cleanup.py`) | none | expire pending commands, delete replies, events, commands, sessions, idempotency records | deletes the rows other components use as proof |
| Client idempotency (`services/client_idempotency.py`) | `client_idempotency_records` | execute once for each key, replay the response, clean up | concurrent first uses, expiry, a business transaction that commits elsewhere |
| Ledger (`services/ledger*.py`, `entry_revisions.py`) | entries, revisions, categories | create, edit, undo, restore, list | undo and edit of the same entry from two channels |
| Accounts, transfers, goals (`services/accounts.py`, `transfers.py`, `goals.py`) | accounts, transfers with revisions, goals with bindings | open, archive, hide, set default, transfer, revise, reverse, plan, amend | most checks read without a lock; the default changes in two statements; balances are derived from several tables |
| Budgets (`services/budget.py`, `ledger_budgets.py`) | `category_budgets`, `budget_alerts`, `budgets` | limit a category, cancel, total of a month, check after an entry | thresholds are told once although batches, edits and concurrent messages cross them; batches wait for each other |
| Households (`services/household_management.py`, `member_resolution.py`) | households, members, invitations, selected ledgers | found, invite, answer, cancel, leave, remove, alias, select | membership is read without a lock and written later |
| Identity, personal ledgers (`services/identity.py`, `ledger_management.py`) | users, chat identities, ledgers | bootstrap a subject, create, rename, make default | the first messages of a subject race |
| Sessions and credentials (`services/dashboard_auth.py`, `client_auth.py`) | sessions, credentials | log in, authenticate, log out, revoke, issue, withdraw, purge | a last use is written back beside a revocation |
| Assistant conversation, AI entry (`services/conversation.py`, `ai_entry.py`) | conversations with messages, the idempotency record | ask, confirm, execute, archive, delete | the row lock is held over an AI call; a failed execution loses the locks and comes back |
| Transports, process (`services/websocket.py`, `main.py`) | a thread, queues, tasks, loops | start, deliver, wake, stop | a thread beside the event loop, cancellations that are swallowed, wake-ups |
| Chat commands, queries, reports, exports, risk | none | pure, or reads | — |

How they interact. A transport inserts an event (duplicates hit its primary key). The
EventWorker claims it, the processor runs it and commits its business result, its reply
rows and `business_committed_at` in one transaction. The ReplyWorker claims the reply
rows. A confirm or cancel is an event of its own, whose transaction changes the pending
row that an earlier event, or the RecurringWorker, created. A browser or client request
does its work in its own transaction, with an idempotency record if it carries a key.
Everything the components share is in PostgreSQL: row locks, guarded updates (`WHERE
status = 'processing' AND owner = me`) and unique keys are the only synchronisation;
in-process signals only shorten waits. Time enters by leases, retry times, expiry,
retention and business dates.

What makes each correct: an event is settled and its result committed at most once;
replies are delivered in order, once for each memory of Feishu's; a frozen command is
executed at most once and never after its cancellation was reported; a period is asked
for once; an idempotency key is applied once and answered alike; an entry's and a
transfer's revisions account for the row that stands; a ledger has one default account,
a user one default ledger, a household one owner; an invitation and a revocation are
final; a threshold is told once; a turn of a conversation is whole; an operator's trail
says what happened; every queue drains while the workers run, and a stop ends with
nothing acknowledged lost.

## 2. The modules

| Module | Models |
|---|---|
| `EventLifecycle` | abstract: what the queue promises about the life of one event |
| `EventWorker` | the queue, its workers, the business transaction, event replay, retention of events and replies |
| `EventWorkerProofs` | for `EventWorker` and for `PendingConfirm`: invariant, safety theorems, an action property; `EventWorker` implements `EventLifecycle` |
| `ReplyOutbox` | reply rows, their workers, Feishu's reply API, result replay, dead-letter replay, reconciliation, retention |
| `ReplyOutboxProofs` | for `ReplyOutbox` and for `DeadLetters`: invariant, safety theorems, action properties |
| `PendingConfirm` | pending commands and recurring rules with their users, workers and retention |
| `AnsweredOnce` | abstract: what an idempotency key promises to the client that sends it |
| `EntryBook` | entries and revisions with the idempotency records, used by the client API, the Web API and chat |
| `EntryBookProofs` | invariant, safety theorems, `EntryBook` implements `AnsweredOnce` |
| `AccountBook` | accounts, transfers, goals and the balances of one ledger |
| `Budgets` | limits, alerts, totals and the overview of one ledger, over two months |
| `BudgetsProofs` | lemmas about sums over finite sets; for `Budgets` and for `AccountBook`: invariant, safety theorems, action properties, who can deadlock in `AccountBook` |
| `Household` | households, invitations, aliases and the ledger selected at each entrance |
| `HouseholdProofs` | invariant, safety theorems and the action properties of `Household` |
| `Identity` | users and their subjects, personal ledgers, browser sessions, client credentials |
| `IdentityProofs` | invariant, safety theorems and the action property of `Identity` |
| `Conversation` | the assistant of the browser and the form beside it; implements `AnsweredOnce` too |
| `ConversationProofs` | invariant, safety theorems, an action property, no circle of waits, `Conversation` implements `AnsweredOnce` |
| `DeadLetters` | lists, verdicts and actions of the operator, with the queues as environment |
| `Process` | one process: lifespan, long connection, both modes of `EventService`, worker loops |
| `ProcessProofs` | invariant and safety theorems of `Process` |
| `MC...` | the instances TLC checks |

Conventions. An action is one database transaction, or the part of one between two reads
or calls that nothing protects. A transaction that holds its row locks from the first
read to the commit is one step. One that reads without a lock and writes later is two
(`ResultReplayRead`/`ResultReplayWrite`, `SkipReads`/`SkipWrites`,
`MemberFinds`/`MemberConfirms`, `StartParsing`/`Freeze`), and so is a worker that
checks, waits minutes for an AI answer and commits (`Begin`/`Commit`). In the modules of
requests (`EntryBook` to `Conversation`) a handler carries what it read, and a write
changes only the columns that differ from it, as the ORM does. A request that is refused
at once changes nothing and is no step.
Wall-clock time is what the code compares: a lease is live or expired, a retry is later or
due, a command is overdue or not; a clock action moves each on at any moment. So every
timing, however unlucky, is a behaviour; retention alone (counted in days) is assumed
not to meet a transaction or a worker's batch (seconds, minutes) that is still at the
row. Bounds are constants named `Max...` and `Last...`, used in guards only.

An operator named `X_Y` beside `X` is `X` with a plausible bug. No definition uses it.
Replacing `X` by `X_Y` breaks the property named with it under "mutants" in
`PROJECT.json`, which shows that the property can see that bug.

### EventWorker

`row` is the table (`status`, `owner`, `lease`, `retry`, `attempts`, `committed` for
`business_committed_at`); `outbox[e]` and `entries[e]` are the rows that carry the
event's unique keys; `worker[w]` is a sweep: the claimed batch, the event it is at and
the stage of its attempt. `writes` and `pendings` are history: how many transactions
that write the ledger or create a confirmation were committed for the event.

`Claim` is `claim_batch`; rows locked by others are skipped, so any set of claimable
rows up to the batch size can be claimed. `Begin` is the pre-check. `Commit` is any
business result, by the reply rows it leaves (`RepliesOf`): `record` writes entries
that carry the source message, `command` changes existing ones, `pending`, `report` and
`export` speak for themselves, `refuse` commits a reply without proof. A unique key
that refuses it is `CommitConflict`, a permanent error. `Complete` and `RecordFailure`
carry the guard `Holds`. `Abandon` is a crash, `stop()` or a failed sweep. `Replay` is
the operator's preflight and requeue, under one row lock.

The abstract specification says what is promised: a write is applied at most once, a
settled event is never run again, and only an event with nothing applied is requeued.
`ImplementsLifecycle` maps statuses to stations of a life (`LifeOf`) and `writes` to
`applied`. A worker that was taken over may apply the write after its event was
requeued or given up; that is why `Apply` is allowed at any station.

### ReplyOutbox

`row` is the table, with `key` for the uploaded file's key and `remote` for
`remote_message_id`. `shown` counts the messages the user sees and `window` says whether
Feishu still remembers the row's uuid: within an hour a second send with the same uuid
creates nothing. That API is external and modelled as the client relies on it. `Send`
shows the message and may lose the answer. `Blocked` is the NOT EXISTS of the claim.

### PendingConfirm

A `Source` is what can be confirmed: a message, or an occurrence `<<rule, date>>`.
`pending`, `occurrence` and `rule` are the tables, `applied`, `told`, `failed` and
`awake` history: executions, what replies said, failures, the days a rule was active.
`session[w]` is a transaction between its unlocked read and its write. The calendar is
a schedule with a fixed period on days `0 .. LastDay`; dates of months are left to a
module of pure operators (plan). `Confirm` and `Cancel` are the owner's, under the row
lock; `MemberFinds` and `MemberConfirms` the path by which another member confirms a
shared occurrence. `Sweep` is a sweep of the recurring worker, in the order of dates.
`Repeats` is the unique key of the entries: an occurrence always creates an entry, so
a second execution of it cannot commit. `MarkOccurrence` changes the occurrence only
while it is pending, as the code does everywhere but in a skip.

### EntryBook

`entry`, `revisions` and `record` are `ledger_entries`, `ledger_entry_revisions` and
`client_idempotency_records` (`record` by the columns of its unique key, which hold the
operation and the entry); `runs` and `told` are history. A `handler` is one request with
its transaction. The three channels differ in what a request carries: the client API a
key and the `updated_at` it saw, the Web API that stamp and no key, chat neither. A
chat's undo or "change the last one" is a request on whichever entry it picked.

A request with a key looks its record up (`Arrive`), inserts it and so claims the key
until it commits (`Insert`: the insert of a second transaction waits, then finds the
winner's record and answers from it), reads the entry `FOR UPDATE` and compares the
version (`Lock`), and writes entry, revision and response in one commit (`Write`).
`Lock` and `Write` are two steps because an edit of the amount or currency awaits the
exchange rate in between. `Create` has no row to lock. A refused version, a full book
or a failure rolls everything back, the record included.

`stamp` is `updated_at`, taken from a counter: two commits at one entry are assumed not
to share a microsecond. Retention (days) does not meet a request (seconds) in flight.
A request names versions of the entry that existed. The unlocked read that only
forms the 404 is left out, and so are batches, payers, privacy and the texts.
The confirm endpoint is the one user of idempotency records whose business commits in
another session before the record does; its repetition is fenced by the pending row
(`PendingConfirm`).

The abstract specification says: until a key is forgotten its request is applied once,
and whoever asks again is told the outcome of that application. `KeepsPromise` maps the
unexpired record's response to `outcome`.

### AccountBook

`account`, `entry`, `transfer`, `trail` (`transfer_revisions`), `goal` and `bound`
(`goal_account_bindings`) are the tables of one ledger that a household shares; `named`
is history. A handler reads and checks unlocked (`Arrive`, by what the operation checks
in `Accepted`) and writes and commits in a later step; transfers and goals are waited
for and read `FOR UPDATE`. The default account moves in two statements: `Clear`/`Cleared`
(an UPDATE that may wait for the row and then finds it no default any more), and the
write of the new one (`WriteDefault` or `Insert`), which `MakeDefault` or `Open` commits
when the partial unique index lets it in (`Conflict`). A rename is a write (`WriteName`)
and an entry in the index of names (`Rename`) as well. In an index a request waits, with
the row it has written in its hands, while another transaction holds the row it collides
with (`NameAwaited`, `DefaultAwaited`): that row may be cleared, or not. What refers to an
account waits while it is renamed (`KeyLocked`). `WaitsFor` says whom a request waits for,
over all of these. Requests can wait for each other in a circle here: one has cleared
nothing, because the default moved while it waited, and has written the account that
another, which has cleared the new default, is about to write; two renames and an opening
do it too. PostgreSQL rolls one of the circle back (`Victim`), no code catches that and
the request fails, having changed nothing. `Balance` is derived as
the code derives it, from the entries `Posted` on an account and the transfers `Moved` to
it and from it, liabilities with the other sign; `NetAssets` is the sum of the overview,
less its `Debts`.

### Budgets

`limit` is `category_budgets` (with a row id: a budget cancelled and set again is
another row), `alerts` is `budget_alerts`, `period` the table `budgets`; `told` is
history, the texts that reached a reply. A message carries an order, one item or a batch
with a savepoint for each item; `tx[m]` is what it wrote and the rows it holds until it
commits. `Needs` says which rows its next step takes; waiting for one that another holds
may close a circle, in which PostgreSQL picks a `Victim`: its item fails, the batch goes
on. `Spend`, `LockEntry`/`Edit`, `SetLimit`/`Insert`, `CancelLimit` and
`LookTotal`/`WriteTotal`/`ShowTotal` are the operations; `Flip` undoes or restores an
entry, `MonthTurns` is the clock. Of several limits for one category in a message the last
one counts (`Superseded`). `checked` and an entry's `under` are history: the categories a
message has checked, and the budget row that was looked at for the entry.

### Household

`home`, `member` and `invitation` are the tables, `current` the ledger a user has
selected in chat, in the browser and for a credential. Only an answered invitation is
read `FOR UPDATE`; everything else is read unlocked and written later as the difference
from what was read. In a chat the refusal is a reply that commits together with what the
handler wrote before (an invitation found overdue is marked so); the Web and the client
API roll back.

A `Text` is an alias as `normalize_alias` leaves it, and that is what the unique index
compares; `Folded` is what `_normalize` makes of it, and that is what `resolve_payer`
compares. Two members may therefore have different texts that fold to the same. `Payers`
looks for a user's id, then for an alias, then for a display name, then for a Feishu open
id, and where an alias or a name is not the only one the entry is refused. Texts that are
somebody's id are left out.

Whoever ends a membership writes the member's row and resets the selections it finds
(`Reset`), and then commits (`Leave`, `Remove`); who wants one of these rows waits
(`MemberHeld`, `SlotHeld`). A `Select` that found the membership before may write in
between, or afterwards. `late` is history: the selections written when the end of the
membership had looked for them. `Resolve` gives whoever comes in by such an entrance the
default ledger.

### Identity

`user`, `identity` (`channel_identities`), `ledger`, `session` and `credential` are the
tables. A request authenticates in one transaction, which writes the last use, and works
in another. A subject nobody knows is made a user in a savepoint: the loser of the
unique key drops its savepoint and reads the winner's row. Clock actions let a session
grow quiet, expire and become old; retention deletes it.

### Conversation

A handler is one HTTP request: it claims its idempotency key, reads the conversation's
context, locks the conversation's row, asks the AI (any `Intent`, or nothing usable),
executes or asks for confirmation, appends the answer and commits. The locks are held
over the AI call. Only a structured query has a `query_result` (status "answered"), which
becomes the conversation's context; lists, reports, accounts and assets ("shown") leave
the context as it was. A failed execution is rolled back, which gives up key, lock and
question, and the answer is then appended in a new transaction. `KeepsPromise` is the
refinement of `AnsweredOnce`, the abstract specification that `EntryBook` implements
for entries; a failed execution is the one answer that is not remembered.

### DeadLetters

The queues are environment: `row[i]` is claimed, fails with one of the errors `Raised`,
succeeds, loses its lease, is purged. An operator's request picks an item from a screen
(`Listed`, `QueuePage`), locks its row later and then replays, resolves or leaves.
`ReasonOf` and `Permanent` are the two classifications of an error that the code keeps
apart (of the stored code, and of the exception). The replay of an event is two
transactions: the requeue, and the dead-letter record (`AuditEvent`).

### Process

`stage` is how far the lifespan is on its way up or down. The thread of the SDK hands an
event over with `call_soon_threadsafe`: `ready` is the event loop's queue of callbacks,
first in, first out, which is what decides whether an event that arrives during the stop
is still consumed. `Consume` empties a queue into tasks; `TaskStep` is
`EventService.handle_safely` in both modes, with the worker (the row is enough) and
without it (the task runs the processor itself). A worker loop is its place `at[w]`, its
`stop` event and a cancellation not yet noticed; `SleepIsOver`, `Clear` and `Swallow` are
`wait_for(reply_wakeup.wait())`, which in Python 3.11 may drop a cancellation that meets
a wake-up. `acked`, `handed` and `excused` are history: what the callback took, what was
done with, and what a crash or a thread that outlived its join took along. The set of
enabled workers is a setting and a constant of the behaviour.

## 3. The runs

| Run | Instance | Shows |
|---|---|---|
| `event_queue` | One event, two workers, two attempts, one crash, two leases that expire, one replay | The conjuncts of `IInv`: ledger write and confirmation are each committed at most once (`AtMostOnce`), a committed result is provable (`ResultIsProven`), a late attempt meets the key of the first (`LateCommitIsFenced`). Only the lease holder decides (`OutcomeByHolder`), the queue implements `EventLifecycle`, a received event is settled in the end. |
| `reply_delivery` | An export's file and its card, two workers, two attempts, at most two kinds of trouble out of a crash, an expiring lease, a closed uuid window and one kind of operator action (`TwoTroubles`) | `IInv` with `NoOvertaking` and `OneMessagePerWindow`: replies keep their order, each is shown once for each window, outcomes belong to the lease holder, each reply is sent, dead or purged in the end. |
| `pending_confirm` | A shared rule over three days with period two, moved once, or a photo sent twice; two sessions, one failing command, one crash | `IInv`: executed once, tables agree, one decision for each message and each image, no back-filling. A period is not asked for again; what is due is handled and what is pending is decided in the end. |
| `pending_shared` | The rule alone | Violation: a member's confirm executes what the creator cancelled. |
| `entry_book` | Four requests on one entry, two at a time, one key, two accounts, one failure | `IInv`: the revisions form a chain that ends in the row, each tells its kind of change, no update is lost, business and record commit together and once. The promise of `AnsweredOnce`; every request is answered. |
| `account_book` | Three requests, two at a time, of an owner and a member, on a wallet, savings and a card | `IInv`: one default account at all times, private accounts have owners, a goal has the accounts of one request, a transfer's revisions explain it. Only requests that open or rename accounts or change the default are ever in a circle, who waits for nobody can go on and who waits cannot; only entries and opening balances move the net. |
| `household` | Seven requests, two at a time, three users, one household, two invitations; two aliases that fold to the same, one of them also a member's display name, the other another's open id | `IInv`: one owner; an alias finds its member unless another member's folds to the same. Invitations are decided once, nobody is back without a new one, and an entrance is on the ledger of a household its user has left only by a selection written behind the reset. |
| `identity` | Four requests, two at a time, of one subject unknown at first; two sessions, one credential | `IInv`: one default ledger for a user, no user without a way in, sessions act for their subject. Revocations stand. |
| `dead_letters` | Three requests of two operators on an event, its reply and a command; one failing attempt each, of three classes | `IInv`: one resolution for an item, nothing permanent offered, one replay for a failure. The trail tells the step. |
| `budgets` | Two messages with five orders each, on two categories; one flip, one web change, two months | `IInv`: rows have one holder, what was told is recorded, what was checked has its alerts. A threshold is told once and upwards, none is missed by messages that meet, messages whose batches wait for each other end. |
| `conversation` | Three requests, two at a time, two keys, a history of three messages, one crash | `IInv`: histories are numbered without a gap, the context is that of the newest structured query, a repeat is asked about, a key writes once and is answered with that. Turns are whole, the promise of `AnsweredOnce`, what is archived stays so, nobody waits in a circle and who waits for nobody goes on. |
| `process` | Two of three deliveries (a message twice, a click); three settings; one crash; a second start with the cleanup worker alone | `IInv`: nothing dangles when the engine goes, the synchronous mode runs an event once. Nothing acknowledged is dropped by an orderly stop, no wake-up is lost, a stop ends. |

Why the bounds suffice. Rows of different events share nothing but a worker's batch, so
one event with two workers has every race (a lease holder, its successor, an operator,
retention). Two stalls let an event be taken over and taken over again; with
`MaxAttempts` 2 a retry, the last attempt and the dead letter occur. One export has the
only pair of replies with an order. In `pending_confirm` three days and period two reach
a rule moved back onto a period that was decided, skipped or deleted, and a paused rule
with a missed period. Rules and messages share no row, so the constraint `OneStory`
leaves out states where both are in progress. Entries meet only in their rows and keys,
so one entry, one key and two handlers have every wait; four requests create, edit,
delete and repeat, or create, edit, expire and reuse the key. Creating is bounded by the
one short id, so the full book occurs. `OneField` leaves out requests that change two
fields at once, and `OneFieldChanges` gives `AccountBook` the amendments of a goal that
name one (the theorems hold for any set of them). Two handlers in flight are every pair of a stale read and a commit; the
number of requests is what the longest story needs: found, invite, accept, invite
another, leave, invite again, answer in `household`; open, archive or hide, post in
`account_book`; three operations in `dead_letters` let both operators act on one item and
one of them come back. Of budgets, two categories make the circle of two batches, and the
listed orders put spending below, at and over each threshold; one flip takes spending
back below it. A history of three messages is shorter than two turns, so pruning cuts
through a turn. Two deliveries of a process are the same message twice, or a message and a
click, in the two queues. The theorems of section 4 need none of
these bounds.

Constraints and liveness. `TwoTroubles` and `OneStory` cut off only steps that no
fairness asks for (troubles, users' first messages), and `SmallRestarts` only a second
`Start`, so no behaviour that could violate a liveness property is hidden: every state
from which a fair step leads on is kept.

Deadlock is not checked by TLC in any run: a system whose bounded environment has nothing
left to do is at rest. Waiting in circles is checked as a property instead
(`SomeoneGoesOn` in `AccountBook`, `NobodyStuck` in `Conversation`, `EveryoneAnswered`,
`EveryMessageEnds`, `ShutdownEnds`).

### Fairness

Weak fairness, on the system's own steps and on the clock only. Event and reply workers:
the loops sweep until they are stopped and swallow the exceptions of a sweep
(`_run_loop`), each await has a client timeout, a transaction ends, leases and retry
times pass. A user, an operator, a delivery or a deletion owes nothing. Liveness holds
for finitely many crashes (the bounds); a system that crashes for ever settles nothing.
`DueIsHandled` rests on weak fairness of the sweep because a skip that holds a rule's
lock ends. In `EntryBook` a handler that can go on does: the exchange-rate call has a
timeout, and PostgreSQL wakes a waiter when the lock or key it waits for is released. In
`Budgets` so does a message, and the database breaks a circle of waits
(`deadlock_timeout`), whoever it picks. In `Process` the event loop runs every callback
and resumes every task, the loops go on, and `thread.join(10)` returns; the thread of the
SDK owes nothing, nor does whoever makes the process stop.

## 4. The proofs

In each of these modules `IInv` is the inductive invariant. TLC checks it as the
invariant of the module's run, `Invariance` proves `Spec => []IInv` for all values of the
constants that the module's assumption allows, and the other theorems follow from it, the
action properties with one look at each action that could break them. Where the model has
a bound on troubles, crashes or steps, the theorems hold for any bound.

`EventWorkerProofs` (any sets of events and workers, any attempts, batch and bounds,
under `EventWorkerAssumption`): `Invariance`, `TypeCorrect`, `AtMostOnceHolds`,
`ResultIsProvenHolds`, `ReplayNeverRepeatsHolds`, `OutcomeByHolderHolds` and `Refinement`.
`AtMostOnce` is not inductive: an attempt past its pre-check holds a decision that is
minutes old. `IInv` adds what protects it: a worker that is about to commit for an event
that has a result finds that result's reply row still there (`LateCommitIsFenced`, kept
because retention does not meet a batched event), every result is on record
(`ResultIsProven`, which stops a new attempt and a replay), and what a worker is at is
in its batch and exists. The refinement proof maps each action to a step of
`EventLifecycle` or a stutter; a claim that takes a row over is a stutter for that row.

The second part of `EventWorkerProofs` instantiates `PendingConfirm` (any rules, members,
messages, sessions, calendar, period, batch and bounds; each statement has
`PendingAssumption` as its hypothesis): `PendingInvariance`, then `ExecutedOnceHolds`,
`TablesAgreeHolds`, `MessageDecidedOnceHolds`, `OneActivePerImageHolds`, `NoBackfillHolds`
and `NeverAskedAgainHolds`. `NoBackfill` needs that an active rule was awake on every day
it still has to ask for (`AwakeWhenDue`, kept by `Resume` because `FirstAfter` is later
than today, lemma `FirstAfterIsLater`). `MessageDecidedOnce` needs that a message's
cancellation stands (`CancelStands`); `TablesAgree` that a session in the middle of a
member's confirm is at an occurrence whose row exists (`Sessions`), and that a period
has no pending row before its occurrence (`OccurrenceFirst`).

`EntryBookProofs` (any entries, values, accounts, keys, handlers and bounds, under
`EntryBookAssumption` and `RecordAssumption`, which say that `None` is no row, request
or record): `Invariance`, `TypeCorrect`, `ChainExplainsRowHolds`,
`RevisionTellsChangeHolds`, `NoLostUpdateHolds`, `AppliedIffRecordedHolds` and
`Refinement`. The chain is not inductive because `Write` uses the row that `Lock` read:
`IInv` adds that a handler past `Lock` holds the row as it still stands and of the
version asked for (`HandlersInOrder`), which rests on no two handlers having one row
(`RowsLockedOnce`). `AppliedIffRecorded` needs that a handler past `Insert` is alone
with its key and that no record of it counts (`KeysClaimedOnce`), `RevisionTellsChange`
that stamps lie in the past (`StampsPast`), the refinement that what was told is what
is recorded (`ToldIsRecorded`).

`ConversationProofs` (any conversations, keys, texts, requests, length of the history and
bounds, under `ConversationAssumption`): `Invariance`, `TurnsAreWholeHolds`,
`ArchivedIsClosedHolds`, `NoCircleHolds` and `Refinement`. What `append` makes
of a row is one lemma (`AppendedShape`: the kept messages, moved by what was pruned, and
the new one), from which order and whole turns follow (`AppendedInOrder`,
`AppendedTurns`). `TurnsAreWhole` alone is not inductive, for a reply appends to the row
that its request read before the AI call: `IInv` says that the locked row is the
committed one with the question added, that the conversation is still open, and that
nobody else has it (`Locks`). `WrittenAsAnswered` and the refinement need that who has
claimed a key is alone with it and finds no record (`ClaimsKey`), and that what was told
is recorded unless it was a failure (`ToldIsRecorded`); `RepeatIsAskedAbout`, that what
was known on arrival is still booked when the risk is weighed (`Weighed`). There is no
circle of waits because a request takes its key before its conversation: who holds a
conversation waits for nobody, a failed execution has given up both before it comes back,
and this holds of any set of requests, not only of all of them.

`ReplyOutboxProofs` (any replies, orders among them, workers, batch and bounds):
`NoOvertakingHolds`, `OneMessagePerWindowHolds`, `SentWasShownHolds`,
`OutcomeByHolderHolds`. A worker sends what it claimed minutes ago, when the NOT EXISTS of
the claim may have become false: `IInv` says that the earlier replies of a batched row
were shown or given up and stay so (`BatchesCleared`, `RowsTell`), which needs that
replies of an event are inserted together (`Together`). How often a reply was shown
follows from what Feishu remembers of its uuid (`Windows`): a send in an open window adds
nothing, and a window closes at most as often as it is allowed to.

The second part of `ReplyOutboxProofs` instantiates `DeadLetters` (any events, replies,
commands, operators, error codes and bounds): `DeadLettersInvariance`,
`OneResolutionHolds`, `OneReplayPerFailureHolds`, `TrailTellsTheStepHolds`. A request is
chosen from a list that may be old; `Standing` says that what it reads under the row's
lock holds until it writes. `OneReplayPerFailure` is not inductive, for a replay adds to
the smaller side: `Credit` says that a row that may be replayed has failed more often than
it was replayed, and that only a failed attempt brings a row there. That nothing permanent
is offered is a fact about the two classifications alone (lemma `NeverOffered`).

`HouseholdProofs` (any users, households, invitations, texts, foldings, names and
requests): `Invariance`, `OneOwnerHolds`, `PayerIsFoundHolds`, `OnlyLateStaysHolds`,
`DecidedOnceHolds`, `BackByInvitationHolds`. Almost everything is read unlocked, so that the invariant has to
say what a stale reader may rely on: the household it found exists and its owner never
changes (`Checked`, `Rooted`), and an invitation locked for an answer is pending, is
locked by nobody else, and its guest has become no member since (`LocksStand`; two pending
invitations to one guest are excluded by the partial index, `InvitationsRooted`). That an
alias finds its member rests on the unique index (`AliasesDiffer`): whoever else matches
the folded text has another text, which is the exception `PayerIsFound` makes. For
`OnlyLateStays` the invariant says that one request at a time ends a membership, and that
what is on its ledger meanwhile is what it will reset or was written behind it
(`ResetsStand`). The proof of `LocksStand`
showed that the sweep of overdue invitations (`List`) needs the row lock as a guard too: it
waits for an answer under way, and does not overwrite it.

`IdentityProofs` (any subjects, users, ledgers, sessions, credentials and requests):
`OneDefaultHolds`, `NoOrphanHolds`, `SessionIsSubjectsHolds`, `RevokedIsFinalHolds`.
`NoOrphan` and `OneDefault` speak of states in which transactions are open, so `IInv` says
what an open one may have done: a user it has made is led to by nothing committed and
belongs to a subject that no other request has claimed (`ActsForIts`, `Apart`), and the
default it has cleared is still its user's, committed and locked against any other
(`HoldsIts`, `Apart`), so that its commit exchanges one default for another.

`ProcessProofs` (any messages, cards, reminders, deliveries, sets of workers and bounds):
`AckedIsHandedHolds`, `NoWakeupLostHolds`, `NothingDanglesHolds`, `SyncRunsOnceHolds`. The
invariant has three parts that few actions share. Of the receiver: an acknowledged event
is in the queue of callbacks, in a consumer's queue or with its task, or done with
(`Tracked`), and a consumer with work is scheduled exactly once (`Scheduled`). An orderly
stop loses nothing because callbacks run in order: no event can come after the report of
the join, for the thread is over; none is left before it when `stop()` goes on; and each
consumer that those events woke runs before that, because `goOn` is appended last
(`HandedOver`, `InOrder`). Of the loops: what is stopped is over before the next stop
begins (`Halted`), and what is signalled while the reply loop delivers or sleeps finds
`wake` set (`Awake`). Of the rows: of the tasks of one message one has claimed it, and a
message that is not in the table was never run (`OneRunner`).

`BudgetsProofs`, first part (any messages, orders, categories, amounts, opening entries
and bounds): `Invariance`, `TellsOnceUpwardsHolds`, `NoThresholdMissedHolds`. A threshold
is told by the message that inserts its alert, so `TellsOnceUpwards` needs that whatever
was told is still recorded while its budget row stands (`ToldRecorded`), and that what an
open transaction is about to tell is above all that (`TellsOK`); both rest on the row lock
of the budget, which has one holder (`OneHolder`) and covers whatever a transaction has
written under it (`WritesLocked`). That no threshold is missed is a fact about sums:
`CheckedRecorded` says that the spending a transaction would see if it committed now,
other messages' commits included, has its alerts for every category it has checked. It
holds because nobody adds a checked entry under a budget without its lock, and because
spending that is taken away only lowers the sum (`Flip`, edits to another category).

The module begins with the lemmas this needs, for any function and any finite set: a sum
of numbers is a number (`SumTyped`), it is one term and the sum of the rest
(`SumRemove`), functions that agree have the same sum (`SumAgree`), and a part sums up to
no more than the whole (`SumPart`). The library has no theorem about its folds, and its
induction theorems take an operator. So the induction is by a set instead: the subsets
that a statement holds of are a set `Q`, and if `Q` missed one it would miss a minimal
one, since strict inclusion is well-founded on the subsets of a finite set
(`SetInduction`). The recursive function inside the fold is named (`Iter`), shown to exist
(`Levels`) and to satisfy its equation (`IterDef`).

Second part of `BudgetsProofs`: an instance of `AccountBook` (any users, accounts, drafts,
currencies, amounts, entries, transfers, goals, handlers and bounds; each statement has
`AccountBookAssumption` as its hypothesis): `AccountBookInvariance`,
`CirclesAreOfAccountsHolds`, `NetMovesOnlyByEntriesHolds`, `OneDefaultHolds`, `TrailExplainsTransferHolds`. The writes
use what was read unlocked, and `RequestStands` says how much of that still holds: rows do
not go away, a locked transfer is not reversed, the row that a showing compares with was
one its actor could see. `OneDefault` rests on the unique index alone (`OnlyNewDefault`:
the UPDATE may miss a default, the index then refuses the write); that a row which is
changed and not committed has one holder, and that what was cleared is still the default
until then (`RowsHeld`), says that a clearing is never lost: a request that the index lets
in is the only one that has cleared any (`NobodyElse`). Circles are confined to accounts
because who has a transfer or a goal `FOR UPDATE` is waited for only by requests that hold
nothing (`QueuedHoldNothing`). The trail needs that a
locked transfer has one holder (`OneHolder`). For the net, one step changes one row of
transfers at most (`OneTransferChanges`); the gain of an account is split into that row's
part and the rest, so that two balances shift by opposite amounts (`GainMoves`,
`MoneyMoves`), and the sum over the assets less the sum over the debts stays whichever of
the two sides each account is on (`NetStays`).

Only model-checked: the liveness properties (`EventuallySettled`, `EventuallyResolved`,
`DueIsHandled`, `PendingIsDecided`, `EveryoneAnswered`, `EveryMessageEnds`,
`ShutdownEnds`), since fairness and ENABLED are beyond the prover; and of `SomeoneGoesOn`
and `NobodyStuck` the half that is stated with ENABLED: who waits for nobody can go on.
The other half is `CirclesAreOfAccountsHolds`, and in `Conversation`, where nobody waits
in a circle, `NoCircleHolds`. Every
other property of a passing run has its theorem. `OneOfConfirmAndCancel` is the property
that the code violates.

## 5. Where the code and its documents differ

`services/pending.py:794` (run `pending_shared`): the second read of a shared
occurrence's row locks it but does not refresh what the session loaded first, so a
member's confirm that waited for a cancel executes what was cancelled.

The properties below state what a comment or a document says. TLC finds each of them
violated when the named property takes the place of those in the named configuration
(under `Init` and `Next` alone). They are in no run.

| Property, configuration | Where | The code | What is said |
|---|---|---|---|
| `AttemptsWithinBudget`, `MCEventWorker` | `services/worker.py:169` | a takeover counts as an attempt and is never refused; an event that kills its worker is retried for ever | `docs/architecture.md:401`: the budget includes the first attempt, then `dead` |
| `OneBusinessResult`, `MCEventWorker` | `services/message_processor.py:183` | two attempts that interpret a message differently use different unique keys, so a card and a direct write both commit | `message_processor.py:180`: a re-delivered event skips business entirely |
| `SentNeverReplayed`, `MCReplyOutbox` | `services/replay.py:106` | the result replay reads without a lock and reopens a row that was sent meanwhile | `replay.py:14`: sent rows are never replayed |
| `FailureIsMarked`, `MCPendingConfirm` | `services/pending.py:935` | after the rollback the row is an expired instance; reading it raises, so `failed` never commits | `pending.py:919`: deterministic failures mark the pending failed |
| `SuccessIsWhatWasAsked`, `MCEntryBook` | `client_api.py:1315` | the digest of a PATCH leaves the account out; a key that comes back with another account is answered 200 | `docs/client-api.md:108`: same key, other body: 409 |
| `BookedOnOpenAccount`, `MCAccountBook` | `services/accounts.py:176` | archive and set-default of one account, each reading unlocked, leave an archived default, and entries go to it | `ledger_entries.py:174`: the active default account; archived ones are rejected |
| `GoalInOneCurrency`, `MCAccountBook` with `Currency = {"CNY", "USD"}` | `services/goals.py:19` | an amendment of the currency alone does not look at the accounts that are bound | the docstring: every account of a goal has its currency |
| `AcceptedIsMember`, `NoInvitationForMember`, `MCHousehold` | `services/household_management.py:334` | an invitation can be made for somebody who has just joined; accepted while that member leaves, it changes nothing | `docs/help.md:85`: accepting makes a member |
| `AliasFinds`, `MCHousehold` | `services/household_management.py:429` | "老婆" and "老 婆" are two texts for the index and one for `resolve_payer`; both can be given, and then neither names anybody | `household_management.py:404`: aliases are unique per household and drive deterministic payer resolution |
| `SafeMeansNothingDone`, `MCDeadLetters` | `services/dead_letter.py:562` | the verdict is never given `has_business_result` | `docs/operations.md:229`: safe means no committed result |
| `EveryAlertIsTold`, `MCBudgets` | `web_api.py:1507` | only the chat's reply carries an alert; other channels record it and drop the text | `docs/help.md:324`: told once when 80 % are first reached |
| `TotalIsSet`, `MCBudgets` with `MaxChanges = 2` | `services/ledger_budgets.py:88` | a chat that sets a total meets a Web change that removes it, and the reply's assertion fails | the assertion itself |
| `FailurePersistsNothing`, `MCConversation` | `services/ai_entry.py:374` | after the rollback the answer is appended and committed, once for each retry, without its question | `ai_entry.py:371`: nothing was persisted |
| `FollowsPriorTurn`, `MCConversation` | `web_api.py:1710` | the context is read before the conversation is locked; a turn that commits in between is not in it | `services/conversation.py`, `expand_follow_up`: the facts of the prior turn |

Seen while reading, and no property of a module: a skip that read its occurrence before a
confirm committed overwrites `confirmed` with `skipped` (`services/recurring.py:372`); an
expired command leaves its occurrence pending (`cleanup.py:209`); a photo sent again
between expiry and the sweep is dropped without a reply (`pending.py:603`); with the
reply worker disabled a dead reply stops the later ones of its event
(`message_processor.py:1657`); with the event worker disabled a crash leaves an event
`processing` for good (`events.py:127`); confirm codes can come back after clean-up
although `docs/architecture.md:462` calls them unique; the record of a replayed event is
written in a transaction after the requeue, and a result replay writes none, although
`docs/operations.md:233` says every replay does; a budget that is cancelled and set again
tells its thresholds again (against `docs/help.md:326`); two requests that make the same
account the default can deadlock, and the one that is stopped fails with a server error
and changes nothing (`services/accounts.py:255`, `web_api.py:819`); alerts follow the recurring limit
also in a month whose own budget overrides it; of two equal sentences sent at the same
time both are booked unasked (against `README.md:37` of the repository).

## 6. Not modelled, and the plan

Not modelled: the regular expressions of chat commands (their results are inputs),
queries, reports, insights and exports (reads of committed data), exchange rates (their
failures are the transient failures of the models), schema migrations, the Web front end
and the operation scripts. In modelled components left out: what an executed command
writes beyond its one commit, the arithmetic of months (a schedule with a fixed period
stands for it), the synchronous delivery and its claim of one reply row, the webhook's
checks and payload decoding, the similarity of notes, status and readiness reports,
privacy filters of what is shown, texts, paging and serialization. `PROJECT.json` names
each with its reason.

Next, in this order:

1. `SyncDelivery`: replies sent by the processor itself, with `claim_by_id`.
2. `Calendar`: `next_occurrence_after` and the periods of reports and budgets as pure
   functions against a reference definition over bounded inputs.
3. Proofs of the progress that does not need fairness: a rank that every step of a request
   lowers, in `EntryBook` and `Conversation`.

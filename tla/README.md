# Spliit Cloud: verification

TLA+ models of the parts of Spliit Cloud whose correctness depends on the order
in which several actors act: API procedures, the pg-boss queue, worker
processes, crons and a database that serialises some of their steps and not
others. Every definition is translated from the TypeScript source; `PROJECT.json`
names the lines. TLC checks small instances, TLAPS proves what holds for every
value of the constants.

To check one instance: `tlc -config RecurringSeries.cfg MCRecurringSeries.tla`.
To check the proofs of a component: `tlapm RecurringSeriesProofs.tla`.

## The system

Spliit Cloud is an expense-sharing application. A group of members records
expenses; the API (`apps/api`, tRPC over Prisma and PostgreSQL) computes
balances, keeps an activity log, and plans notifications and webhooks. Long work
goes through pg-boss queues (`packages/jobs`) that live in the same database, so
a job can be inserted in the transaction that makes it necessary. Worker
processes (`apps/worker`) run the jobs and the crons. The web app (`apps/web`)
keeps an outbox of expenses created while offline, and a downloaded copy of each
group to show while offline.

### Components

| Component | State it keeps | Operations | Hard behaviour | What makes it correct |
|---|---|---|---|---|
| Recurring expenses `lib/api/recurrence`, `expenses/update-expense.ts` | series row (status, version, cursor, end rule, catch-up batch), expense rows | materialize, reconcile, resume, stop, delete, edit this-and-future | snapshot before the locks, redelivered jobs, edits read before their transaction, pauses | each occurrence once, in order, announced once; due ones get written; edits reach every row |
| Notification deliveries `lib/notifications/delivery-*`, `worker/notification-delivery.ts` | delivery row (status, lease, token, attempts), one job | plan, claim, send, verdicts, reconcile, clean up | the provider's call is outside any transaction; leases, expiry, shutdown, redelivery | one sender at a time; verdicts true and final; every delivery settles |
| Webhook deliveries `lib/webhooks`, `routers/webhooks` | endpoint, delivery row, attempts, one job | plan, claim, send, reconcile, cancel, redeliver, clean up | claims without a token, cancellation in mid-flight, redelivery | one message per request unless a verdict is lost; SENT and failed are true; cancelled stays cancelled; every delivery settles |
| Notification planning `lib/notifications` (planner, coordinator, dispatch) | deliveries to insert, presence debounce | plan per event and recipient | planned in the mutation's transaction | nobody left out, nobody told twice |
| Jobs `packages/jobs` | pg-boss queues, dead-letter queues | send, insert, retry, expire, replay | exclusive keys drop sends | a job is not lost while its row needs it |
| Worker `apps/worker` | running handlers, cron leases | handle, schedule, stop | graceful stop fails running jobs | handlers tolerate being run twice |
| Group archiving `archive.procedure.ts` | `Group.archived` | archive (forced: with settlements), unarchive | only creates wait for its lock; resumes series after its transaction | an archived group has no balances; no series stays paused |
| Expense mutations `lib/api/expenses` | expenses, payees, items, activity | create, update, delete | optimistic versions; creates lock the group, edits and deletions do not | edits hit the version they saw; nothing is written into an archived group by a create |
| Idempotent creation and the outbox `lib/api/idempotency.ts`, `web/src/lib/offline`, `web/src/lib/services/pending-expense-flush.ts`, `use-idempotent-create.ts` | request ids with their results; outbox rows by tab-shared storage | submit, queue, flush, retry, replay | a lost answer makes the client send again; two tabs flush at once; a form that was queued may be submitted again | an effect at most once per request id; nothing reported saved is lost; every queued row settles |
| Offline downloads `web/src/lib/offline` (`repository`, `sync`, `lifecycle`) | per browser: control record (generation, revision, lease), catalog, copies; per tab: engine, mutation handlers, lifecycle | download pass, mutation, eviction, sign out, sign in | tabs share one store; fetches outlive what they were fenced with | a copy shows this browser's own mutations or is marked stale; nothing downloaded before a sign-out comes back; stale copies get refreshed |
| Money `packages/domain`, `lib/api/balances.ts` | none (pure) | split, itemize, convert, distribute remainders, balances, suggested settlements | cents of all expenses are rounded together, so one more expense may move them | nobody is more than a cent off; paying one suggestion leaves the others |
| Invitations, members, participants `lib/api/members.ts` | invitations, memberships, participants | invite, accept, revoke, join, leave, remove, change roles | balances and admins are read, then others act, then it is written; no locks | who leaves has settled; a group keeps an admin |
| Bulk categorization `lib/api/bulk-categorization*` | a run and its rows per group, one job | start, calibrate, confirm, correct, rerun, save, retry, discard | long AI calls outside transactions; a phase superseded while its worker works; two admins | every selected expense is suggested or still to do; an admin's corrections stay; what is saved is what was seen |
| Import and export | import documents, export jobs | import, export, expire | partial failures | nothing half imported |
| Accounts `lib/lifecycle`, `lib/auth` | account, sessions, OAuth grants | sign in, delete, consent | deletion with work in flight | a deleted account acts no more |
| Announcements, budgets | announcement state, thresholds | publish, alert | retries of a fan-out | one alert per threshold |
| Currency rates, documents, OCR, AI, MCP, relay, web UI, Android | caches, files | fetch, store, render | external services | outside these models |

### How they interact

A mutation commits expense rows, activity rows, notification and webhook
deliveries and their jobs in one transaction. Workers take jobs from pg-boss
(`claim`, then handler, then `complete` or `fail`), each in transactions of its
own, and the handler opens further ones. Crons (`recurring.reconcile`,
`notification.reconcile`, `webhook.reconcile`, cleanups) read pages of rows in
one query and send a job per row in later ones. All queues used here are
*exclusive*: a send whose singleton key is queued or active is dropped.
The API reads rows before it opens a transaction and re-checks some of them
inside. The web app's tabs share storage, not memory: an outbox without any lock
and a store of copies with a fence. Nothing else is shared.

## Modules

| Module | Models |
|---|---|
| `OccurrenceLog` | abstract: the numbered log a recurring expense promises its group |
| `RecurringSeries` | a series with its rows, jobs, workers, reconciler and member mutations |
| `RecurringSeriesProofs` | its theorems |
| `MCRecurringSeries` | instances for TLC |
| `NotificationDelivery` | a delivery row with its job, workers, provider calls, crons |
| `NotificationDeliveryProofs` | its theorems |
| `MCNotificationDelivery` | instances for TLC |
| `WebhookDelivery` | a webhook delivery row with its job, workers, requests, crons and the endpoint's owner |
| `WebhookDeliveryProofs` | its theorems |
| `MCWebhookDelivery` | instances for TLC |
| `CreateOnce` | abstract: of what is asked for under a request id, one thing is made, once |
| `IdempotentCreate` | the server's side of creating an expense under a request id |
| `ExpenseOutbox` | the form, the outbox, the flushes of two tabs, composed with the server |
| `ExpenseOutboxProofs` | its theorems, among them the refinement of `CreateOnce` |
| `MCExpenseOutbox` | instances for TLC |
| `OfflineRepository` | the transactions of the store of downloaded groups |
| `OfflineDownloads` | the tabs that download, mutate, sign in and out, over that store |
| `OfflineDownloadsProofs` | its theorems |
| `MCOfflineDownloads` | instances for TLC |
| `BulkCategorization` | a group's categorization runs with workers, admins and the expenses |
| `BulkCategorizationProofs` | its theorems |
| `MCBulkCategorization` | instances for TLC |
| `Balances` | what an expense means for its participants, balances, suggested settlements: operators |
| `BalancesProofs` | what holds of those operators, by induction over data |
| `GroupLedger` | a group's expenses and members under creates, edits, exits, roles and archiving |
| `GroupLedgerProofs` | its theorems |
| `MCGroupLedger` | expenses of every kind for TLC |

### RecurringSeries

A database transaction that holds the Group and Series row locks is one action.
What the code read *before* it is state of its own, so that any other
transaction may come in between: `runs[w]` is the snapshot `materialize.ts` takes
(version, template, sequence and date of the job), `page` the due series
`reconcileDueRecurringExpenses` has read but not sent, `editing` what
`updateExpense` has read.

`status`, `version`, `created`, `anchor`, `interval`, `end`, `nextDate`,
`nextOrd`, `batch` are the columns of the series row (`nextOrd` and `created` are
different numbers: a resume moves the first only). `rows` are its expenses as
(sequence, date, template generation). `jobs` is the exclusive queue with its
key (sequence, date), `dead` the keys in its dead-letter queue.

Worker: `Claim` (queue hand-out and snapshot), then `Skip`, `PauseArchived` or
`Materialize` (the transaction), then `Ack`; `Throw`, `Crash` and `Expire` are the
ways a run goes wrong. A crash after the commit is `Crash` with `done`, one in a
transaction is `Crash` without. Crons: `Resume`, `ScanDue`, `SendDue`. Members:
`Archive`, `Unarchive`, `Stop`, `DeleteOne`, `DeleteFuture`, and an edit
THIS_AND_FUTURE in two steps, `EditRead` and then `EditConflict`, `EditDetach`,
`EditTerminal` or `EditLive`.

Abstracted: money, payees, documents and conversion rates are part of the
template's generation `tpl`; the schedule is an interval of days (the monthly
and yearly date arithmetic of `calculateRecurrenceDate` is not modelled);
an edit THIS_AND_FUTURE anchors at the edited row's own day because
`preserveRecurringCalendarDates` (`update-expense.ts:87`) takes the calendar date from
the stored row and only the time of day and the zone from the submitted one;
`anchorTimeMinutes` is fixed in the afternoon; group and series locks are the
atomicity of the action.

### NotificationDelivery

The row (`status`, `token`, `lease`, `attempts`), its one job, and per worker a
program counter through `handleNotificationDelivery`. Time is countdowns:
`lease`, the provider's `Budget`, the job's `Expiry`, the ages the crons test.
`Tick` decrements them all; it cannot pass a provider call over its budget, because
the sender's own timeouts end the call by then, and when it passes a worker that
is between two steps the behaviour pays with a fault and, if the worker was
between claim and verdict, sets `stalled`. Properties that need the lease to
outlive the call say `~stalled`: that is the assumption the code makes when it
checks `SMTP_OPERATION_BUDGET_MS < DELIVERY_LEASE_MS`.

`Shutdown` is a graceful stop that runs out: pg-boss fails the job, fires the
abort signal, and the handler runs on. `Expire` is pg-boss's `expireInSeconds`.
`owns` says whether the run's job id is still that of the queue's job: a run
whose job was dead-lettered or completed can end no later one. `MarkSentFails`
is the path where `markSent` throws inside the same `try` as the provider's call.

`Withhold` is the path on which nothing is sent: the mail sender counts invitation
and friend_added mails against a daily quota of their sender and of their recipient
(`outbound-email-rate-limit.ts`), and when one is used up `send` returns normally
without calling the provider. The handler takes that for success and records SENT.
`userMail` says that the row is such a mail. The counters are not modelled: they
belong to the process and are shared with every other mail of that kind, so any
call may be the one too many, and a retry counts again. Hence `VerdictIsTrue` says
of a SENT row that it was accepted, or that it is a `userMail` which the limiter
`withheld`; no other row may say SENT without having been accepted.

The token, a UUID in the code, is the number of the claim: UUIDs are taken not to
collide. `keep` and `young` are `terminalAt` and `createdAt` with the retention
periods and `RECONCILE_PENDING_MIN_AGE_MS`.

### WebhookDelivery

Like `NotificationDelivery` it is one row, its job and the workers' program
counters, here through `handleWebhookDelivery`. The difference is in the code: a
claim carries no token and no lease. The row says PROCESSING, and whoever finds it
PROCESSING may write the verdict. So the model has no owner either.

Each database call of the handler is an action: `Read`, `CancelUnfit`, `Claim` or
`Refuse`, `OpenAttempt`, then the request (`Accept`, `Decline`, `LoseReply`), then
`MarkSent` or one of `RecordPermanent`, `RecordRefused` and `RecordFailed` for
`recordFailure`, and `Reread` for the `catch`. They are three because a failure leads
elsewhere from each place it is recorded at: `RecordRefused` is the HTTP failure,
which is thrown inside the `try` when it is to be retried, so that its own `catch`
looks at the row again. `MarkSentFails`, `CallFails` and `HealthFails` are failed
database calls. The attempt's number is `runs[w].seen + 1`, from the first read, and
the unique index on (deliveryId, attempt) makes `OpenAttempt` throw when it is taken.

The owner's procedures are `Disable` (also a new URL), `Enable`, `FilterRead` and
`FilterCancel` (the two queries of `cancelPending` with event types), `AskRedeliver` and
`Redeliver` (the checks and the transaction of `redeliver`), `Delete`; `Entitle` is the
owner leaving or joining the group, or becoming uninvolved. The reconciler's three
queries and its sends are `ScanStale`, `Recover`, `ScanPending`, `SendPending`.

There is no clock. What takes minutes (`Expire`, `Wake`, `Age`, `Cleanup`) is an action
that may happen at any time, but while a handler runs it costs a fault and sets
`stalled`, since a handler that works as written is done within seconds. It can
stall: names are looked up without a timeout and a host's addresses are tried one
after the other for ten seconds each, against the 60 s of the job. `crossings`
counts how often a handler started beside a running one or the reconciler put the row
back under one: from then on two handlers may pass verdicts on one row, each on the
other's claim. `before` and `requests` count for the properties what was accepted
before the last resend, and the resends.

`OncePerRequest` charges each crossing with one message and exempts nothing: however
the verdicts of crossed handlers fall on each other's claims, a crossing costs at most
one message more than was asked for. What crossed verdicts can do to the row itself
the code leaves open: one handler's late SENT ends the claim another made for a
resend. `SentForThisRequest` says only that this needs a crossing.

Abstracted: of an attempt row only its number; eligibility, membership and
involvement are one flag `entitled`; test events, which ignore `enabled`, and events
with `allowAfterDelete`, which ignore membership, follow the same path with that
check left out; signatures, payloads and the relay are left out.

### IdempotentCreate and ExpenseOutbox

`IdempotentCreate` is `runIdempotentCreate` as the create procedure calls it, one
`calls[c]` per request the server is serving: `Authorize` (membership, the archived
group), `Find` (the lookup before the transaction), `Prepare` (rates, documents),
`Begin` (the insert of the key in the transaction; it waits while another
transaction holds the same key and fails when that one commits), `Execute` (the
expense, the stored result, the commit), `Reread` (the unique violation). A request
goes on when its caller has given up on it. `PrepareFails`, `Abort` and `ServerDies`
are its failures; `Archive` and `Depart` what other members do to the group meanwhile.

`ExpenseOutbox` puts the client around it. `form` is the create form with the
request id it keeps until its create is reported saved; `Submit` is the guard's
`onMutate`, `LinkSends` and `LinkQueues` its link, which looks at the transport a
second time. `row` is the outbox, which all tabs share and no lock protects.
`flush[f]` is the flush of a tab: `StartFlush` lists the rows once,
`FlushSends` and `FlushUnreachable` try one, `FlushAnswer` classifies the answer
(`Disposition` is `classifySendError`), `DeleteRow` or `ReadRow` and `PinRow` mark it
in storage calls of their own. `MarkFails`, `TabCloses`, `GoOffline` and lost answers
(`FormHangsUp`, `FlushHangsUp`) go wrong.

Abstracted: the content of an expense is one of two payloads, of which some name a
participant who may leave; backoff delays are left out, their number is `Retries`.
`posted` is what each request id has put in the ledger, `wanted` what was submitted
under it: both serve the abstract specification.

### OfflineRepository and OfflineDownloads

`OfflineRepository` has one operator per IndexedDB transaction: `control` is the
control record (generation, revision, lease, revoked), `rows` one copy per group,
which stands for its metadata, data and expenses, always replaced together.
`Fence` is what a download's write meets.

`OfflineDownloads` adds the tabs. `pass[t]` is a run of the sync engine: `StartPass`,
`Acquire` (the session, then the lease), `ReadControl`, `FetchCatalog`,
`CommitCatalog`, `Inventory` (group by group), `NextGroup` (the fence is read),
`FetchSnapshot`, `CommitSnapshot`, `EndPass`; `Renew` and `Abort` are the timer and
the abort signal. `handler[t]` is a mutation's success handler, which reads the
control record in one transaction and writes in the next. `life[t]` is
`lifecycle.ts`: `SignOut`, `ConfirmedSignedOut`, `HearRevoked`, `Focus`, `Delete`,
`Verify`, `Reopen`. `LeaseExpires` stands for 30 seconds without a renewal. It is
an event (a suspended tab) when the owner's pass is still running.

Abstracted: a group's content is the server's version of it. `noted`, `epoch`,
`overlapped` are for the properties: the newest mutation whose handler has run, the
deletions of the whole store so far, and whether a tab took the lease from another
one's running pass. `Removals` lets the store start with a generation from catalogs
that dropped groups earlier, which two generations in memory can disagree about.
A tab signs in again only after its old pass has ended, and reactivating the store
is one step with clearing the revocation marker. Storage quotas and faults of the
deletion, rate limits, the wait for visibility, switching accounts and
`markGroupsDirty`, which nothing calls, are left out.

### BulkCategorization

`run` and `rows` are the group's `BulkCategorizationRun` and its rows, `job` the one
job the queue holds: the queue is exclusive and its sends carry no key, so a job of
another group's run (`Foreign`) makes it drop ours. `ledger` is the expenses'
versions and categories, which members edit and delete underneath (`EditExpense`,
`DeleteExpense`).

An admin's procedures: `StartRead` and `StartCommit` (the capture is read before the
transaction), `EditSuggestion`, `ConfirmRound`, `Rerun`, `SaveRead` and `SaveWrite`
(rows locked, then written, or `SaveRollsBack`), `RetryRead` and `RetryCommit`,
`Discard`; `Enqueue` sends the job after the transaction has committed, so that
`ApiCrash` may lose it. `Look` is the page: what an admin confirms or saves carries
the revision it displayed.

A worker: `Take`, `Claim` (by status, attempt and a fresh token), `Begin`, `Suggest`
(the AI call, with the rows as they were read), `Checkpoint` (suggestions and
progress under the token), `Mark` and `SecondPass`, `FinishCalibration`,
`FinishFull`, `FinishRerun`; `Obsolete` and `Superseded` leave when the run has
moved on, `Throw` and `FailRun` when something failed, `Shutdown`, `WorkerCrash` and
`Expire` are the queue's.

Identifiers and tokens are numbers drawn in order (`drawn`). Abstracted: what the AI
suggests and how sure it is is left open; the page is read in one step though the code
uses two queries; roles, the limit of 10,000 rows, paging and the operator's replay of
dead jobs are left out. So are the series scopes of a save
(`category-bulk.ts:406-453`): they also write the template and the other rows of the
series, which the page did not show, and `SavedAsSeen` says nothing of such a save.
The branch of `claim` that takes over an expired lease asks for a second delivery of
the same attempt, which this queue never makes.

### Balances and GroupLedger

`Balances` is arithmetic, translated function by function: exact fractions
(`exact-math.ts`), the exact share of each participant (`ExactShares`, `ItemShares`,
`PaidShares`, `OwedShares`) in every split mode, itemized or converted, the
distribution of left-over cents (`Distribute`), balances (`GetBalances`) and the
pairing of creditors with debtors (`SuggestedSettlements`). Participants are numbers
in the order of their ids, amounts are cents, and recursion is by recursive
functions and folds; `Queue` and `Picked` are the sort and the filter of
`getSuggestedSettlements`, told by how many come before an element. `IsExpense` is
what `expenseApiSchema` lets through. Two things are idealised: the code's floating-point products are
exact here, with `Math.round` as the floor of x + 1/2; and a conversion is given by
its two amounts.

`GroupLedger` is the group around it: `ledger` (expenses with their versions),
`active`, `admins` (the role stays with those who left), `hidden` (participants with
`removedAt`), `archived`. `call[m]` is what a member's procedure has read and keeps.
The code reads balances through the global client, outside of the transaction that
writes the settlements, so look and write are steps of their own: `LeaveChecks`,
`LeaveReads`, `LeaveWrites`; `RemoveChecks`, `RemoveReads`, `RemoveWrites`; `RoleChecks`,
`RoleReads`, `RoleWrites`; `ArchiveLocks`, `ArchiveReads`, `ArchiveWrites`. Creates,
updates and deletions of an expense are a read and a write, the update with its
version claim. `Abort` rolls a transaction back. `Settle` writes the settlements as
the code does, one expense per leg.

`archiveGroupProcedure` takes the group's row `FOR UPDATE` and creates take it too
(`Locked`); edits, deletions, exits and roles do not. Where a group has a subscribed
webhook endpoint, their insert of a webhook event refers to the group's row and waits
for it; the races here are those of groups without one. `seen`, `due` and `raced` are for
the properties: the members as a call has seen them, the balances it was shown and is
settling, and whether something without the lock has committed since an archiving
took it.

What these races do is not hidden behind a condition. An exit, or an archiving that is raced,
may leave balances in this code, so no property says that it does not; what is left
must be exactly what others have written since the look
(`ExitSettlesWhatItSaw`, `ArchiveSettlesWhatItSaw`: the balance changes by `due`, to the
cent, in whatever ledger the settlements land). Nor does the code keep an admin when two
of them demote, remove or leave at once. `AdminLostToRaceOnly` says what is kept: a call
counts on somebody, and the last admin is lost only after other calls have taken
everybody it counted on. The settlements add up so only in ledgers whose expenses are
`Ordinary`; the others are the finding of `ForcedArchive`.
 `Menu` and `Members` stand for
what users enter.

## Runs

| Run | Instance | Shows |
|---|---|---|
| `RecurringSeries` | 2 workers, one member mutation, 5 half days, retry limit 1, 3 end rules | written once, in order, on time, never while paused; numbers and dates agree; announced once; nothing held back for ever |
| `RecurringEdits` | 1 worker, 3 member mutations, intervals 1 and 2, 3 end rules, fair | after edits no row is outside the end rule or has the old template, also rows written around the edit; the series implements `OccurrenceLog`; a due occurrence is written, a paused series of an open group resumed |
| `NotificationDelivery` | 2 workers, 3 faults, retry limit 1, fair | no resend without a lost verdict, verdicts true (mails held back by the quota apart) and final; every delivery settles |
| `WebhookDelivery` | 2 workers, 2 operations of the owner, 2 faults, retry limit 1 | one sender unless a handler stalls; accepted messages are those asked for, and one more for each lost verdict and each crossing of handlers; a SENT belongs to the last request unless handlers cross |
| `WebhookLive` | 1 worker, 1 operation, 1 fault, fair | every delivery settles |
| `ExpenseOutbox` | 1 request id, 2 contents, 3 requests at the server, 2 tabs, 2 faults, fair | an expense is posted once for its request id, whatever is lost or sent again; what was reported saved is posted or in the outbox; client and server implement `CreateOnce`; queued rows settle |
| `OfflineDownloads` | 1 group, 2 tabs, 2 events of which 1 sign-out | no download undoes a mutation of this browser, none brings back what a sign-out deleted, none replaces a newer copy |
| `OfflineLive` | 2 groups, 2 tabs, 2 events, fair | a copy marked stale is refreshed or dropped |
| `OfflineSignOut` (violation) | 1 group, 1 tab, 1 event | signed out in every tab, and the copies are still on the disk |
| `BulkCategorization` | 3 expenses, 2 admins, 2 workers, 3 changes to a run, 5 ids drawn, 1 event | a run in review has no row left to do; corrections stay; only what was displayed is saved |
| `GroupLedger` | 4 members of whom 3 or 1 are active at first, at most 1 expense of 3 kinds at first, 2 calls | nobody is more than a cent off; paying one suggestion leaves the others; exits and archivings change balances by what they were shown, to the cent, whatever came in between, and an archived group is settled unless something without the lock did; the last admin is lost only when all that a call counted on were taken by others |
| `ForcedArchive` (violation) | the same with refunds, excess items and converted two-payer expenses, 1 call | archived by force, and not settled |

### Bounds, and why they are enough

`RecurringSeries`: with `Start = 2` the series is created on day 1 with its anchor
on day 0, so it starts with one missed occurrence and the catch-up batch is
used; up to `MaxClock` two further days come due, so a batch opens, grows and
closes and a single occurrence follows. Two workers are enough for one to hold a
stale snapshot while another writes; the retry limit of 1 gives a first run, a
retry and the dead-letter queue. One mutation in the two-worker run is enough
for each race of a worker with a member; `RecurringEdits` has three so that an
edit can follow a delete and another edit. `MaxClock` and `MaxOps` are the only
bounds and stand in the guards of `Tick` and `Mutate`. Behaviours stop when both
are used up, hence `CHECK_DEADLOCK FALSE` in these runs; the code's clock does
not stop.

`NotificationDelivery`: `Budget = 1 < Lease = 2 < Expiry = 3` are the smallest
numbers that satisfy `assertDeliveryTimeoutOrdering` and let a tick fall in each
interval. Two workers are one owner and one usurper. Three faults give, say, a
shutdown, a stall and a lost verdict. There is no bound on time: countdowns end
at 0 and a lease at -1. Attempts are bounded because each of them needs a queue
retry (bounded), or an elapsed lease that only a fault leaves behind. Deadlock is
checked.

`WebhookDelivery`: two workers, so that a run that lost its job meets the one that
got it. Two operations are a disable and an enable, or one of the two-step
operations around any other; a resend of a delivery canceled by a disable needs
three with the enable, but the look at the endpoint comes before, so that two
already reach it. Two faults are, say, a shutdown and a lost verdict. The code's
retry limit is 8; with 1 there is a first try, a retry and the dead-letter queue.
`MaxOps` and `MaxFaults` stand in the guards of `Operate` and `Fault`, and an
operation in two steps counts with its first; attempts are
bounded by retries, resends and the reconciler's, each of which follows a fault or
an operation. A settled or deleted delivery whose job is gone stops the system,
hence `CHECK_DEADLOCK FALSE`. `WebhookLive` has one worker only for the size of the
liveness graph; what makes a delivery depend on the reconciler (a lost claim, a
dropped send, a dead-lettered job, no job) needs no second one.

`ExpenseOutbox`: requests of different ids never meet in the code (rows, keys and
answers are all looked up by id), so one id is enough; `MaxKey` bounds how many the
form draws. Three request slots are the form's, abandoned, and one for each tab.
Two contents, so that the same id can be submitted with another. Two faults are,
say, a lost answer and a departed participant. `Retries` is 1 for the code's 3.
`MaxFaults` stands in `Fault`, which pays for everything unforced, `GoOffline` too.
The system stops when the form has used its ids and the outbox is settled.

`OfflineDownloads`: groups meet only in the catalog and in the shared control
record, so the two-tab safety run has one; `OfflineLive` has two, where a targeted
pass for one leaves the other alone. Two events give every pair of a change, a
mutation, a suspended tab, a failed fetch, a reopened tab and a sign-out.
`MaxEvents` and `MaxSignOuts` stand in `Event` and `SignOut`.

`BulkCategorization`: with `ChunkSize = 1` and `SampleSize = 1` three expenses make a
sample and two chunks, so that a worker can be superseded between chunks. Two
admins save and edit against each other, two workers are one superseded and its
successor. `MaxRevision = 3` bounds the changes to one run: for instance a
confirmation, a correction and a rerun. `MaxDrawn = 5` bounds the starts, phases
and retries together, so a calibration and a full pass fit with one more phase,
start or retry. A retry is read, and the ten minutes it waits for pass, only while
a retry fits both (`MayRetry`). `MaxEvents = 1` is one change by somebody
else or one fault. `Bounded`, `Draw`, `MayRetry` and `Event` are the guards. What is allowed
within them has 3.3 million states and takes TLC about two and a half minutes; the safety
theorems below have no bounds.

`GroupLedger`: four members, so that an expense can be shared by three who did not
pay it; all of the first three active, or the fourth alone (the last one who leaves, or
archives for himself). `MaxCalls = 2` is every pair of calls, each of up to three
steps; with one expense at first and two creates that makes three. `Menu` has three
kinds of expense: `Thirds` (whose cents do not come out even), `Dollars` (converted, by
percentage) and `Receipt` (itemized, two payers, a proportional rest). `ForcedArchive`
adds `Refund`, `Euros` (converted, two payers), `Hole` and `Excess` (items nobody
shares, items beyond the expense) and needs one call only. `MaxWritten` bounds `Init`,
`MaxCalls` the guard of `Begin`. The calls run out, hence `CHECK_DEADLOCK FALSE`.

### Fairness

`RecurringEdits`: weak fairness of the two crons (`recurring.reconcile` runs every
minute), of pg-boss's expiry and hand-out, and of a handler's own steps. No
fairness of clock, members, crashes or failures: the series must be written
whatever they do, and the property lets dead-lettered jobs off because the code
does (`hasDeadLetteredMaterialization` leaves them to an operator).

`NotificationDelivery`: the same for queue, cron and handlers, and strong fairness of
`Tick`, since time always passes; `Tick` is at times disabled only because a fault
budget pays for time that passes a worker between two steps.

`WebhookLive`: weak fairness of hand-out, handlers and the reconciler's second steps;
strong fairness of `Expire`, `Wake`, `Age` and the two scans, because minutes pass again
and again at times when no handler runs, which is when these actions are free. No
fairness of the owner, of `Cleanup` or of failures.

`ExpenseOutbox`: weak fairness of the server's steps, of the form's and of the flushes,
of reconnecting and of starting a flush (the app launches, reconnects, or the user
retries). A row whose content names a departed participant is let off: the
server's plain error for it is classified as transient and tried for ever.

`OfflineLive`: weak fairness of a tab's engine, handler and lifecycle steps and of lease
expiry, and of `Trigger`: somebody comes back to the tab, since a targeted refresh that
loses the lease is forgotten and only a launch, reconnect or return asks again.

## What disagrees with the documentation

Two sentences of the source claim what the code does not do; each is a run that expects a
violation and an entry under `findings`:

1. `OfflineSignOut`: signing out "clears persisted A data" (`lifecycle.ts:850`). The
   deletion is asked for with the tab's generation counted up in memory, and is refused
   unless the stored one is equal, that is unless exactly one catalog that dropped groups
   has moved the store on since the tab read it. A retry asks with the same number, and
   the copies stay on the disk behind the revocation marker.
2. `ForcedArchive`: a forced archive's settlements make it match "a zeroed-out ledger"
   (`archive.procedure.ts:38`). A refund of 2 cents to one of four who share it evenly
   gives balances of +1 and -1, and the settlement of 1 cent moves the cents that are
   left over to others: +1 and -1 again. The same happens to the converted cents of two
   payers.

These have no run:

- The comment on `compareBalancesForSettlements` (`balances.ts:416`), that executing a
  suggestion does not result in new ones, fails for the same ledgers. The properties
  that rely on it say `Ordinary`: both sides of every expense add up to it in shares
  none of which is negative (`AddsUp`).
- `docs/webhooks.md:446`: "unsubscribing an event type cancels that type's pending
  deliveries". The rows are read as pending and canceled by id
  (`routers/webhooks/index.ts:117`), whatever their status is by then: one that was sent
  in between reads CANCELED.
- The outbox pins a row as failed, for the user to fix, when the server answers with a
  rejection. `replayExisting` is reached only after the archived check
  (`create.procedure.ts:36`), so a retry of a create that succeeded before the group was
  archived is answered FORBIDDEN, and its row says failed though the expense was posted.
- `series-ops.ts:320`: on resume "the anchor is moved to the resumed date". It is not,
  so an edit of an earlier row that leaves the schedule alone recomputes the cursor
  from the old anchor and writes the dates skipped while archived. For the same reason an
  edit that leaves the schedule alone keeps rows past an end rule that an edit in between
  had drawn in: the theorem `EndsRespected` had to be told since when a rule is in force.
- `materialize.ts:325`: "If the series terminates after this occurrence, don't
  suppress". The batch that a schedule edit seeds starts at count 0; if its one
  occurrence ends the series the batch closes with one row and nothing announces it.
- `update-expense.ts:872`: "A cancelled series must never become completed, and
  vice versa." Removing the recurrence sets CANCELLED whatever the status was.
- `docs/webhooks.md:443`: a resend "is unavailable while a delivery is queued or in
  flight". A delivery canceled in mid-request can be resent at once.
- `delivery.ts:67` says "Only the claim owner (PROCESSING) may transition back to
  PENDING or to a terminal failure state", which the code takes to mean any run that
  finds the row PROCESSING. A run whose claim was superseded passes that test, but
  only if its handler stalls for minutes; the model has these behaviours (`stalled`,
  `crossings`).
- `bulk-categorization-run.ts:1324`: a retry reads the failed run in one query and
  requeues it in another that checks the revision, which `finishPhase` does not bump.
  A phase that finished in between is put back. Such a run can end its full pass and stay
  PROCESSING, with no worker left to finish it.
- The bulk queue is exclusive and its sends carry no key, so a run started while
  another group's job is queued or active loses its send. The procedure notices
  and marks the run failed, and the admin must retry.
- Because `finishPhase` does not bump the revision, only the page's own polling
  keeps an admin from saving suggestions that were not displayed yet;
  `SavedAsSeen` holds because the save also names what it leaves out.

## Proofs

`RecurringSeriesProofs` proves, for any set of workers, intervals, anchors, end
rules, retry limit and bounds, from `ConstantsAssumption` and `NoBatchAssumption` (a
null catch-up batch is not a batch):

- `Types`: `Spec => []TypeOK`
- `Agreement`: `Spec => []CursorAgrees`. The sequence of no row exceeds `created`,
  rows with one number are one row, `nextDate` is the date of `nextOrd`.
- `SaidOnce`: `Spec => []AnnouncedOnce`
- `InOrder`: `Spec => WrittenInOrder`
- `Refinement`: `Spec => Log!LogSpec`
- `EditsReachAll`: `Spec => []EditReachesAll`
- `EndsRespected`: `Spec => []EndRespected`
- `LeftUnsaid`: `Spec => []NothingLeftUnsaid`

The inductive invariant `IInv` adds three facts to the properties.
`SaidBehind`: everything announced ends below the open batch's first number, so
a batch that closes announces new numbers only; without it `AnnouncedOnce` is
not inductive. `RunsDue`: a run's date was due when its job was taken, and the
clock does not go back, so the guard `AtCursor` of the transaction implies that
what it writes is due. `EditAhead`: the rows an editor has read lie behind
`created`, so a re-anchoring cannot put a row in front of the cursor.

What edits promise needs `EInv`: a run that has read the current version holds the
current template (`RunsCurrent`), and of the rows with later numbers an editor that
has read the current version has read all (`SnapshotCurrent`). Every write moves the
version or finds it moved, so what was written around an edit is either in what the
editor read or is refused. `EndRespected` speaks of the rows behind the last edit
that changed a live schedule (`endFrom`): an edit that leaves the schedule alone moves
the template's first row back and keeps rows that the end rule was never applied to.
`LeftUnsaid` needs `Untouched`: as long as no member intervenes, a batch that is open
has at least one occurrence, so it announces something when it closes.

`NotificationDeliveryProofs` proves, for any set of workers and any timeouts with
`Budget < Lease < Expiry`:

- `Types`, `Exclusive` (`OneSender`), `NewestKeeps` (`NewestKeepsRow`), `Resends`
  (`ResentOnlyIfLost`), `Truth` (`VerdictIsTrue`), `Final` (`Spec => VerdictIsFinal`)

Its invariant `IInv` is `TypeOK` and five facts: `TokenOK` (the row's token is that
of the newest claim or null; no run has a newer one), `TokensDiffer` (two runs
with a claim have different tokens), `NewestKeepsRow`, `LeaseOutlivesCall` (the
owner's remaining budget is below the row's remaining lease unless it stalled:
this is where `Budget < Lease` enters) and `Accounted` (messages accepted, minus
lost verdicts, are those the row or the owner's run accounts for; a run that was
held back, and a SENT row nobody accepted, belong to a user-caused mail). `OneSender`
follows: a claim needs an elapsed lease, and a caller's lease has not elapsed.

`WebhookDeliveryProofs` proves, for any finite set of workers, retry limit and bounds:

- `Types`, `Requests` (`OncePerRequest`), `Sent` (`SentForThisRequest`), `Senders`
  (`OneSender`) and `Revives` (`Spec => NothingRevived`, which no run lists and which
  needs no invariant: every guard is in the step)

Its invariant is `TypeOK` and three facts. `Covered` is an account that needs to know of
no claim whose it is: the balance (requests, lost verdicts and crossings, minus accepted
messages) is at least one for each handler that may still have its message accepted or
pass two verdicts (`Due`), one for the row when it waits or says it failed, or is in
flight with no handler left to stand for it (`Owed`), and one for each live handler but
one (`Spare`). A live handler other than the first came by a crossing, which paid for
it: with that it can turn another's claim back into a waiting row once, and then it is
through. `Covered` is stronger than `OncePerRequest` also because a resend during a
canceled request lets two messages through for two requests, which the property alone
does not remember. Handlers are counted, so `Workers` has to be finite. The other two
facts are about behaviours in which handlers do not cross, as `SentForThisRequest` is:
`LoneRun` (at most one handler runs) and `Answered` (a message about to be recorded, or
recorded as SENT, was accepted after the last resend).

`OneSender` has an invariant of its own, `SInv`. Claims carry no token here, and the
argument is about who can hold the row while nobody has stalled and there was one
request (`Calm`). `Jobs`: of two handlers at most one owns the job, and one that lost
it is in its last try for good. `Claims`: two handlers are past their claims only when
the later one claimed what the earlier had put back, which is about to end. `PutBack`:
a row back in the queue has no handler past its claim but the one that has put it
back, or one whose job waits for another's retry. `Aging`: a claim grows old only when
its handler is gone, so the reconciler takes a row from nobody. The theorem rests on
minutes not passing during a handler, on the queue's key and on the reconciler's age
test together.

`ExpenseOutboxProofs` proves, for any number of request ids, contents, requests,
tabs, retries and faults:

- `TypeCorrect` (`TypeOK`), `PostsOnce` (`PostedOnce`), `LosesNothing` (`NothingLost`),
  `NeverProcessing` (`NeverHalfDone`), `Implements` (`Spec => PostsOnceAbstract`).
  `PostedOnce` and `NeverHalfDone` are in no run: the refinement says the first, and
  the second is about the server alone.

The invariant says of every place a content travels through (the form, a request, an
outbox row, a flush's list) that it was submitted under that request id; that at most
one request per id has its transaction open, and that its id is not taken, which is the
unique index with its wait; and that an answer `ok` and a flush about to delete a row
mean that the id is posted. A saved create is then posted or has a row, and
only such a flush removes one.

`OfflineDownloadsProofs` proves, for any groups, tabs, former removals and bounds:

- `TypeCorrect` (`TypeOK`), `KeepsWrites` (`ReadYourWrites`), `NothingReturns`
  (`NothingFromBefore`) and `NewerOnly` (`Spec => NewestStays`)

`Sound` says of a pass that holds a fetched copy: if its generation and revision are
still current, the copy is at least as new as the last noted mutation and of the
current epoch. It holds because the fence is read *before* the copy is fetched. A
mutation that is noted after that moves the revision, a deletion moves the
generation. `Noted` (no noted version is ahead of the server's) and `Handlers`
(what a handler will note is not either) make the fetch itself sound, and
`Passes` keeps fences from the future away: no pass knows a generation, or within
the current one a revision, that the store has not reached.

`NewestStays` rests on the lease instead, by `LeaseInv`: unless a lease was taken from a
pass that was still at work (`overlapped`), at most one pass may write (`Lone`), and what
it has fetched is at least as new as what is stored (`Newest`). `Known` and `Behind`, nobody
ahead of the server or of the store's generation, are what a fetch and a new pass
need of the others.

`BulkCategorizationProofs` proves, for any expenses, admins, workers, categories, chunk
and sample sizes and bounds:

- `TypeCorrect` (`TypeOK`), `ReviewComplete` (`ReviewIsComplete`), `CorrectionsStay`
  (`Spec => CorrectionsKept`), `SavesAsSeen` (`Spec => SavedAsSeen`)

Its invariant has these parts. `Ids` and `Tokens`: run ids and tokens are drawn
numbers, and only one handler holds a token. `RowsOK` and `Shape`: which stages rows may be in
at each status and pass. `Calls`: what a start or a retry has read is of
the past. `Handlers`: a worker whose token is still the run's (`Holds`) is right about
what it has read (`Reliable`), in particular when it finds nothing left to do. `Pages` and `Saves`: what
an admin has displayed at the run's revision, and what a locked save will write. The
frame lemmas (`CallFrame`, `WorkFrame`, `Bumps`, `Moves`, `WritesKeep`) say which steps
can disturb which part, so that most actions need one line per part.

`BalancesProofs` is about the operators of `Balances`, for every set of participants and
every ledger:

- `DistributeAddsUp`: no cent is lost and none is made, whatever is distributed, among
  whomever and with whatever seed
- `DistributeWithin`, `SharesWithinACent`: where the exact shares add up and none is
  negative, everybody gets theirs rounded up or down
- `BalancesWithinACent`: the same of what the members of a ledger have paid and owe
- `BalancesMove`: what one participant pays for another in whole cents moves the balances
  of the two by that and nobody else's, whatever cents the rest of the ledger leaves over
- `SuggestedSettle`: when the balances cancel, the settlements suggested bring everybody
  what they are due
- `PublicSame`: the balances that a group derives from these settlements are the balances
  they were suggested for

These are inductions over data. The theorems of the library that would give them take
an operator as a parameter, so the induction is over sets instead: from the
well-foundedness of `<` on the naturals follow `Least`, `RankInduction` and
`RecursionHasSolution`, which says that a recursive function whose argument falls in
rank exists and satisfies its equation; sums over finite sets, `Gcd`, the folds over a
ledger and the pairing of creditors with debtors are instances. The arithmetic avoids
fractions: all of them have a common denominator (`CommonDenominator`), `Stands(q, m, w)`
says that q is w parts of 1/m, and sums of fractions become sums of whole numbers.
`Distribute` then comes down to three facts: the places in which left-over cents
are handed out are a permutation of the participants (`PlaceInjective`), the number of cents
left over is below the number of those with something left over (`GapIsSmall`), and a
place below it belongs to one of these. `PickedHolds`, `QueueHolds` and
`PairsType` say that settlements are whole cents between participants.

Settlements take three more facts.

- The left-over cents. Somebody with no part left over has no place among those who get
  one (`SamePlace`), so whole cents added to a ledger leave everybody's turn and the number
  of cents to hand out as they were: what is handed out shifts by what was added
  (`HandsShift`, `SidesGrow`, `BalancesMove`). Balances of a ledger cancel, because both
  sides add up to the same amount (`BalancesCancel`).
- The pairing loop. `PairsSettle` is its accounting: a round takes from those in line what
  its leg brings them (`RoundOwed`), and when what those in line are due cancels, so does
  it after the round. The comparison puts creditors before debtors, by id, and rounds keep
  the line so (`Lined`, `RoundLined`). Hence `PairsStairs`: from one leg to the next the
  payee's id goes up or stays, the payer's goes down or stays, one of the two moves, and nobody is
  both payer and payee (`Stairs`).
- Uniqueness. Of a staircase whose legs are positive, the first leg can be told from what the
  legs come to: the first who is due something, the last who owes, and the smaller
  of the two amounts (`FirstOpens`, `OpensSame`). By induction the whole staircase can
  (`StepsUnique`). Without the order it could not: two creditors and two debtors can
  be paired in several ways that come to the same.

`GroupLedgerProofs` proves, for any finite set of members, any menu of expenses that the
schema lets through (`IsExpense`) and any bounds:

- `AdminsStay` (`Spec => AdminLostToRaceOnly`): by `IInv`, each call that will change a
  member has seen who would remain as admin (`Considered`), so it counts on somebody; if
  its commit leaves no admin, none of these is one any more.
- `ArchivesAlone`, `SettlesWhatIsThere` (`LegsAreCurrent`): one member archives at a time,
  and unless something without the lock has committed, the settlements it is about to write are
  those of the ledger. `Archivings` adds to these that the look before was current too.
- `TypesHold` (`TypeOK`) and `CentsHold` (`WithinACent`), by `TInv`: the ledger holds
  expenses of members that the schema lets through, settlements among them, and so do the
  calls about to write one (`Sound`). That settlements are such expenses is
  `PairsType`, that whole ledgers come out within a cent is `BalancesWithinACent`.
- `ExitsSettle` (`ExitSettlesWhatItSaw`) and `ArchivesSettle` (`ArchiveSettlesWhatItSaw`):
  the legs that a call keeps bring its member, or every member, the balance the group
  showed, and those that name one member bring that member all of it (`ShownBring`). It
  holds of any ledger, refunds included, because the group's balances are those of its
  suggested settlements and so cancel (`PublicCancels`); calls carry it from look to commit
  (`Sound`). What is written for legs moves each balance by what the legs bring
  (`LegsMove`, `SettleMoves`). `WhoEnds` and `WhoArchives` say which step it was that wrote
  them. That nothing is left by an archiving that was not raced adds that it writes the legs of
  the ledger it finds (`Archivings`), which bring everybody their balance (`LegsBring`).
- `PaidLegsLeave` (`PaidLegLeavesTheRest`): after one leg is paid the balances are what the
  other legs come to. These are a staircase still, as are the settlements suggested for
  them, so the two are the same by `StepsUnique`.

`CentsHold` and the last two are about ledgers whose sides add up in shares that are not negative (`Ordinary`,
the condition the properties name): refunds and converted cents of several payers are
outside of it.

Model-checked only: liveness (`DueIsWritten`, `PausedIsResumed`, `RowsSettle`,
`DirtyIsRefreshed` and both `EveryDeliverySettles`), which is out of the prover's reach.
Every safety property of a passing run is the subject of a theorem.

## Plan

Modelled, checked and proved except for the liveness named above: recurring series,
notification and webhook deliveries, idempotent creation with the outbox, offline
downloads, bulk categorization, money with the members and the archiving of a group.
What is left, in this order:

1. An abstract specification of a delivery (requested, accepted, reported) that both
   delivery modules implement.
2. Invitations and joins: acceptance against revocation, links that expire.
3. Account deletion: request, cancel and the executor with work in flight.

## Not modelled, and why

Rendering, localisation, storage, OCR, AI prompts, currency-rate fetching, MCP
and the Android shell keep no state whose order matters, or only caches in front
of external services. Import and export are long sequential programs in one
transaction each. OAuth and sessions are `better-auth`'s code. Of money and members,
joins and invitations, hand-written settlements with participants that were removed, the
owner's authorisation, balances per currency, budgets and totals, and ledgers of two
friends are left out. What the tables above list beyond the modelled components is on
the plan.

# Zero Friction ERP: formal models

TLA+ models of the backend and the client of Zero Friction ERP, a personal
finance system: a Go server over PostgreSQL (`src/backend`), a Next.js client
(`src/frontend`), SQL migrations (`src/database`) and documentation (`src/docs`).
The server runs as any number of serverless instances, so every handler races
with every other one and may stop between two statements; the database is the
only thing they share. The client is one browser at a time, in which handlers,
answers, timers and the user's hands interleave.

## Inventory

| part | state it keeps | operations | hard behaviour | what makes it correct |
|---|---|---|---|---|
| Gmail integration (`gmail.go`, `gmail_sync.go`, `007`) | one `gmail_connections` row: credential, settings, activation, cursor, page token, recovery position, watch, lease; one `gmail_messages` outcome per message | callback, settings, pause, import, sync (push, scheduler, owner), disconnect | lease that expires, stale instances, page resumption, expired cursors, partial failure | one draft per message, no receipt lost, configuration stable while work runs |
| Gmail client, parser (`gmail/*.go`) | none | list, search, fetch, parse | Gmail's listings and errors | a message has one class |
| Android ingest (`android_notification.go`, `dedup/engine.go`, `008`) | drafts, webhook events, devices | one handler in one database transaction | check-then-insert, pool exhaustion, aborted transactions | a payment becomes one draft, evidence is kept |
| Webhook (`resources.go` 798-938) | events, dead letters, drafts | receive, retry, resolve, ignore | three statements without a transaction, retries | an accepted event becomes a transaction |
| Ledger (`resources.go`, `001`, `004`) | transactions, wallets; balances are a view | create, transfer, patch, approve, reject, bulk, delete, reimburse | edits of a transfer, stale reviews | balances equal the approved movements |
| Budgets (`postgres/budgets.go`, `006`) | allocations per month, shifts | upsert, shift, copy | row locks, spending read without one | funds are conserved, the source keeps a rest |
| Recurring (`extended_resources.go` 294-744) | rules with the next run | create, patch, preview, run | concurrent runs, calendar | one transaction per due date |
| Auth (`auth.go`) | sessions, keys, tokens, OAuth states | log in, log out, revoke, validate | first login twice, expiry | a revoked credential is dead |
| Push (`push.go`, `push.ts`, `sw.js`) | subscriptions | subscribe, unsubscribe, notify | dead endpoints, failed calls | a live subscription is not lost |
| Client: ledger (`transactions/page.tsx`, `TransactionsView`) | filters, rows, selection, four dialogs | list, edit, delete, claim, bulk change | answers out of order, a two-second timer, closed dialogs | the rows belong to the filters on the screen |
| Client: inbox and overview (`ReviewView`, `DashboardView`, `swr.tsx`) | SWR cache, optimistic data | poll, approve, reject, edit, capture | polls against optimistic data, rollback, other devices | a settled draft stays away, no other is lost |
| Client: budget page (`BudgetsView`) | SWR key per month, three dialogs | turn the month, set, shift, copy | old figures under a new month, Back under a dialog | figures are current, typed amounts are kept |
| Client: pages with a list and a form (wallets, transfer, taxonomy, planning, recurring, reimbursements, automation) | list, form, busy flags | save, delete, settle, reload | double submission, crossing loads, refusals | an entry is kept until it is saved, and saved once |
| Client: credentials (`settings/page.tsx`, the guide cards) | lists, open secret, flags | create, show, revoke | two components with lists of their own, failing reloads | each secret is shown, a revoked one is not offered |
| Client: CSV (`csv-utils.ts`, `import-csv-dialog.tsx`) | file, rows, import loops | export, read, import | quoting, closed dialogs, repeated imports | exports are read back, a success is complete |
| AI analytics, router, proxy, command line | nothing | reports, forwarding, one-shot programs | none that relates two steps | - |

Parts meet in the `transactions` table: Gmail, Android, webhook, recurring
rules, the client and its CSV import all insert there, and the review inbox,
the balances and the budgets read from it. The scheduler calls the maintenance
endpoint (Gmail) and the recurring run. `PROJECT.json` lists every part with
its status, and under `hazards` every place where one of them can go wrong.

## Plan

1. **Gmail** (done): `GmailSync` with the abstract `InboxDelivery`, the proofs
   `GmailSyncProofs`.
2. **Android ingest** (done): `AndroidIngest` with the three dedup layers, the
   event row in one database transaction, the lookups on a second connection and
   the pool; the proofs `AndroidIngestProofs`.
3. **Webhook** (done): `WebhookIngest`, crashes between its statements and
   retries, with the abstract `Intake` of an idempotency key and the refinement
   proved in `WebhookIngestProofs`.
4. **Budgets** (done): `Budgets`, the three transactions with the row locks of
   PostgreSQL beside the ledger, and `BudgetsProofs`.
5. **Recurring** (done): `RecurringSchedule`, the next run of the Go code beside
   that of the SQL over any calendar, `RecurringRun`, concurrent runs and edits,
   and `RecurringProofs`.
6. **Client** (done): `CsvText` and `CsvImport`; `TransactionsPage`, which holds
   the ledger's handlers as steps of the server; `InboxPage`; `EditorPages`, nine
   pages as one state machine with a record per handler; `BudgetsPage` over
   `BudgetPlans`, the calls it shares with `Budgets`; `Credentials`; the proofs
   `TransactionsInboxProofs`, `BudgetsEditorsProofs` and `CredentialsCsvProofs`.

Worth adding later, in this order: the balance view against the sum of approved
movements; sessions and the rotation of the Gmail credential. Runs stay at two processes, or one browser, and the fewest messages,
rows or inputs at which the interesting meetings happen.

## Modules

- `GmailSync` models the Gmail integration: one action per database statement
  or Google call that others can observe, with the code's guards and early
  returns. `InboxDelivery` is what the owner may rely on. `MCGmailSync`
  instantiates it.
- `AndroidIngest` models the notification endpoint: one action per query of a
  request, so that requests interleave between them. `MCAndroidIngest`
  instantiates it.
- `WebhookIngest` models the transaction webhook and the buttons on its events
  and dead letters: one action per statement. `Intake` is what a sender may
  rely on. `MCWebhookIngest` instantiates them.
- `Budgets` models the writing endpoints of the monthly budget: one action per
  statement of a transaction. `MCBudgets` instantiates it.
- `RecurringSchedule` holds the two computations of a rule's next run as
  operators, and `RecurringRun` models the rules, the runs and the edits.
  `MCRecurringRun` instantiates it.
- `TransactionsPage`, `InboxPage`, `EditorPages`, `BudgetsPage` and `Credentials`
  model pages of the client against a server whose handlers are single steps:
  one action per input of the user, per answer and per timer. `BudgetPlans` holds
  what the budget calls do to a plan, for `Budgets` and `BudgetsPage`.
- `CsvText` holds the reader and the writer of CSV as operators, and `CsvImport`
  models the dialog that uses them.
- `Browser` holds what the models of the client share: the faults and the bound
  on inputs. `Nothing` declares `None`, the value of what is not there.
- An `MC` module instantiates each of them.
- `GmailSyncProofs`, `AndroidIngestProofs`, `WebhookIngestProofs`, `BudgetsProofs`,
  `RecurringProofs`, `TransactionsInboxProofs`, `BudgetsEditorsProofs` and
  `CredentialsCsvProofs` hold the theorems. The last three hold two pages each: the
  pages share only `Browser`, and the proofs of one do not look at the other. The
  second page of each names its specification apart (`InboxSpec`, `EditorSpec`,
  `CsvSpec`). No module declares a `RECURSIVE` operator; the CSV reader is a
  recursive function.

### How GmailSync corresponds to the code

| model | code |
|---|---|
| `conn` | the `gmail_connections` row; an absent row is `EmptyRow` |
| `lease` | `lease_id` and whether `lease_until > now()`; `Orphan` is the id of a dead process |
| `outcome`, `drafts` | `gmail_messages.status`/`error_code` and the rows of `transactions` |
| `last`, `mail`, `gone` | the mailbox: a history id is the position of its last change |
| `pc`, `op`, `snap`, `job` | a handler: its next step, its kind, the row it loaded (`c`), its locals |
| `AcquireLease`, `LeaseBusy`, `ReleaseLease` | `gmailLease`, its error, the deferred `gmailRelease` |
| `SyncStart` ... `CommitCursor` | `gmailSync`, from its guard to the final update |
| `Fetch`, `RecordOutcome`, `RecordRefused` | `gmailProcess` and `gmailRecord`, whose fence, check, draft and outcome are one database transaction |
| `Import...`, `Settings...`, `Pause`, `Callback`, `Disconnect...` | the handlers of those names |
| `Arrive`, `DeleteMail`, `LeaseExpires`, `OrphanExpires`, `Crash`, `WatchLapses` | Gmail, the clock and the instances |

A position of the mailbox is also a time. So "received before the activation"
is a comparison of positions, and the two clock readings of an activation, the
profile call and `time.Now()`, are two steps between which mail may arrive.

A page of `history.list` holds the oldest additions after the start; the token
is where the next page begins. A page of the search holds the newest matches
and the token says below which message to go on. The loop visits the messages
of a page in any order.

A message is one of six classes: `bifast` (names the account it went to),
`provider` (an expense of GoPay, OVO, ShopeePay or DANA), `topup` (a transfer
whose target is none of the owner's wallets), `garbled` (the parser refuses
it), `spam` and `noise` (not a candidate).

`Holds` is the `lease_id` condition of most writes. `Fenced` also asks for
`lease_until > now()`, as `gmailRecord` and the final update do. A handler runs
45 seconds at most and a lease lasts 90, so a lease runs out under a living
process only if its instance is frozen or the database slow (`LeaseExpires`,
fault `stall`).

### What is left out of it

`last_error`, `last_sync_at` and the counters of the status page; the OAuth
state and the exchange inside the callback, which is one step here; the
rotation of the refresh token in `gmailClient`; wallets deactivated after they
were configured (the insert is refused as for a `topup`); a Pub/Sub topic is
assumed to be configured; read-only handlers.

### How AndroidIngest corresponds to the code

| model | code |
|---|---|
| `row`, `events`, `devices` | committed `transactions`, `webhook_events` of source android, `device_registrations` |
| `free`, `Connection` | idle connections of the pool; a query on `s.db` takes one and returns it |
| `pc`, `note`, `verdict`, `source`, `destination` | a request: its next query, what `android.Parse` extracts, `dedupRes`, the wallets found |
| `work` | what its open transaction has written; `Apply` makes it visible, `Rollback` drops it |
| `Heartbeat` | `upsertDeviceRegistration` and `android.Parse` with its early answers |
| `Layer1`, `Layer2`, `Layer3` | the three queries of `dedup.Check`, each on its own READ COMMITTED snapshot |
| `FindWallet`, `FindDestination`, `FindCategory` | the lookups on `s.db` inside `withTx`; a failed one counts as nothing found |
| `AppendEvidence`, `InsertDraft`, `RecordEvent`, `Commit` | the writes, the ignored error of the event, `withTx` |
| `Fail`, `Vanish`, `AddOther`, `SoftDelete` | a failing statement or a commit whose answer is lost, an abandoned request, other sources, the owner |

`Aborted` is the foreign key: an event whose `duplicate_of_id` names a
transaction violates it, PostgreSQL aborts the transaction, and the commit is
answered with a rollback, which pgx reports as an error. Time is in minutes, the
grain of the fingerprint. A notification carries what the parser extracts; its
patterns are not modelled. Of the other handlers only what the check can see
matters: rows appear and are deleted; edits of a row's time or amount are left
out.

### How WebhookIngest corresponds to the code

| model | code |
|---|---|
| `event` | `webhook_events` by idempotency key; `by` remembers which delivery inserted the row |
| `made`, `letter` | deliveries with a row in `transactions`; status of their row in `dead_letter_queue` |
| `delivery`, `pc`, `answer` | a request: header and body, its next statement, its HTTP answer |
| `Arrive` ... `MarkProcessed` | `handleTransactionWebhook`, one action per statement |
| `Mark` | the status update whose error the handler ignores |
| `Fail` | a statement that fails or took effect with its answer lost (`writeDBError`) |
| `RetryEvent`, `RetryDeadLetter`, `ResolveDeadLetter`, `IgnoreDeadLetter` | the buttons of the automation page |
| `Vanish` | senders and instances that disappear |

A body is one of five kinds: unreadable (refused before anything is written),
malformed (the jsonb column refuses it), incomplete (no wallet, type or amount),
refused (the constraints of `transactions` reject it) and complete. Without a
header the body is its own key, as its hash is. Left out: the token of the
request (authentication), the lookup of the source name, the lists.

### How Budgets corresponds to the code

| model | code |
|---|---|
| `budgets`, `alloc`, `shifts` | committed `monthly_budgets`, `monthly_category_allocations`, `budget_shifts` |
| `lock` | the row lock on the budget of a month, by `for update` or by the upsert |
| `pc`, `call`, `work` | a request: its next statement, its body, the allocations its transaction has written |
| `source`, `counted` | `sourceAlloc` and `sourceSpent` of a shift |
| `FindPrevious`, `LockMonth`, `ReadSource`, `ReadSpent`, `FindTarget` | the queries in their order |
| `Write` | the statements that write, with the check constraint on the amount |
| `Commit`, `Refuse` | the commit, and the deferred rollback after an error |
| `CutOff`, `Fail` | a statement that fails, or a commit that may have taken effect while the handler gets its error |
| `Spend`, `Unspend`, `Vanish` | the ledger, and callers or instances that disappear |

A month is a number, so that the month before it is one less. The three writes
of a shift are one step, since nobody else sees them before the commit and all
other writers wait for the lock on the month. That is also why the lock on the
source allocation is left out. Expenses have one price; what matters is their
category. The fields `left` and `counted` of a recorded shift are history: the
properties compare with them, no guard reads them. Left out: planned income and
notes, the decimals of an amount, the report of the budget page, the time zone in
which a month is cut (UTC in a shift, the session's in the report), deleted
categories.

### How the recurring modules correspond to the code

| model | code |
|---|---|
| `rules`, `booked` | `recurring_rules` with the schedule its `cron_expression` spells; the transactions the runs insert |
| `Call`, `Take`, `Finish` | the one statement of `handleRunRecurring`: its snapshot of the due rules, `for update skip locked` on each, its inserts and updates at the commit |
| `at`, `todo`, `taken` | `now()` of the statement, the rules it has still to lock, `due_rules` |
| `lock` | who has the row lock on a rule |
| `Create`, `Patch`, `Delete` | the handlers up to their statement, with the next run computed in Go |
| `Lock`, `Write`, `draft` | the statement of an edit, which waits for the row lock, and what it writes |
| `Abort`, `GiveUp` | a statement that fails |
| `ScheduleOf`, `FirstRun` | `recurringCron` and `nextRunFromPayload`, which prefer different fields of a request that has both |
| `GoNext`, `SqlNext` | `nextRunFromCron` with `nextMonthlyRun` and `nextWeeklyRun`; the CTE `next_runs` |

PostgreSQL looks again at a row that has changed since the snapshot before it
takes it (`READ COMMITTED`), which is the second half of `Take`. An instant is
a number of minutes and the months are a table of their first days, so that
the theorems hold for any calendar whose months have 28 to 31 days. `entry` is
history: it tells the dates the owner has set apart from those a run has.
Left out: an edit that clears the next run, `last_run_at`, what a transaction
copies from its rule, the preview, and the time zone of the database session,
in which the SQL cuts days and months while Go uses UTC (they agree when the
session is in UTC, as assumed here).

### How the pages of the client correspond to the code

A request is *sent*, *served* (one step of the server, the handler's statements
being atomic here) and *answered*, in any order with everything else; the fault
`lost` drops the answer of a write that was served, `read` and `load` fail a
read, `write` and `refuse` a write. A state hook is a variable, an effect is part
of the action that changes what it depends on, and the `finally` of a handler is
part of its last step. Controls under a dialog cannot be reached (`Uncovered`,
`NoDialog`, `Unblocked`), except with the browser's Back.

| model | code |
|---|---|
| **TransactionsPage** `query`, `shown`, `fetches` | the filters and the page, what the effect of `TransactionsView.tsx` 193-238 has set, its requests with their flag `active` |
| `List`, `Matches` | `handleListTransactions`: status defaults to approved, `page_size`, total, pages |
| `detail`, `form`, `del`, `hold`, `bulk`, `cell`, `selected` | the side panel, the dialogs, the timer of `confirm-dialog.tsx`, the grid's cursor and ticks |
| `ServeWrite`, `Changed` | create, patch, delete, bulk and mark in `resources.go` |
| `OtherWriter`, `ImportEnds` | the drawer, an import, the ingest paths, recurring runs and other devices, of which the table is not told; the refresh after an import |
| **InboxPage** `cache`, `committed`, `polls` | SWR: shown data, the data under the optimistic one, the request of a key |
| `Resolve`, `SettleCache`, `EndOp` | `resolveOptimistically` and the overview's counterpart, `mutate` with `rollbackOnError`, their `finally` |
| `Extract`, `Photograph`, `QuickCapture`, `QuickTransfer` | the three ways to make a draft, `MarkClaim` their second call |
| **EditorPages** `Form`, `Row` records | what guards a submission (`guarded`), whether the browser sends the form itself (`native`), how long the flag lasts, what a refusal and an answer close |
| `stored`, `calls` | the rows of the server, the writes under way |
| `OtherWriter` | whoever changes a row beside the page: the webhook its dead letters, the drawer its claims, other devices the rest |
| `loads`, `Older` | the reloads, which of two wins: with SWR the later one, without it the one answered last |
| **BudgetsPage** `cache`, `laggy`, `fetch`, `failures` | SWR per month with `keepPreviousData`, its retries |
| `seen`, `charged` | spending as the page adds it up, and as the check of a shift does |
| `set`, `shift`, `busy`, `ops` | the dialogs, the flags and the calls under way, each with the figures it was confirmed on |
| **Credentials** `flows` | the handlers under way: request, answer, the reload they wait for |
| `list`, `card` | what the section and the guide card know, each by a list of its own |
| **CsvText** `Escape`, `ParseLines`, `ReadRow` | `escapeCSVField`, `parseCSVLines`, the row of `parseTransactionsCSV` |
| **CsvImport** `reads`, `imports`, `timers` | the FileReaders, the loops of `handleStartImport` with the places they have still to send (`todo`) and have `booked`, the timers of 1.2 seconds |

SWR is modelled by its documented behaviour as the pages use it: an answer is
taken when no later request of its key and no mutation of it has begun since,
an optimistic value is replaced by the result or rolled back, an interval polls
while the page is visible, an error is retried.

Rows keep the fields that guards, filters and properties look at: for the ledger
type, status and claim, for a draft its status and whose form was saved to it,
for the nine pages a token. A character of a CSV text is a character where the
parser treats it as one, and a word the parser looks for (`income`, a title, a
date) is one character too; amounts are counted in tenths. Signs, exponents,
decimals after the first and the word `Infinity`, all of which `parseFloat`
reads, are left out.

Variables marked *history* are read by no guard. They say which exception of a
property applies: `behind`, `muddled`, `crossed` and `overlapped` record that two
requests met in a way the code does not sort out, or, the first two, that
somebody else changed what the page has on the screen without the page being told. These are listed with the
findings, and each property holds outside them.

Left out of the pages: markup, formatting, sorting by a column, debouncing, the
swipe gestures, the preview of a recurring run, planned income and notes of a
budget, the fields of a form, the expiry of a credential, the profile form, the
status cards, the test buttons of the guide.

## Runs

`CHECK_DEADLOCK FALSE` stands in all runs but `inbox` (whose polls go on for
ever), because the bounds make the models stop: `MaxPos`, `MaxRequests` and
`MaxFaults` of Gmail; requests that are served once in the Android, webhook,
budget and recurring models; `MaxEvents`, the number of inputs, faults and
changes from elsewhere, in the client. The Gmail runs have two processes, the
others two requests, the fewest at which requests can race and wait for each
other; the Android pool has two connections for the same reason. The recurring
run has two rules, two runs and one edit: a rule is skipped only while somebody
else holds it, and a run that takes two rules can be caught between them. In
the client a property breaks by an input, a second one while the first is under
way, and a fault or an answer in between, which three to five events hold; what
the browser and the server do by themselves is not counted.

| run | properties | bounds | shows |
|---|---|---|---|
| `lease` | `OneDraftPerImport`, `ConfigurationFrozen`, `EnabledIsConfigured`, `DraftsFollowSettings` | two wallets, two accounts, two positions of the mailbox (a receipt of either kind or a top-up that cannot be booked), four requests, one crash or stall | the lease keeps handlers apart: enough for connect, configure, and two more requests around a stale process |
| `cursor` | `NothingSkipped`, `DeliversOnce`, `EveryReceiptHandled` | three messages (all receipts; one of them noise; one garbled and one spam), pages of two, a batch of one, two requests to connect and configure, one failure, crash, stall, expired history, page token or watch | a page boundary inside the mailbox, a batch limit inside a page, one failure anywhere; the cursor passes nothing and nothing is stuck |
| `android` | `DraftWithEvent`, `DuplicatesOnlyByRace`, `AnsweredUnlessWedged` | six notifications, one manual transaction seven minutes later, all faults | hits of every tier, races between check and insert, a merge target that is deleted, aborted and abandoned transactions, commits whose answer is lost, an exhausted pool |
| `webhook` | `OutcomeTold`, `TakesEachKeyOnce` | two deliveries, five kinds of body, one header, failing statements, lost answers and vanishing senders | redeliveries beside, after and instead of the first delivery, a failure at every statement, retried and ignored events |
| `budgets` | `SourceKeepsRest`, `AnswerTellsShift`, `ShiftMovesMoney`, `EnteredIsKept`, `Answered` | two requests out of nine calls over three months, three categories, one expense of each kind, failing statements, lost commit answers and vanishing callers | every pair of shift, update and copy on one month, each refusal, a month without a budget |
| `recurring` | `OncePerDate`, `BooksWhatIsDue`, `GoesToFollowingDate`, `DueIsHandled` | two rules, two runs, one edit out of five payloads, four instants around the ends of January and February, one failing statement | runs that meet on a rule, a rule changed between snapshot and lock, a run exactly on a date, the last day of a short month, a date entered again |
| `transactions` | `RowsMatchFilters`, `DeletedWasHeld`, `LoadingEnds` | two transactions of different type and claim and one to come, another writer of expenses (the drawer), pages of one and two, one type and one status to filter by, four events | a list asked before a change of filter or a write of somebody else and answered after it, a page that empties, a delete whose dialog is closed by the one before |
| `inbox` | `SettledStaysAway`, `UnsettledComesBack`, `InboxCatchesUp` | two waiting drafts (an income, a suspected duplicate) and one to come, three events, every fault | polls around two actions at once, a rollback over the result of another, captures, a draft settled elsewhere |
| `csv` | `ReadsBack`, `BookedRowsAreSound`, `SuccessIsComplete` | merchants of up to two characters out of a letter, comma, quote and newline, a wallet with comma and quote in its name, a known, an unknown wallet, whole and broken amounts; template, file without titles, summary, empty file; five events | every pair of characters quoting is about, every kind of invalid cell, two loops at once, a reading that ends after its dialog |
| `editors` | `RefusedEntryIsKept`, `EntryIsSavedOnce`, `ListIsCurrent` | nine pages, two rows and two to come, two entries, five events | a second submission, a form reopened during a save, two loads that cross, a row of another writer before, during and after a load, each with a refusal, a failed load or a lost answer |
| `budgets_page` | `MonthIsCurrent`, `ShiftLeavesDonor`, `EntryIsKept` | a planned and an unplanned month, two categories, amounts 1 and 2, changes from elsewhere in one place each, four events | a save, a turned page and a change between them, a shift confirmed on figures that have changed |
| `credentials` | `SecretsAreShown`, `RevokedIsNotOffered`, `FlagsGoDown` | one live credential and two to come, three events | two creations at once, a revocation with a failed reload, a tab left with a handler under way |

A crash leaves the row as an aborted handler does and keeps the lease. The
categories of `budgets_page` are two because the page compares one donor with one
target; subcategories are in `seen`, which counts what `charged` does not.

### Fairness

Gmail (`Fairness`): a handler that has started goes on (Go runs it, each call has
a timeout), the lease of a dead process expires (wall clock), and the scheduler
keeps calling (`gmailMaintenance`, which the documentation asks to run
periodically). `WF` for the start of a sync is enough although another handler
may hold the lease when it runs: starting is always possible while some process
is idle. Nothing is assumed of the owner, the mailbox or the faults.

For Android and the budgets it is that a request which can go on
goes on; phones, faults and the owner are free. Nothing in the
repository calls the recurring run by itself, so `DueIsHandled` says what
happens if somebody keeps calling it, and the fairness is only that a statement
that has begun goes on. A request that waits for the lock on a month can go on
whenever the lock is free, and each holder of it ends by itself, so `WF` is
enough for `Answered`: a month that is locked again and again is locked by one of
finitely many requests. `AnsweredUnlessWedged` names its exception: a state in
which every connection is held by a request that waits for another one. The code
reaches it (four simultaneous deliveries with the default pool), and leaves it
only when a phone gives up.

In the client it is that the browser answers or fails every request
(`transactions`, `inbox`, `credentials`), and for the inbox that SWR's interval
goes on. The user is free to do nothing. The runs `lease`, `webhook`, `csv`,
`editors` and `budgets_page` check safety only.

## Where the code differs from its documents

These were met while modelling. The models do what the code does; a property is
stated only outside the case, with the exception in its comment.

### Server

- After an expired cursor the code searches with `Query` (`gmail/parser.go:24`,
  `gmail_sync.go:318`), which names only the BI FAST sender, and saves the
  position of the mailbox as the new cursor. Receipts of other providers are
  lost, where `docs/gmail-integration.md:240` says that matching receipts since
  the activation are searched. `RecoverySafe` is the case without it.
- A message whose record fails, like a top-up to a wallet the owner has not
  entered, ends every Gmail sync at the same place (`gmail_sync.go:346`): its
  error leaves no outcome, and the next sync begins with it again.
- The webhook event of a dropped, merged or flagged notification puts a
  transaction id where the schema wants an event id
  (`android_notification.go:103`). The transaction is aborted, so the duplicate
  check answers 500 whenever it finds something, and a flagged draft or merged
  evidence is lost. The end-to-end test (`android-to-approve.spec.ts:151`)
  expects 200 and 202.
- The provider's wallet is taken as the source of its own top-up
  (`android_notification.go:128-136`), so the top-up is booked as money leaving
  the wallet it arrived in.
- The webhook's event is committed before its transaction is inserted
  (`resources.go:845`). When the database refuses the transaction, the event keeps
  the key, nothing is quarantined (`database-schema.md:302`), and every redelivery
  is answered as a duplicate. The retry buttons only set a status that nobody
  reads. The model reaches this state (`InsertEvent`, then `Book`, `Fail` or
  `Vanish`); no property says that a key is settled, since the one worth stating
  does not hold.
- A commit whose answer is lost is answered as a failure although it took effect:
  500 by the Android endpoint (`android_notification.go:164-166`, the error of
  line 200), 400 by the budgets (`postgres/budgets.go:260`,
  `httpserver/budgets.go:93-96`). The draft or the shift is there, and a shift
  that is repeated moves the money again. So an error of the Android endpoint says
  nothing of the draft, and of the budgets only a refusal before the commit says
  that nothing was recorded (the model tells it apart as `refused` from
  `commitError`; the caller cannot).
- On January 29 to 31 `now.AddDate(0, 1, 0)` is in March
  (`extended_resources.go:686`), so a monthly rule entered then, after this month's
  date, leaves out February. The SQL does not, where the comment on line 602 says
  they are in sync. `GoAgrees` proves that these are the only days.
- The check of a budget shift counts the expenses of the source category alone,
  the budget page those of its subcategories too (`postgres/budgets.go:211` and
  118), so a shift can leave less than the page shows as spent.
- Settling a claim always reports a failure: the page sends no body
  (`lib/api.ts:502`), `handleSettleReimbursement` goes on after it has written the
  400 (`resources.go:1085`), and the claim is settled although the page says it is
  not.
- A patch cannot clear a category (`coalesce(nullif(...))`).

### Client

- Goals, funds, and tags are native forms: the browser loads the document anew,
  and an entry that is refused is lost with its message. The category dialog
  closes on a refusal too (`RefusedEntryIsKept`).
- Ctrl+Enter submits a form whose button is disabled (`form-dialog.tsx:85`), so
  categories and rules are saved twice; the transfer's button is never disabled
  (`EntryIsSavedOnce`). The end of a save closes or empties a form that was opened
  meanwhile.
- The ledger keeps its selection over a change of filter or page, where the
  question before a bulk change says "on this page"; "all statuses" lists what is
  approved; the page number stays when a filter is changed; editing a transfer
  creates a second one; a claim marked while the edit form is open is overwritten
  by it.
- The CSV export asks for 1000 rows where the server allows 100, so it always
  fails. The import drops a decimal point, books rows of an unknown wallet to the
  first one and, of two wallets with one name, to the later, refuses transfers the
  export has written, does not enforce the limit of 500 rows, repeats booked rows
  after a partial failure, and a timer of an earlier import closes a dialog that was
  opened again.
- Two saves of the review's edit form at once bring a settled draft back until
  the next poll (`overlapped`). A correction is saved to the draft that is selected
  by then. The boxes "save as pattern rule" and the split of an income do nothing.
- The ledger table and the nine pages are not told of other writers. The quick
  drawer over them ends in `revalidateFinance` alone (`layout.tsx:159`), which
  reaches SWR and not the table's effect nor the list of claims its second call
  has added to (`QuickCaptureDrawer.tsx:149`); an import refreshes the table when its loop is through and not
  while it runs; the phone, Gmail, the recurring run and other devices never do,
  nor does the webhook on the automation page, whose dead letters are loaded once
  (`automation/page.tsx:33`). What they changed since the last answer is the
  exception `behind` of `RowsMatchFilters` and `muddled` of `ListIsCurrent`.
- The budget page shows the old month's figures under the new month's name with
  its buttons live, and hides an error while it does. A shift whose answer was lost
  is reported as failed and moves the money again when it is repeated.
- The two forms for credentials have flags of their own, so the second secret may
  replace the first on the screen; leaving the tab during the reload loses it. Two
  reloads that cross may show a revoked credential as live (`crossed`). A guide card
  offers its address after its credential was revoked in the section. Creating a
  credential from a card reloads the page and discards unsaved profile entries.

## What is proved

### Gmail

For any number of processes, wallets, accounts and messages, any page size and
batch, and every kind of failure, from the assumptions on the constants alone:

- `TypeCorrect`: `Spec => []TypeOK`.
- `OneDraftCorrect`: `Spec => []OneDraftPerImport`. Inductive with the types.
- `FrozenCorrect`, `DraftsFollowCorrect`: from `HandlerInv`, which says of each
  process that its step belongs to its handler, that its verdict is that of the
  row it loaded, and that the row is still the one it loaded while its lease is
  valid. Without the first two the third is not inductive: a process at the
  record step must be known to be a sync or an import.
- `ConfiguredCorrect`: from `ConfigInv`, the invariant of the row together with
  what a settings change has prepared before it writes.
- `NothingSkippedCorrect`: under `RecoverySafe` (the history never expires, or
  no receipt of another provider is in the mailbox). The invariant `CursorInv`
  says that cursor, page token and recovery position together *cover* a part
  of the mailbox: what is covered has an outcome, or, for the locals of a sync,
  is on the page it works through. The cursor alone is not inductive, because
  it is saved from a position that was computed several steps earlier.
  `RecoverySafe` is needed: without it a recovery passes a provider's receipt.

- `DeliveryRefinement`: `Spec => DeliversOnce`, under `RecoverySafe` too: the
  integration implements `InboxDelivery`. A recorded import is an abstract
  `Import` because of `OneDraftPerImport`; the end of a page is an
  `Acknowledge` because of `CursorInv` after the step, and because the boundary
  only grows until a disconnect forgets it. That last part needs the invariant
  `Ahead`: no cursor, saved or held by a sync, is beyond the mailbox or beyond
  the position its recovery will save, and a sync only moves the cursor it
  loaded forward.

Model-checked only: `EveryReceiptHandled` (liveness is out of the prover's
reach).

### Android

For any requests, notifications, wallets and other transactions, any pool and
every kind of failure, from the assumptions on the constants:

- `DraftWithEventCorrect`: `Spec => []DraftWithEvent`, from `IInv`, which says of
  each request what its transaction has written at each step (`WorkInOrder`) and
  what it has left in the tables (`TablesInOrder`). The property alone is not
  inductive: that a commit adds both rows follows from what the open
  transaction holds. A draft has its event and an event that made a draft has it; a
  notification that was refused has left neither; an error leaves it open, since
  its commit may have taken effect.
- `TypeCorrect`: `Spec => []TypeOK`, with `Accounted`: the connections given out
  are those of the open transactions.
- `PoolSuffices`: fewer simultaneous requests than connections never wait for a
  lookup. With as many, `android` reaches the wedged state.
- `DuplicatesOnlyByRaceCorrect`: from `DInv`, what each layer has excluded so
  far, and `RowStep`: a committed row keeps what the layers compare.

Model-checked only: `AnsweredUnlessWedged`.

### Webhook

For any deliveries, keys and bodies and both kinds of failure, all from
`Inductive`:

- `TypeCorrect`, `OutcomeToldCorrect`: the invariant says of each step whether
  the delivery has taken its key and whether its outcome is written (`InOrder`).
  `OutcomeTold` alone is not inductive: that marking an event as processed is
  right depends on the insert one step before.
- `Refinement`: `Spec => TakesEachKeyOnce`, that is `Intake`. A delivery takes a
  key by inserting its event and decides it by inserting the transaction or the
  dead letter; every other step, the buttons included, is a stutter.

No liveness property is stated: a handler ends whatever happens, and that a key
ends with a transaction or a dead letter is what the code does not do.

### Budgets

For any requests, months, categories, calls and amounts, and both kinds of
failure, all from `Inductive`:

- `TypeCorrect`: `Spec => []TypeOK`. It holds the lock discipline: the holder of
  a month is the one transaction on it.
- `SourceKeepsRestCorrect`: the check is made several statements before the
  write. The invariant says that from each of these steps on, what a shift has
  read is still the committed allocation of its source, because every writer
  of that month holds the lock.
- `ShiftMovesMoneyCorrect`, `AnswerTellsShiftCorrect`, `EnteredIsKeptCorrect`:
  from what a transaction has written (`work`) relative to what is committed.
  Without it a commit could write back amounts that are stale. `AnswerTellsShift`
  says that a request records one shift at most, a success exactly one and a
  refusal before the commit none; the error of a commit leaves it open.

Model-checked only: `Answered`, which is liveness.

### Recurring rules

For any rules, runs, edits and payloads, from the assumptions on the constants:

- `SqlFollows`, `GoAgrees`: for every calendar, schedule and instant the SQL
  gives the first date of the schedule still to come, and Go gives the same date
  unless the schedule is monthly and the next month lacks today's day. Daily,
  weekly and monthly schedules have one argument (`LaterFollows`): the first
  candidate is the only date before the second one.
- `TypeCorrect`, `BooksWhatIsDueCorrect`: from `RunsInOrder`, which says that what
  a run has taken is still due, because everyone else has to wait for its lock.
- `OncePerDateCorrect`: `OncePerDate` alone is not inductive. The invariant adds
  that a booked date lies before the next run of its rule (`BookedIsPast`), which
  `SqlFollows` keeps true when a rule is run, and that an edit sets a next run at
  most once (`EntriesFresh`).
- `GoesToFollowingDateCorrect`: from `SqlFollows`.

Model-checked only: `DueIsHandled`, which is liveness.

### Transactions page

For any transactions, filters, page sizes and faults and any number of inputs:

- `TypeCorrect`, and `CellIsOnRow`: the active cell is on a row after every answer,
  because the effect on the number of rows clamps it.
- `RowsMatchFiltersCorrect`: the property alone is not inductive, since rows come
  from an answer of an earlier moment. `ActiveIsCurrent` adds that only a fetch of
  the query on the screen is active, and that what it was answered is still the
  server's list, unless a write has been reported after which the page fetches again
  or the page is `behind` (a lost answer, a claim, another writer);
  `ShownIsCurrent` says the same of what is shown.
- `DeletedWasHeldCorrect`: from `HeldButton`, a running timer belongs to the row of
  the open dialog. Without it the timer of a closed dialog could end over another
  row.

Model-checked only: `LoadingEnds`, which is liveness.

### Inbox and overview

For any drafts and faults and any number of inputs, mutations and captures:

- `InboxTypeCorrect`: with what each mutation and capture carries.
- `SettledStaysAwayCorrect`, `UnsettledComesBackCorrect`: neither is inductive. A
  rollback restores the data under the optimistic one, which no property mentions.
  `OneMutation` says that one mutation at most has the last word, that it keeps these
  data, shows them without its own draft, and that no answer will be taken while it
  runs. `ShownIsKept` and `DoneStaysAway` then speak of these data (`Base`) instead
  of what is shown, and `DoneIsFinal` of the answer still to be taken: a settled draft
  stays settled, so an answer given after it does not list it.

Model-checked only: `InboxCatchesUp`, which is liveness.

### Pages with a list and a form

For any rows, entries and faults, all nine pages, and any number of inputs:

- `EditorTypeCorrect`: with which page sends which call (`PageOf`), on which the
  other invariants rest: a rule of one page must not be asked to hold on another.
- `ListIsCurrentCorrect`: from `LoadsAreCurrent`, there is one newest load at most,
  the list is current if there is none, and otherwise what the newest was answered
  is. A load the server has not answered yet will bring what another writer does; that
  it is the only one is what makes this enough.
- `RefusedEntryIsKeptCorrect`: from `FormIsSent`, while a save is under way the form
  holds what was sent or what was typed meanwhile.
- `EntryIsSavedOnceCorrect`: the property counts rows and is not inductive. `OnePlace`
  says of each entry that is in a call that its call is the only one and is not yet
  on the server, unless it was answered.

### CSV import

For any wallets, categories, files and faults and any number of loops:

- `BookedRowsAreSoundCorrect`: from the type of a loop, whose rows are what reading
  some file gave: the row a loop books is the one that was found valid.
- `SuccessIsCompleteCorrect`, a property of steps: from `LoopsAreCounted`, a loop that
  has counted no failure has booked or has still to send each valid row of its file.

- `FileIsReadBack`, about the operators of `CsvText`: `ParseLines(FileOf(table))` is
  `table` with its cells trimmed, for any characters, any lengths and any number of
  rows. A row that is blank throughout is skipped by the reader, so the theorem asks
  for rows that are not. The reader is a recursive function, whose value over a text
  of unknown length must be shown to exist (`ReaderRuns`) and then followed: `Sits`
  says where in the file a text stands, `PlainCell` and `QuotedCell` what the reader
  holds at the end of a cell, `LineRead` of a line, and the theorem goes from line to
  line.
- `ReadsBackCorrect`: the rows on the screen are those of `ReadFile` on the chosen file
  (`CsvTypeOK`), an exported file is such a table (`ExportTakenApart`), each column is
  found under its title (`ColumnsFound`), and each cell is read as what was written
  (`TransactionRead`, `AmountRead`, `NamesLead`). Its hypotheses: there is a wallet, and
  the names are told apart (`ToldApart`), from each other and from the ids. The instance
  of TLC satisfies both, by an assumption of `MCCsvImport`. The schema lets two wallets
  have one name, and two categories of different parents or types; then the later one
  is read. Amounts are below ten with one decimal, dates are one word, and case is left
  out, as in the model.

### Budget page

For any months, categories, amounts and faults and any number of inputs:

- `MonthIsCurrentCorrect`: the invariant says of each month that its cached figures
  are those of the server, or that it is being loaded, or will be when a call under
  way ends, or is marked as `behind`. The property alone is not inductive: an answer
  that is on its way must be known to be fresh.
- `ShiftLeavesDonorCorrect`: a confirmed shift fits the figures it was confirmed on;
  with the same figures on the server its donor keeps the rest.
- `EntryIsKeptCorrect`: only inputs and the end of a successful save touch the dialog.

### Credentials

For any credentials and faults and any number of inputs:

- `TypeCorrect`: with `FlowsOK`, which handler waits for what.
- `SecretsAreShownCorrect`: the handler of each answered creation carries its
  credential until it is shown or cut off (`ToBeShown`).
- `RevokedIsNotOfferedCorrect`: one reload of the section is under way at a time
  unless two crossed, and what it reads after a report shows the credential as
  revoked.

Model-checked only: `FlagsGoDown`, which is liveness.

### What stays with the model checker

Every safety property of the runs is stated by a theorem. The seven liveness
properties (`EveryReceiptHandled`, `AnsweredUnlessWedged`, `Answered`,
`DueIsHandled`, `LoadingEnds`, `InboxCatchesUp`, `FlagsGoDown`) stay with TLC, because
the prover has neither fairness nor `ENABLED`. Induction is available only where the induction can be written as the
choice of a least counterexample among the numbers (`LeastNumber`, from
`WellFoundedInduction`), as in `NewestIsThere` and, for a set of numbers, `Induction`,
on which the proofs about the CSV reader rest: the theorems of the library that take
an operator cannot be instantiated.

## Not modelled

- Sessions, passwords, the Google login and the OAuth state: one statement on one
  row each, or a protocol of Google that the repository does not describe. The
  rotation of the Gmail credential belongs here.
- The balance view: one SQL expression over the rows of the ledger.
- The starter workspace: constant rows at the first login.
- Push: what an endpoint answers is decided by a push service.
- AI extraction and the reports: read-only, or one remote call whose answer is
  data. The capture of a draft with its answer is in `InboxPage`.
- Router, proxy, command line, markup, and the landing, login and guide pages: no
  state that two steps share.

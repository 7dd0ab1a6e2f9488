# Verification of the commission service

This directory holds TLA+ models of `commissiond` and of the client that writes
to it, the configurations that check them with TLC and the proofs that TLAPS checks. Paths
below are relative to the repository.

## The system

`commissiond` (Rust, Axum, SQLx, PostgreSQL) splits the payment of an order
between the merchant, the platform and up to two referrers, freezes the shares,
releases them after a freeze period, takes refunds back, and pays balances out
under four eyes. It also imports orders from external platforms and feeds an
outbox. A Leptos/Tauri console talks to it.

| component | state | operations | interacts with | what is hard |
|---|---|---|---|---|
| commission arithmetic (`commission-types/src/domain.rs`) | none | `split`, `cumulative_refund` | called by orders | rounding over many refunds, a residual that shrinks |
| ledger (`ledger.rs`, triggers of `0001_initial.sql`) | journals, ledger_entries, wallets | `post`, `lock_wallet`, triggers | called by orders and payouts | projection drift, lock order of wallets |
| transactions (`transaction.rs`) | idempotency, audit_events, outbox rows | `Work::begin`, `complete`, `record_event` | wraps every operation | retries, duplicates at once, crash before COMMIT |
| orders (`service/orders.rs`) | orders, allocations, refunds | `capture`, `refund`, `release` | quote, ledger, worker | refund against release, two refunds, late binding |
| release worker (`main.rs`, `release_one_due`) | none | release of one due order, every 5 s | orders | `SKIP LOCKED`, an order that cannot be released |
| payouts (`service/payouts.rs`) | payouts | `request`, `approve`, `processing`, `reject`, `outcome` | ledger | two requests for one balance, debt by refund, unknown outcome, two verdicts |
| catalog (`service/catalog.rs`) | accounts, rules, referral_bindings | `create_account`, `bind_referral`, `create_rule`, `disable_rule`, `quote` | capture | binding against capture, a stale rule |
| credentials (`auth.rs`, `catalog.rs`) | credentials | authenticate, create, revoke | every request | two administrators revoke each other, revoked while running |
| outbox (`service/outbox.rs`) | lease, delivered_at | `claim`, `ack` | consumers | expired leases, late acknowledgements |
| platform connections (`service/platforms.rs`) | status of a connection | `create_connection`, `set_connection_status`, the check before a synchronisation | platform sync | a revocation against an activation |
| platform sync (`platform/`) | checkpoints, raw events, observations | pull cycle, reconcile, webhook ingestion | external platforms | checkpoint read before and written after a network call, order of observations |
| native client (`commission-client/src/native.rs`) | pending operation, recovery file | prepare, execute, discard, login, logout, recover | HTTP API | lost responses, crash during file replacement |
| console in a browser (`apps/console/src`) | forms, one shared phase, the write in the local storage, what a panel shows | log in and recover, prepare, execute, discard, navigate, reload, read | HTTP API, other tabs | clicks while a request is out, reload, forms that are disposed of, answers out of order |
| HTTP routing, queries, money text, observability, deployment | none | | | |

What each has to guarantee: the arithmetic conserves money to the fen; wallets
always equal the rows they are projected from; every request is applied at most
once, with its events and its answer; no account is paid more than it earned; a
payout is seen by two credentials; attribution is settled by the first order;
transactions wait for each other in a circle only where provider references are exchanged; due shares are released;
a checkpoint never runs ahead of what is stored; the client never replaces an
operation whose outcome it does not know. `PROJECT.json` lists the hazards at
their lines.

## Modules

| module | what it is |
|---|---|
| `Apportion` | `split` and `cumulative_refund` on the four allocation slots |
| `Reversal` | one order and its refunds, with allocation rows and the loop of the code |
| `Rules` | accounts and rules that are published and disabled, and which rule a capture gets |
| `Accounts` | the accounts that `Ledger` and `Rules` share |
| `Totals` | sum of a function over a finite set, without recursion |
| `Ledger` | the promise: every operation as one atomic step on the committed tables |
| `Commission` | the operations as interleaved PostgreSQL transactions, and the worker |
| `WritePhases` | the phases of a write and where an answer leads, shared by the two clients |
| `NativeBridge` | the desktop client: sessions, one pending write, its recovery file, a service that may not answer |
| `WriteSlot` | the promise of a client about its one pending write |
| `Console` | the browser client: tabs, forms, one shared phase, the local storage; implements `WriteSlot` |
| `Panels` | how a panel reads a list or a record, with answers in any order |
| `Connections` | the status of a platform connection, changed by several integrators |
| `PlatformSync` | the pull synchronisation of a connection by several workers; composes `Connections` |
| `Ingestion` | webhooks and reconciliation into raw events, observations and projections |
| `Outbox` | leases and acknowledgements of events |
| `Access` | credentials: bootstrap, authentication, creation, revocation; composes `Outbox` |
| `ApportionProofs`, `LedgerProofs`, `CommissionProofs`, `OrderProofs`, `IngestionProofs`, `AccessProofs`, `SyncProofs`, `ClientProofs` | theorems and proofs |
| `MCLedger`, `MCCommission`, `MCClients`, `MCPlatformSync`, `MCIngestion`, `MCAccess` | instances for TLC |

**Ledger** is the abstract specification. `wallet`, `order`, `refunds`,
`payout`, `binding` are the tables of the same names (an order row carries its
allocations as functions on the slots), `due` says for which orders `unlock_at`
has passed, and `applied` holds the requests with a committed idempotency row.
Each of `Capture`, `Refund`, `Release`, `Bind`, `RequestPayout`, `Approve`,
`Processing`, `Reject`, `Outcome` and `WorkerRelease` is one function of
`orders.rs`, `payouts.rs` or `catalog.rs` with all it calls; a posting is the
change of each bucket of each account after `post` has combined its lines. Guards
are the checks that end in an error and the constraints of the tables.

**Commission** runs them as the program does: a process is a handler or a
worker; `pc` is the next statement that locks or decides; `seen` is the row it has
read, `need` the wallets `post` has still to lock, `held` its locks (idempotency
key, advisory lock of the customer, order and payout rows, wallets, unique index
entries of orders, refunds, payouts and provider references), `now` what
`now()` says. Reads see committed rows (READ COMMITTED), writes become visible
together at COMMIT, `Rollback` is possible at every statement and stands for a failed
check, `lock_timeout`, `statement_timeout`, a deadlock victim, a lost connection
and a crash. What a request writes is computed from the rows its transaction has
read, not from the current ones: the locks have to make them the same (a bind checks that the
customer has no order in a step before its INSERT, `CheckFirstOrder`), and
that is what the refinement `KeepsLedger` (`CommissionSpec => LedgerSpec`) checks. A client may
send any request any number of times and concurrently, so retries after a lost
answer need no action of their own. `WaitsFor` says who waits for whom: for a lock, or for the
provider reference that an open `outcome` is about to replace (`Earlier`; `payouts.rs` 252), which
no other row can take before that transaction has ended.

**Reversal** ties the arithmetic of the slots to the code, which has no row for an
absent referrer and computes in a loop.

**Rules** is `create_account`, `create_rule`, `disable_rule` and the selection of `quote_in` within a
capture. A rule takes its version from a sequence at its INSERT (`InsertRule`) and is seen at its
commit (`CommitRule`), so versions are published out of order and one that is rolled back is lost;
`effective_from` defaults to the clock of the host, which is up to `Fast` ahead of PostgreSQL's or
`Slow` behind it. A capture keeps the `now()` of its beginning (`at`) but selects among the rules
that are committed when its statement runs, after its locks. `before` and `gone` are history: the
rules that were enabled, and those that were disabled, when it began.

**NativeBridge** is the client's `native.rs`. The mutex makes each handler one
step up to its `await`; `login` and `execute` have a second step for the answer.
`session`, `recovery` and `generation` are the fields of `State`, `files` is the
recovery file and its `.next`. `write_store` and `clear_store` may stop after any
system call, with an error (the process goes on) or with the process; `unflushed` is
the directory a power cut would show, since renames are not synced. The service is
reduced to what a client can tell: it authenticates every request, replays what it
has committed under the key, and else commits, refuses, or answers 5xx before or
after its commit; a request may be read long after the client gave up.

**Console** is the browser client of `apps/console/src`. A tab has the `phase` that all forms
share, `pending` says which form holds which key, `storage` is the record in the local
storage, which all tabs share. `Client::recover`, `prepare` and `discard` have no `await` on
the network, so each is one step; `execute` is two, and every click in between is an action of
its own: opening another row disposes of the forms of the last one, together with the write
one of them holds, and a reload keeps nothing but the storage. `SendFails` is the early
return of `execute` when the storage holds another write or none, or fails: it ends in `Rejected`,
also when the write was sent before. `Clear` deletes the record from outside, `Faulty` says which
storage calls may fail, and `unguarded` is history: the writes that a failed retry or a deletion took
from the client's sight. The server may give any answer. **WriteSlot** is what the client promises about
the write: once sent, it stays until it is answered for good or *lost* in one of these two ways
(`Refuse`, `Lose`) until a later session takes it over (`Resume`), and a new one has a fresh
key. `KeepsWrite` maps the storage and the history of a tab onto it.

**Panels** is `ReadPanel` and the lists built like it: each selection and each refresh is a
read with a number (`version`), each mounting of the panel counts from one again.

**Connections** is `set_connection_status` in two steps (the decision under the row lock, the
commit) for several integrators; a synchronisation starts only while the status is
`active` (`Enabled`), and one that has started runs on.

**PlatformSync** is `sync_next` with its callers. Upstream, one fact happens per
minute and is visible `Lag` minutes later; `checkpoint` is the row of
`platform_sync_checkpoints` (`NoRow` before the first attempt, `EmptyRow` after
`record_failure` inserted one), and each worker reads it, asks for a page outside any
transaction, locks the row, compares and commits. The row lock exists only if the
row does. A page ends at any minute of its window; `now` differs between hosts.

**Ingestion** is `ingest_webhook` and `reconcile_page` of douyin. A request is a handler
with a body of messages; for each it stores the raw event, commits that, and writes the
observations, the projections and `processing_status` in one transaction. Deliveries
repeat, overlap and may end at any point (`Fail`: the 1.5 seconds, a failed
statement, a crash). `raw`, `observed`, `orders` and `checkpoint` are the tables; orders,
commissions, refunds and settlements are written alike, so one set of
observations and one projection stand for them. A checkpoint is its cursor and its newest platform
time, or missing: a reconciliation compares the two columns it has read before the network call, the row lock keeps them until the
commit, and without a row there is no lock, so two first reconciliations both pass
(`FindNoRow`) and both write. A transaction writes rows of
`external_orders` and holds them until it commits, hence it is one step; the order in which
two transactions lock those rows, and the deadlock that PostgreSQL ends by
aborting one of them, is a `Fail` here.

**Access** runs `bootstrap`, `create_credential` and `revoke_credential` as transactions
(`pc`), with the advisory lock 734190821 they share (`lock`) and with the credentials that had
expired when they began (`past`), since `now()` does not move. It composes **Outbox**: a commit
records a row, and consumers, who need a valid credential, claim it for a lease,
process it and acknowledge it; leases lapse, consumers stop, answers get lost.

## Runs

| run | configuration | question |
|---|---|---|
| `ledger` | `MCLedger.cfg` | is the abstract service right: books, debt, exact allocations, refunds never stuck, attribution, payout control; do the rows of the loop agree with the slots, does rounding stay bounded, over every history of refunds; does a capture get the rule of its time |
| `transactions` | `MCTransactions.cfg` | do interleaved captures, binds, refunds and releases, or competing payouts and a refund, or exchanged provider references, implement `Ledger`, exactly once, and where can they deadlock |
| `worker` | `MCWorker.cfg` | does the worker release every due order |
| `clients` | `MCClients.cfg` | does a client (desktop, or one browser tab) remember what it sent, under one identity, through crashes, reloads, late answers, failing and cleared storage, and show what was selected |
| `rejected` | `MCRejected.cfg` | does a rejected write have no effect (it may: finding below) |
| `tabs` | `MCTabs.cfg` | is no write replaced when two tabs share the storage (it is: finding below) |
| `retry` | `MCRetry.cfg` | is no write replaced when the storage fails in a retry (it is: finding below) |
| `sync` | `MCSync.cfg` | is a fact skipped, or a worker's progress undone, by pages, failures and clocks; does the synchronisation catch up; does a revoked connection stay revoked |
| `first_sync` | `MCFirstSync.cfg` | is progress undone before a checkpoint row exists (it is: finding below) |
| `ingest` | `MCIngest.cfg` | are acknowledged messages stored, does the checkpoint tell the truth, are projections newest, and acceptable messages acknowledged in the end, for any order and repetition, from a missing checkpoint on |
| `once` | `MCOnce.cfg` | is a message observed once (not always: finding below) |
| `access` | `MCAccess.cfg` | do bootstraps and revocations leave one root and an administrator; is every event delivered under a running lease |

Properties:

- `Books`: every bucket of every wallet equals what the order and payout rows say.
- `NeverOverdrawn`: payouts of an account never draw more than was released to it.
- `AllocationsExact`, `NearlyProportional`, `LoopAgrees`: rounding leaves nothing
  behind and depends on the refunded total only; each party is within one fen of
  its proportion, a later row ahead by at most one for each row before it.
- `RuleOfItsTime`: the rule of an order was in force at `captured_at` and had not been disabled when
  the capture began, and no enabled rule that was published before that beats it.
- `RefundNeverStuck`: the internal errors in `refund`
  and `post` and the CHECKs of wallets never stop a legal refund.
- `Attribution`: orders credit the promoter their customer is bound to.
- `PayoutControl`: requester and approver differ, a provider reference pays once.
- `ExactlyOnce`: one event and one stored answer for a request, both or neither;
  one release of an order.
- `SeenIsCurrent`: the row a transaction writes from has not changed since it was read.
- `OnlyExchangesDeadlock`: every set of transactions that wait for each other contains one of outcomes
  that exchange the provider references of their payouts.
- `KeepsLedger`: each commit is one step of `Ledger`, all else stutters.
- `DueIsReleased`: every due order is released in the end.

- `SentIsRemembered`: a restart at any moment finds every write that was sent and not
  answered for good, marked as attempted, or refuses to start.
- `SentUnderOneIdentity`: a key goes to one server under one credential.
- `OneWriteInMemory`: one call waits, it is the one of the open session; session and recovery
  agree on the write, which is `Sending` as long as the call waits.
- `OneWrite`: however many forms share the phase of a tab, one of them at most holds a write, the
  stored one of whoever is logged in unless it was deleted; a write shown as `Prepared` was never sent.
- `NoReplacement`: no write is sent while the outcome of another key is not known. It is false (runs
  `tabs` and `retry`); `NoSilentReplacement` is what holds in one tab: beside the writes that a failed retry or
  a deleted record took from the client's sight, no two have an open outcome.
- `KeepsWrite`: the local storage implements `WriteSlot`.
- `ShownIsSelected`: a panel shows what this mounting has read for what is selected now, and
  what is not shown yet is on its way.
- `RevokedForever`: no interleaving of status changes brings a revoked connection back.
- `NoGap`: every fact before the next window and before the cursor is stored.
- `OverwritesSeen`: a commit replaces no progress its page was not fetched for.
- `CatchesUp`: every fact after the first window begins is stored in the end, unless the
  connection is suspended or revoked.
- `NormalizedIsStored`: `processing_status` says whether an event's observations exist, and the checkpoint
  names a page that is stored and the newest time any page has observed.
- `AckedIsStored`: all messages of an acknowledged body are stored with those contents.
- `ProjectionIsNewest`, `OnlyForward`: a projection shows a newest observation, never goes
  back in time and never forgets an amount.
- `Redelivered`: a body without invalid or contradictory messages is acknowledged in the end.
- `OneRoot`, `LastAdminStays`: bootstrap writes to an empty table only; a revocation leaves
  another administrator that was valid when its transaction began.
- `OneHolder`, `DeliveredWasHandled`, `Delivered`: leases exclude each other, a delivered event was
  processed by its last holder, and every event is delivered while the consumers' credential lasts.

### Findings

- `rejected`: a 4xx answer to a *repeated* request makes the write `Rejected`, and the
  console says that the server refused it and that the record may be dropped
  (`apps/console/src/app.rs` 195). The first attempt may have been applied, its
  answer lost, and the credential revoked before the repetition (401); or the first
  request is still on its way when a business rule refuses the second. What the user then
  prepares again has a new key.
- `tabs`: `Client::discard` compares the key of the stored write, not its `attempted` flag. A tab
  that recovered a write before it was sent shows it as `Prepared`, also after another tab of the
  same user has sent it; it may discard it and prepare and send another one, while the first
  is under way (`apps/console/src/platform.rs` 312; `app.rs` 140 says that nothing else can be
  sent while an outcome is unknown). With one tab `NoSilentReplacement` is
  proved.
- `retry`: `execute` reads and writes the local storage before it sends. An error there is
  `ClientError::Invalid`, which does not count as an unknown outcome (`commission-client/src/lib.rs` 33), so the *retry* of a write
  whose outcome is unknown becomes `Rejected` when the storage fails (`platform.rs` 288). The
  console says that the server refused it, lets the user drop it, and sends the next write under a new key while the first may have been
  applied. `docs/OPERATIONS.md` 59 forbids to replace or discard a write with an unknown outcome, without exception. The same happens when the record was deleted
  (`Clear`), where `docs/ARCHITECTURE.md` 105 and `docs/CROSS_PLATFORM.md` 54 say that the client
  makes no replacement request.
- `first_sync`: `SELECT ... FOR UPDATE` locks nothing while the checkpoint row does not
  exist. Two workers of the first synchronisation both find no row, both pass the
  comparison, and the later commit replaces the checkpoint of the earlier
  (`docs/VERIFICATION.md` 31 says it refuses). Facts between the two windows can be
  skipped for good. Once a row exists, `OverwritesSeen` and `NoGap` hold (`sync`).
- `once`: a raw event stops a delivery only when it is already `normalized`. Two deliveries
  that overlap (the first is still running when the platform sends again) both write
  observations; a record without a time takes the time of receipt, so its hash differs and one
  refund is observed twice, which `docs/API.md` 259 rules out.

### Bounds

`ledger` holds three questions. `MaxPaid = 20` lets every share take several values and every
sequence of refunds occur, and the terms include a cap, a fixed fee larger than
the base, and referral rates that use up the whole fee. Another scenario has three rules (for
all, for all until a time, of the merchant for small bases) and one of two orders, one inside the
merchant's range and one outside, while three versions can be handed out (`MaxVersions`), time
passes twice (`MaxTime`) and hosts are off by one in both directions: a rule runs out, is disabled
or is published, with an older or a newer version, between the beginning of a capture and its selection.
The service has one merchant, a promoter and its parent, two orders that share
all their wallets, three refunds (one external id for two orders, one key with two
bodies) and two payouts that compete for a balance and a provider reference: the
smallest instance in which each property can fail, which is what the mutants of
`PROJECT.json` show. Some instances hold several scenarios: a behaviour chooses one at its
start and keeps to it (`scenario`), since what the others would do shares no state with it.
`transactions` serves either orders, with two handlers and a worker, so three transactions
meet on one order, or payouts, with three handlers, so that a cycle of three waits, or a
refund between two payout steps, can occur; or two outcomes that exchange two provider references. Handlers are interchangeable, which the run
uses as symmetry; `worker` checks a temporal property and does not.
`clients` is the desktop, a browser tab, or the panels. The desktop has two servers, two credentials, two keys, two requests, two sessions
per process and one restart: a late answer of an old login, a login under another identity
after a restart, and a second write after a torn file all occur. The tab has two actors, two
keys and all six forms, may be reloaded at any time, and each of its storage calls may fail or find the
storage cleared; the panels have two
mountings and three selections each, enough for three answers to overtake each other. `tabs` has a
second tab and no faults, `retry` one tab and the one fault of a retry. `sync` has two
workers, windows of two minutes that repeat one, facts visible after one, and a host clock that
may be one behind (`Lag + Ahead <= Overlap`, `SyncAssumption`; with less overlap `NoGap`
fails): in three minutes windows are split, repeated, resumed and missed for longer
than they advance; or it has one worker, with two integrators who change the status. `first_sync` has windows of three that repeat two and clocks off in both
directions. `ingest` has two requests at once, a batch that ends in a message without a valid
form, the same event with other contents and a batch with a refund that has no time; either time passes
(`MaxClock = 1` gives two times of receipt), or there are two pages, one that overlaps the messages and names a cursor and an empty
last one, so a checkpoint is missing, advanced, repeated and ended. `once` keeps the refund alone.
`access` starts with an empty table or with two
administrators who revoke each other while one may expire, and follows any one event of the
outbox (`MaxEvents`): rows do not depend on each other.
The counters that could grow in `Ledger` and `Commission` are bounded by the requests: each is applied once.

### Fairness

Handlers are weakly fair in `Step \/ Rollback`: `lock_timeout` and
`statement_timeout` (`transaction.rs` `configure`) end every statement. The
worker's timer ticks every five seconds for ever, so it takes *some* due order when
one is unlocked again and again (strong fairness of picking any, not of picking a
given one); PostgreSQL grants row locks to waiters in turn (strong fairness of
`LockWallet`). The worker's own transactions are assumed to stop failing at some
time: one that times out for ever releases nothing.

`CyclesRun` assumes that time passes, that the cycle runs on, and that fetching, locking and
committing do not fail for ever for all workers; a page that never normalises stops the connection (see the hazards).
`FairIngest` assumes that the platform goes on delivering what was not acknowledged (its
retry, `docs/API.md` 259), that a request goes on, and that from some time on no request is
interrupted; a service that is always too slow acknowledges nothing. `FairAccess` assumes that
leases lapse, that consumers poll and process for ever, and that not every acknowledgement is
late; strong fairness of claiming an event stands for `ORDER BY created_at`, which makes every
undelivered event the oldest one in the end.

## Proofs

Every safety invariant and action property that a passing run checks is also a theorem for every
value of the constants, and so are both refinements. None of the modules under proof contains a
RECURSIVE operator: a refund is a chain of three divisions, a sum of natural numbers is the size of
a set of pairs, and the two loops of the code (over allocation rows, over the records of a message)
are recursive functions.

- `ApportionProofs`: `SplitConserves`, `RefundExact`, `RefundMonotone`, `FullRefundReverses`, for any
  shares and amounts. The key fact is that what is left of a refund is never more than what is left
  of the total. Then sums: a total changes with one row by that row (`TotalUpdate`), and is monotone
  (`TotalMonotone`).
- `LedgerProofs`: `LedgerSpec => []LedgerTypeOK` and `[]AllocationsExact`. The two are
  inductive together: the type of `returned` needs the arithmetic, and the arithmetic
  needs the type. `[]PayoutControl` and `[]Attribution` are inductive given the type.
  - `[]Books`: a step changes one row and posts; it keeps the books if its posting is the
    difference of the row, bucket by bucket (`OrderPosting`, `PayoutPosting`), which is shown for each
    operation. `[]NeverOverdrawn` is inductive only with `Books`: at `RequestPayout` the code looks at
    the wallet, and `Books` turns the wallet into the released shares less what is drawn.
  - `[]RefundNeverStuck`: `RefundMonotone` makes every delta of a legal refund a natural number
    (`DeltasFit`), so `refund` meets none of its internal errors; the deltas are taken from the
    accounts of the slots and given to the clearing account, so gains and losses agree (`LinesOfSlots`),
    which is all `post` asks, because only slots with an account have a share (`SharesHeld`); and by
    `Books` a frozen wallet holds at least what the slots of this order still hold, so its CHECK never
    fails.
- `CommissionProofs`: the interleaved transactions, for any number of processes, accounts and requests.
  - `KeepsLedger`, the refinement. `Knows` says, for each operation and each value of `pc`, what the
    transaction has found out and still relies on, and which locks it holds for that. A step of another
    transaction leaves alone whatever is under these locks (`Guarded`; locks have one holder,
    `Exclusive`), so it takes nothing of that away (`OthersKeep`). At its commit a transaction then
    knows all the guards of its atomic operation, about the rows that are committed *now*, and what it
    writes is what that operation writes (`CommitRefines`). `[]SeenIsCurrent` and `[]CommissionTypeOK`
    follow from the same invariant, and with the refinement every theorem of `LedgerProofs` holds of
    the transactions (`TransactionsKeepBooks`).
  - `[]ExactlyOnce`: a commit adds one event and one answer, and only to a request that has neither;
    that a release is recorded once needs that no operation takes a release back (`ReleasedStays`).
  - `[]OnlyExchangesDeadlock`: locks have levels (key, customer, order or payout row, refund, wallets by id), and a
    transaction waits for a lock above all those it holds (`LockOrderInv`). The entries of the unique
    indexes come last and out of that order. Whoever holds one only has to write and commit, with one exception: an
    `outcome` that has already updated its payout, whose old provider reference nobody else can take, may still wait
    for the new one. So in a deadlocked set, the transaction that waits at the highest level waits
    for none of the others unless it waits for such a reference, and those that do are deadlocked
    among themselves (PostgreSQL aborts one of them, answered with 503; `docs/ARCHITECTURE.md` 77 says that the order of the wallets *lowers* the risk).
- `OrderProofs`: `[]RuleOfItsTime`: what a capture has seen stays true, since rules are only ever
  published or disabled; the rule it has chosen beats all others that were in force at its `now()`.
  `[]LoopAgrees` and `[]NearlyProportional`, for any amounts, rules and histories of refunds: an
  order has two to four allocation rows, so the loop is unfolded for each length (`LoopOfTwo`,
  `LoopOfThree`, `LoopOfFour`) and meets the slots (`LoopIsCumulative`). `OrderInv` says that the rows are a
  function of the shares and the refunded total alone; what one turn adds to the rounding is bounded
  (`Drift`), and `NearlyProportional` adds the turns up (`SlotDrift`).
- `IngestionProofs`: `[]IngestTypeOK`, `[]NormalizedIsStored`, `[]AckedIsStored`, `[]ProjectionIsNewest` and
  `OnlyForward`, for any bodies, pages, handlers and repeated, overlapping or stopped deliveries, with and without a
  checkpoint row. They are
  inductive together with `JobsOK` (what a request in flight has stored so far, message by
  message) and `ObservedIsRaw`. A raw event keeps its message, and once `normalized` stays so
  (`RawKept`). The loop `UpsertAll` has no fixed length. That its recursive function is defined, and keeps what one
  turn keeps, is shown by the least exception (`LeastNumber`): the turn before it was none.
- `AccessProofs`: `[]AccessTypeOK`, `[]OneHolder`, `[]DeliveredWasHandled`, and the action properties
  `OneRoot` and `LastAdminStays`. `Leases` ties a consumer's lease to the holder in the
  row; `Checked` says what a request that is about to write has found, and that the advisory lock
  keeps it true until it writes: bootstrap's empty table, and the other administrator
  of a revocation.
- `SyncProofs`: `[]SyncTypeOK`, `RevokedForever`, and, from a checkpoint row that exists
  (`InitialRow = EmptyRow`; the run `first_sync` shows why), `[]NoGap` and `OverwritesSeen`, for any window,
  overlap, number of workers and clock differences with `Lag + Ahead <= Overlap`. `NoGap` speaks of the
  stored row only. `WorkerOK` adds what a window and a page are worth as of the checkpoint the worker has
  read, and `SafeRow` that whoever is about to commit has read the newest one.
- `ClientProofs`, the console: `[]ConsoleTypeOK` for any number of tabs; with one tab (`SingleTab`), `[]OneWrite`,
  `[]NoSilentReplacement` and the refinement `KeepsWrite`, for any actors, keys and faults of the storage. `OneWrite` says
  nothing of the past: `Tracked` ties every write with an open outcome to the storage or to `unguarded`, and `Certain`
  lists the phases in which there is none. `[]ShownIsSelected` of `Panels`.
- `ClientProofs`, the desktop: `[]BridgeTypeOK`, `[]OneWriteInMemory`, `[]SentUnderOneIdentity` and
  `[]SentIsRemembered`, for any servers, actors, keys and number of restarts. Three invariants need
  each other: `Memory` relates the session, recovery, logins and calls; `Identity` covers whatever
  names a key, in memory, in both files and in what a power cut would leave of them; `Remembered` ties
  open requests to the files and to memory. The lemma `WriteFiles` is about `write_store`: wherever
  it stops, a file that named the write still does, or is torn.

The assumptions are those of the modules: accounts are distinct and typed
(`AccountAssumption`), tables are finite, the accounts included (`TableAssumption`), requests carry the
fields of their operation (`RequestAssumption`), transactions run on the finite pool of connections
(`main.rs` 29) and the order of account ids is total (`ProcessAssumption`), `MaxOperation` is a positive
number, absent values (`None`) differ from ids, rows and requests (all modules), the pages of a
reconciliation have event ids of their own (`IngestAssumption`), and `Lag + Ahead <= Overlap`
(`SyncAssumption`). Two groups of
theorems have hypotheses of their own: the existing checkpoint row of `NothingSkipped` and `ProgressKept`, and the
single tab in those of the console; the runs `first_sync` and `tabs` show what happens
without a row and with a second tab.

Only model-checked: the liveness properties (`DueIsReleased`, `CatchesUp`, `Redelivered`, `Delivered`), since
fairness and ENABLED are out of the prover's reach, and the five findings, which are counterexamples.
`NoGap` without a checkpoint row and the console with two tabs are false and not proved.

Two things the proofs found in the models, both now corrected. `LockOrder` of `Commission` chose between
a refund, a released and an unreleased order by a CASE whose guards overlap on the refund of a released order, which
TLA+ leaves open and TLC decides by the order of the arms. The balance of a posting was a fold of a
function over the accounts, which says nothing when the accounts are not a finite set; it is now the equality
of what the lines add and what they take (`Gains`, `Losses`).

## Not modelled

- Requests that a static check refuses (role, text length, currency) change nothing. Fields of forms,
  their validation, roles and display are left out of `Console`.
- `Console` takes a step on the local storage as atomic across tabs, which browsers only approximate; the
  finding of `tabs` does not depend on it.
- After a power cut the desktop's file may name a write that was sent as never attempted, because the
  rename is not synced: `SentIsRemembered` excludes that case (`cut`), the hazard list has it.
- Amounts are integers: operations are limited to 10^14 fen and the sums of the code
  are `i128` or `BIGINT`, whose overflow is far beyond any instance.
- Accounts and the rule in force for a merchant are constants of `Ledger`; how they change is in `Rules`, which is
  not composed with it. A capture that read a rule just before it was disabled still uses it, which the code
  accepts and `RuleOfItsTime` allows.
- `docs/ARCHITECTURE.md` 34 calls the version a global order of publication. It is the order of the
  INSERTs; a rule with a smaller version may be committed later. `RuleOfItsTime` does not depend on it.
- A credential is checked when a request arrives and not again when it commits; administrators are counted
  as of the start of the revoking transaction. No text promises otherwise.
- A page of a platform that never normalises, and an order whose release always fails, stand still
  for ever; the fairness of the runs leaves them out.
- The status of a connection is checked before a page is fetched, not when it is committed: a synchronisation that
  has started runs to its end after a revocation (`PlatformSync` allows it, no property forbids it).
- Signing, HTTP clients, normalizers, queries, HTTP routing, money formatting, observability and deployment hold no
  protocol state.

## Plan

1. The composition of `Rules` with `Ledger` and `Commission`, so that the terms of a capture are those
   of the rule it selected.
2. Proofs about that composition: that a capture writes the split under the terms of `RuleOfItsTime`, and
   that the lock invariant `Knows` survives the changed `Quote`.
3. `money.rs` as pure operators against a reference definition.

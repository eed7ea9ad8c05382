# A TLA+ model of the wagering service

This directory holds a formal model of the service in `src/`: TLA+ modules
translated from its Go code and its SQL migrations, TLC configurations that
check them on small instances, and TLAPS proofs of what holds for every
instance. File and line references below are relative to `src/`; the full
correspondence, definition by definition, is the `map` of `PROJECT.json`.

## 1. The system

Game providers submit operations (bets, wins, losses, refunds, rollbacks)
against player wallets, over HTTP or on a FIFO queue. Each operation is applied
inside one PostgreSQL transaction against one wallet. It leaves a
wager transaction, a ledger entry if money moved, and events in an outbox that
a publisher puts on a second queue.

| Component | State it keeps | Operations | Talks to |
|---|---|---|---|
| Domain rules (`internal/domain/wagering`) | none: rows in, decision out | `Command.Validate`, `Processor.Continue`, `evaluateReference`, `Wallet.move`, the state machine of a transaction | called by the application inside its transaction |
| Money (`internal/domain/money`) | none | parse, format, add, subtract with a range | the domain |
| Submission (`internal/app/wagering.go`, `Submit`) | one open database transaction per call | inbox lookup and record, replay by key, replay by external id, wallet lock, insert, settle, resolveDuplicate | store |
| Resumption (`internal/app/wagering.go`, `Resume`) | one open database transaction per turn | NextDue, wallet lock, ClaimForUpdate, settle, cannotCarryForward | store; driven by the reference worker |
| Wallet administration (`internal/app/wallets.go`) | none | Open; the reads ByID, Ledger, Reconcile | store |
| PostgreSQL store (`internal/adapters/postgres`, `migrations`) | wallet, wager_transaction, wallet_ledger_entry, active_reversal, inbox_message, outbox_event | row locks, unique indexes, triggers that refuse or maintain, COMMIT and ROLLBACK | shared by every process |
| Outbox publisher (`internal/workers/publisher.go`) | claims on outbox rows, a running turn | claim, send a batch, mark, reschedule, release on Stop | store, SQS |
| Queue consumer (`internal/workers/consumer.go`) | messages in hand, receivers, a Stop under way | receive, handle, delete, hide or leave, give back on Stop | SQS, Submission |
| Reference worker (`internal/workers/reference.go`) | its pause | call Resume until there is nothing due, wait, repeat | Resumption |
| Identity (`internal/adapters/oidc`) | the key set, one fetch in flight, the time of the last fetch | look up a key, refresh, decline; verify a token, read its claims | the issuer |
| HTTP API (`internal/adapters/http`) | the request in progress, the answers of a readiness probe | route, authenticate, decode, call the application, answer | the application, the key set, the dependencies it probes |
| Error model (`internal/app/errors.go`, `internal/domain/failure`, the adapters' `errors.go`) | none: an error is its chain | classify, wrap, restate, answer | every component |
| Wiring (`internal/fxmod`, `cmd/api`, `cmd/worker`) | hooks, contexts, the pool, the exit code | build, start, serve, stop | everything |
| Configuration and telemetry (`internal/config`, `internal/telemetry`, `cmd/migrate`) | none a decision depends on | read the environment, record, migrate | |

What is hard here, and what the properties are for:

* **Interleaving.** Three API replicas and two workers write the same tables. A
  submission looks for its idempotency key, then for its external id, then
  queues for the wallet, then inserts: another submission can commit between
  any two of these. Two workers choose the same due row with a plain `SELECT`.
* **Sequences of reversals.** A refund may be rolled back, and the bet then
  rolled back too. Two rules (one active reversal of a reference, and one successful
  reversal of each kind ever) have to give a stake back once and never twice.
* **Operations that arrive before what they name.** They park, are woken when
  their reference is processed, are looked at again on a backoff, and run out of
  attempts or time. A wake-up could be lost between a parking and a settlement.
* **Failure anywhere.** Any transaction may die at any statement; a COMMIT may
  succeed and its answer be lost; a message is delivered again, perhaps to
  another replica, perhaps with another body under the same identifier.
* **The queue.** A message's visibility runs out while it is handled, its group
  must not be overtaken, a poison message must not take its neighbours with it, and
  Stop must give back what nobody decided about.
* **Two statements of one rule.** The domain's types and the schema each refuse
  malformed rows, and the schema is the coarser net; a row it admits and the type
  refuses is corrupt, and blocks a wallet. An error is classified by whichever of its layers is asked first.
* **Stopping.** Loops, server, pool and contexts end in an order nobody wrote down
  in one place, under budgets that may pass at any moment.
* **Clocks.** Each replica stamps rows with its own clock and the schema refuses
  a stamp that runs backwards.

`PROJECT.json` lists these as hazards at the lines where they bite.

## 2. Modules

| Module | What it is |
|---|---|
| `WageringDomain` | The domain as operators: kinds, directions, statuses, validation, the payload comparison, the reference rules, the movement, the wait budget and the verdict (`apply`) of `Processor.Continue`. |
| `Wagering` | The service over its store: tables as variables, sessions as open transactions, one action per statement or group of statements another session cannot come between. Properties are at the end. |
| `MCWagering`, `MCScenarios` | The operations, wallets and symmetry sets of its configurations; several of them in one run. |
| `WageringProofs` | `Wagering`: types, the lock and the ledger's chain. |
| `WageringHistoryProofs` | `Wagering`: what is recorded, answered, applied once and announced. |
| `WageringReversalProofs` | `Wagering`: references, reversals, wake-ups and sums. |
| `OutboxPublisher` | The publishers over the outbox table and the outbound queue. |
| `EventStream` | What the publishers promise a reader of the queue: the abstract specification `OutboxPublisher` implements. |
| `MCOutboxPublisher` | The names and delays of the publisher's configurations. |
| `OutboxPublisherProofs` | The theorems about `OutboxPublisher`, the refinement among them. |
| `Consumer`, `MCConsumer` | The queue consumers over the inbound FIFO queue. `Submit` is one step here; `Wagering` opens it up. |
| `KeySet` | The cache of the issuer's signing keys. |
| `Lifecycle` | One process from its configuration to its exit code. |
| `MCProcess` | Instances of the last two. |
| `ConsumerProofs`, `ProcessProofs` | The theorems about `Consumer`, and about `Lifecycle` and `KeySet`. |
| `HttpApi` | One request from the mux to its answer, and the readiness probe. |
| `ErrorClasses` | A failure on its way from where it arose to a status and to the fate of a message. |
| `MCHttpApi` | Instances of the last two. |
| `HttpApiProofs` | The theorems about them. |
| `Money`, `MoneyCalls` | Spelling and checked arithmetic, of any width; and one operation of it called at a time. |
| `WalletReads` | Paging a ledger and reconciling a wallet while it moves. |
| `TransactionRecord` | An operation as the domain's type, its snapshot and its row, under the checks of both and where they differ. |
| `MCStored` | Instances of these. |
| `StoredProofs` | The theorems about what is calculated, written down and read back. |

`MCProcess`, `MCHttpApi` and `MCStored` put components that do not interact side by
side in one run: a variable chosen initially (`about`, or whether there is an
`origin`) says whose behaviour it is, and the others stay in an initial state.
`MCScenarios` does the same for groups of operations on `Wagering`.

A definition marked as a wrong variant, or as a mutant, is a plausible mistake in
the definition after it; nothing uses it. `PROJECT.json` lists, for each property,
the variant under which it fails.

### State of `Wagering`

| Variable | Code |
|---|---|
| `wallets` | table `wallet` (`migrations/000003`): player, currency, balance, version, updated_at |
| `txns` | table `wager_transaction` (`000004`), in commit order; a row's number stands for its id |
| `ledger` | table `wallet_ledger_entry` (`000005`), one sequence per wallet |
| `active` | table `active_reversal` (`000004`, `000010`) |
| `inbox` | table `inbox_message` (`000006`) with the body's operation for its hash |
| `outbox` | table `outbox_event` (`000007`), one sequence per aggregate, type and transaction kept |
| `sess` | what an open transaction has read and decided: its statement (`pc`), the request or the due row, the instant, the wallet read under the lock, the view of the reference |
| `clock` | real time in ticks |
| `acks` | history: which row each caller was answered with |

Uncommitted writes are seen by nobody, so they are kept in `sess`; the unique
indexes do see them, which is what `InboxInFlight` and `InsertInFlight` are.

### Actions of `Wagering`

| Action | Code |
|---|---|
| `Submit`, `FindInbox`, `RecordInbox`, `ReplayByKey`, `ReplayByExternal`, `LockByID`, `Record`, `Settle` | the statements of `submitOnce` (`app/wagering.go:205-323`), in its order. `Record` is `clock.Now`, the insert and `ReferenceFor`: all are under the wallet lock. `Settle` is `Continue` and `commitOutcome`: the settle door with its triggers, `MakeDue`, the outbox append and COMMIT. |
| `ResolveDuplicate` | `resolveDuplicate` (`432-466`), a snapshot after the rollback of a lost insert |
| `NextDue`, `ResumeLock`, `ClaimForUpdate`, `Resume`, `cannotCarryForward` | `Resume` (`539-667`) and `cannotCarryForward` (`723-769`) |
| `Refused` | a settlement that a guard of the schema refuses: versions, the ledger chain, active reversals, clocks |
| `Abort` | any transaction ending at any statement: a crash, a lost connection, a lock or statement timeout, a cancelled context |
| `Open` | `Wallets.Open` |
| `Tick` | time |

What is abstracted. Identifiers are model values or short strings; a payload
hash is the tuple of the fields it covers. An event is its type and its
transaction. A provider, a game and the causation and correlation identifiers
play no part in a decision beyond equality. The backoff's jitter is left out: the
delay is a constant function of the attempt, clamped to the deadline as in
`BackoffPolicy.next`. Why a stored row cannot be rebuilt is data;
`Unbuildable` names the rows for which it happens. The two checks of time in the
schema compare microseconds, which a tick does not resolve: a settlement in the
tick of the wallet's last movement may be refused or not.

### `OutboxPublisher`

| Variable | Code |
|---|---|
| `appended` | table `outbox_aggregate_sequence` (`migrations/000007`): the number of each wallet's last event |
| `rows` | table `outbox`: attempts, next_attempt_at, claimed_by, claim_expires_at, published_at |
| `pub` | a publisher process: running, stopping or stopped; where its turn is; the batch it claimed; the entries the queue accepted |
| `wire`, `memory` | the queue, external: how many copies of an event it took, and how long it will still drop another |

| Action | Code |
|---|---|
| `Append` | `outbox.Append` and the trigger that numbers the event. In `Wagering` this is part of a settlement; here it comes at any time. |
| `Claim`, `Send`, `MarkPublished`, `Reschedule`, `RecordNothing` | the statements of `Publisher.turn` (`workers/publisher.go:350-433`), with `mark`, `reschedule` and the SQL of `adapters/postgres/publisher.go`. Between any two of them any time may pass. |
| `Stop`, `ReleaseClaims` | `Publisher.Stop`: the release happens when the turn is over or when the drain timeout has passed with the turn still running |
| `Restart` | a process that ends or is killed at any point and starts again under the same name |
| `Tick` | time, for the rows and for the queue |

Instants are kept relative: `wait` is how long until `next_attempt_at`, `hold`
how long until `claim_expires_at`. Both go on below zero as far as `Skew`, because
the code compares them with the publisher's own clock, which may lag that
much. Because of `SKIP LOCKED` a claim may pass over any row another statement
has locked, so it takes any part of what is claimable up to `Batch`. A claim's
answer may be lost: the rows are held and nobody knows. The queue may take any
part of a batch and report any part of what it took: `SendBatch` treats what it
was not told of as failed. The outcomes of a batch are recorded one by one, in any
order. Marking is not scoped to the claim and rescheduling is, as in the SQL.
`Reschedule` may set any wait up to the delay of the row's attempts, since the
instant was read before the loop began, and the count when the row was claimed. Pauses
between turns are left out: a turn may start at any time or not at all.
Rows are never deleted: retention is an operator's and not in the code.

### `Consumer`

| Variable | Code |
|---|---|
| `queue` | the FIFO queue, external: where a message is, how often it was received, whether it is hidden |
| `inbox` | the inbox rows of this consumer: which body was handled under an id |
| `con` | a process: running, draining, cancelled or stopped; what it holds; what its release sweep has left |
| `rec` | a receiver: where `receive`, `handleBatch` and `handle` are, and the messages of its batch not yet done with |
| `announced` | the messages `RecordDeadLetter` was called for |
| `Body` | what the senders put in the messages, chosen initially |

| Action | Code |
|---|---|
| `Receive` | `receive`: a batch is hidden and counted; its answer may be lost, and its messages are in hand or not |
| `HandleNext`, `handle` | `handleBatch` and `handle`: the envelope is read, then `Submit` commits or refuses. What was refused is deferred, left for the redrive policy or abandoned, as its class and the contexts say (`defer`, `poison`, `abandon`) |
| `acknowledge`, `hide` | the delete and the visibility change, which may fail or come too late |
| `Stop`, `stopWork`, `drain`, `releaseHeld` | `Stop`: no more receiving, the drain timeout, the second wait, the sweep that gives back what is held |
| `Expire`, `Redrive` | external: visibility runs out; the receive count sends a message to the dead-letter queue |
| `Restart` | a process dies at any point and starts again |

Times are left out: a visibility timeout may pass at once, also while the message
is being handled. A receipt handle names one delivery, and an old one does nothing.

### `KeySet`

`keys`, `age`, `inflight` are the fields of `keySet` (`age` is now minus
`lastFetch`); `fetches` are the `runRefresh` goroutines; `call` is where each request is in
`keySet.key`. The lookup, the request for a refresh, the wait and the second
lookup are separate steps, because the mutex is released between them.
The issuer (`document`) rotates its keys, may be out, and may publish
entries nothing can be verified with; the clock may be set back. `elapsed` and
`waited` are histories the properties read.

### `Lifecycle`

`Hooks(graph)` is the sequence of hooks as `fxmod` appends them, for the API and for
a worker with any of the three loops; `ran` is how far Fx, which is external, has
come, up at start and down at stop. `part` is what the server and each loop are
doing: in the database, in a call that needs no connection, idle, returned. Contexts
are what has been `spent` (the signal and the two budgets) and which
parts have been `cancelled`. `resolveQueue`, `queueReadiness`, `StartPart`,
`StopPart`, `Drained`, `DrainTimeout`, `close` and `Stopped` follow
`fxmod/{sqs,workers,httpserver,postgres,binaries}.go`.

### `HttpApi` and `ErrorClasses`

A request goes through `ServeHTTP` (correlation and mux), `authenticated` (header,
signature, claims, principal), `handle` (body and path), `useCase` (the door of
`internal/app`, then an outcome) to its one answer. What a caller sent is chosen
where the code first looks at it. Keys and the work behind a door are their
outcomes: `KeySet` and `Wagering` are about them. A probe asks all checks
at once; one that hangs is ended by the budget.

An error is the sequence of its layers, as `errors.Is` walks it. `Origins` are what
the domain, a stored row, pgx, the SQS client and the application can report, each
with the truth about it (declined, refused, stored, missing, foreign), which the code cannot see and the property compares
its answer with.

### `Money`, `WalletReads`, `TransactionRecord`

`Money` has `Parse`, `Amount` (the canonical form), `MarshalJSON`, `Add`, `Sub`,
`Neg` and `Cmp` with the tests the code makes; base, scale and integer width are
parameters. In `WalletReads`, `Ledger` reads a page after a cursor in a transaction of
its own, and `Reconcile` reads the wallet and its entries in one snapshot,
while `Move` appends entries and `Tamper` alters what this service did not write. In
`TransactionRecord` a caller creates a transaction, calls any of its methods with any
arguments and stores it, and something else may write the row, or the row and its wallet (`TamperRecord`).
`Refusals(row, wallet)` are the constraints of migrations `000001`, `000004`, `000009` and `000010` that a row breaks, by
their names; `Guarded` is the guard of updates and `Contested` what a completing reversal may meet. `Loads` is what
`transactionRow.transaction` accepts. The two sides state identifiers and currencies apart: `opaque_id` takes an
identifier between white space only Unicode knows (`spaced`), which `parseOpaque` (`Good`) refuses, and `currency_code`
takes three capitals, of which `ParseCurrency` (`isSupported`) wants a supported one. That PostgreSQL's `[[:space:]]` is
ASCII is taken from `docs/schema.md:132`. The nil UUID in `id` is also the model's nil UUID in `wallet_id`, which is
checked and read in the same way.

## 3. Runs

| Run | Instance | Checks |
|---|---|---|
| `operations` | one wallet, largest balance 4, opened with 2; five scenarios, below | `TypeOK`: balances and results stay in range. `BalanceIsLedgerSum`: the balance is what the settled operations moved. `ReversalsNetOut`: a bet with everything that reverses it comes to the bet or to nothing, and to nothing exactly while `active_reversal` says so. `BackstopsUnreachable`: the application never proposes what the schema would refuse. `HeldIsCurrent`: whoever holds the wallet lock is alone and decides on the current row. `WalletMatchesLedger`: the ledger chains without a gap in balance or version and ends at the wallet. `OutboxTellsTheStory`: each settlement is announced once, and balance changes in ledger order. `AppliedExactlyOnce`, `NoLostWakeup`, `WaitIsBounded`, and `RowsOnlyMoveForward`: settled rows never change, attempts never fall, a deadline once set is kept. |
| `replays` | three submitters, two wallets, one message identifier with two bodies; the same key and the same external id used for different operations | `AnswersAgree`: one row per key and external id, and no caller is answered with another's row. `HandledMeansRecorded`: a message in the inbox has its operation recorded. |
| `settling` | one submitter, one worker, a row that can never be rebuilt | `ParkedEventuallySettles`, under fairness |
| `resume_clock` | one submitter, one worker | `StampNeverStale` is violated: see the findings |
| `claims` | two publishers, one wallet with two events, clocks one tick apart, three distinct delays | `TypeOK`: no wait beyond the backoff's cap. `PublishedWasAccepted`: an event marked published is on the queue. `ClaimsRespected`: no publisher touches another's live claim except by publishing the event. `ImplementsEventStream`: first copies are in order, without a gap. |
| `draining` | two publishers of which one goes on, one wallet with two events | `EventuallyPublished`, under fairness |
| `late_copy` | the same | `NeverOutOfOrder` is violated: see the findings |
| `consuming` | two processes, of which one is never stopped, a group of two messages received in batches of up to two, two deliveries before the dead-letter queue; the messages are sound, or the first cannot be read, or they share an id; lost answers, late handling, deaths | `DeletedWasRecorded`: what is deleted was applied, that very body. `AppliedInOrder`: no operation of a group overtakes another. `StopGivesBack`: after the sweep nothing undecided is left to wait out its visibility. `EventuallyDecided` and `StopReturns`, under fairness. |
| `dead_letters` | two groups with a message each, received in one batch, the first of which cannot be read | `DeadLettersAnnounced` is violated: see the findings |
| `process` | every graph of both binaries, any subset of its queues provisioned, one outage; or two callers, two keys, four documents, two rotations, one clock correction of two ticks, an interval of two | `NothingStartsHalfUp`: no part works before every check has passed. `PoolOutlivesItsUsers`: the pool closes after each Stop that gives something back through it. `ExitTellsTheTruth`: exit 0 means everything came back and nothing is claimed. `StopEnds`: a signalled process ends although a turn hangs. `IssuerIsNotHammered` and `DeclineIsBounded`: at most one fetch per interval, and no refresh declined for longer than one, whatever the clock does. `EveryCallEnds`, `RotationIsPickedUp`, under fairness. |
| `requests` | every route and every way a token, a body or a correlation can be wrong, one at a time; two readiness checks; or every origin of an error wrapped up to six layers | `ActsWithinGrant`: what a request writes or is shown, its token granted at that moment, and a refused request leaves nothing. `AnswerFitsFailure`: who is blamed, who is told to retry, and that a foreign operation answers as a missing one. `EveryRequestAnswered`, although a dependency never answers. |
| `stored` | every string of up to six characters and every pair of 6-bit amounts in base 3; or a ledger of up to three entries, pages of up to two, one row altered; or a transaction whose row, or row and wallet, something else writes once and whose clock is set back | `AmountsAreExact`: one spelling per amount, and arithmetic that is exact or refused. `PagesTellTheLedger`: following cursors shows each entry once, in order, of this wallet. `AuditIsTrue`: a reconciliation reports exactly the wallets that do not add up. `StoredReadsBack`: a row reads back as what was written. `CorruptOnlyWhereCoarser`: the rows the schema admits and the type refuses are those of four named sorts and no others, this service writes none of them, and the schema refuses of its writes only what the type cannot see. |

**Scenarios of `operations`.** (1) One submitter; a bet, two refunds of it, a rollback
of the bet, of the refund and of that rollback, in every order and with every
abort. (2) Two submitters and a worker on a bet, its refund and its rollback, with clocks one
tick apart. (3) One submitter and two workers; a bet, a win that names it and a rollback of
the win. (4) A win that names a win, and a loss. (5) A win beyond the largest balance, a bet
beyond the balance, a rollback of money already spent, a partial refund.

**Bounds.** A bet, its reversals and the reversals of those are the whole of the
reversal rules: what may reverse a rollback is decided by its kind alone, and a
chain of three reaches each rule on both sides. Two sessions that contend and a
third that is neither are enough for each pair of statements to interleave;
`replays` has three because a lost race needs a winner and a
bystander. `MaxBalance` = 4 with an opening of 2 is the smallest that has
insufficient funds, an overflow, and room for both. `MaxAttempts` and `TTL` of
2 give one wait that ends in success, in the attempt limit or in the
deadline. `Horizon` bounds the clock while nothing waits;
it never stops the clock of an operation that has a next attempt. `until`, of a scenario, is past the last
instant its operations can wait for, and otherwise cuts the clock where two stamps can differ. `Skew` is how
far a replica's clock may lag: one tick is enough for every order of two stamps.

For the publishers: the head-of-line rule allows one event of a wallet in a batch,
so order needs several events of one wallet, and a batch of several wallets is the theorem's
matter (`NoEventLost` holds for every batch size). Two publishers are the one that
lost a claim and the one that has it. `Hold` and `DelayMax` are below `Window`
as the configuration loader requires (`config/load.go:561-562`); the smallest
such values let a claim expire before, and the window close after, a resend.
Copies are counted up to two, attempts up to where the delay is capped.

For the consumers: one group of two messages is the smallest that can be overtaken and
in which one message can spoil another's delivery; two processes are the one that was too slow
or stopped and the one its messages go to. Two deliveries are the first and the last.

For the keys: an interval of two ticks tells "within" from "at the end", a correction of two
puts the last fetch into the future, and two callers are the one that starts a fetch and the one that joins it.

For amounts: base 3, scale 2 and `MaxInt` = 31 keep what matters of ten, two and 2^63 - 1: the
largest amount is no multiple of a major unit, and a fraction can have a leading zero.
Six characters are one more than the longest amount.

**Deadlock** is checked in every run but `process`, where a process that has exited
does nothing more. Elsewhere some step can always be taken: a submission, an event, a request can always arrive, and time passes.

**Fairness.** `settling`: time passes. A submission that holds locks ends, because
each statement has a lock timeout (3 s) and a statement timeout (15 s) and a
dead connection is rolled back by the server. The reference worker
takes turns for ever; its wait for a wallet is served because PostgreSQL queues
row locks (strong fairness of `ResumeLock`); and its settlement, which the
schema may refuse for falling into the microsecond of another movement, is not
refused for ever (strong fairness of `Resume`). Aborts of the worker are left
out of `SteadyNext`: an aborted turn leaves no trace, so a worker whose
turns abort finitely often behaves as one that idled. Nothing is assumed of callers: they
need not submit.

`draining`: of the publishers in `Steady`, which are not stopped and do not
die: what one can claim again and again it once claims and learns of
(`run` loops for ever, and `SKIP LOCKED` passes a row over only for the instant
of another's statement); a turn under way goes on; a queue
asked again and again once takes the event and says so; and a mark tried again and again
succeeds. The last three are what retrying is for: a queue that refuses an event for ever stalls
its wallet, as the comment at `workers/publisher.go:501` says. Nothing is assumed of the other publisher:
it may claim each event first, die, restart and claim it again for ever.

`consuming`: visibility runs out and the queue applies its redrive policy; a receiver of a process that is
neither stopped nor killed goes on, and what it polls for again and again it once
receives, because long polls return and are made again. For Stop only that its two timers fire. A call that ignores its context may hang
for ever in a process that is being stopped.

`process`: for the keys, that goroutines run, time passes, and the issuer,
asked again and again, once answers; without the last no rotation could be noticed. For the life, that Fx runs
its hooks and the timer of `STOP_TIMEOUT` fires; nothing is assumed of a request or a turn, which may hang.

`requests`: the goroutine of a request runs, and the budget of a probe passes.

## 4. Findings

**The clock of a resumption** (`resume_clock`).
`app/doc.go:53-55` says the clock is read once per command *under the wallet
lock*, and `app/wagering.go:277-280` why: a command that queued behind another
must not stamp the wallet with an older time. `Resume` reads it at
`wagering.go:567`, before it looks for a due row and before it waits for the lock. TLC's trace: a
worker reads the clock and finds a due row; a submission on the same wallet
commits at a later instant; the worker gets the lock with a stamp that
`wallet_guard` (`migrations/000003_wallet.up.sql`) refuses. The transaction
rolls back, so no property about money is affected; the turn is
lost and reported as an unretryable error, and the operation is settled by a later turn.

**A late copy** (`late_copy`). `adapters/postgres/publisher.go:34-36` says the
head-of-line rule means the publisher "cannot send a wallet's events out of order
however it is scheduled". It governs the claim, and the send looks at no claim.
TLC's trace: a publisher claims event 1 and is paused; its claim expires; another
publishes 1, then 2; when the queue has forgotten the id of 1 the first one wakes and
sends it, behind 2. `ARCHITECTURE.md:2631-2642` lists the second copy after
five minutes as a known exposure; that it may come behind later events is not
said. A consumer that deduplicates on the `eventId`, or
refuses a sequence number it has passed, is not affected, which is what
`ImplementsEventStream` says.

**Dead letters nobody counts** (`dead_letters`). `telemetry/metrics.go:317-319` says
`RecordDeadLetter` counts each message whose delivery was its last. `handleBatch`
asks `lastDelivery` of the message it handled; the ones behind it in the batch are let go or hidden (`workers/consumer.go:454-469`)
without being asked, although the receive counted for them. TLC's trace: a message received behind a poison
one each time uses up its deliveries untried and goes to the dead-letter queue uncounted. The operation is not
lost, and `AppliedInOrder` is not affected, since a dead-lettered message has left its group.

### Also met while modelling

Places where a comment says more than the code does. Each follows from the definition named, and none
touches money.

* `adapters/postgres/tx.go:248-251` says a commit that lost its connection is
  classified retryable. `transient` (`adapters/postgres/errors.go:210`) returns
  false for an error with neither a SQLSTATE nor a `ConnectError`, which is how a
  closed socket arrives (`transient` in `ErrorClasses`): it is answered 500, and a message is left for the redrive policy.
* `adapters/oidc/errors.go:29-31` says a caller is declined a key the published set could not be shown to contain.
  `keySet.key` looks up (`keys.go:137`) and asks for a refresh (`141`) in two critical sections; a
  fetch that ends between them leaves the caller declined for a key that is held (`startRefresh`, then `Decline`, in `KeySet`).
* `domain/wagering/reconcile.go:109-110` says the sum of a ledger is independent of order. It is folded with checked
  additions, so an intermediate total may be refused in one order and not in another. The
  `ORDER BY` of `adapters/postgres/ledger.go` keeps the service on the order that sums (`LedgerBalance` in `WalletReads`).
* `domain/wagering/transaction_snapshot.go:55-56` says rehydration refuses what the state machine could never
  have produced. A PENDING row with attempts and a deadline is admitted by schema and type alike (`validateWaitBudget` in `TransactionRecord`).
* `docs/schema.md:132` speaks of one known divergence between schema and type, and `adapters/postgres/rows_test.go:45-47`
  calls its row "the one corrupt row that can be written without disarming anything". `Coarser` in `TransactionRecord`
  has four sorts: identifiers between white space only Unicode knows, which is the row of the test; currencies of the right
  form that are not supported, which `docs/schema.md:123` does mention; and two that are not written down, an instant in
  `created_at`, `updated_at` or `reference_deadline` that is Go's zero time, and the nil UUID. `CorruptOnlyWhereCoarser`
  says that there is no fifth and that the service writes none of the four.
* `cmd/worker/main.go:21-22` says each loop stops receiving at once. Loops are stopped by one hook each, in turn
  (`Hooks` and `StopPart` in `Lifecycle`): the consumer takes messages while the reference worker is drained.
* `adapters/http/server.go:154-157` says that requests still running at the deadline have their connections dropped.
  `Shutdown` returns and leaves them (`DrainTimeout` in `Lifecycle`); a request may commit and answer while the pool is closing.

## 5. Proofs

Every theorem is for every value of the constants: any wallets, sessions, messages and
operations, any number of processes, any policy, skew, batch size and bound. The
assumptions on constants are named in the module that declares them, and TLC evaluates
them in each run of that module. Every safety property a passing run checks, invariant, action property or
refinement, is proved; what is only model-checked is liveness.

Each component has the same argument: the property is not inductive, an invariant that is
says what an actor may still rely on when it goes on after others have moved, one lemma per action
shows it preserved, and the theorem follows.

### `Wagering`

| Theorem | Statement | Module |
|---|---|---|
| `TypeCorrect` | `Spec => []TypeOK` | `WageringProofs` |
| `LockProtectsWallet` | `Spec => []HeldIsCurrent` | |
| `LedgerAlwaysMatches` | `Spec => []WalletMatchesLedger` | |
| `RowsMoveForward` | `Spec => RowsOnlyMoveForward` | `WageringHistoryProofs` |
| `WaitsAreBounded` | `Spec => []WaitIsBounded` | |
| `AnswersAlwaysAgree` | `Spec => []AnswersAgree` | |
| `HandledIsRecorded` | `Spec => []HandledMeansRecorded` | |
| `AppliedOnce` | `Spec => []AppliedExactlyOnce` | |
| `StoryIsTold` | `Spec => []OutboxTellsTheStory` | |
| `GatesNeverMet` | `Spec => []BackstopsUnreachable` | `WageringReversalProofs` |
| `WakeupsAreKept` | `Spec => []NoLostWakeup` | |
| `BalanceAlwaysReconciles` | `Spec => []BalanceIsLedgerSum` | |
| `ReversalsAlwaysNetOut` | `Spec => []ReversalsNetOut` | |

Assumptions: `PolicyAssumption` (at least one attempt, a positive time to live, a largest
balance, `Nil` is no direction), `ServiceAssumption` (a delivery passed `Validate`, which
refuses an absent provider, external id or key; its amount is within range; submitters are not workers;
delays are positive), `RecordAssumption` (an operation has the fields of a command
and no others) and `NilAssumption` (what is absent is neither a row nor a view).

*The lock.* The ledger's chain is not inductive alone. A settlement computes the entry from
the row its session read, so the induction needs that this row is still the
wallet's, `HeldIsCurrent`; which needs that the lock excludes others, and that
a session under a lock is at a wallet that exists and, for a worker, holds a
row of that wallet. The inductive invariant is

    IInv == TypeOK /\ SessionsAttached /\ RowsHaveWallets
                   /\ HeldIsCurrent /\ WalletMatchesLedger

`SessionsAttached` ties a session's request, wallet and due row together at each
statement; `RowsHaveWallets` says every recorded row belongs to an open wallet.
Three lemmas carry the weight: `ApplySound` (a movement the
domain decides stays in range), `CommitStep` (a settlement from a current row
keeps the chain) and `FinishStep` (ending a transaction disturbs nobody).
The proof does *not* use that `Settle` and `Resume` have the negation of
the schema's version and chain checks as guards: the argument is from the lock.

*What is recorded.* A submission's settlement and a resumption's are one thing.
`Decision` says what the domain may decide and `Settlement` what is written for it; five
invariants are shown from the two:

* `HistoryInv`: a row a worker claimed is still parked when it decides (only a holder of the
  wallet's lock settles it), instants are past, and what a committed row is (`RowSound`).
  It gives `RowsOnlyMoveForward` and `WaitIsBounded`.
* `KeysInv`: the two unique indexes over committed rows, and over the
  rows of transactions still open. Without the second half two inserts could meet at COMMIT.
* `CallersInv`: each answer given still stands, each handled message has its operation.
* `EntriesInv`: entries and PROCESSED rows correspond one to one.
* `OutboxInv`: the events of a row are counted by its status and attempts, and `BalanceChanged`
  events and ledger entries are in the same order.

*What is reversed.* A transaction decides on a view of the operation it names. `ReversalInv`
says that `active_reversal` has the settled reversals nothing undid, one for a reference, that no
kind reverses the same thing twice, and (`ViewsCurrent`) that the view
stays true of everything on the session's own wallet while it holds the lock. Of another
wallet it need not: there `referenceAgrees` refuses. `BackstopsUnreachable` and
`NoLostWakeup` follow. `NetInv` sums what a bet, its reversals and the reversals of those
moved; nothing reverses a rollback, so a family has three generations.

*Sums.* `BalanceIsLedgerSum` and `ReversalsNetOut` are about a fold and a recursive function. The
library's induction takes an operator, which the provers cannot instantiate; a least
counterexample takes a set (`LeastNumber`), and from it that each sum exists, is unique, grows by one
entry at a time (`Net`), and telescopes along the ledger's chain.

### `OutboxPublisher`

| Theorem | Statement |
|---|---|
| `PublisherTypes` | `Spec => []TypeOK` |
| `NoEventLost` | `Spec => []PublishedWasAccepted` |
| `PublishersImplementStream` | `Spec => ImplementsEventStream`, the refinement of `EventStream` |
| `ClaimsAreRespected` | `Spec => ClaimsRespected` |

from `PublisherAssumption`, what the configuration loader enforces (positive sizes,
hold and backoff inside the window) and that a hold outlasts the skew. A publisher acts on a batch it claimed long ago and may
have lost. What carries the argument is that the facts it acts on cannot become false while
it sleeps: the events before one it claimed stay published
(`BatchesAtHead`), and what it was told is on the queue stays there
(`SentWasAccepted`); `RememberedWasAccepted` says the queue drops only what it has.

    IInv == TypeOK /\ BatchesAtHead /\ SentWasAccepted
                   /\ RememberedWasAccepted /\ PublishedWasAccepted

The claim is not used in the first three: order and completeness rest on the head-of-line
rule and on marking each event by its own result. Claims only keep publishers
from doing the same work twice, which is the fourth.

### `Consumer`

| Theorem | Statement |
|---|---|
| `NothingIsLost` | `Spec => []DeletedWasRecorded` |
| `NothingOvertakes` | `Spec => AppliedInOrder` |
| `StopLeavesNothing` | `"release" \notin Faults` implies `Spec => []StopGivesBack` |

`AppliedInv`: a receiver about to acknowledge holds a recorded message, and a batch still being applied is
`Ordered`: everything before a member in its group is recorded, dead or ahead of it in
the batch. The queue delivers it so, and `handleBatch` passes the head only when it is recorded; a message that is deferred takes
the rest of its group with it. `HeldInv`: the number of a delivery tells the deliveries of a message apart,
so a delivery is in one receiver's hands (`OneHand`), and what a receiver has in hand its process holds, until
Stop takes it to the sweep (`Accounted`). The hypothesis of the third is the property's own: a
visibility change the queue refuses cannot give anything back.

### `Lifecycle`, `KeySet`, `HttpApi`, `ErrorClasses`

| Theorem | Statement | Module |
|---|---|---|
| `NeverHalfUp` | `LifeSpec => []NothingStartsHalfUp` | `ProcessProofs` |
| `PoolIsLast` | `LifeSpec => []PoolOutlivesItsUsers` | |
| `ExitIsTrue` | `LifeSpec => []ExitTellsTheTruth` | |
| `IssuerIsSpared` | `Spec => IssuerIsNotHammered` | |
| `DeclinesEnd` | `Spec => DeclineIsBounded` | |
| `NobodyExceedsTheirGrant` | `Spec => []ActsWithinGrant` | `HttpApiProofs` |
| `AnswersFitFailures` | `FailureSpec => []AnswerFitsFailure` | |

`Lifecycle`: what the order of the hooks gives is stated once, of the sequences: each check is before
each part, and the pool before both. The invariant says where in that order a process is: the hooks behind it have
passed; a part not told to stop has its hook still ahead; one whose Stop
returned and reported nothing is finished.

`KeySet`: the age the code reads lies between two times it cannot read, the time it has
been declining and the time since a fetch really ended (`ClockInv`: `waited <= age <= elapsed`). A clock set
back breaks the lower bound, and startRefresh's restart at zero is what restores it. `KeySetAssumption`
says what a published entry is made of.

`HttpApi`: `LetIn` says what the packages behind authentication may rely on: the
token was good at the moment it was looked at, and the principal in the request is the one it names.
`TokenAssumption`: a token's window is in numbers, or absent.

`ErrorClasses`: an error is a sequence of layers, and one more is put around it or none. Each question the code asks
(`CodeOf`, `ClassOf`, whether a sentinel is among the layers) takes the first layer that answers, so a layer that
answers none of them changes no answer, and one that answers fits what the error began as. `FailureAssumption` tells the
codes of the catalogue from the absence of one.

### `MoneyCalls`, `TransactionRecord`, `WalletReads`

| Theorem | Statement |
|---|---|
| `AmountsExact` | `MoneySpec => []AmountsAreExact` |
| `RecordReadsBack` | `RecordSpec => []StoredReadsBack` |
| `CorruptKnown` | `RecordSpec => []CorruptOnlyWhereCoarser` |
| `PagesAreTheLedger` | `Spec => []PagesTellTheLedger` |
| `AuditTells` | `MaxTampers <= 1` implies `Spec => []AuditIsTrue` |
| `AuditAcquits` | `Spec => []` a wallet nothing else wrote to is reported consistent |

all in `StoredProofs`.

*Amounts.* The run goes through every amount and string of a small width; the theorem is for every base, number of places and
width, the code's ten, two and 63 bits among them. Power, reading and spelling are recursive functions, and each is shown to be the
one its equation describes (`PowerIs`, `ReadingsAre`, `DigitsAre`). `DigitsSay` and `Respelt` make spelling and
reading inverse on numerals without a leading zero, `FractionIs` and `FractionOf` on those that take exactly `Scale`
places; `ParseJoined` and `TakenIsJoined` say that what `parseAmount` takes is two numerals and a point, and `RangeIs` that
the test it makes by dividing is the one it means. From `WidthAssumption`: one major unit less one minor fits the
width. Without that a fraction alone could leave it.

*The record.* `RecordInv` says of the row what the schema let in (`Holds`), of the transaction in memory that its type
lets it stand (`Sound`) and goes on from the row (`Follows`), and that neither it nor what was stored is met with a row the
schema is coarser about. `SchemaSays` separates the constraints the type can see (`Visible`) from the others. `WrittenFits`
and `ReadBack` are the two directions of one fact, that a sound transaction is written to a row that is `Visible` and not
`Coarser` and such a row is rebuilt as the transaction; `RefusedWhereCoarser` is the converse, one check of the type for each
sort of row. `CallsKeepSound` goes through the methods, and `SettledWhole` shows that the columns `settleTransaction` does not
name are those that never change. `RecordAssumption`: what is absent is neither a name nor a row, and the codes that are
not supported are not among those that are.

*Pages.* `PagesInv`: ledgers nobody else wrote to are in the order of their versions; what the caller has seen is a
prefix, its cursor stands where that ends, and the snapshot of the page it is reading is a later prefix. `PageIs` says that
the page behind the last entry seen goes on from it and that one that is not full is the last.

*Reconciliation.* `BooksInv`: the books of a wallet nothing else wrote to are whole, that is, each entry passes its
constructor, no operation is told twice, and the sum is the balance; those of one that was written to are spoilt, that is, one of
the five checks fails. A movement keeps whole books whole and, which is the harder half, cannot mend spoilt ones: an amount that was
bent stays bent, and a balance that is off stays off by the same. Each foreign write of `Tamper` spoils whole books (`WholeAltered`);
a second may undo the first, so the second half is for one of them, as in the run. That a
wallet left alone is never reported needs no such bound. `AuditInv` carries both into the snapshot.

### Induction over data

What a recursive function computes for every sequence or number is proved by counting: if some number is not as claimed there
is a least one (`LeastNumber`, `LeastNatural`), and it follows from the one before. `Counted` says so of a set of
numbers, and `TalliesExist`, `ReadingsExist`, `PowersExist` and `SpellingsExist` build the function of each recursion up to a
length, so that what its CHOOSE picks has the equation it is defined by.

### What the proofs changed

* `OutboxTellsTheStory` compared filtered sequences; it now says the same as an
  order isomorphism between events and entries, which can be reasoned about.
* `Validate` lacked the refusal of an absent provider, external id or key, which
  `AnswersAgree` turned out to need.
* `HandleNext`, `ClassOf`, `fail`, `Conclude` and `Finding` were `CASE` expressions whose guards
  overlap. TLC takes the first arm that holds, as the code does; TLA+ leaves the choice
  open, and the proof about `Consumer` did not go through. They are `IF` chains in the code's order.
* `ErrorClasses` asked its questions with a fold over the layers; `First` and `Carries` say which layer answers.
* `LedgerBalance`, `ValueOf` and `minorPerMajor` were folds; they are recursive functions (`Totals`, `Readings`, `Power`).
* `PageFrom` filtered the ledger; it is now the entries behind a position (`Behind`), which is what an ordered index gives.
* `Holds` names the table's constraints apart from who is refused for them, and the other writer of a row, `TamperRecord`, is an action of its own.
* `Holds` takes the row's wallet as a parameter, so that what it says of a row can be carried over a step that changes neither.
* `Tamper` could bend an amount past the width a column holds; it is now guarded.
* Parameters that had been left open got assumptions: what stands for an absence is no value (`FailureAssumption`,
  `RecordAssumption`, `MoneyAssumption`, `CallsAssumption`), and the width takes a fraction (`WidthAssumption`).

### Only model-checked

* Liveness, which is out of the prover's reach: `ParkedEventuallySettles`, `EventuallyPublished`, `EventuallyDecided`,
  `StopReturns`, `EveryCallEnds`, `RotationIsPickedUp`, `EveryRequestAnswered`, `StopEnds`.
* The runs that expect a violation.

## 6. What is not modelled, and the plan

Not modelled, and why:

* Configuration (`internal/config`): environment variables in, a struct or an error out. That it may refuse is
  `LoadFails`, and what it enforces about the publisher's timings is `PublisherAssumption`.
* Telemetry (`internal/telemetry`, `fxmod/telemetry.go`): it is told things and decides nothing. The one
  count a property is about, dead letters, is in `Consumer`.
* `cmd/migrate`, down migrations and grants: run by an operator, once, with the service stopped.
* SQL text, row scanning, JSON and log lines: layout of data.
* `Processor.Submit`, which the service does not call.

The plan:

1. `WalletAccount`, an abstract specification of `Wagering`: a wallet and a set
   of settled operations, each applied in one step; `Wagering` refines it.
2. `Wagering` composed with `OutboxPublisher` (a settlement's appends are the publisher's
   `Append`) and with `Consumer` (`Submit` is a session), so that what a reader of the outbound queue sees
   is traced to what was put on the inbound one.

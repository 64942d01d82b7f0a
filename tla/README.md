# A verification project for LiquidityVisionBot

LiquidityVisionBot is a Telegram bot in Python (asyncio and threads, PostgreSQL or SQLite)
that analyses markets, records signals, and copies approved signals to paper accounts and to
real exchange accounts. What is hard to test is the part between a signal and a position:
several processes and threads share one database without locks, the exchange may never
answer, and any process may be killed. This directory holds TLA+ modules of that part, the
TLC configurations that check them, and TLAPS proofs about them.

To run: `tlc -config LiveAccount.cfg MCLiveAccount` (twelve configurations, each with the
module named in the table of runs), `tlapm LiveAccountProofs.tla` (eight proof modules, named
`*Proofs.tla` and `LiveExecutionRefinement.tla`).

## Inventory

`docs/architecture/RUNTIME_AUTHORITY_MAP.md` names the owner of every concern. The parts, the
state each keeps, and what makes each correct:

| Part | State | Operations | What is hard | What makes it correct | Module |
|---|---|---|---|---|---|
| Durable LIVE execution, `services/live_execution.py` | `live_executions`, attempts, fills, `live_positions` | `submit`, `recover`, `cancel`, `transition`, `ingest_fills` | several callers per execution, an await at every exchange call, time-outs with an unknown outcome, crashes, late trades | one order at most; a verdict only when it is true; nothing counted twice or lost | `LiveExecution`, `OrderTruth` |
| Reconciliation, `live_reconciliation.py`, `..._worker.py` | reconciliation events, the account's suspension | `reconcile`, the worker's cycle | runs beside submissions; whatever it cannot explain at once suspends the account, and then no cycle selects it again | an open execution is brought to the exchange's truth, or its account is stopped | `LiveReconciliation`, `LiveAccount` |
| Exchange adapter, `exchanges/bingx_swap.py` | none durable | `place_order`, `query_order`, `fills`, `cancel_order` | the class of an error decides what the coordinator believes | "refused" is raised only when there is no order | environment of `LiveExecution` |
| LIVE copy queue, `live_copy.py` | `live_execution_queue` | `discover`, `claim`, `seal_request`, `schedule_retry`, `recover_expired`, dispatch, recovery | leases that expire under a live worker; queue row and execution row in different transactions | what a row says of its order is true; claims end; a row that is sent again was never sent | `LiveCopyQueue` |
| LIVE accounts and gates, `live_accounts.py`, `live_safety.py`, `live_readiness.py`, `bingx_sync.py`, `bingx_certification.py`, `credentials_store.py` | `live_exchange_accounts`, credentials, certifications, kill switches | connect, rotate, revoke, confirm, enable, kill, suspend, synchronise, certify | a dozen statements overwrite one row, most without a condition, some after minutes | an account that was stopped is not live again without a new certification | `LiveAccount` |
| Copy journal and engine, `copy_execution_journal.py`, `copy_execution_engine.py`, `copy_execution_worker.py`, `execution_queue.py` | `copy_execution_journal`, paper orders and fills | `reserve`, `claim`, `schedule_retry`, `recover_expired_claims`, `execute`, `drain` | no lease on the cycle, a retry in two transactions, fresh plans for a stored key | a plan is filled once, or refused and never filled | `CopyExecution`, `CopyJob` |
| Paper lifecycle and its projection, `paper_execution_lifecycle.py`, `copy_trading.py`, `portfolio_reconciliation.py` | `paper_execution_positions`, events, ledger, `paper_positions` | `apply_signal_transition`, `sync_all`, `panic`, `reconcile` | read and write are two steps; several writers of the projection | quantities add up; the ledger misses nothing; what has ended is closed | `PaperPosition` |
| Signals, `signal_recorder.py`, `signal_tracker.py`, `database/signal_history.py` | `signals` | record, refresh, track, stop by hand | writes by id after awaits of up to 25 s per row | outcomes only of plans that were entered; a live trade is not withdrawn; what is settled stays | `SignalLifecycle` |
| Leases and supervision, `database/database.py`, `runtime_supervision.py`, `telegram_polling.py` | `runtime_leases`, worker states | acquire, release, restart | two processes during a deployment; no renewal | -- | what an expired lease allows: `LiveCopyQueue`, `SignalLifecycle` |
| Webhooks, alerts, forward stores, AI operations | their own tables and files | see `components` in PROJECT.json | duplicates, crashes between file and row | each effect once | -- |
| Analysis, scanners, research, legacy engines, handlers | none or read-only | computation and user interface | -- | -- | -- |

How they interact. `SignalRecorder` turns analyses into signals and `SignalTracker` moves
them. `CopyExecutionWorker.check_once` runs `CopyTradingService.sync_all`, which plans a
signal for every user who copies, executes the plan through the journal and the paper orders,
and delivers the signal's later statuses to the position; it then drains the journal's retries.
`LiveCopyWorker` turns journal rows of enabled accounts into queue rows, claims them, seals the
request and calls `LiveExecutionCoordinator.submit`, which ends by calling `recover`.
`LiveReconciliationWorker` and the dispatcher call `reconcile`, which calls `recover` for every
open execution of an account, compares, and suspends the account when they differ. All of them
share rows through the database and nothing else.

PROJECT.json lists every component, modelled or not, and every hazard at its line.

## Plan

Done, in this order: `LiveExecution` with `OrderTruth`; `CopyExecution` with `CopyJob`;
`PaperPosition`; `LiveCopyQueue` on top of `LiveExecution`; `SignalLifecycle`; `LiveAccount`;
`LiveReconciliation` on top of `LiveExecution`; each with its proofs.

Left, most important first:

1. `PositionLedger`: `ingest_fills` at the grain of its statements under READ COMMITTED.
2. The readiness audit and the preflight of `live_readiness.py` as state of `LiveAccount`.
3. The emergency close of `live_copy.py` (581-690), with the quantities of intents.
4. `acquire_lease` / `release_lease` and the Telegram poller; the de-duplication of webhooks.
5. The partition stores of the forward collection.

## LiveExecution

One worker is one coroutine, in any process that shares the database. Its place is
`local[p].pc`, and `local[p]` holds what the coroutine keeps across its awaits: the execution
(`job`), the attempt's number, the state from which it will compare-and-set (`source`), the
order it saw (`seen`), the state it decided on (`goal`).

| Variable | Code |
|---|---|
| `state`, `orderId`, `attempts` | `live_executions.state`, `exchange_order_id IS NOT NULL`, the rows of `live_execution_attempts` |
| `summary`, `detail` | the quantity of the `__order_summary__:` fill row, the trades stored as fill rows |
| `posted` | what `live_positions` was last computed from, per execution |
| `todo` | the candidates `reconcile` selected and has not recovered yet |
| `fate`, `market`, `filled` | the exchange: each request's fate, the order's status, its trades |

| Actions | Code |
|---|---|
| `SubmitNew`, `SubmitRetry` | `create()` inserts or finds the row; the checks that let a `CREATED` or due `RETRY_WAIT` row go on |
| `Validate`, `Enqueue`, `StartSubmitting` | the chain of compare-and-sets to `SUBMITTING` |
| `BeginAttempt`, `SendOrder` | the attempt row; the reads of `place_order`, then its POST |
| `PlaceAmbiguous`, `PlaceRefused`, `PlaceAccepted` | the `except` branches and the answer |
| `RecoverSubmitted`, `Recover`, `ReconcileOne` | the three callers of `recover()`, all `BeginRecover` |
| `LookupFound`, `LookupMissing` | `_lookup_order` |
| `ReadFills`, `Settle` | trades or summary, `ingest_fills`, the decision (`RecoverTarget`); then the compare-and-set |
| `ReadFillsAgain` | the branch of `recover()` for `FILLED` rows |
| `Cancel`, `CancelDone`, `CancelTimeout`, `CancelFailed` | `cancel()` |
| `Crash` | the process dies between any two steps |
| `AcceptOrder`, `DropOrder`, `FillOrder`, `CloseOrder` | the exchange |

**What is abstracted.** A row's state is kept whole. An order is its status and executed
quantity; statuses are one word per status set of the code plus `UNLISTED` for a word in none.
A quantity is a number of trades of one unit. An exchange lists its trades in order, so what it
lists so far is a prefix, and `detail` is its length. `posted` keeps each execution's
contribution instead of a signed sum per side, so a wrong contribution cannot be hidden by
another's. Audit rows, the end of an attempt's row and recovery reasons are never read by this
protocol. The permission checks before `create()` only refuse.

**What is assumed of the environment.** A database transaction is one step. An error that the
adapter classifies as a refusal, rate limit, clock or authentication error on the POST means
that the request made no order; every other error means nothing. A request that timed out may
be received later, once. That two requests carry the same client order id is not used to
exclude a second order. An exchange that answers a cancel has an order that is cancelled or
filled. Due times may have passed or not.

**Fairness.** None: nothing in this module says who goes on. Who does is the business of the modules
on top of it, `LiveReconciliation` and `LiveCopyQueue`.

**Seen without a run.** `cancel()` records `CANCELLED` for an order that the adapter answers as
`FILLED` (bingx_swap.py:723-726): with a canceller `ConclusionIsTrue` fails, but `cancel()` has
no caller today. That is the only order a row forgets: `OrdersInSight` names the exceptions. When
an exchange rejects an order of which trades were already counted, the row leaves the sum of the
position but `live_positions` is not recomputed: `PositionIsCurrent` names that one case. A row
that is settled `FILLED` without an exchange order id keeps its summary
for ever, because `recover()` returns at once for it (`KnownSummaryIsReplaced` is about the rows
with an id).

## LiveReconciliation

The cycle of `LiveReconciliationWorker` over one account, on top of the variables of
`LiveExecution`: the recoveries of a cycle *are* the steps of that module.

| Variable | Code |
|---|---|
| `watched` | the account is one of `_accounts()`: `live_enabled = 1` and `LIVE_ENABLED` |
| `cycle` | a reconciler is between cycles, in the recoveries of `reconcile`, or between its snapshots and its comparison |
| `shown` | the quantity that `positions()` answered |

| Actions | Code |
|---|---|
| `SelectAccount`, `RecoverCandidates` | `_accounts()`; the candidates and their recovery |
| `ReadPositions`, `Compare` | the snapshots; then, in one transaction, the local rows, the mismatches and the suspension |
| `Unavailable` | any exception: `_suspend_unavailable` |
| `StopAccount`, `EnableAccount` | the owner's commands, and whatever else moves the two columns: see `LiveAccount` |

A row still `UNKNOWN`, `RECONCILING` or `RECOVERY_REQUIRED` after its recovery is a mismatch, and so
is a position that differs from the local one; a mismatch or an exception suspends the account, and
a suspended account is selected no more until somebody enables it. So the worker does not ask
again and again: after a crash or a time-out, one lookup that finds nothing stops the account, with
the order still there. Hence `TruthIsLearned` and `KnownSummaryIsReplaced` say "is learned, or the
account is stopped". What the comparison adds is that nothing stays wrong in silence: a row that
settled with fewer trades than the order has, which no later cycle selects, differs from the
position. All executions are on one side of one symbol, `open_orders()` is explained by the
client order ids (every request has one), and `other` stands for what the owner did by hand.

**Fairness.** `run_forever` catches every exception and sleeps for a bounded time, so a cycle that
can go on does, and a new one begins while the account is selected (weak fairness of `CycleStep`).
Of the exchange: asked about the same order at infinitely many cycles, it finds it in one of them
and lists all its trades in one of them (strong fairness). The account being selected is a guard of
the cycle, not an assumption. What is assumed is that the database answers, that the reconciler under
the lease is not killed for good, and that the account is within the batch. Submitters may stop for
ever anywhere. With a second, unfair worker that keeps recovering the same execution the reconciler
can lose every compare-and-set, so the two properties are claimed for the worker under the lease.

## LiveCopyQueue

`LiveCopyWorker.check_once` and `LiveCopyDispatcher.process_claimed`, over the variables of
`LiveExecution`: the dispatcher's coordinator calls *are* the steps of that module. `queue` and
`tries` are the row, `desk` a dispatcher's place in its cycle and what it read, `overlapped` a
history variable: a cycle has outlasted the worker's lease and another one runs beside it.

| Actions | Code |
|---|---|
| `BeginCycle`, `Discover`, `RecoverExpired`, `ListStuck`, `ListDue`, `EndCycle` | `check_once` |
| `FindUnsent`, `ReadTries`, `ScheduleRetry`, `RecoverSent`, `ReadRecovered`, `RecordRecovered`, `SkipStuck` | `_recover_queue_row`, `schedule_retry` in its two transactions |
| `ClaimRow`, `RecoverAccount`, `BecomeReady`, `ReconcileAgain`, `Match`, `Ineligible`, `Seal`, `StartSubmit` | the claim and `process_claimed` up to `submit` |
| `Admit`, `Submit`, `SubmitKnown`, `SubmitFails`, `ReadOutcome`, `RecordOutcome` | `submit` and the table that turns its answer into the row's state |
| `Fail`, `RecordFailure` | an exception in a row, caught |
| `Stop`, `Die` | an exception outside the rows' handlers; a process that is killed, and started again |

The worker's lease lasts `max(2 * interval, 180)` s and is not renewed during a cycle, a row's
lease lasts 120 s: cycles may overlap, and rows may expire under a dispatcher that is still
working. `BecomeReady` merges two readings of unresolved executions into the later, stronger
one. The other gates (account, daily loss, sizing, preflight, kill switches) are inputs that may
fail at any moment: `Fail`. `RecordFailure` is a compare-and-set on the state `Fail` read, so it
may hit another dispatcher's claim; that is in the model. `RetryMeansUntouched` and
`TriesAreBounded` are false once cycles overlap, hence their condition.

`Stop` is an exception outside the handlers of a row: `run_forever` has none and is
started as a bare task (bot.py:247-250), so the dispatcher is gone while its process lives; `ended`
remembers it. `adapter_factory` raising for revoked credentials right after the claim
(live_copy.py:810) is such an exception, and no query screens those accounts out.

Fairness: a dispatcher that is not killed goes on with its cycle until `Stop` ends it (weak), and
some of its cycles find the rows whose lease is over (strong, `RecoverExpired` of all held rows).
Nothing makes it begin again after `Stop`. `ClaimsEnd` therefore promises the end of a claim as long
as one dispatcher that is not killed has not ended: with the single dispatcher deployed today and
such an account, the row stays `CLAIMED` and every other row waits until the process is restarted.

## CopyExecution and CopyJob

Workers run `CopyExecutionWorker.check_once` without a lease on the cycle. `status`, `plan`,
`attempts`, `leased` are the journal row, `order`, `requested`, `bought` the paper order and its
fill, `projected` the legacy row, `desk` and `list` a worker's place.

| Actions | Code |
|---|---|
| `Open`, `SyncExisting` | `sync_signal` for a new or an unprojected position |
| `ListExpired`, `HandBack`, `ListPending`, `Drain`, `EndCycle` | `recover_expired_claims`, `pending`, `drain`, `project_execution` |
| `Reserve`, `Check`, `Claim`, `Dispatch`, `GiveBack`, `Unclaim`, `Fail`, `Finish`, `Return` | `engine.execute` and the journal's transitions |
| `Submit`, `Accept`, `Fill`, `Withdraw`, `Reject` | `execute_market`, `record_fill`, `reject` |
| `Crash` | the process dies |

An illegal transition, or a lost race of one, raises; the exception leaves `execute()` and ends
the whole cycle (`Abort`), which `run_forever` survives. A plan made afresh for a key may differ
from the stored one; the order row is created by whoever comes first, with that plan's quantity
(none for a refused plan), which is why `ExecutedIsFilled` has its exception. `enqueue`,
`process_next` and `plan_execution` have no callers and are left out. Positions do not close
here: that is `PaperPosition`. `CopyJob` is what the journal promises seen from outside: a job
takes effect at most once, never after it was refused, and is done only when it has. Fairness: a
worker that is not killed goes on (weak), and some cycle finds what has expired (strong).

## PaperPosition

One filled position in its two tables. `apply_signal_transition` reads the row and writes it
without a condition: two steps, on SQLite (the transaction begins at the first write) as under
READ COMMITTED; the worker runs in a thread beside the handlers.

| Actions | Code |
|---|---|
| `BeginCycle`, `ReadExisting`, `ReadUnified`, `RefusedAgain`, `SyncLegacy` | `sync_all`, `sync_signal`, `_sync_existing` |
| `ReadPosition`, `WritePosition`, `Project` | `apply_signal_transition`, `_project_unified_position` |
| `FetchQueued`, `FetchSignal` | `project_execution` after the drain |
| `Panic`, `Disable`, `Review` | `panic` |
| `SignalMoves`, `SwitchOn`, `ReconcilePortfolio` | the signal (any status may follow any, see `SignalLifecycle`), the user, the portfolio reconciliation |

Quantities are quarters of the position, which is what the targets leave open; prices and PnL
are left out. Two panic handlers are a bot and its replacement during a deployment. `END` stands
for the terminal statuses the copy code knows. `close_position` and `mark_to_market` have no
callers. Fairness: the worker goes on (weak). With two workers `Settles` fails: both record an
event, and the earlier command overwrites the later one's row, so the END event is taken for
delivered while the position is open.

## SignalLifecycle

The signals of one market. Every reading and the `UPDATE ... WHERE id` that follows from it are
two steps; the one guard in the database is the unique index `idx_one_open_market_plan`, and a
write that violates it raises (`Abandon`).

| Actions | Code |
|---|---|
| `ReadOpen`, `Transition`, `HitTarget`, `Stay` | `SignalTracker.check_once`, `_update` |
| `ReadStop`, `ManualStop` | `SignalHistory.manual_stop`, by a user or from `manual_stop_all` |
| `Analyse`, `ReadMarket`, `ReadFlip`, `Invalidate`, `ReadDuplicate`, `Replan`, `Save` | `SignalRecorder.record`, `invalidate_open`, `refresh_duplicate`, `save` |
| `Expire` | the clock passes `expires_at` |

The price may do anything. `BREAKEVEN` is folded into `STOP`; events, notifications, effective
stops and activation times are left out; one owner, one timeframe. `entered` (which plan of which
row was activated) and `overtaken` (rows written as traded from a reading of another plan than they
hold) are history variables. `TradeManager.reconcile_market` does nothing while the index holds.
Fairness: the tracker's cycle goes on, and the market data of a row does not fail at every cycle.

`OutcomesAreEarned` is about plans, not rows, and makes an exception of the overtaken rows, where it
fails: a trade is closed by hand after the tracker has read it, `record()` puts a new plan into the
closed row (`MANUAL_STOP` does not lock it, signal_history.py:112-138), and the tracker writes the old
plan's STOP or target to the new plan, which was never entered (signal_tracker.py:115).
`OnlyOldReadingsWithdraw` is about the other direction: a live trade is taken back to pending,
invalidated or expired only by an actor that decided before it was live. `record()` leaves a live
opposite trade alone; a manual stop and the tracker close it with a result. That a market
has one open plan is the unique index itself (`Fits`) and no property.

Seen without a run: a READY analysis that refreshes a WATCHING row makes it ACTIVE without
`activated_at` and `effective_stop` (signal_history.py:129), a state runtime_diagnostics.py:219-223
counts as impossible; a refresh read before a row was closed opens it again; a target after the
first, hit without TP1, never moves the stop to break-even.

## LiveAccount

The row of one account, its key, its certification, and its CONNECTION kill switch. `row` is the
six columns the gates turn on; `syncing`, `certifier`, `enabler`, `reconciler` are the places of
what is under way; `matched` is the verdict a comparison would reach; `earned` is a history
variable.

| Actions | Code |
|---|---|
| `RotateKey`, `ConnectKey`, `RevokeKey` | `UserExchangeCredentialStore.save`, `delete` |
| `BeginConfirmation`, `Confirm`, `EmergencyDisable` | the commands of `LiveAccountRepository` |
| `StartSync`, `SyncFindsChange`, `SyncSucceeds`, `SyncFails` | `BingXAccountSyncService.synchronize` and `_update` |
| `StartCertification`, `DryRunBlocked`, `BeginEconomic`, `EconomicPassed`, `EconomicBlocked` | `BingXCertificationService` and `_persist` |
| `ReadAccount` ... `ReadCertificate`, `StopEnabling`, `CommitEnable` | `enable_live`: a reading per gate, then the guarded UPDATE |
| `StartReconciling`, `Compare`, `Unavailable`, `Suspend`, `ThrowSwitch` | the worker's cycle and `reconcile`, which suspends and throws the switch in two transactions |
| `Abandon`, `StopCommand`, `Drift` | exceptions and crashes; the exchange account moves |

The gates that only refuse (environment, risk profile, unresolved executions, daily loss,
recovery, preflight, expiry times) are `StopEnabling`. `Init` is the row as `ensure` leaves it.
`suspend()` has no caller. Nothing in the program clears the CONNECTION switch. `confirm()` reads
and writes in one short transaction and is one step. Fairness: the worker's cycle goes on (weak);
no user has to do anything, and the process of a command may die.

`DivergenceStops` says only that an account the exchange contradicts does not stay both contradicted
and selected by the worker: a synchronisation may take it out of the worker's sight before
the cycle comes round, which the fairness of the code does not exclude.

Seen without a run:

- An economic certification needs a key of the test environment, and one account has one key, so
  LIVE with a production key comes about only when the key is rotated while a certification is
  under way: it then writes `LIVE_CERTIFIED` over the rotation's state. V10_3_OPERATIONAL_INTELLIGENCE_LIVE_FOUNDATION.md:81-82
  says "Rotation forces LIVE off and requires confirmation/certification again." The invariant
  `live => key \in DemoKeys` is violated in fifteen steps, and holds if keys may not change during
  a certification (`DemoOnly`). `EnablingIsEarned` therefore counts any certification that passes after the stop.
- A revocation and an emergency disable leave `confirmed_at`: a key connected later inherits the
  confirmation.
- `/live_sync` on an enabled account leaves `live_enabled` set with `PREFLIGHT_READY`: the
  dispatcher refuses it and the worker no longer reconciles it.
- A synchronisation, a certification or a reconciliation overwrites `KILLED` and `REVOKED`, which
  `ALLOWED_LIVE_ACCOUNT_TRANSITIONS` does not allow; only `suspend()` asks that table.

## Runs

| Run | Configuration, module | Instance | Distinct states | What it shows |
|---|---|---|---|---|
| `live_submission` | `LiveExecutionSubmission`, `MCLiveReconciliation` | one execution, a submitter that may die or stall, the worker's cycle, an owner who stops and enables, two attempts, two trades | 99,296 | `OrderTruth` is implemented, so verdicts are true; the truth is learned and a summary replaced, or the account is stopped |
| `live_recovery` | `LiveExecutionRecovery`, `MCLiveExecution` | two submitters, a worker that recovers or reconciles, and a cancel, all but one submitter of which may die; two attempts; the exchange may reject an order it has traded once | 740,198 | one order; an order that may exist is never out of the reconciliation's sight; the ledger is honest and never shrinks, the position agrees with it; `recover` asks only for allowed moves; no order works behind a closed row |
| `live_fills` | `LiveExecutionFills`, `MCLiveReconciliation` | a submitter and the worker's cycle, no crash, two trades | violation | a filled execution that never learns its second trade |
| `copy_execution` | `CopyExecution`, `MCCopyExecution` | one key, two workers, one of which may die, two attempts | 632,875 | filled once; executed means filled; terminal rows stay; `CopyJob` is implemented; leased claims end, and only a late giver-back of an older claim takes a lease |
| `copy_stranded` | `CopyExecutionStranded`, `MCCopyExecution` | the same, the adapter always raises | violation | a claim whose lease was cleared is never recovered |
| `paper_positions` | `PaperPosition`, `MCPaperPosition` | a worker, two panic handlers, one of which may die, one target | 758,466 | quantities add up; the ledger misses nothing; only an overtaken command reopens; what has ended is closed in the end |
| `paper_reopened` | `PaperPositionReopened`, `MCPaperPosition` | a worker, a panic handler, two targets | violation | a late write reopens a closed position |
| `live_queue` | `LiveCopyQueue`, `MCLiveCopyQueue` | one row, two dispatchers, one of which may be killed and both ended by an exception, two tries | 700,896 | rows are true; what may be claimed again was never sent; tries are bounded; claims end while a dispatcher that is not killed is left |
| `live_queue_rejected` | `LiveCopyQueueRejected`, `MCLiveCopyQueue` | one dispatcher, the reconciliation worker beside it | violation | a row is `REJECTED` while its order fills |
| `signal_lifecycle` | `SignalLifecycle`, `MCSignalLifecycle` | two rows, two LONG plans and a SHORT one, a tracker, a user, two analyses | 105,252 | outcomes are of plans that were entered, but for overtaken writes; only decisions from before its entry withdraw a live trade; a row keeps its side; settled rows and locked plans stay; overdue plans end |
| `signal_reopened` | `SignalLifecycleReopened`, `MCSignalLifecycle` | the same | violation | a trade that was closed by hand is open again |
| `live_account` | `LiveAccount`, `MCLiveAccount` | a demo and a production key, one call of `enable_live`, one worker, one command | 528,788 | flags agree; a stop holds until a later certification, a thrown kill switch for good; an account does not stay both contradicted and in the worker's sight |

The five violations are disagreements between the code and a sentence of the repository's own
documents, quoted under `findings` in PROJECT.json.

**Bounds.** Two trades are the least that make a partial fill, an incomplete list and a summary
that differs from its details; two attempts the least that make a retry race its first request;
two writers the least that make a lost update, and a third (reconciler, tracker) is there wherever
the code has one. One execution, key or queue row is enough because rows of the same kind meet
only in the list a cycle has read (`todo`, `list`): two executions of `LiveExecution` were
explored once (965,000 states, no violation of the safety properties), and so were two calls of
`enable_live` (2.67 million states, for the safety properties). `FillsBeforeRejection` bounds how much an exchange may trade
before it calls the order rejected.
`MaxAttempts` and `MaxTries` are the code's own parameters, with smaller values. The proofs below
hold for any number of executions, keys, workers, plans and attempts.

**Deadlock** is an error in `PaperPosition`, where the worker's cycle never ends. In the other
modules it is not: every submitter may be dead and every order settled, a user need not do
anything, an account may be revoked for good.

## Proofs

TLAPS checks every theorem below for all values of the constants that satisfy the module's
assumptions (`RolesAssumption`, `BoundsAssumption`, `DispatchersAssumption`, `CopyAssumption`,
`PaperAssumption`, `SignalAssumption`, `NoneAssumption`, `AccountAssumption`,
`ReconcilersMayFail`: sets of roles are sets of workers, an exception
may end any reconciler's call, bounds are natural numbers, the "no such" values are not values). What more a
theorem assumes is said with it.

**`LiveExecutionProofs`.** `Typing`, `OneOrder`, `CleanRetry`, `CleanUnsent`, `HonestLedger`,
`AllowedRecovery`, `SightedOrders`, `QuietTerminal`. `AtMostOneOrder` is not inductive: a second
request is harmless only because the first was refused for certain. The inductive invariant
therefore says who may be sending (`OneSender`: one worker at most stands between the
compare-and-set to `SUBMITTING` and the answer), what each worker knows (`WorkerInv`: what the
sender, the one who has seen an order, and the one about to settle may rely on), and what each row
implies (`ExecutionInv`: an unanswered request belongs to the last attempt; a `RETRY_WAIT` row has
only refused requests; an order has one accepted request). One lemma per action. `RetryIsClean`
and `UnsentIsClean` are consequences of `OrdersInSight` that have theorems but no run.

**`LiveExecutionRefinement`.** Without assumptions: `LegalMoves`, `GrowingLedger`,
`CurrentPosition` (which names the one stale case). With them: `ExactPosition`, for
`FillsBeforeRejection = {0}`, an exchange that gives no trades to an order it rejects;
`TrueConclusion` and `Implementation` (every step is a step of `OrderTruth` or a stutter), for
`Cancellers = {}`, which is the program as it runs today. The argument sorts the steps into five
kinds, by what they may change, and proves each property from the kinds.

**`LiveReconciliationProofs`.** `WatchKeepsExecution`: every step of the worker's cycle is a step of
`LiveExecution` or leaves the executions alone, an exception being the same to them as a crash. So
every theorem about the coordinator holds under the cycle (`WatchOneOrder` is one), and, since no
cycle leads to `cancel()`, `WatchConclusion` and `WatchKeepsTruth` need no assumption about it.

**`CopyExecutionProofs`.** `CopyTyping`, `RefusedUnfilled`, `ExecutedWasFilled`, `OneFill`,
`FinalTerminal`, `StrandedOvertaken`, `CopyImplementation`. The invariant ties each key's journal
row to its order (`KeyOK`) and each worker's place to the row it holds (`DeskOK`): workers hold
stale claims, and what saves the fill is that an order and its fill only ever move forward
(`Forward`). `StrandedOvertaken` is the exact cause of the finding `copy_stranded`. It needs a
second invariant (`Counted`): no worker knows of an attempt the row has not counted, and one that
still has to clear a claim finds the row `EXECUTING` only if it was claimed again, because a claim
is the only step that makes a row `EXECUTING`, and it counts. What the attempts are not is
bounded: a late worker that gives a newer claim back decides by its own, lower, attempt, and sends
a row whose attempts are used up to `RETRY_WAIT`. TLC finds `attempts[k] <= MaxAttempts` violated,
three attempts of two; no document promises it, so it is not a finding.

**`PaperPositionProofs`.** `PaperTyping`, `QuantitiesAddUp`, `LedgerCovers`, `EventsAreFinal`,
`LevelOfLast`, `OvertakenReopen`. Writers overwrite each other, so the invariant cannot be about
the row alone: every copy of the row that any actor holds adds up and is covered by the recorded
events, and stands where the command it names leaves a position. From the latter: whatever races,
the open quantity is the one some command asked for, and a position grows only when a command is
written over one of higher rank, which is the exact cause of the finding `paper_reopened`.

**`LiveCopyQueueProofs`.** `QueueTyping`; `QueueKeepsExecution`: every step of the queue is a step
of `LiveExecution` or leaves it alone, so every theorem about the coordinator holds under the
queue (`QueueOneOrder` is one); `UntouchedRetry` and `BoundedTries`, from an invariant that says
that as long as cycles have not overlapped one dispatcher at most is at work (`Solo`) and what it
holds agrees with the row. No step of the queue leads to `cancel()`, so `QueueConclusion`,
`QueueKeepsTruth` and `TrueRows` hold without the assumption that the coordinator's own theorems
need. `TableRejections` says why a row may be `REJECTED` over an order that fills (the finding
`live_queue_rejected`): while cycles do not overlap, only because the table of
`process_claimed()` lacks the state that `submit()` returned; `recover()`, `schedule_retry()`, a
refusal and an ineligible row never do it. No run checks `RejectedByTable`: where the finding can
happen needs a reconciliation worker beside the dispatchers, which two dispatchers and the
fairness of `live_queue` make too large. TLC agreed with it on the instance of
`live_queue_rejected`.

**`SignalLifecycleProofs`.** `SignalTyping`, `EarnedOutcomes`, `OldReadingsWithdraw`, `SettledFinal`,
`LockedPlans`, `KeptSides`. The invariant adds what an actor between its reading and its write
relies on, however old the reading is: the row it works on exists, and if it has read a live row,
the plan that it read was entered, unless an overtaken write has touched the row. `EarnedOutcomes` then needs only to know whether the plan written
about is still the row's. For `KeptSides` it adds that a refresh under way and its row are on the
same side, though other refreshes may write the row before it does.

**`LiveAccountProofs`.** `AccountTyping`, `ArmedFlags`, `EarnedEnabling`, `FinalSwitch`,
`DemoOnly`. The invariant adds that a row whose state is certified has passed its certification
since the last stop: that is why a call of `enable_live` that read the row before a stop cannot
enable it after. `FinalSwitch`: once the switch is thrown and the calls that had read it before are
over, nothing makes the account live again. `DemoOnly`: a production key is live only if a key was
changed during a certification (`KeyStays` is its hypothesis, which the code does not guarantee:
it is what "seen without a run" above shows to be needed).

**Only model-checked.** The liveness properties: `TruthIsLearned`, `KnownSummaryIsReplaced`,
`LeasedClaimsEnd`, `Settles`, `ClaimsEnd`, `DuePlansEnd`, `DivergenceStops`. Fairness and ENABLED
are out of this prover's reach. Every invariant and every action property of a passing run has a theorem,
except `WatchTypeOK`: that `shown` is a number is a fact about a fold.

## Not modelled

- Of the modelled components: the permission checks of `submit()` and the modes that never send
  an order; prices, sizes, fees and PnL; the positions of several symbols
  and sides that `reconcile` compares (one in `LiveReconciliation`, its verdict in `LiveAccount`); the
  two test orders of an economic certification; the queue's batch limits, sizing gates and its
  emergency close; the planner; readiness audits, preflight, risk profiles and expiry times.
- `ingest_fills` statement by statement under READ COMMITTED: the modules take a database
  transaction as one step. SQLite serialises them; PostgreSQL's default does not, see the hazard at
  `live_execution.py:296`.
- Leases, supervision and the single Telegram poller, except for what an expired lease allows.
- Webhooks and health server, alerts, forward collection, retention: protocols of their own that
  the execution path does not read; alerts and de-duplication are in memory.
- Decision authority, scanners, research, laboratories, indicators, AI operations: computations
  over market data with no shared state that a later step depends on. They are most of the
  repository's lines, which is why the map covers a small share of it.
- Telegram handlers and keyboards: user interface.

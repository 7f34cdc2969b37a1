# A verification project for Opciones

Opciones is an option trading platform: a FastAPI service that runs paper
trading strategies in a loop, with governance, configuration and a way to live
trading around it. This directory holds TLA+ models of the parts that keep
state and decide, TLC configurations that check them on small instances, and
proofs, checked by TLAPS, that hold for every value of the constants.

Paths are relative to `src/opciones/` of the repository unless they start with
`docs/`.

## How to run it

    tlc -workers 2 -config PaperBroker.cfg MCPaperBroker.tla
    tlapm PaperBrokerProofs.tla

Each `.cfg` belongs to the module that PROJECT.json names for the run (the
module of the same name, or its `MC` module).

## Inventory

Everything in process runs on **one asyncio event loop**, without threads and
without a database behind the services modelled here: their state lives in
Python objects, is lost on a restart, and is shared by the requests and the
trading loops. A coroutine that awaits another one which never suspends runs
through: the paper broker (latency 0 in the orchestrator's wiring), the risk
manager, the mock market data and the logging notifications never suspend. So
a request handler or one wake-up of a loop is one atomic step, and what is
hard is the order of those steps, the exceptions in the middle of them, and the
few places that do suspend: `_run_loop`'s sleeps, its wait while paused, and
`stop()`, which waits for the task it cancelled.

| Component | State | Operations | Interacts with | What is hard | What makes it correct |
|---|---|---|---|---|---|
| Paper broker (`modules/paper_broker/broker.py`) | orders, `_pending`, positions, cash, reserved cash | submit, process pending, cancel | matching engine, quotes, executor, closer, API | partial fills, slippage, reservations released and consumed by different orders, exceptions after half an update | cash never negative, book and orders agree, positions are the net of the fills, final orders final |
| Matching engine (`matching.py`) | none | match a request against a quote | broker | size and price boundaries, stop triggers | prices within limits, quantity within the size available |
| Expiration closer (`expiration.py`) | aggression steps | sell what expires, at the market and then with a limit | broker | each attempt may leave an order resting | positions near expiration are offered every cycle |
| Orchestrator (`modules/autonomous/orchestrator.py`) | operational state, stop and pause events, task, lock, emergency stop, `block_new_entries`, health | start, stop, pause, resume, cycle, close session, close positions | risk manager, executor, broker, API | several loops, a start during a stop, a pause during an emergency, exceptions in a cycle | loops survive exceptions, a stop reaches all of them, a session that is to close does, an emergency is shown and only unwinds |
| Bot API (`api/routes/platform.py`) | the orchestrator singleton | /bot/start, stop, pause, resume, emergency stop | orchestrator | stale displayed state decides whether a loop is created | a request has the effect it answers |
| Executor and basic strategy (`modules/strategy_engine`) | decisions, orders, recent symbols, signal counts | run cycle | risk manager, broker, closer | quantities decided twice on different data | every order passed the risk manager |
| Risk manager (`modules/risk_manager/default.py`) | circuit breaker, counters | validate, size, trip, reset | settings, portfolio | breaker reset by others, counters | blocked means no purchase |
| Governance (`modules/governance/service.py`) | definitions, evidence, invalidations, audit | register, evidence, promote, invalidate, retire | its routes | registering a key again, invalidating before registering | evidence backs the status, invalidated versions do not operate |
| Configuration (`modules/config_service/service.py`) | layers, versions, active version per category | draft, submit, approve, apply, roll back, hot reload | its callers | verification after the merge, versions with one hash, layers that override | what is in force was approved and is valid |
| Live transition (`modules/live_transition/service.py`) and dual approval (`modules/security/approvals/dual.py`) | lifecycle records, approval requests | register, validate, request, approve, suspend, canary | audit log, /ops routes | approvals late, twice, by the requester, for another strategy | live needs a validation and two people |
| Risk and entries (`modules/risk_manager`, `modules/strategy_engine/basic.py`, `modules/strategies/common.py`) | signal counts, recent buys, breaker counters | signal, size, validate, execute | selector, broker, quotes | a decision is executed on another quote than it was made on; refusals trip the breaker | limits hold for what is bought |
| Contract selection (`modules/contract_selection/selector.py`) | exposure counts | discard, score, choose, examine | risk manager | examining counts as refusing | the winner can be bought |
| Market data (`adapters/market_data`) | chains, spots and rows with their times | chain, spot, quote, invalidation | executor, broker, closer | failing requests, two caches above each other | old data are bounded in age |
| Sessions (`modules/security/auth/sessions.py`) | sessions, refresh token digests, failed logins | login, refresh, parse, revoke | /auth/v2, audit log | rotation, the limit of sessions, expiry | revoked or rotated is never accepted again |
| Audit log (`modules/security/audit/log.py`) | hash chain, alerts | append, verify | most services | bursts across users | a burst raises an alert |
| Broker adapter infrastructure (`modules/broker_adapters/_shared`) | known orders, tokens, stream state | idempotency, rate limit, streaming | a remote broker | lost answers, duplicates, gaps, a full queue | an order is not executed twice, gaps are noticed, requests end |
| Backtesting (`modules/backtesting`) | clock, historical orders and positions | step, submit, fill, report | strategies | look-ahead, order of events in a step, exceptions | only past data is read, the report adds up |
| Optimization (`modules/optimization`), stress test (`modules/stress_testing`) | experiments; the state under test | grid, walk-forward; scenarios | backtests | overlapping periods, failing backtests; simulated defences | test days are unseen; failures are found |
| Ingestion (`modules/data_ingestion`) | import hashes, record hashes, store | read, classify, report, store | files | odd values raise in the middle | no record is lost, duplicates are marked |
| Observability (`modules/observability`) | alerts, metrics, health | raise, read | services | nothing in `src/` raises an alert | |
| Pricing, reporting, assistant | none that outlives a call | pure computations over floating point data | | numerics | |

## Modules

* **MatchingEngine** (`matching.py`, the request and quote types of
  `domain/models/instruments.py`). Pure operators: when a request executes on a
  quote, at what price, for how many contracts. Prices are integers, slippage is
  a fraction applied with integer division.
* **OrderLifecycle**, the abstract specification: what one order may go through
  (placed, partly filled any number of times, filled, refused, cancelled) and
  what its rest in the book means. It knows no cash, price or other order.
* **PaperBroker** (`broker.py`). `Submit` is `submit_order` with `_validate` and
  the first `_apply_fill`; `StartProcessing` and `ProcessNext` are
  `process_pending`, one order of the copied dictionary at a time with a quote
  of its own; `Cancel` and `RefuseCancel` are `cancel_order`. `_apply_fill` is
  `RefuseFill` (no cash), `AbortFill` (the exceptions it can raise, with what was
  already changed by then) or `CommitFill`. The quote `_validate` saw and the one
  that was matched are different inputs, as in the code. Average prices and
  profit and loss are left out; their one effect on control, the division by
  zero when a purchase brings a short position to zero, is in `AbortFill`.
* **MCPaperBroker**: the quotes and requests of the TLC runs.
* **Orchestrator** (`orchestrator.py`, `/bot` routes, the breaker of the risk
  manager). A loop is `sleeping`, `waiting` (for `_pause`), `woken`, or `done`;
  `LoopWakes` runs one until it suspends again, a whole cycle included. Of the
  broker it keeps whether there is a position and a resting buy; `Trades` bounds
  what a cycle can make of them. `stop()` is two steps, `StopBegins` and
  `StopEnds`. Reconciliation always adopts the broker's figures and so decides
  nothing.
* **TradingCycle**, **MCTradingCycle** (`_cycle`,
  `executor.py`, `expiration.py`, the positions and the book of `broker.py`,
  what `basic.py` remembers, the checks of `default.py` that do not depend on
  money). A cycle is a sequence of phases: `retry` is `process_pending` (one
  resting order at a time: `PassOver`, `FillResting`, or the exception of
  `AbortOnResting`, which ends the cycle), `close` the expiration closer
  (`CloseAtMarket`, `CloseAtLimit`, `CloseFails` are the outcomes of
  `_attempt_close`), `exit` and `entry` the executor. Whether an order matches,
  what the strategy wants and what the limits on money allow is chosen freely,
  so the properties hold for every market and every signal. Exceptions of the
  market data are left to Orchestrator. `split` is a history variable, no state of
  the code: the contracts of which an order was filled in part or a position closed
  in part, which is what tells apart the two regimes of the properties.
* **Governance** (`governance/service.py`,
  `api/routes/governance.py`). `Promote` is the service's method, `PromoteRequest`
  the route, which takes its evidence from flags of the request. `Register`
  registers drafts, as the only caller does, although `register()` keeps whatever status it is given.
* **ConfigService** (`config_service/service.py`): layers resolved by precedence,
  versions, `validate_cross` with its rules on modes, limits, strategy, asset and hours.
  Its `float()` and `int()` are outside of any try: on a value they do not read,
  `Unreadable` here, `apply_atomic` raises after the merge, without a roll back, and
  the version stays ACTIVE. `ApproveRequest` is the route, which submits and approves
  in one call.
  **MCGovernance** checks Governance and ConfigService, each while the other rests.
* **LiveTransition** (`live_transition/service.py`, `approvals/dual.py`, the `/ops`
  routes that call them). Time counts days.
* **RiskGate** (`risk_manager/default.py`): the checks of an order, the suggested
  size, the breaker with its counters, as operators. **Selection** EXTENDS it:
  `contract_selection/selector.py` as operators on a listing of quotes (what is
  discarded, the scores in thousandths, the order of the ranking, equivalents, what
  the risk manager lets through). Its loops are recursive functions over the ranking
  (`Keep` and `ExamineOne` are their bodies), which can be reasoned about. **Entry**
  EXTENDS both and has the state: signals confirmed over cycles, sizing, the two
  examinations, the order and its fill; or the choice of the selector and the
  order for its winner. The listing a strategy reads, the quote the executor
  reads and the price of the fill are three different inputs.
* **Exits** (`evaluate_exits` of `basic.py`): the marks, the highest price and the
  reasons to leave. **MCStrategy** checks entries and exits, each while the other
  rests, since they share the position alone.
* **Ingestion** (`data_ingestion`): a record is a function from fields to numbers
  or to one of four odd values, because the code treats them differently;
  `Process` classifies the records of a file one after the other and may raise,
  `Import` is what of it stays.
* **MarketData** (`adapters/market_data`,
  `option_chain/simulator.py`). `BuildChain` is a call of `get_option_chain` that
  builds one, with the answers to its requests for the spot, for the options and,
  without any rows, for the options again; `KeepServing` is one that does not.
  Each turn of the loop of `get_quote` is one of them. What a chain holds of the
  panel remembers when it was fetched, which the code forgets. **MCIngestion**
  checks both modules, each while the other rests.
* **RateLimiter** and **StreamingSupervisor** (`broker_adapters/_shared`), and
  **BrokerAdapter**, which EXTENDS them with the idempotency store, a client that
  retries and submits again, and a broker that may execute what it does not
  answer. The broker follows `mock_server.py`; that it executes and loses the
  answer, and the client itself, are ours, since no adapter puts the parts
  together. As in `mock_server.py` a request that timed out was executed before or
  never; one that arrives after it was asked for is not modelled. A message of the
  feed is taken in one step: `on_degraded` is awaited in the middle of `ingest`, but
  nothing in `src/` sets it. A message without a sequence number skips the check and
  is left out. **MCBrokerAdapter** is its instance.
* **Sessions** (`security/auth/sessions.py`, `audit/log.py`, `api/deps/auth.py`, the
  `/auth` routes). **MCOps** checks it and LiveTransition, each while the other rests,
  and of Sessions the sessions, the failed logins and the tokens without a session one
  at a time: they share the clock only.
* **Backtest** (`backtesting/engine/core.py`, `execution`, `data`). The whole data
  set, the future included, is chosen in `Init`, and so is whether the quotes of all
  days are loaded before the run, as `optimization/runner.py` does (`preloaded`);
  `Advance` moves the clock and shows what is known by then; the phases of a
  step follow the engine. `Finish`,
  `FinalSell` and `Done` are the end of a run.
* **Optimization** (`optimization/runner.py`) and **Stress**
  (`stress_testing/engine.py`, `scenarios/catalog.py`); **MCResearch** checks them
  and Backtest, each while the others rest.
* **PaperBrokerProofs**, **TradingCycleProofs**, **AutonomousProofs** (Orchestrator and
  the modules of MCStrategy), **GovernanceProofs** (Governance and ConfigService),
  **OpsProofs** (Sessions and LiveTransition), **IngestionProofs** (Ingestion and
  MarketData), **BrokerAdapterProofs** and **ResearchProofs** (Backtest, Optimization
  and Stress): see Proofs.

A call that raises before it changes anything is not a step in Governance,
ConfigService and LiveTransition; in PaperBroker, Ingestion and Backtest the
exception itself is state, because there the code changes something first.

Where an `MC` module has a variable `part`, its parts share no variable that
both write, so a behaviour of one says the same whatever the others do; checking
them in turn is the product without its states.

## Runs

| Run | What it shows |
|---|---|
| PaperBroker | Market, limit and stop orders, partial fills, slippage, commission: book and orders agree, no orphan reservation, positions match fills, no money created, each order lives as OrderLifecycle says. |
| TradingCycle | Cycles over two contracts until both have expired, with forced exits that rest, emergency stops and closes by the user in between, all of it in part or whole: a position is sold twice, and anything but a forced exit of a whole position or of none rests, only for a contract traded in part; an emergency stop buys nothing beyond what rested before it; a position near its expiration is sold. |
| TradingCycle_shorts (violation) | A forced exit rests, the user closes a part of the position, and the next cycle sells the whole of it: a short position, which the broker's docstring and docs/ARCHITECTURE.md rule out. |
| Orchestrator | Two loops, with and without session clock, started with and without emergency stop: loops end only when stopped, a stop reaches them all, the session closes whatever raises on the way, and an emergency hidden by RUNNING is shown again. |
| Governance | Every sequence of registrations, evidence, promotions, invalidations and retirements: evidence backs the status, invalidated versions do not operate, live follows paper, the audit log tells what operates. Two drafts of settings, duplicates included, in any order with hot reloads and a replaced layer: what is active is in force, and critical settings change only by applying an approved version. |
| Governance_atomic (violation) | An application fails its verification after the merge: the settings have changed and no version is active, against docs/CONFIGURATION.md. |
| Ops_unapproved (violation) | transition() alone takes a strategy live, without the approvals that docs/LIVE_TRANSITION.md asks for. |
| Ops | A refresh token works once; a rejected token stays rejected; every burst of failed logins raises an alert at its last failure. Two strategies, two approvals, three days: live was validated, an approval is spent once and by two people, the code of a live strategy is frozen. |
| Research | A backtest reads no later day, with preloaded quotes or without, and its report adds up without partial fills; past days are not traded; an optimization tests the best candidates, on days nothing was chosen on exactly when the period has 8 days or more; the verdict of a stress test does not depend on the state tested. |
| Strategy | What is bought keeps the limits that were examined on another quote; the winner of a selection with risk passed every check but the breaker; the trailing stop never fires. |
| Ingestion | An import that reports has classified every record and stored exactly the ones not rejected, and duplicates are marked, whatever raised before. Served option data are older than twice the TTL only within a TTL of a failed request. |
| BrokerAdapter | Lost answers, retries and second submissions leave no two live orders of one intent if the client asks first or keeps its id; a missing message is noticed; every request ends. |

Every property of a passing run has a mutant in PROJECT.json: a changed
definition, a plausible slip in the code, under which the run finds the
property violated.

### Bounds

* PaperBroker: four orders are the fewest that buy, oversell and buy back
  (where the division by zero is); two contracts are the fewest with a partial
  fill. Six requests cover every order type on each side that behaves
  differently; a tight, a wide and thin, and no quote are what the checked
  properties tell apart. The proofs have neither bound. The initial cash lets two
  and a half of the purchases through, so that they compete.
* TradingCycle: two contracts that expire a day apart let one be bought while
  the other is forced out; orders of up to two contracts are the smallest that can
  be filled or closed in part, and both are on. Three trades let a purchase be sold
  in two parts, two resting orders let a forced exit meet the rest of another order.
  The limits of days are 2 and 1 instead of 5 and 3; only their order matters, and
  the proofs have none of these bounds.
* Orchestrator: two loops are the fewest that interfere; `errors` is counted up
  to the code's threshold of 3, beyond which nothing changes.
* Governance: versions of strategies do not interact, so one shows everything; the
  proofs are for any set of them. Two drafts of settings, with the two categories
  that have cross rules; drafts with equal payloads have equal hashes, which is the
  interesting case. The payloads, reloads and layers can together break the rules of
  `validate_cross` from above and from below, and one value cannot be converted.
* Ops: two strategies that may use each other's requests, two requests, one day of
  validity and two days of clock, so that a request can be fresh, on its last day
  and expired. Two sessions per user, three in all, a burst of three in a window of
  two; five failures of three names let two bursts overlap.
* Research: six days with a weekend, one contract that varies and one that is
  steady: enough for a resting order to be overtaken by a close, and for the
  simulated clock to pass the wall clock. Periods of 0, 7, 8 and 50 days are the
  shortest and the longest that are stretched, the shortest that is not, and one with
  several windows. Two
  hazards at a time in the stress test: its failures look at two keys at most.
* Strategy: three contracts, of which two are equivalent; the breaker trips at 2
  instead of 10 and 5; the percentages of an exit are the defaults, on three
  prices that reach each of them.
* Ingestion: two records and two imports, since duplicates relate two; one odd
  field at a time. The market data have a TTL of 2 and four moments, the fewest in
  which rows outlive both caches; the proof is for any.
* BrokerAdapter: two intents with the same parameters, a bucket of one, a queue of
  one, one retry; a feed of four messages, one of them without id, with a window
  of two ids.

### Fairness and deadlock

Orchestrator, TradingCycle and BrokerAdapter state liveness. In Orchestrator fair
are the wake-ups of each loop, the delivery of a cancellation, and the end of
`stop()`: the asyncio event loop runs every task whose sleep or wait is over, and
all code between two waits terminates. Requests and the session clock are not
fair. `SessionCloses` and `EmergencyIsShown` say what a loop does if it is let, so a
pause, a session that is over and the other requests that take it from them are
named in them. In TradingCycle a cycle that started ends and another one starts (weak
fairness of `Cycle`), and the market does not refuse the closer for ever:
`CloseAtMarket(s)` is strongly fair, since it is disabled between two cycles.
What an entry, an exit or the user does is not fair, and neither is time. In
BrokerAdapter time passes and each request goes on when it can: the calls have
a timeout, and the asyncio lock serves its waiters in order. Submissions are not
fair. Deadlock is allowed where the cfg says so: an orchestrator that was stopped
and dropped, a backtest that is done, and models whose clock or counter has
reached its bound.

## Proofs

Every invariant and every action property that a run checks is a theorem, of the
specification of its module and for all values of the constants that satisfy the
assumptions of that module; the runs are small instances of the same formulas. Where
an `MC` module checks several specifications in turn, the theorem is about the
specification itself (`C!Spec`, `L!Spec`, `O!Spec`, `S!Spec`, `X!Spec`, `EntrySpec`)
and takes from the `MC` module the name of the property and the assumptions that
it makes of the constants of its instances.

* **PaperBrokerProofs**, for any symbols, requests, quotes, slippage,
  commission and bound on orders. The first inductive invariant is `TypeOK /\
  CashNeverNegative /\ BookConsistent /\ IdsInOrder /\ WorkRests`. The last two
  are needed because `process_pending` works on a copy of `_pending`: what is
  left in the copy is still resting (`WorkRests`), and numbers are given out in
  order, so a new order has no history (`IdsInOrder`). From it follow
  `TypeOK`, `CashNeverNegative`, `BookConsistent`, the action property
  `FinalOrdersStay`, and `ImplementsLifecycle`: every step of the broker is a
  step of OrderLifecycle or leaves it alone. The second, `AccountInv`, is about
  sums over the orders: `NoOrphanReservation`, `PositionsMatchFills` and
  `NoMoneyCreated`, with `BlankIsUnsettled` (an order not yet given out moved no
  money) and `ValidatedIsOpen` (an order that an exception left VALIDATED has
  contracts to go). A step changes one order, so a sum changes by what that order
  changes: the lemmas on sums say so for any finite set.
* **TradingCycleProofs**, for any contracts, expirations, limits and sizes, with
  and without partial fills and closes: `TypeOK`, `ShortsNeedASplit`,
  `RestingIsForcedExit` and the action property `EmergencyOnlyUnwinds`.
  `ShortsNeedASplit` is not inductive: a resting sell executes without a look at
  the position. `RestingIsForcedExit` is what it needs, and that is inductive because
  the closer acts later than the gate stops buying (`ForceExitDays <
  MinDaysToExpiration`, the assumption `DaysAssumption`; 3 and 5 by default) and
  because days do not pass while the closer works (`ClosingExpires`). Both speak of
  the contracts that were never traded in part: of one that was, the rest of a market
  sell stays in the book and the next cycle sells it again, which is the default
  configuration, or the user closes a part while a forced exit rests, which is
  TradingCycle_shorts. `EmergencyOnlyUnwinds` needs that no cycle is in its exits or
  its entry under an emergency stop (`EmergencyPhases`), and then that each step of
  the closer and the retries buys only what was still wanted.
* **AutonomousProofs**. Orchestrator, for any number of loops: `TypeOK` and
  `LoopsEndOnlyWhenStopped`. The latter is an action property that needs the types
  alone, so it is proved step by step: what a wake-up does is told
  apart by the session clock (`BodyCases`),
  and of all that a request may do only resuming loops touches one.
  The exits, for any contracts, prices and percentages: `TrailingStopNeverFires`,
  since no highest price is ever remembered (`NothingRemembered`), so that the highest
  is the mark itself. Selection, for any chain, quotes and limits:
  `WinnerIsBuyable`; the invariant keeps what the examination found of the winner
  (`Passes`), on the listing and the portfolio of that moment. It is all but
  the breaker, which later candidates may trip. Entry, whatever the market does between the
  examination of an order and its fill: `LimitsKept`, with the types of the account.
  Its core is arithmetic: what a fill costs above the quote covers what it passes the
  limits by (`ExcessCovers`), and a suggestion of 0 for an order
  of two contracts or more that the limits on money allow can only come from the
  loss per trade (`SuggestionFacts`, `ExecutedSize`). Quotes are natural numbers
  (`QuotesAssumption`), the chain lists no contract twice (`ChainAssumption`).
* **GovernanceProofs**, for any set of versions: the four safety invariants of
  Governance. `LiveFollowsPaper` needs `StatusVisited`: the history contains the
  status. For any settings, categories and users: `ActiveIsInForce`,
  `CriticalIsApproved` and the action property `CriticalChangesAreApplied` of
  ConfigService. No run checks `CriticalIsApproved`, since `CriticalChangesAreApplied`
  finds whatever violates it; the proof of the latter needs it. It says nothing of a
  version that was rolled back
  and comes into force again; the invariant says it of whatever is in force
  (`InForceIsApproved`).
* **OpsProofs**, for any users, times and limits: `RefreshIsSpentOnce` and
  `RejectedStaysRejected`. That an exchanged refresh token opens nothing needs
  more than itself: the tokens of the sessions and those exchanged are among the
  ones made so far, so a new one is none of them (`SInv`). That a rejected token
  stays rejected rests on what a step may do to the sessions there are: revoke
  them, and never move their end (`OnlyRevokes`). `BurstsAreAlerted`: the code
  forgets old failures, and the invariant says that those of the last Window it has
  all (`Lately(n) \subseteq failed[n]`), which is what makes counting them enough.
  For any strategies, administrators, commits and bounds: `LiveWasValidated`,
  `ApprovalIsSpentOnce`, `LiveCodeIsFrozen`. The strengthening says that a strategy in
  PAPER_VALIDATED, the only way into live trading, has been validated
  (`ValidatedIsMarked`), and that a request still pending has opened nothing
  (`PendingOpenedNothing`).
* **IngestionProofs**, for any files: `NothingIsLost` and `DuplicatesAreMarked`. The
  records of a file are read by a recursive function, whose values `ReadWell`
  describes: what was read has been seen, and what had been seen is marked. The
  rows of an import are another one (`RowsWell`: a bijection between the records
  accepted and the rows, in order). The invariant `StoreInv` adds that a pipeline
  which is kept has seen the print of every row and the content of every import.
  For any universe, panel, TTL and answers: `OldOnlyAfterFailure`. It says nothing of a
  chain that is no longer served nor of the rows behind the next one, so it is not
  inductive; the invariant is that every contract of a chain was, when the chain was
  built, simulated, younger than TTL, or let in by a failure (`Accounted`), and that
  `rows` and `rowsAt` agree (`Clocks`).
* **BrokerAdapterProofs**, for any intents, submissions, retries and lost answers:
  `SentOnce`. It holds for a client that asks before it decides or keeps its
  `client_order_id`, for two different reasons: the ids of an intent are used in turn
  and one that asks goes on only when all it has sent is dead (`Superseded`), or
  there is only one id (`IdsInOrder`). Both need that an answer of the broker is
  still true when it is used (`AnswerHolds`). For any feed, and any window of ids:
  `GapsAreNoticed`.
* **ResearchProofs**. Backtest, for any data, contracts, calendar and strategy:
  `NoLookAhead`, `PastIsNotTraded` and `ReportIsRight`. The first two say that a
  trade is at the quote in the book, and that nothing rests or is held before the
  day of the wall clock (`NothingYet`). The third needs that without partial fills
  what rests is sells of whole positions (`WholeSells`), which holds because the
  strategy never buys a contract again; the balance then follows trade by trade,
  in a unit of money in which commissions are whole numbers (`Prices`). Optimization,
  for any periods, combinations and results: `TestIsHonest`, in both directions, since
  with fewer than 8 days the ranges always meet (`ShortSplitIsSeen`); the invariant says, for a
  grid, that candidates were seen on two ranges of days only and are tested from the
  best down, and for a walk-forward where each window ends (`GridInv`, `WalkInv`).
  Ranking is a bijection, which is proved by counting the better ones. Stress:
  `VerdictIsForegone`, for any state tested.

The library's induction theorems take an operator as a parameter, which the provers
cannot instantiate. Where a proof needs induction over numbers or finite sets, for the
recursive functions and sums above, it takes a minimal counterexample instead:
`WFMin` with `NatLessThanWellFounded` or `FS_StrictSubsetOrderingWellFounded`, whose
parameters are sets.

Only model-checked are the liveness properties (`ExpiringIsSold`,
`StopReachesEveryLoop`, `SessionCloses`, `EmergencyIsShown`, `EveryRequestEnds`), since
ENABLED and fairness are out of the provers' reach, and the violation runs, which are
counterexamples. Type invariants that no
theorem names are part of the invariants above as far as those need them: of
`EntryTypeOK` the types of the account.


## Where code and documentation part

The three violation runs are listed in PROJECT.json with the lines they quote. While
modelling we met the others below; each is in the models as the code does it.

Trading:

* A matched sell whose position is gone raises KeyError in `process_pending`
  (`broker.py:277`): the later orders are not retried, and the order stays in
  `_pending`, so every later cycle raises again.
* The rest of a limit buy that filled partly when it was submitted never
  reserved cash, and releases other orders' cash as it fills (`broker.py:144`). A
  resting buy is sure to be honoured only with whole fills, without slippage and
  without stop orders.
* With partial fills the part of a market sell that was not filled rests, and the
  next exit is for all that is left: both execute and the position is oversold.
* `_trades_today` and `_daily_pnl` of the paper broker are never reset
  (`broker.py:52,56,315`), so the limits called daily last as long as the broker.
* /bot/start during an emergency stop lifts it (`orchestrator.py:281`), although
  docs/ASSUMPTIONS.md:9 asks for an unlock by hand.
* /bot/start while a loop is paused, degraded or in error creates a second loop:
  the lock is re-entrant for its holder (`orchestrator.py:63`).
* A /bot/start that arrives while `stop()` waits leaves a loop running on the
  dropped orchestrator (`orchestrator.py:310`).
* Resting buys execute during an emergency stop, in the branch commented "Solo
  exits / expiration" (`orchestrator.py:408`), and after a close of the session
  that raised. `EmergencyOnlyUnwinds` bounds them by what rested.
* After a pause in an emergency stop, `/bot/resume` shows RUNNING until a loop
  trades again (`orchestrator.py:326`).
* The loop resets a tripped circuit breaker itself (`orchestrator.py:340`).
* The close of a session fails when an order that was refused is still in
  `_pending` (`orchestrator.py:453`), and leaves a paused second loop waiting.
* deactivate() shows WAITING_FOR_MARKET when no loop runs, and /bot/start then
  answers ok without starting one (`orchestrator.py:185`).

Strategies:

* When `size_position` suggests 0 contracts the order keeps its quantity, since 0
  is falsy (`executor.py:135`, `basic.py:267`), beyond the loss per trade allowed.
* The trailing stop cannot fire: `_high_water` is only stored for a symbol whose
  mark is above the default, which is the mark itself (`basic.py:324`).
* `register_selection` has no caller, so the selector's limits per underlying and
  expiration never bite; the signal strategies call `select()`, not
  `select_with_risk()`. `record_api_error` is called in tests only.
* Examining candidates counts as refused orders and may trip the breaker, and an
  approval never resets the count. An equivalent contract that was discarded is
  not reconsidered when the one kept is refused. A spread of 0 counts as unknown.
* Implied volatility (a fraction) is compared with a historical volatility that
  the strategies pass in percent. Repeated buys of one contract exceed
  `maximum_position_percentage`, which is checked order by order. A refused
  decision still bars its contract for an hour.

Market data:

* Rows that could not be fetched anew are stamped with the present
  (`mock_provider.py:95`, `bymadata_options.py:158`): the checks on the age of a
  quote pass, however old they are while requests fail. After the failure ends
  they are gone within the TTL, which is what `OldOnlyAfterFailure` says.
* A simulated contract is quoted with the source "bymadata" (`mock_provider.py:148`).
* An underlying whose price is exactly 1000 is taken for one without a price.

Services:

* No new evidence lifts an invalidation (`governance/service.py:229`), although
  the error asks for it. A retired version is a DRAFT again when it is registered
  again (`:201`); RESEARCH, SUSPENDED, PAPER_APPROVED leads around BACKTESTED; an
  invalidation of a version that was not approved is audited as SUSPENDED.
* A configuration whose verification fails after the merge leaves its payload in
  the database layer and nothing active (`config_service/service.py:259`), against
  "Aplicación atómica con snapshot" (docs/CONFIGURATION.md:9), which is
  Governance_atomic; where the verification itself raises (`:175`, `:179`) the version
  stays ACTIVE. The approve route
  submits and approves in one call of one person. A version in force can be
  submitted again and changes status (`:217`); hot reload refuses `market_hours`,
  but the settings in use are `market_open_hour` and `market_close_hour` (`:289`).
* `transition()` takes a validated strategy live without an approval
  (`live_transition/service.py:161`), against docs/LIVE_TRANSITION.md:17, which is
  Ops_unapproved. An approval is spent even when the transition it was for raises
  (`:263`), and a commit reported before the strategy is live is forgotten (`:273`).
  A canary
  reports a pause and changes no state; the end of an activation is read by nothing
  else (`:292`).
* Access tokens of /auth/v2 are accepted by no route; /auth/v2/logout ends no
  session; failed bursts lock nobody out and a success does not clear them; expired
  sessions count toward the limit; a refresh does not extend the session. /audit
  asks for ADMIN although VIEWER has AUDIT_READ.
* The adapter infrastructure has no caller in `src/`. Priorities decide only who is
  turned away from a full queue, retries take no token, `honor_retry_after` is
  called by nobody. An order the broker does not know may be sent again.
  `last_sequence` goes backwards on reordered messages; the window of ids keeps any
  of them; a connection clears `degraded` without recovering the gap.

Research and data:

* A backtest of past days buys nothing: the strategy and the filters read the wall
  clock (`option_chain/quality.py:72`, `PastIsNotTraded`).
* With `allow_partial` a resting sell may execute for more than is held, with the
  whole proceeds (`backtesting/execution/broker.py:153`). A resting sell of a
  position that is gone ends the run (`:141`). A retry after a partial fill
  charges the commission of the whole order again (`:105`). Contracts trade after
  their expiration on the last quote. The final sells may fail and are not in the
  equity curve.
* Periods shorter than 8 days are stretched so that validation and test overlap
  (`optimization/runner.py:340`), which the assertion at `:249` does not see;
  `TestIsHonest` says just when. Three
  candidates are tested where the docstring says one; `_test_touched` is never
  read; the robustness check never calls anything fragile.
* `pf_cant_close` fails whatever is up, so `blocks_live` is always set, and nothing
  reads it; the simulated defences erase the harm the state reports.
* `ClassifiedRecord` is built with positional arguments, which pydantic refuses: the
  records meant to be rejected with a reason raise and end the import
  (`pipeline/core.py:107`). Empty or odd numbers raise as well. The hash of an
  aborted import stays, so that a retry is refused by a pipeline that is kept; the
  upload route makes a new one for every upload, so that it never notices a second.

## Not modelled, and why

Pricing, reporting and the analysis of backtests compute over floating point
numbers; so do the indicators of the strategies, whose direction is chosen
freely. `MonteCarloRunner` draws random frictions. The assistant and most routes
only read. The hash chain of the audit log is a computation over a list. Alerts
and health checks have no caller that raises them. The notification adapters only
write. The database layer and the frontend keep no state that the services above
depend on. `refresh_universe_from_bymadata`, `bayesian_suggest`,
`RobustnessAnalyzer` and `set_quote` have no caller in `src/`.

Crash and restart appear where the code has something to recover: nowhere, since
all state of these services is in memory and a restart begins at `Init`.

## Plan

Left to prove: the whole of `EntryTypeOK`, for which the ranking of the selector has
to be shown to list every viable contract once (its scores are then integers, under
an assumption on the listings), and with it that registered winners stay within the
limit per expiration; an abstract specification of the live transition, as
OrderLifecycle is one of the broker, with its refinement. Left to model: what
PROJECT.json lists as `partly`.

PROJECT.json lists the hazards of the code with the properties that cover them,
and a note where none does.

# Cross-venue arbitrage engine: TLA+ models, checks and proofs

This directory holds the verification project of the engine: TLA+ modules that
model its control, TLC configurations that check them on small instances, and
theorems proved with TLAPS for every value of the constants. `PROJECT.json`
maps every definition to the source lines it stands for, lists the hazards of
the code, and gives for each checked property a *mutant*, a plausible bug that
makes the run of that property fail.

References such as `router.py:97` name a file of `src/` and a line, without the
directory of the file; `README.md:n` is the engine's own README.

## 1. Inventory

The engine is one process with one asyncio event loop. Nothing is persisted. A
coroutine runs alone between two awaits, so the unit of interleaving is the
piece of code from one resumption to the next await.

| component | state | operations | what is hard |
|---|---|---|---|
| Risk manager (`risk/manager.py`) | `RiskState` (trading state, failures in a row, realised/peak pnl, drawdown, open notional), `_open_orders`, positions | `approve_opportunity`, `register_order`, `release_order`, `record_trade_result`, `record_slippage`, `handle_feed_stale`, `audit`, `check_rebalance_needed` | called from three loops and from every execution task in any order; three breakers share one gate |
| Execution router (`execution/router.py`) | none of its own; each `execute()` task has its legs, fills and result | `execute` with the routes `cex_cex`, `cex_then_dex`, `dex_then_cex`, `_unwind`, `_assess_fills`; `cancel_all_open_orders` | legs fill, fail, get lost or raise independently; the unwind is itself an order that can fail; many tasks at once |
| Venue connectors, orders (`venues/*.py`) | session, nonce, asset maps | `place_ioc_order`, `execute_atomic_swap` (Lighter only), cancels, positions, balances | what the parser reports and what the venue did can differ; two swaps with one nonce; a receipt that comes too late |
| Venue connectors, book feeds | websocket, callback | connect, reconnect, parse to `BookUpdate` | messages lost with a connection; a gap after a reconnect; what counts as a snapshot; an exception that ends all feeds |
| Order books (`core/orderbook.py`) | per book two `PriceLadder`s (dict and sorted arrays, `_dirty`), `last_update_ns`; one `_update_event` | `handle_update`, `bbo`, `sweep`, `wait_for_update`, `get_stale_venues` | two copies of each side of the book; a wake-up shared by all feeds |
| Detection loop (`engine.py:78-96`) | none | wait, scan, approve, create tasks | state is read before an await and used after it |
| Opportunity detector (`core/opportunity.py`) | fee models, VPIN | `scan`, `_evaluate_pair`, `_optimal_size` | an error in one pair ends the scan of all |
| Risk loop, stale-feed monitor (`engine.py:98-142`) | the positions being collected | a periodic audit of what the venues hold; a periodic look at the ages | sleeps that end late; venues that fail or trade while the others are asked |
| Start and teardown (`engine.py`, `venues/factory.py`) | connected venues, sessions, tasks | `create_all`, `start`, `_teardown` | partial failure; tasks that outlive the loops and the sessions |
| Rebalancer (`engine.py`, `risk/manager.py`) | none | `check_rebalance_needed` | raises on the lists it is given |
| Rate limiter (`utils/rate_limiter.py`) | deque of timestamps, semaphore, lock | `acquire`, `_wait_for_slot` | waiters that wake together; the edge of the window |
| Metrics (`utils/metrics.py`) | counters, windows | `record_execution` | must tell what the risk manager tells |
| Executor contract (`contracts/LighterExecutor.sol`) | owner | `executeSwap`, `rescueTokens` | reverts on a zero fill |
| Configuration (`utils/config.py`) | none | load, validate | sequential |

**How they interact.** Feeds call `OrderBookManager.handle_update`, which sets
one event. The detection loop waits for it, clears it, asks the risk manager
whether trading is allowed, scans all pairs, and creates one `execute()` task
for each approved opportunity. A task registers its notional when it first
runs, awaits venue calls, tells the risk manager and the metrics how it ended,
and releases the notional in a `finally`. The risk loop audits every second and
may resume a pause; the monitor looks for stale books every second and halts.

**What makes each part correct.** Risk manager: the ledger equals what is in
flight, the limit holds up to a known overshoot, the gate is consistent with the
failure count, nothing leaves a halt. Router: every execution ends, and a
position it leaves behind is flagged. Order books: arrays equal dict, sweeps are
optimal. Detection loop: no wake-up is lost. Monitor: a silent feed halts in
bounded time. Limiter: the window bounds the rate, permits are conserved, the
queue of the semaphore moves, and a call waits for ever only if others are
served for ever. Feeds: the copy of a book lags behind the venue's and differs
from it for known reasons only. Swap: a call answers what its
transaction does, whenever it is mined. Position audit: a net delta differs from
what is held for known reasons only. Start and teardown: the program ends, with
an empty ledger, closed sessions and every naked leg accounted for.

## 2. Modules

| module | models | state | uses |
|---|---|---|---|
| `CircuitBreaker` | abstract: what the trading gate promises | `gate` | |
| `RiskManager` | `RiskManager`'s methods as operators on a risk record (none of them awaits) | none | |
| `Connectors` | the answers of each connector: `did`, what the venue executed, and `says`, what the parser returns | none | |
| `ExecutionRouter` | the `execute()` task from creation to return or cancellation, an action for each resumption | `risk`, `metrics`, `deal`, `pc`, `waiting`, `fill`, `did`, `result` | `RiskManager`, `Connectors` |
| `Trading` | composition: detection, tasks, risk loop and monitor over one risk record | the same | `ExecutionRouter`, an instance of `CircuitBreaker` |
| `Configuration` | the validators of `load()` as operators | none | |
| `Engine` | composition: `main()`, `create_all`, the loops of `Trading`, `_teardown`, the end of `asyncio.run` | `Trading`'s and `config`, `phase`, `next`, `sessions`, `raised`, `late` | `Trading`, `Configuration` |
| `DexSwap` | `execute_atomic_swap` await by await, several at once, over the chain | `stage`, `nonce`, `answer`, `faulty`, `sent`, `pool`, `mined`, `receipt`, `did` | `Connectors` |
| `OrderBook` | ladders and books as operators | none | |
| `LaggingCopy` | abstract: what a book feed promises | `truth`, `backlog`, `copy` | |
| `BookFeed` | a connector's feed, from the venue's book to the program's | `kind`, `venue`, `link`, `channel`, `book`, `unsent`, `wiped` and two counters | `OrderBook`, an instance of `LaggingCopy` |
| `DetectionLoop` | updates, the event, the loop and the scan | `books`, `event`, `loop`, `gate`, `seen`, `skipped` | `OrderBook`, an instance of `CircuitBreaker` |
| `StaleMonitor` | update times, the monitor with its timing, the risk record under the other breakers | `now`, `last`, `due`, `risk` | `RiskManager` |
| `DeltaAudit` | the collection of positions and the net delta | `hold`, `asked`, `collected`, `missed`, `moved`, `positions`, `netDelta`, `warned` and a counter | |
| `RateLimiter` | one limiter and the coroutines that call behind it | `log`, `head`, `st`, `wait`, `permits`, `queue` | |
| `MCTrading`, `MCEngine`, `MCDetection`, `MCStale`, `MCFeeds`, `MCAudit` | small instances | | |
| `DataLemmas` | lemmas about finite sums and sorted listings, for every module of proofs that needs them | | |
| `EngineProofs` (of `Trading` and of `Engine`), `DexSwapProofs`, `BookFeedProofs`, `DetectionProofs`, `DeltaAuditProofs`, `StaleMonitorProofs`, `RateLimiterProofs` | theorems | | |

### Correspondence

* **Risk record.** Floats become integers. `_open_orders` is a function that is
  0 where the dict has no key, which is what `pop(order_id, 0.0)` makes of it.
  Positions and net delta are the subject of `DeltaAudit`; they lead to log lines
  only. Funding rates are never set: nothing calls `update_funding_rate`.
* **Tasks.** `pc[o]` names the await a task stands at: `spawned` (created, not
  run yet), `cex_cex` (the gather of two orders), `cex_first` and `dex_second`,
  `dex_first` and `cex_hedge`, `unwinding`, `done`. `waiting[o]` holds the calls
  of that await still out, so the two answers of a gather come in any order and
  other tasks run in between. `Start`/`Drop` are the first run, `Return` is the
  end of a venue call, the `After...` actions are the resumptions. `Cancel` is
  `CancelledError` at any of the awaits, which only the end of the program throws
  and which passes the `except Exception` clause but not the `finally`.
* **Answers.** `Connectors` gives for each connector every pair of an executed
  quantity and a report its parser can produce. The two differ where the parser
  loses the fill: a lost response; Bybit's unconditional PENDING; Kraken's
  FILLED without a quantity; Binance's unknown statuses; Lighter's swap, which is
  reported whole whenever it did not revert. An aiohttp timeout and the 30 s
  receipt wait are lost responses: the answer is `None` or a failure, the order
  may have executed.
* **Opportunities.** A deal is a pair of venues, a type, a size, a notional and a
  slippage. Its price matters only through the profit of a complete execution,
  which is any member of `Pnls`.
* **Scan.** All opportunities of a scan are approved against the same risk
  state, because registration happens in the tasks. No second scan comes before
  those tasks have run once (`Spawned = {}`): the event was cleared before the
  scan, and asyncio runs ready tasks in the order they became ready.
* **Interface.** At this commit `_optimal_size` raises `TypeError` on every pair
  that crosses (`opportunity.py:229` slices a `PriceLadder`). `DetectionLoop`
  models the scan as it runs, error included (run `MCDetection`). `Trading` takes
  the opportunities at the interface `scan()` is written to, so that the router
  and the risk manager can be examined; with the error in place no task is ever
  created.
* **Books.** A ladder keeps the dict (`levels`, 0 for a missing price), the two
  arrays and `_dirty`. A message is a set of levels for each side, as snapshot or
  as delta, so every classification a feed can make is covered.
* **The program's life.** `phase` is where `main()` stands. Startup and teardown walk
  through the venues in the order of the configuration (`next`). `sessions` is the
  set of open `aiohttp` sessions, `raised` the venues whose `connect()` or
  `close()` raised, and `late` the calls made over a closed session: these
  execute nothing, and a call that was under way when its session closed is
  answered `None` but may have executed. The swap has its own web3 connection,
  which `close()` leaves open. The tasks of `Trading` run in every phase from
  `live` to `closing`; in `stopping`, `asyncio.run` cancels what is left.
  `Configuration` keeps the fields that a validator or the startup reads.
* **Feeds.** One feed of one connector. `channel` holds the messages between the venue
  and `handle_update`, each with the book the venue had when it sent it. What a
  venue sends is external and is taken from what the parsers expect. `unsent` and
  `wiped` are history: the levels whose last change no message of the
  connection carried, and those a delta taken for a snapshot removed. The book of
  dYdX arrives in a `subscribed` message, which its parser passes over; a change
  has the type `both` when it comes in a `channel_data` message with the keys of
  both sides, and `delta` when a key is missing or it comes batched. `venue` is the
  part of the book that the feed subscribes to: a level that better ones push out
  of Kraken's 25 goes to 0, and `Sent` may leave that to the client, as the depth
  parameter has it (`PushedOut`). `Refuse` is a connection attempt that
  `websockets` does not retry; `Malformed` a message that cannot be parsed.
* **Swaps.** A transaction count is that of mined transactions (web3's default block
  identifier is `latest`). A node takes a transaction with a pending nonce in the
  place of the pending one or refuses it, by the fee. The gas price has defaults
  and cannot fail.
* **Positions.** A position is its notional in dollars at its entry price, one dollar a
  trade. The venues are asked one after another, an action for each await.
* **Time.** `StaleMonitor` and `RateLimiter` count ticks. A coroutine that is due
  runs at most `Lateness` ticks late.
* **Limiter.** The log holds the ages of the grants of the last second and of those
  still in the deque, which is the part from `head` on; an age stops at the first
  tick beyond the window, so that callers who call for ever have finitely many
  states. The lock is not modelled: there is no await under it. `Release` is where
  `acquire()` returns, which is before the request is made (`rate_limiter.py:49`).

## 3. Runs

| run | properties | what it shows |
|---|---|---|
| `MCRoutes` | `TypeOK`, `NakedLegExplained`, `Settles` | one execution over every kind of venue pair and route, every answer |
| `MCBreaker` | `ActiveMeansHealthy`, `NotionalAccounting`, `NotionalOvershootBounded`, `BooksAgree`, `DrawdownStaysZero`, `GateIsBreaker` | three executions interleaved with audits and stale reports |
| `MCEngine` | `EngineTypeOK`, `LedgerEmptyAtExit`, `ExitExplained`, `SessionsAccounted`, `DropsAreFailures`, `HaltDrains`, `ShutdownCompletes` | the program from its configuration to its exit, two executions that outlive the loops |
| `MCFeeds` | `TypeOK`, `GapsExplained`, `FollowsVenue`, `Converges` | the feeds through losses, reconnects and crashes |
| `MCSwap` | `TypeOK`, `AnswersRefined`, `PoolIsMineable`, `CollisionsExplained`, `SwapsReturn` | three swaps at once |
| `MCAudit` | `TypeOK`, `DeltaExplained`, `AuditsComplete` | four connectors that trade and fail during the audit |
| `MCDetection` | `TypeOK`, `NoLostWakeUp`, `WakeUpsConsumed` | two books, three pairs, a moving gate, scans that raise |
| `MCLadders` | `LaddersAgree`, `SweepIsBest` | one book of three levels a side |
| `MCStale` | `TypeOK`, `SilenceHalts` | two books and the monitor's timing |
| `MCLimiter` | `TypeOK`, `WindowBound`, `PermitsConserved`, `QueueMoves`, `OnlyOvertaken` | four callers that call for ever, two permits, a window of two |
| `MCUnwindFailure` | `UnwindFailureHalts` | refuted |
| `MCPaused` | `PausedRecovers` | refuted |

### Properties that hold

* `NakedLegExplained`: "never leave a naked leg open" (`router.py:4`) as far as the
  code keeps it. An execution that came to an end with more than 1% of its size
  naked says `unwind_failed`, or met one of five cases the router does not look
  at: the connector reported another quantity than the venue executed; a leg came
  back with a quantity but not FILLED and `_needs_unwind` was false; an unwind
  filled short of its leg, which `_unwind_single` counts as done; the second order
  of a sequential route filled short; the second call of a sequential route
  raised, which `execute()` catches without an unwind. Each of the five happens
  in the run: without any one of them it fails.
* `NotionalAccounting`: the open notional is the sum over the executions in
  flight, whichever way they end.
* `NotionalOvershootBounded`: approval and registration are separate steps, so the
  limit can be passed, by at most `(MaxBatch - 1) * MaxDeal`.
* `ActiveMeansHealthy`: active only below the failure limit, in any order of reports.
* `BooksAgree`: metrics and risk manager show the same profits.
* `DrawdownStaysZero`: only profits are booked, so the drawdown breaker is dead.
* `GateIsBreaker`: the gate refines `CircuitBreaker`: a late failure does not turn
  a halt into a pause, an audit does not lift a halt.
* `Settles`, `HaltDrains`: tasks end; after a halt the open notional drains to zero
  and stays there, also when the program is shut down meanwhile.
* `LedgerEmptyAtExit`: cancelled at any await, or before it ran, a task releases
  exactly what it registered.
* `ExitExplained`: what the program leaves naked when it exits. An unwind that meets
  a session the teardown has closed is flagged, never taken for done.
* `SessionsAccounted`, `ShutdownCompletes`: a venue that fails to close keeps neither
  the others open nor the program from ending.
* `DropsAreFailures`: what the validators of `load()` are for: the `missing venue`
  branch of `execute()` is reached only because a venue did not connect.
* `FollowsVenue`, `Converges`: the feeds of Bybit and Hyperliquid implement
  `LaggingCopy`: every message leaves the copy as the venue's book was when it was
  sent, through any losses. When changes and losses end, copy and book are equal,
  or a refused connection or a message that cannot be parsed has ended the feed,
  which `_run_feeds` turns into a shutdown (`engine.py:74`). Hyperliquid's catches
  the message, but not the connection, which is opened outside its `try`.
* `GapsExplained`: for all connectors, the reasons why a copy differs with no message
  under way: a level no message has carried since the connection opened (Binance's
  stream and dYdX's parsed messages have no snapshot; Lighter's empty snapshot is
  ignored; Kraken's client has to drop levels beyond the depth, and does not) or
  one that a dYdX delta with the keys of both sides wiped.
* `AnswersRefined`: the detailed swap implements the one step of `Connectors` that the
  router's proofs rest on. In particular a swap that answered FAILED never executes
  later; one that answered `None` may.
* `PoolIsMineable`, `CollisionsExplained`, `SwapsReturn`: reading the nonce late, with no
  counter of its own, the connector cannot leave a nonce gap behind; the price
  is that concurrent swaps replace or refuse each other, and this is the only way
  to lose one without an RPC error; the wait for the receipt of a replaced
  transaction ends.
* `DeltaExplained`, `AuditsComplete`: an audit's net delta is minus what the venues hold
  (every parsed position counts as a perpetual), unless a venue failed, traded
  during the collection, reports no positions, or holds two positions at
  Hyperliquid, which share a key (`hyperliquid.py:272`). No failure stops the loop.
* `NoLostWakeUp`: when the event is clear, the last scan saw the top prices of
  every book, unless trading was not allowed at the last wake-up. The exception
  is real: the wake-up is consumed and resuming does not repeat it.
* `WakeUpsConsumed`: the loop survives a scan that raised.
* `LaddersAgree`, `SweepIsBest`: the sorted arrays are the dict; a sweep costs what
  the best of *all* ways to fill the target costs (checked against the set of
  all fills, not against another loop).
* `SilenceHalts`: a delivered book that is silent for longer than
  `StaleAge + Period + Lateness` means trading is halted, if the configured
  threshold is below the 2001 ms the monitor reports.
* `WindowBound`, `PermitsConserved`: the rolling window and the semaphore.
* `QueueMoves`, `OnlyOvertaken`: who waits how long when callers never stop. The
  semaphore is fair: every queued call gets to look for a slot. The window is not:
  a call that wakes up may find the slot taken by one that came later, again and
  again, so that "every acquire returns" is false. What holds is that it waits for
  ever only if others are granted for ever.

### Statements the code does not keep

* `MCUnwindFailure`: `README.md:144` and `router.py:9` say a failed unwind halts.
  It calls `record_slippage(9999)`, one consecutive failure, and the failed trade
  is a second one; with the default limit of 5 trading goes on, and at the limit
  the gate is PAUSED, not HALTED.
* `MCPaused`: `README.md:207,214` say PAUSED recovers by itself. Recovery needs
  zero consecutive failures, which only a success sets, and a paused engine
  starts none.

Further divergences seen while modelling, each decided by one line of code and
therefore without a run of its own:

* a swap on a DEX venue without `execute_atomic_swap` (dYdX) raises after the CEX leg
  filled, and nothing markets that leg out (`router.py:170`, `README.md:146`): the
  last case of `NakedLegExplained`;
* losses are never booked, so the drawdown halt of `README.md:208` cannot happen
  (`manager.py:111`): `DrawdownStaysZero`, proved as `DrawdownIsDead`;
* the first pair that crosses raises out of `scan()` and hides the others
  (`opportunity.py:229`, `README.md:11`): `DetectionLoop` models it, and
  `WakeUpsConsumed` shows that the loop survives;
* all positions at Hyperliquid share one key, so the net delta is not "the sum of all
  venue positions" (`hyperliquid.py:272`, `README.md:209`), and Kraken, Lighter and
  spot accounts report none: cases of `DeltaExplained`;
* two partial legs stay open (`router.py:286`, `README.md:144`) and half an unwind
  counts as done (`router.py:253`): both are cases of `NakedLegExplained`;
* one stale book halts every venue (`manager.py:148`, `README.md:210`: "for that
  venue"); a feed that never delivered is never stale (`orderbook.py:231`); a
  threshold of 2001 ms or more switches the halt off (`engine.py:131`);
* a quantity change at the top does not wake the loop (`orderbook.py:75`);
* `max_concurrent` limits the callers inside `acquire()`, not the requests in flight
  (`rate_limiter.py:8`), and the burst widens every window (`rate_limiter.py:27`);
* the arrays are rebuilt on every delta, not only when the BBO changes;
* the shipped configuration names `BTCUSDT` in pairs whose Hyperliquid and Lighter
  books are keyed `BTC`, so those pairs never evaluate;
* `max_leg_wait_us` and the `rate_limits` overrides are read and never used.

## 4. Bounds

* `Opps`: opportunity ids. An id is used once, so the number of ids bounds the
  executions of a behaviour: one for the routes (what a route does depends on no
  other task), two for the whole program, three for the breakers. Three with a failure
  limit of 2 and batches of 2 reach: a trip, a report after the trip, a report
  after a halt, an overshoot of the limit, and a success between two failures.
* `MaxBatch`, `MaxDeal`: a scan yields at most one opportunity a pair; a deal has a
  largest notional. Both are parameters of the proved bound.
* `Fractions`: fills in percent. 0, 50 and 100 distinguish nothing, part and all;
  99 of `MCRoutes` sits on the edge of the 1% mismatch rule.
* `Pnls`: one profit and one loss beyond the drawdown limit.
* `Candidates`: `AllRoutes` has the pairs of connectors in every role a route has;
  the others have one deal for each route and one for a venue that did not connect.
* `MCEngine`: two venues that connect, one that does not and one that only an invalid
  configuration names; the three valid configurations reach every branch of
  `create_all`, the eight others fail one validator each. The deals are the route
  with the most awaits between an order that dies with its session and a swap that
  does not, and two that are dropped.
* `BookFeed`: `MaxChanges` 3 and `MaxLosses` 2: a change before, between and after two
  connections, and messages of both still under way. Two prices and quantities 0
  and 1 tell a stale level from a missing and a wiped one. The updates are of one
  level, of the best one on both sides, and of a bid that pushes the other out.
* `DexSwap`: three swaps: two that collide and a third that takes the next nonce.
* `DeltaAudit`: `MaxTrades` 3, `MaxHeld` 1: one position held before a collection, one that
  moves during it and one that is closed after it; the venues are one that raises,
  one with the shared key, a spot account and one that reports nothing.
* The order books of `MCDetection` and `MCLadders`: two or three prices, quantities up
  to 2, and messages of one level: an update with several levels is their
  succession for the dict and one rebuild.
* `StaleMonitor`: a tick is half a second: age 4, period 2, lateness 1, horizon 18,
  more than twice the reaction time of 7. Failures stop at their limit, above
  which the code only repeats itself.
* `RateLimiter`: a second of three ticks, lateness 1, no bound on time or arrivals. Four
  callers with two permits and a limit of two fill the window, the semaphore and
  its queue, wake waiters together, and leave two to overtake a third for ever.
* Deadlock is checked except where the system may stop: `MCStale` ends at its last tick,
  `MCEngine` exits, `MCFeeds` comes to a crashed feed or to one with no change
  left, and in `MCSwap` every swap has returned.
* Symmetry is used where only safety is checked and the set is of model values
  (`MCBreaker`: opportunities, `MCStale`: books).

## 5. Fairness

* `Trading!FairSpec`: weak fairness of every task's step: the event loop runs ready
  tasks in turn, every HTTP call ends by aiohttp's timeout (5 s for Hyperliquid,
  300 s by default), the receipt wait ends after 30 s, and all of these are
  answers. Weak fairness of the audit: the risk loop sleeps, audits and catches
  its own exceptions. No fairness of detection or of stale feeds: the market owes
  nothing.
* `Engine!FairEngineSpec`: the same of the tasks, now including their cancellation, and
  weak fairness of the lifecycle: connecting, cancelling and closing are HTTP or
  socket calls that end by their timeouts. No signal and no crash is fair.
* `BookFeed!FairSpec`: weak fairness of handling a message and of connecting again, which
  `websockets.connect` retries until a connection opens or is refused for good. None
  of changes, losses and refusals.
* `DexSwap!FairSpec`: weak fairness of each call once it was made, because RPC calls
  and the receipt wait time out. None of mining.
* `DeltaAudit!FairSpec`: weak fairness of the risk loop. No venue owes an answer.
* `DetectionLoop!FairSpec`: weak fairness of the loop's resumption and of the end of
  its sleep after an error. None of updates.
* `RateLimiter!FairSpec`: time passes and a coroutine that is due looks. None of
  arrivals or of the end of requests.

## 6. Proofs

All are for any sets of opportunities, venues, books, pairs and calls, and any
limits that satisfy the `ASSUME`s of the modules: limits are naturals, deals join
two different venues, fractions are percentages, messages are updates of known
prices, and `Opps`, `Swaps`, `Prices` and `Symbols` are finite. Every safety
invariant and every action property of the runs that pass is a theorem.

**Sums, sorts and sweeps.** Some of the properties are about what a fold computes: the
ledger and the net delta are sums, a ladder's arrays are a sort, a sweep walks
along them. The induction theorems of the library take an operator as a
parameter, which no installed prover instantiates. `DataLemmas` therefore does
its inductions over sets: a set of naturals that holds 0 and every successor of
its members is `Nat` (`NaturalsBySuccessor`), because a least counterexample
exists (`LeastNatural`), and the same for a set of subsets of a finite set
(`SubsetsByRemoval`). From these it proves that `SumFunctionOnSet`
is the sum over a set (`SumType`, `SumAdd`, `SumTakeOut`, `SumUpdate`, `SumPlus`, `SumScaled`,
`SumOrdered`, `SumOfMore`), that a finite set of numbers has a sorted listing
(`SortedListings`) and that such a listing leaves none of them out (`ListingIsOnto`). The
models sum with that operator and choose the sorted listing where the code calls
`sorted` (`orderbook.py:122`).

| theorem | argument |
|---|---|
| `EngineProofs!TypeCorrect` | `TaskShapes` reduces the steps of a task to five shapes (drop, start, return, continue, end); each keeps the type. `AnswersType` covers the connectors, `TradeResultType` and the lemmas beside it the risk record. |
| `EngineProofs!ActiveIsHealthy`, `DrawdownIsDead` | Both follow from `Sound` of the risk record, which every risk method keeps. `EffectsOnRisk` lists what a step can do to the record; a success has a profit (`Returned`), which is why realised equals peak. |
| `EngineProofs!GateImplementsBreaker` | Refinement: the initial states map, and by `GateStep` every effect on the record is a step of `CircuitBreaker` or a stutter. |
| `EngineProofs!OvershootIsBounded` | The bound alone is not inductive: between approval and registration nothing shows in the ledger. `RoomForSpawned` adds that for every task still spawned the open notional, its own and a `MaxDeal` for each other spawned task fit below the bound. |
| `EngineProofs!LedgerIsExact` | `LedgerInv`: the entry of an execution in the ledger is its notional exactly while it is in flight, and the open notional is the sum of the entries. Every step changes one entry at most, and with it one term of the sum (`SumUpdate`). |
| `EngineProofs!BooksStayEqual` | The equality is inductive with the type invariant; the fills are a cardinality, so the step that ends an execution adds one element to a finite set, and no execution ends twice. |
| `EngineProofs!NakedLegsAreExplained` | What a finished execution leaves depends on the whole path it took, so the property is far from inductive. `LegInv` says of every place of a task which calls were made and what is known of their answers (`did` equals `says` or the call is misreported; the second order of a sequential route asks for the first one's fill; an unwind asks for its leg's), and each of the ways to return is then a case of arithmetic over the four quantities. |
| `EngineProofs!EngineTypeCorrect`, `SessionsAreClosed`, `DropsAreConnectFailures` | `SessionInv`: a session is open at an enabled venue only, and during the close one whose venue has not raised is still ahead of `next`. `StartupInv`: no task exists before `create_all` is over, and by then every enabled venue is connected or raised. `TaskInv`: a task is about a pair of the configuration, and so, with the validators, about enabled venues. |
| `EngineProofs!LedgerEndsEmpty` | A cancellation keeps `LedgerInv` too: the `finally` releases what was registered, and before the first run that is nothing. At the exit no task is in flight, so every term of the sum is 0. |
| `EngineProofs!ExitsAreExplained` | Every step of `Engine` is a step or a stutter of `Trading`, or a cancellation: each execution satisfies `LegInv`, the invariant of `NakedLegsAreExplained`, or was cancelled. |
| `DexSwapProofs!TypeCorrect`, `SwapsRefineTheirAnswers`, `PoolStaysMineable`, `LostSwapsCollided` | `NonceInv`: a call's nonce was the count at some time, so none is above it. `PoolInv`: the pool holds one transaction at most, of the next nonce. `ReceiptInv` and `AnswerInv`: what a transaction executed, its receipt and the answer belong together. `MinedInv`, `ReplacedInv`, `RefusedInv`: a transaction that is neither pending nor mined has a rival of its nonce. |
| `BookFeedProofs!FeedTypeCorrect` | One step for each action; what a message leaves in the dicts is a book again. |
| `BookFeedProofs!FeedsFollowTheVenue` | Refinement by a step of `LaggingCopy` for every step of a follower. `ChainInv`: each message on its way, applied to the book that the one before it shows (the first: to the copy), gives the book it was sent for, and the last of them is the venue's book while the connection is up. |
| `BookFeedProofs!GapsAreExplained` | The property speaks of a moment with no message under way, so the invariant must say what the messages will do. `GapInv`: a level all of whose changes were sent is right in the last message under way that sets it (or wiped by it), and in the copy (or wiped from it) if none does. A level that Kraken's venue leaves to the client is unsent from that message on. |
| `DeltaAuditProofs!AuditTypeCorrect` | An answer and a failure leave positions of the symbols; the sum of a finite set of them is an integer. |
| `DeltaAuditProofs!NetDeltaIsExposure` | `CollectInv`: if nothing disturbed a collection, what was collected is what the venues asked so far hold. When all were asked, the sum over the answers is the sum over the holdings (`EntriesAddUp`): positions of 0 are left out (`SumOfNonzero`), and Hyperliquid's key renames its only position. |
| `RateLimiterProofs!WindowIsBounded` | `WindowInv`: what has left the deque is more than a second old, and the deque holds no more than `Limit` entries. The first lasts because ages only grow, the second because a grant finds fewer than `Limit` of them after its eviction; so the grants of the last second are all in the deque (`WindowInDeque`). |
| `RateLimiterProofs!TypeCorrect`, `PermitsAreConserved` | A permit is free, with a caller that looks for a slot, or handed to the head of the queue when it is released; the count of callers at a slot moves by one with each. |
| `DetectionProofs!LoopTypeCorrect`, `LaddersStaySorted` | `Agrees`: a ladder is as it was created, empty and dirty, or its arrays are clean and list the dict in order. A rebuild makes them so (`RebuildAgrees`, from `SortedListings`), whichever updates came before it. |
| `DetectionProofs!SweepsAreBest` | An exchange argument (`Exchange`): the sweep fills every level before the one it ends at and none after it, so any other fill of the same quantity takes at least as much at worse prices as it leaves at better ones; with the last price between the two the costs compare term by term. `SweepTakes` and `SweepCost` identify the loop's result with that fill. |
| `DetectionProofs!NoWakeUpIsLost` | The comparison of `apply_delta` reads arrays that may be dirty; the invariant adds that dirty arrays are empty, hence the compared price is the shown one. |
| `StaleMonitorProofs!TypeCorrect`, `SilenceIsHalted` | A round that did not halt saw no delivered book older than the age, so until the next round `due <= last + StaleAge + Period`; `now` passes `due` by at most `Lateness`. |

Only model-checked:

* liveness (`Settles`, `HaltDrains`, `ShutdownCompletes`, `WakeUpsConsumed`, `Converges`,
  `SwapsReturn`, `AuditsComplete`, `QueueMoves`, `OnlyOvertaken`), which needs fairness and `ENABLED`, out of
  the prover's reach;
* the two refuted statements, which TLC's counterexamples settle.

## 7. Not modelled

* Rebalancer: `check_rebalance_needed` calls `.values()` on the lists of balances it is
  given and raises as soon as one venue answered; the loop logs that and sleeps, and
  `execute_rebalance` would only log. There is no state to model.
* Fee, VPIN and sizing arithmetic of the detector: unreachable behind the `TypeError`
  of `opportunity.py:229` for every pair that crosses, and without effect for the rest.
* Funding rates: nothing calls `update_funding_rate`, so the check reads empty dicts.
* `VenueRateLimiters`, a lookup of defaults; `depth_imbalance` and the BBO arithmetic, which
  the engine does not use.
* Of the venues and the chain: eviction of pending transactions, chain
  reorganisations, sequence numbers and checksums of the streams, which no parser
  reads.
* Several symbols of one feed: each has its book, and the parsers keep nothing between
  messages.
* Orders that `cancel_all_open_orders` cancels: the engine places IOC orders only, which
  leave nothing open.
* Signing, REST formats, latency statistics, metric windows, logging, field types and
  defaults of the configuration, contract ownership and `rescueTokens`: I/O or
  sequential code without state that the properties read.

## 8. Plan

Done: the trading core (`RiskManager`, `Connectors`, `ExecutionRouter`, `Trading`), the books
and the loop (`OrderBook`, `DetectionLoop`, `StaleMonitor`), `RateLimiter`; then the
program around them (`Configuration`, `Engine`), the feeds (`BookFeed`), the swap
(`DexSwap`) and the position audit (`DeltaAudit`), with the runs and theorems above.

The proofs cover every safety property of these runs, sums and sweeps included.

Next: a composition of `BookFeed` with `StaleMonitor`, for feeds that never deliver; the
safety part of the liveness arguments as theorems (which step a waiting task,
message or caller always has); the proofs of `EngineProofs` that repeat a case
split, as lemmas.

----------------------------- MODULE RiskManager -----------------------------
(***************************************************************************)
(* risk/manager.py: the trading gate, the open-notional ledger and the     *)
(* circuit breakers of RiskManager.  Its methods never await, so each is   *)
(* one indivisible step of the event loop; they are operators from a risk  *)
(* record to the next one, and the modules that own the coroutines apply   *)
(* them.  Dollars and basis points are integers.                           *)
(***************************************************************************)
EXTENDS Integers

CONSTANTS
  Opps,           \* opportunity ids, the keys of _open_orders
  MaxFailures,    \* circuit_breaker.max_consecutive_failures
  MaxDrawdown,    \* circuit_breaker.max_drawdown_usd
  MaxSlippage,    \* circuit_breaker.max_slippage_bps
  StaleThreshold, \* circuit_breaker.stale_feed_threshold_ms
  MaxNotional     \* circuit_breaker.max_open_notional_usd

ASSUME LimitsAssumption ==
  /\ MaxFailures \in Nat
  /\ MaxDrawdown \in Nat
  /\ MaxSlippage \in Nat
  /\ StaleThreshold \in Nat
  /\ MaxNotional \in Nat

TradingState == {"active", "paused", "halted"}

\* RiskState and _open_orders; an id that is not a key of the dict maps to 0,
\* which is what pop(order_id, 0.0) makes of it.
RiskState ==
  [state    : TradingState,
   failures : Nat,            \* consecutive_failures
   realized : Int,            \* realized_pnl
   peak     : Int,            \* peak_pnl
   drawdown : Int,            \* current_drawdown
   open     : Nat,            \* open_notional_usd
   orders   : [Opps -> Nat]]  \* _open_orders

InitialRisk ==
  [state |-> "active", failures |-> 0, realized |-> 0, peak |-> 0,
   drawdown |-> 0, open |-> 0, orders |-> [o \in Opps |-> 0]]

-----------------------------------------------------------------------------
\* The gate

TradingAllowed(r) == r.state = "active"

\* Mutant: the limit is compared with what is open before the opportunity.
ApprovesOnOldNotional(r, notional, slippage) ==
  TradingAllowed(r) /\ r.open <= MaxNotional /\ slippage <= MaxSlippage

\* approve_opportunity: `notional` is size times the buy leg's price and
\* `slippage` its estimated slippage in basis points.
Approves(r, notional, slippage) ==
  /\ TradingAllowed(r)
  /\ r.open + notional <= MaxNotional
  /\ slippage <= MaxSlippage

\* Mutant: a late failure turns a halted engine into a paused one.
PauseAnyState(r) == [r EXCEPT !.state = "paused"]

Pause(r) == IF r.state = "active" THEN [r EXCEPT !.state = "paused"] ELSE r

Halt(r) == [r EXCEPT !.state = "halted"]

-----------------------------------------------------------------------------
\* The open-notional ledger

RegisterOrder(r, o, notional) ==
  [r EXCEPT !.orders[o] = notional, !.open = @ + notional]

\* Mutant: the ledger entry goes but the total stays.
ReleaseEntryOnly(r, o) == [r EXCEPT !.orders[o] = 0]

\* max(0.0, open - notional): the total never goes below zero.
ReleaseOrder(r, o) ==
  [r EXCEPT !.orders[o] = 0,
            !.open = IF @ > r.orders[o] THEN @ - r.orders[o] ELSE 0]

-----------------------------------------------------------------------------
\* Execution feedback

\* Mutant: the breaker trips one failure late.
CheckOneLate(r) == IF r.failures > MaxFailures THEN Pause(r) ELSE r

CheckCircuitBreakers(r) ==
  IF r.failures >= MaxFailures THEN Pause(r) ELSE r

UpdateDrawdown(r) ==
  LET peak == IF r.realized > r.peak THEN r.realized ELSE r.peak
  IN  [r EXCEPT !.peak = peak, !.drawdown = peak - r.realized]

CountFailure(r) == CheckCircuitBreakers([r EXCEPT !.failures = @ + 1])

\* Mutant: a loss is booked like a profit.
BookLosses(r, success, pnl) ==
  LET booked == UpdateDrawdown([r EXCEPT !.realized = @ + pnl])
  IN  IF success THEN [booked EXCEPT !.failures = 0] ELSE CountFailure(booked)

RecordTradeResult(r, success, pnl) ==
  IF success
    THEN UpdateDrawdown([r EXCEPT !.failures = 0, !.realized = @ + pnl])
    ELSE CountFailure(r)

RecordSlippage(r, bps) == IF bps > MaxSlippage THEN CountFailure(r) ELSE r

-----------------------------------------------------------------------------
\* The periodic audit and the stale-feed callback

CheckDrawdownLimit(r) == IF r.drawdown > MaxDrawdown THEN Halt(r) ELSE r

ConditionsRecovered(r) == r.failures = 0 /\ 2 * r.drawdown < MaxDrawdown

\* audit: the position sync and the delta and funding checks only log.
Audit(r) ==
  LET checked == CheckDrawdownLimit(r) IN
  IF checked.state = "paused" /\ ConditionsRecovered(checked)
    THEN [checked EXCEPT !.state = "active", !.failures = 0]
    ELSE checked

\* The age in milliseconds that _run_stale_feed_monitor reports of any book.
ReportedAge == 2001

HandleFeedStale(r, ms) == IF ms > StaleThreshold THEN Halt(r) ELSE r
=============================================================================

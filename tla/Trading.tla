------------------------------- MODULE Trading -------------------------------
(***************************************************************************)
(* The trading side of engine.py: the detection loop creates an execute()  *)
(* task for every opportunity the risk manager approves, the risk loop     *)
(* audits, the stale-feed monitor reports, and the tasks run as            *)
(* ExecutionRouter says.  The opportunities are those scan() returns; the  *)
(* market behind them is abstract.                                         *)
(***************************************************************************)
EXTENDS ExecutionRouter, Functions

CONSTANTS
  MaxBatch,  \* arb_pairs: one scan yields at most one opportunity a pair
  MaxDeal    \* the largest notional of a deal

ASSUME TradingAssumption ==
  /\ MaxBatch \in Nat \ {0}
  /\ MaxDeal \in Nat
  /\ \A d \in Candidates : d.notional <= MaxDeal
  /\ IsFiniteSet(Opps)

Spawned == {o \in Opps : pc[o] = "spawned"}
InFlight == {o \in Opps : pc[o] \in Awaiting}

Init == RouterInit

\* _run_detection_loop: every opportunity of one scan is approved against
\* the same risk state, because a task registers its notional only when it
\* first runs.  The tasks of a scan run before the loop can wake again: the
\* event was cleared before the scan, and asyncio runs tasks in the order
\* they were created.
Scan(batch, found) ==
  /\ Spawned = {}
  /\ TradingAllowed(risk)
  /\ batch # {} /\ Cardinality(batch) <= MaxBatch
  /\ \A o \in batch :
       /\ pc[o] = "idle"
       /\ Approves(risk, found[o].notional, found[o].slippage)
  /\ pc' = [o \in Opps |-> IF o \in batch THEN "spawned" ELSE pc[o]]
  /\ deal' = [o \in Opps |-> IF o \in batch THEN found[o] ELSE deal[o]]
  /\ UNCHANGED <<risk, metrics, waiting, fill, did, result>>

Detect ==
  \E batch \in SUBSET Opps : \E found \in [batch -> Candidates] : Scan(batch, found)

\* _run_risk_loop
AuditTick ==
  /\ risk' = Audit(risk)
  /\ UNCHANGED <<metrics, deal, pc, waiting, fill, did, result>>

\* _run_stale_feed_monitor finds a stale book; the venue is only logged.
FeedStale ==
  /\ risk' = HandleFeedStale(risk, ReportedAge)
  /\ UNCHANGED <<metrics, deal, pc, waiting, fill, did, result>>

Next ==
  \/ Detect
  \/ \E o \in Opps : TaskStep(o)
  \/ AuditTick
  \/ FeedStale

Spec == Init /\ [][Next]_vars

\* The event loop runs every task that is ready, every HTTP call of the
\* connectors ends by aiohttp's timeout and the receipt wait by its own, and
\* the risk loop ticks for ever.
Fairness == (\A o \in Opps : WF_vars(TaskStep(o))) /\ WF_vars(AuditTick)

FairSpec == Spec /\ Fairness

-----------------------------------------------------------------------------
\* Safety

\* The records, ledgers and program counters keep their types.
TypeOK ==
  /\ risk \in RiskState
  /\ metrics \in Metrics
  /\ pc \in [Opps -> Places]
  /\ waiting \in [Opps -> SUBSET Calls]
  /\ fill \in [Opps -> [Calls -> Reports]]
  /\ did \in [Opps -> [Calls -> Nat]]
  /\ result \in [Opps -> Results]
  /\ deal \in [Opps -> Candidates \cup {NoDeal}]
  /\ \A o \in Opps : pc[o] # "idle" => deal[o] \in Candidates

\* The open notional is what the executions in flight registered, whichever
\* way they end: a return, an exception or a missing venue (router.py:81-109).
NotionalAccounting ==
  risk.open = SumFunction([o \in InFlight |-> deal[o].notional])

\* The limit is checked before the tasks of a scan register, so it can be
\* passed, but never by more than the rest of one scan (engine.py:86-91).
NotionalOvershootBounded == risk.open <= MaxNotional + (MaxBatch - 1) * MaxDeal

\* While trading is active the failures in a row are under the limit, in
\* whatever order the executions report (manager.py:116-128).
ActiveMeansHealthy ==
  risk.state = "active" => risk.failures < MaxFailures \/ risk.failures = 0

\* The profit and the fills the metrics show are those the risk manager
\* booked, with executions of every route reporting in any order.
BooksAgree ==
  /\ metrics.pnl = risk.realized
  /\ metrics.fills = Cardinality({o \in Opps : result[o].success})

\* Only profits are booked, so the peak follows the realised profit and the
\* drawdown limit of manager.py:231-233 is never reached.
DrawdownStaysZero == risk.drawdown = 0 /\ risk.peak = risk.realized

-----------------------------------------------------------------------------
\* The naked leg

\* What the venues hold for o once bought and sold quantities cancel.
Exposure(o) ==
  (did[o]["buy"] - did[o]["undo_buy"]) - (did[o]["sell"] - did[o]["undo_sell"])

Naked(o) == 100 * Distance(Exposure(o), 0) > deal[o].size

\* A connector reported another quantity than the venue executed.
Misreported(o) ==
  \E c \in Calls : fill[o][c] # Untried /\ fill[o][c].qty # did[o][c]

\* A leg came back with a quantity but not FILLED, and nothing unwound it.
PartialIgnored(o) ==
  /\ ~result[o].unwind_triggered
  /\ \E leg \in Legs : ~IsFilled(fill[o][leg]) /\ fill[o][leg].qty > 0

\* An unwind filled short of its leg and still counted as done.
ShortUnwind(o) ==
  \E leg \in Legs :
    LET undo == fill[o][Undo(leg)].qty
    IN  0 < undo /\ undo < fill[o][leg].qty

\* The second order of a sequential route filled short of the first.
ShortSecondLeg(o) ==
  Route(o) # "cex_cex" /\ IsFilled(fill[o]["sell"]) /\ fill[o]["sell"].qty < fill[o]["buy"].qty

\* The second call of a sequential route raised: a swap on a venue that has
\* none, or an answer that its parser cannot read.
RaisedAfterFill(o) ==
  result[o].end = "raised" /\ IsFilled(fill[o]["buy"]) /\ fill[o]["sell"] = Raised

\* "Never leave a naked leg open" (router.py:4), as far as the code keeps
\* it: an execution that came to an end with a naked leg either says so in
\* unwind_failed or met one of the five cases the router does not look at.
NakedLegExplained ==
  \A o \in Opps :
    result[o].end \in {"returned", "raised"} /\ Naked(o) =>
      \/ result[o].unwind_failed
      \/ Misreported(o) \/ PartialIgnored(o) \/ ShortUnwind(o) \/ ShortSecondLeg(o)
      \/ RaisedAfterFill(o)

-----------------------------------------------------------------------------
\* Action and liveness properties

\* The gate behaves as CircuitBreaker promises: a failure that reports after
\* a halt cannot turn it into a pause, nor an audit lift it.
Breaker == INSTANCE CircuitBreaker WITH gate <- risk.state
GateIsBreaker == Breaker!Spec

\* Every approved opportunity is executed to an end, whatever the venues
\* answer and the other tasks do.
Settles == \A o \in Opps : pc[o] = "spawned" ~> pc[o] = "done"

\* After a halt the open notional drains and stays at zero.
HaltDrains == risk.state = "halted" ~> [](risk.open = 0)

-----------------------------------------------------------------------------
\* What the documents say and the code does not do

\* README.md:144 and router.py:9: when an unwind fails the engine halts.
UnwindFailureHalts ==
  (\E o \in Opps : result[o].unwind_failed) => risk.state = "halted"

\* README.md:214: PAUSED self-recovers.
PausedRecovers == risk.state = "paused" ~> risk.state # "paused"
=============================================================================

--------------------------- MODULE ExecutionRouter ---------------------------
(***************************************************************************)
(* execution/router.py: one execute() coroutine per approved opportunity,  *)
(* from its creation to its return, with the risk and metrics calls it     *)
(* makes.  A coroutine runs alone between two awaits, so an action is what *)
(* happens from one resumption to the next await; every coroutine          *)
(* interleaves with every other one at the awaits, which are the calls to  *)
(* the venues.                                                             *)
(***************************************************************************)
EXTENDS RiskManager, Connectors, FiniteSets

CONSTANTS
  Venues,     \* venue names in the configuration
  Kind,       \* [Venues -> Kinds]: the connector class behind a name
  Connected,  \* the venues that create_all returned
  DexVenues,  \* strategy.dex_venues
  Candidates, \* the deals the detector may find
  Pnls        \* profits the price of the fills may come to

\* An Opportunity, reduced to what risk and routing read; the configuration
\* refuses a pair of a venue with itself.
Deals ==
  {d \in [buy : Venues, sell : Venues,
          type : {"cex_cex", "cex_dex", "perp_perp", "spot_perp"},
          size : Nat \ {0}, notional : Nat, slippage : Nat] : d.buy # d.sell}

NoDeal == [type |-> "none"]

ASSUME RouterAssumption ==
  /\ Kind \in [Venues -> Kinds]
  /\ Connected \subseteq Venues
  /\ Candidates \subseteq Deals
  /\ Pnls \subseteq Int

VARIABLES
  risk,     \* RiskState of the shared RiskManager
  metrics,  \* EngineMetrics
  deal,     \* what each opportunity is about
  pc,       \* where the coroutine of each opportunity stands
  waiting,  \* the venue calls it awaits
  fill,     \* what each of its calls was answered
  did,      \* what the venue executed for each of its calls
  result    \* its ExecutionResult

vars == <<risk, metrics, deal, pc, waiting, fill, did, result>>

\* The two legs, and the orders that take them back.
Legs  == {"buy", "sell"}
Calls == {"buy", "sell", "undo_buy", "undo_sell"}

Undo(leg) == IF leg = "buy" THEN "undo_buy" ELSE "undo_sell"

Awaiting == {"cex_cex", "cex_first", "dex_second", "dex_first", "cex_hedge", "unwinding"}
Places   == {"idle", "spawned", "done"} \cup Awaiting

\* How an execution ended.
Results ==
  [end : {"none", "dropped", "raised", "returned", "cancelled"}, success : BOOLEAN, pnl : Int,
   unwind_triggered : BOOLEAN, unwind_failed : BOOLEAN]

ResultOf(end, success, pnl, triggered, failed) ==
  [end |-> end, success |-> success, pnl |-> pnl,
   unwind_triggered |-> triggered, unwind_failed |-> failed]

Unfinished == ResultOf("none", FALSE, 0, FALSE, FALSE)
Dropped    == ResultOf("dropped", FALSE, 0, FALSE, FALSE)
RaisedOut  == ResultOf("raised", FALSE, 0, FALSE, FALSE)
Cancelled  == ResultOf("cancelled", FALSE, 0, FALSE, FALSE)

FailedResult(triggered, failed) == ResultOf("returned", FALSE, 0, triggered, failed)

\* _assess_fills: a profit is a success, a loss is not.
Assessed(pnl) == ResultOf("returned", pnl > 0, pnl, FALSE, FALSE)

Metrics == [attempts : Nat, fills : Nat, pnl : Int]

RouterInit ==
  /\ risk = InitialRisk
  /\ metrics = [attempts |-> 0, fills |-> 0, pnl |-> 0]
  /\ deal = [o \in Opps |-> NoDeal]
  /\ pc = [o \in Opps |-> "idle"]
  /\ waiting = [o \in Opps |-> {}]
  /\ fill = [o \in Opps |-> [c \in Calls |-> Untried]]
  /\ did = [o \in Opps |-> [c \in Calls |-> 0]]
  /\ result = [o \in Opps |-> Unfinished]

-----------------------------------------------------------------------------
\* Helpers of the router

IsDex(o, leg) == deal[o].type = "cex_dex" /\ deal[o][leg] \in DexVenues

\* _execute_legs
Route(o) ==
  IF ~IsDex(o, "buy") /\ ~IsDex(o, "sell") THEN "cex_cex"
  ELSE IF ~IsDex(o, "buy") THEN "cex_first"
  ELSE "dex_first"

FirstCalls(route) == IF route = "cex_cex" THEN Legs ELSE {"buy"}

Distance(m, n) == IF m > n THEN m - n ELSE n - m

\* Mutant: two filled legs are never a mismatch.
NeedsUnwindNoSkew(b, s) == IsFilled(b) # IsFilled(s)

\* _needs_unwind: more than 1% between the quantities of two filled legs,
\* or one leg filled and the other not.
NeedsUnwind(b, s) ==
  IF IsFilled(b) /\ IsFilled(s)
    THEN 100 * Distance(b.qty, s.qty) > b.qty
    ELSE IsFilled(b) # IsFilled(s)

\* The calls of _unwind: one for every leg that reports a quantity.
ToUnwind(o) == {Undo(leg) : leg \in {l \in Legs : fill[o][l].qty > 0}}

\* Mutant: an unwind that was sent counts as done.
UnwindAssumed(o) == TRUE

\* _unwind_single returns True for any answer with a quantity.
UnwindConfirmed(o) ==
  \A c \in {"undo_buy", "undo_sell"} : fill[o][c] # Untried => fill[o][c].qty > 0

\* Mutant: losses are booked too.
RecordEveryExecution(m, res) ==
  [attempts |-> m.attempts + 1, fills |-> m.fills + 1, pnl |-> m.pnl + res.pnl]

\* record_execution
RecordExecution(m, res) ==
  [attempts |-> m.attempts + 1,
   fills |-> IF res.success THEN m.fills + 1 ELSE m.fills,
   pnl |-> IF res.success THEN m.pnl + res.pnl ELSE m.pnl]

UnwindSlippage == 9999

\* What execute() tells the risk manager of a result.
Account(r, res) ==
  RecordTradeResult(IF res.unwind_failed THEN RecordSlippage(r, UnwindSlippage) ELSE r,
                    res.success, res.pnl)

-----------------------------------------------------------------------------
\* The steps of execute()

\* The coroutine awaits the calls cs at place p.
Await(o, p, cs) ==
  /\ pc' = [pc EXCEPT ![o] = p]
  /\ waiting' = [waiting EXCEPT ![o] = cs]
  /\ UNCHANGED <<deal, fill, did, result>>

\* The coroutine returns res.
End(o, res) ==
  /\ pc' = [pc EXCEPT ![o] = "done"]
  /\ result' = [result EXCEPT ![o] = res]
  /\ UNCHANGED <<deal, waiting, fill, did>>

\* Mutant: the finally block is lost on the normal return.
FinishUnreleased(o, res) ==
  /\ risk' = Account(risk, res)
  /\ metrics' = RecordExecution(metrics, res)
  /\ End(o, res)

\* execute() after _execute_legs returned: feedback, then the finally block.
Finish(o, res) ==
  /\ risk' = ReleaseOrder(Account(risk, res), o)
  /\ metrics' = RecordExecution(metrics, res)
  /\ End(o, res)

\* execute() after an exception out of _execute_legs.
Fail(o) ==
  /\ risk' = ReleaseOrder(RecordTradeResult(risk, FALSE, 0), o)
  /\ End(o, RaisedOut)
  /\ UNCHANGED metrics

Continue(o, p, cs) == Await(o, p, cs) /\ UNCHANGED <<risk, metrics>>

\* The task runs for the first time: both venues are there, the notional is
\* registered and the first calls of the route are made.
Start(o) ==
  /\ pc[o] = "spawned"
  /\ {deal[o].buy, deal[o].sell} \subseteq Connected
  /\ risk' = RegisterOrder(risk, o, deal[o].notional)
  /\ Await(o, Route(o), FirstCalls(Route(o)))
  /\ UNCHANGED metrics

\* Mutant: a missing venue releases a notional that was never registered.
DropReleasing(o) ==
  /\ pc[o] = "spawned"
  /\ ~({deal[o].buy, deal[o].sell} \subseteq Connected)
  /\ End(o, Dropped)
  /\ risk' = [risk EXCEPT !.open = @ - deal[o].notional]
  /\ UNCHANGED metrics

\* "missing venue": nothing is registered and nothing is recorded.
Drop(o) ==
  /\ pc[o] = "spawned"
  /\ ~({deal[o].buy, deal[o].sell} \subseteq Connected)
  /\ End(o, Dropped)
  /\ UNCHANGED <<risk, metrics>>

VenueOf(o, c) == IF c \in {"buy", "undo_buy"} THEN deal[o].buy ELSE deal[o].sell

\* The quantity of a call: the size, the other leg's fill for the second
\* order of a sequential route, the leg's fill for an unwind.
Quantity(o, c) ==
  CASE c = "undo_buy"  -> fill[o]["buy"].qty
    [] c = "undo_sell" -> fill[o]["sell"].qty
    [] c = "sell" /\ pc[o] \in {"dex_second", "cex_hedge"} -> fill[o]["buy"].qty
    [] OTHER -> deal[o].size

IsSwap(o, c) == (c = "sell" /\ pc[o] = "dex_second") \/ (c = "buy" /\ pc[o] = "dex_first")

AnswersTo(o, c) ==
  IF IsSwap(o, c)
    THEN SwapAnswers(Kind[VenueOf(o, c)], Quantity(o, c))
    ELSE IocAnswers(Kind[VenueOf(o, c)], Quantity(o, c))

\* A venue call returns or raises.
Return(o, c) ==
  /\ pc[o] \in Awaiting /\ c \in waiting[o]
  /\ \E a \in AnswersTo(o, c) :
       /\ fill' = [fill EXCEPT ![o][c] = a.says]
       /\ did' = [did EXCEPT ![o][c] = a.did]
  /\ waiting' = [waiting EXCEPT ![o] = @ \ {c}]
  /\ UNCHANGED <<risk, metrics, deal, pc, result>>

\* Nothing is awaited any more at place p.
Resumes(o, p) == pc[o] = p /\ waiting[o] = {}

\* _execute_cex_cex after its gather; an exception counts as no fill.
AfterCexCex(o) ==
  LET b == fill[o]["buy"]
      s == fill[o]["sell"]
  IN  /\ Resumes(o, "cex_cex")
      /\ \/ NeedsUnwind(b, s) /\ Continue(o, "unwinding", ToUnwind(o))
         \/ ~NeedsUnwind(b, s) /\ IsFilled(b) /\ \E p \in Pnls : Finish(o, Assessed(p))
         \/ ~NeedsUnwind(b, s) /\ ~IsFilled(b) /\ Finish(o, FailedResult(FALSE, FALSE))

\* A sequential route after its call c: an exception leaves execute() by the
\* except clause.
AfterCall(o, p, c, filled, missed) ==
  /\ Resumes(o, p)
  /\ \/ fill[o][c] = Raised /\ Fail(o)
     \/ fill[o][c] # Raised /\ IsFilled(fill[o][c]) /\ filled
     \/ fill[o][c] # Raised /\ ~IsFilled(fill[o][c]) /\ missed

\* _execute_cex_then_dex after the CEX order
AfterCexFirst(o) ==
  AfterCall(o, "cex_first", "buy",
            Continue(o, "dex_second", {"sell"}),
            Finish(o, FailedResult(FALSE, FALSE)))

\* _execute_cex_then_dex after the swap
AfterSwap(o) ==
  AfterCall(o, "dex_second", "sell",
            \E p \in Pnls : Finish(o, Assessed(p)),
            Continue(o, "unwinding", {"undo_buy"}))

\* _execute_dex_then_cex after the swap
AfterDexFirst(o) ==
  AfterCall(o, "dex_first", "buy",
            Continue(o, "cex_hedge", {"sell"}),
            Finish(o, FailedResult(FALSE, FALSE)))

\* _execute_dex_then_cex after the hedge: a miss is an open position.
AfterHedge(o) ==
  AfterCall(o, "cex_hedge", "sell",
            \E p \in Pnls : Finish(o, Assessed(p)),
            Finish(o, FailedResult(TRUE, TRUE)))

\* Mutant: an unwind is tried again until it is confirmed.
AfterUnwindRetries(o) ==
  /\ Resumes(o, "unwinding")
  /\ \/ UnwindConfirmed(o) /\ Finish(o, FailedResult(TRUE, FALSE))
     \/ ~UnwindConfirmed(o) /\ Continue(o, "unwinding", ToUnwind(o))

\* Both routes that unwind return a failed result; _unwind_single catches
\* every exception.
AfterUnwind(o) ==
  /\ Resumes(o, "unwinding")
  /\ Finish(o, FailedResult(TRUE, ~UnwindConfirmed(o)))

\* Mutant: a cancelled coroutine leaves without its finally block.
CancelUnreleased(o, executed) ==
  /\ pc[o] \in {"spawned"} \cup Awaiting
  /\ pc' = [pc EXCEPT ![o] = "done"]
  /\ waiting' = [waiting EXCEPT ![o] = {}]
  /\ did' = [did EXCEPT ![o] = [c \in Calls |-> IF c \in waiting[o] THEN executed[c] ELSE @[c]]]
  /\ result' = [result EXCEPT ![o] = Cancelled]
  /\ UNCHANGED <<risk, metrics, deal, fill>>

\* The task is cancelled.  One that never ran registers nothing; one that
\* awaits leaves by the finally block, for CancelledError is no Exception:
\* nothing is unwound or recorded, and each call in flight may have been
\* executed or not.
Cancel(o, executed) ==
  /\ pc[o] \in {"spawned"} \cup Awaiting
  /\ risk' = IF pc[o] = "spawned" THEN risk ELSE ReleaseOrder(risk, o)
  /\ pc' = [pc EXCEPT ![o] = "done"]
  /\ waiting' = [waiting EXCEPT ![o] = {}]
  /\ did' = [did EXCEPT ![o] = [c \in Calls |-> IF c \in waiting[o] THEN executed[c] ELSE @[c]]]
  /\ result' = [result EXCEPT ![o] = Cancelled]
  /\ UNCHANGED <<metrics, deal, fill>>

TaskStep(o) ==
  \/ Start(o)
  \/ Drop(o)
  \/ \E c \in Calls : Return(o, c)
  \/ AfterCexCex(o)
  \/ AfterCexFirst(o)
  \/ AfterSwap(o)
  \/ AfterDexFirst(o)
  \/ AfterHedge(o)
  \/ AfterUnwind(o)
=============================================================================

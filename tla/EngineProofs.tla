----------------------------- MODULE EngineProofs -----------------------------
(***************************************************************************)
(* Theorems about Trading and Engine, for every set of opportunities,      *)
(* venues, deals, limits and configurations.  The first part is about the  *)
(* executions: what each RiskManager method does to a risk record, and the *)
(* five shapes a step of a task can have (TaskShapes), which are all that  *)
(* an invariant has to look at; the naked leg needs each place of the      *)
(* router by itself.  The second is about start-up and shutdown: which     *)
(* sessions are still open at each venue of the configuration, and which   *)
(* venues can be missing once the tasks run.                               *)
(***************************************************************************)
EXTENDS Engine, DataLemmas

\* The results _execute_legs can return: a success made a profit.
Returned == {res \in Results : res.end = "returned" /\ (res.success => res.pnl > 0)}

-----------------------------------------------------------------------------
\* The methods of RiskManager

\* The checks and the feedback of RiskManager keep the type of its state.
LEMMA RiskManagerType ==
  ASSUME NEW r \in RiskState
  PROVE  /\ Pause(r) \in RiskState
         /\ Halt(r) \in RiskState
         /\ CheckCircuitBreakers(r) \in RiskState
         /\ CountFailure(r) \in RiskState
         /\ Audit(r) \in RiskState
         /\ \A ms \in Nat : HandleFeedStale(r, ms) \in RiskState
         /\ \A bps \in Nat : RecordSlippage(r, bps) \in RiskState
<1> USE LimitsAssumption DEF RiskState, TradingState
<1>1. Pause(r) \in RiskState /\ Halt(r) \in RiskState
  BY DEF Pause, Halt
<1>2. \A q \in RiskState : CheckCircuitBreakers(q) \in RiskState
  BY DEF CheckCircuitBreakers, Pause
<1>3. CountFailure(r) \in RiskState
  BY <1>2 DEF CountFailure
<1>4. Audit(r) \in RiskState
  BY DEF Audit, CheckDrawdownLimit, ConditionsRecovered, Halt
<1>5. QED
  BY <1>1, <1>2, <1>3, <1>4 DEF HandleFeedStale, RecordSlippage

\* Replacing fields of a risk record by values of their types.
LEMMA FieldUpdates ==
  ASSUME NEW r \in RiskState
  PROVE  /\ \A f \in Nat, x \in Int :
              [r EXCEPT !.failures = f, !.realized = x] \in RiskState
         /\ \A p \in Int, d \in Int :
              [r EXCEPT !.peak = p, !.drawdown = d] \in RiskState
         /\ \A o \in Opps, n \in Nat, m \in Nat :
              [r EXCEPT !.orders[o] = n, !.open = m] \in RiskState
<1>1. \A f \in Nat, x \in Int : [r EXCEPT !.failures = f, !.realized = x] \in RiskState
  BY DEF RiskState
<1>2. \A p \in Int, d \in Int : [r EXCEPT !.peak = p, !.drawdown = d] \in RiskState
  BY DEF RiskState
<1>3. \A o \in Opps, n \in Nat, m \in Nat :
        [r EXCEPT !.orders[o] = n, !.open = m] \in RiskState
  BY DEF RiskState
<1>4. QED
  BY <1>1, <1>2, <1>3

\* record_trade_result keeps the type, whatever it is told.
LEMMA TradeResultType ==
  ASSUME NEW r \in RiskState, NEW success \in BOOLEAN, NEW pnl \in Int
  PROVE  RecordTradeResult(r, success, pnl) \in RiskState
<1>1. CountFailure(r) \in RiskState
  BY RiskManagerType
<1>2. \A s \in RiskState : UpdateDrawdown(s) \in RiskState
  <2> SUFFICES ASSUME NEW s \in RiskState PROVE UpdateDrawdown(s) \in RiskState
    OBVIOUS
  <2> DEFINE peak == IF s.realized > s.peak THEN s.realized ELSE s.peak
             drop == peak - s.realized
  <2>1. peak \in Int /\ drop \in Int
    BY DEF RiskState
  <2>2. UpdateDrawdown(s) = [s EXCEPT !.peak = peak, !.drawdown = drop]
    BY DEF UpdateDrawdown
  <2> HIDE DEF peak, drop
  <2>3. \A p \in Int, d \in Int : [s EXCEPT !.peak = p, !.drawdown = d] \in RiskState
    BY FieldUpdates
  <2>4. [s EXCEPT !.peak = peak, !.drawdown = drop] \in RiskState
    BY <2>1, <2>3
  <2>5. QED
    BY <2>2, <2>4, Zenon
<1> DEFINE total == r.realized + pnl
<1>3. total \in Int
  BY DEF RiskState
<1>4. success => RecordTradeResult(r, success, pnl)
                 = UpdateDrawdown([r EXCEPT !.failures = 0, !.realized = total])
  BY DEF RecordTradeResult
<1> HIDE DEF total
<1>5. [r EXCEPT !.failures = 0, !.realized = total] \in RiskState
  BY <1>3, FieldUpdates
<1>6. QED
  BY <1>1, <1>2, <1>4, <1>5 DEF RecordTradeResult

\* Registering and releasing keep the type: the total never goes below zero.
LEMMA LedgerType ==
  ASSUME NEW r \in RiskState, NEW o \in Opps, NEW n \in Nat
  PROVE  RegisterOrder(r, o, n) \in RiskState /\ ReleaseOrder(r, o) \in RiskState
<1> DEFINE more == r.open + n
           left == IF r.open > r.orders[o] THEN r.open - r.orders[o] ELSE 0
<1>1. more \in Nat /\ left \in Nat
  BY DEF RiskState
<1>2. /\ RegisterOrder(r, o, n) = [r EXCEPT !.orders[o] = n, !.open = more]
      /\ ReleaseOrder(r, o) = [r EXCEPT !.orders[o] = 0, !.open = left]
  BY DEF RegisterOrder, ReleaseOrder
<1> HIDE DEF more, left
<1>3. /\ [r EXCEPT !.orders[o] = n, !.open = more] \in RiskState
      /\ [r EXCEPT !.orders[o] = 0, !.open = left] \in RiskState
  BY <1>1, FieldUpdates
<1>4. QED
  BY <1>2, <1>3, Zenon

\* What execute() tells of a result keeps the type.
LEMMA AccountType ==
  ASSUME NEW r \in RiskState, NEW res \in Results
  PROVE  Account(r, res) \in RiskState
<1>1. (IF res.unwind_failed THEN RecordSlippage(r, UnwindSlippage) ELSE r) \in RiskState
  BY RiskManagerType DEF UnwindSlippage
<1>2. res.success \in BOOLEAN /\ res.pnl \in Int
  BY DEF Results
<1>3. QED
  BY <1>1, <1>2, TradeResultType DEF Account

-----------------------------------------------------------------------------
\* The shapes of a task's steps

\* What a venue may execute of an order is a quantity.
LEMMA ExecutedIsNat ==
  ASSUME NEW q \in Nat
  PROVE  Executed(q) \subseteq Nat
<1>1. SUFFICES ASSUME NEW f \in Fractions PROVE (q * f) \div 100 \in Nat
  BY DEF Executed
<1>2. f \in Nat
  BY FractionsAssumption
<1>3. q * f \in Nat
  BY <1>2
<1> DEFINE x == q * f
<1>4. x \in Nat
  BY <1>3
<1> HIDE DEF x
<1>5. x \div 100 \in Nat
  BY <1>4
<1>6. QED
  BY <1>5 DEF x

\* Every answer is a quantity executed and a report.
LEMMA AnswersType ==
  ASSUME NEW kind \in Kinds, NEW q \in Nat
  PROVE  \A a \in IocAnswers(kind, q) \cup SwapAnswers(kind, q) :
           a.did \in Nat /\ a.says \in Reports
<1> DEFINE Good(S) == \A a \in S : a.did \in Nat /\ a.says \in Reports
<1>0. Executed(q) \subseteq Nat
  BY ExecutedIsNat
<1> USE DEF Answer, Report, Reports, OrderStatus
<1>1. Good(Rejected) /\ Good(Lost(q))
  BY <1>0 DEF Rejected, Lost, NoFill
<1>2. Good(BinanceAnswers(q))
  <2>1. \A x \in Executed(q) : BinanceReports(x, q) \subseteq Reports
    BY <1>0 DEF BinanceReports
  <2>2. QED
    BY <1>0, <1>1, <2>1 DEF BinanceAnswers
<1>3. Good(BybitAnswers(q))
  BY <1>0, <1>1 DEF BybitAnswers
<1>4. Good(KrakenAnswers(q))
  <2>1. \A x \in Executed(q) : KrakenReports(x) \subseteq Reports
    BY DEF KrakenReports
  <2>2. QED
    BY <1>0, <1>1, <2>1 DEF KrakenAnswers
<1>5. Good(HyperliquidAnswers(q))
  <2>1. \A x \in Executed(q) : HyperliquidReports(x) \subseteq Reports
    BY <1>0 DEF HyperliquidReports, Raised
  <2>2. QED
    BY <1>0, <1>1, <2>1 DEF HyperliquidAnswers
<1>6. Good(DydxAnswers(q))
  BY <1>1 DEF DydxAnswers, NoFill
<1>7. Good(LighterAnswers(q))
  <2>1. \A x \in Executed(q) : LighterReports(x) \subseteq Reports
    BY <1>0 DEF LighterReports, Raised
  <2>2. QED
    BY <1>0, <1>1, <2>1 DEF LighterAnswers
<1>8. Good(IocAnswers(kind, q))
  BY <1>2, <1>3, <1>4, <1>5, <1>6, <1>7 DEF IocAnswers, Kinds
<1>9. Good(SwapAnswers(kind, q))
  BY <1>0, <1>1 DEF SwapAnswers, Raised
<1>10. QED
  BY <1>8, <1>9

\* The results the routes build are the ones _execute_legs returns.
LEMMA ResultsReturned ==
  /\ \A t \in BOOLEAN, f \in BOOLEAN : FailedResult(t, f) \in Returned
  /\ \A p \in Pnls : Assessed(p) \in Returned
<1>1. \A t \in BOOLEAN, f \in BOOLEAN : FailedResult(t, f) \in Returned
  BY DEF Returned, Results, FailedResult, ResultOf
<1>2. ASSUME NEW p \in Int PROVE Assessed(p) \in Returned
  <2> DEFINE gain == p > 0
  <2>1. gain \in BOOLEAN
    OBVIOUS
  <2>2. Assessed(p) = ResultOf("returned", gain, p, FALSE, FALSE)
    BY DEF Assessed
  <2>3. ResultOf("returned", gain, p, FALSE, FALSE) \in Results
    <3> HIDE DEF gain
    <3> QED BY <2>1 DEF Results, ResultOf
  <2>4. QED
    <3>1. /\ Assessed(p).end = "returned"
          /\ Assessed(p).success <=> p > 0
          /\ Assessed(p).pnl = p
      BY DEF Assessed, ResultOf
    <3>2. QED
      BY <2>2, <2>3, <3>1 DEF Returned
<1>3. QED
  BY <1>1, <1>2, RouterAssumption

\* A step of a task is its start, its drop, an answer, or a resumption that
\* awaits again, returns a result or raises.
LEMMA TaskShapes ==
  ASSUME TypeOK, NEW o \in Opps, TaskStep(o)
  PROVE  \/ Start(o)
         \/ Drop(o)
         \/ \E c \in Calls : Return(o, c)
         \/ /\ pc[o] \in Awaiting
            /\ \/ \E p \in Awaiting, cs \in SUBSET Calls : Continue(o, p, cs)
               \/ \E res \in Returned : Finish(o, res)
               \/ Fail(o)
<1> USE DEF Resumes, Awaiting
<1>1. CASE AfterCexCex(o)
  <2>1. ToUnwind(o) \in SUBSET Calls
    BY DEF ToUnwind, Undo, Calls, Legs
  <2>2. QED
    BY <1>1, <2>1, ResultsReturned DEF AfterCexCex
<1>2. CASE AfterCexFirst(o)
  BY <1>2, ResultsReturned DEF AfterCexFirst, AfterCall, Calls
<1>3. CASE AfterSwap(o)
  BY <1>3, ResultsReturned DEF AfterSwap, AfterCall, Calls
<1>4. CASE AfterDexFirst(o)
  BY <1>4, ResultsReturned DEF AfterDexFirst, AfterCall, Calls
<1>5. CASE AfterHedge(o)
  BY <1>5, ResultsReturned DEF AfterHedge, AfterCall
<1>6. CASE AfterUnwind(o)
  BY <1>6, ResultsReturned DEF AfterUnwind, UnwindConfirmed
<1>7. QED
  BY <1>1, <1>2, <1>3, <1>4, <1>5, <1>6 DEF TaskStep
-----------------------------------------------------------------------------
\* Type correctness

\* A deal that has been found has venues with a connector, a size and a
\* notional.
LEMMA DealType ==
  ASSUME TypeOK, NEW o \in Opps, pc[o] # "idle"
  PROVE  /\ deal[o] \in Deals
         /\ deal[o].size \in Nat /\ deal[o].notional \in Nat
         /\ deal[o].notional <= MaxDeal
         /\ \A c \in Calls : Kind[VenueOf(o, c)] \in Kinds
<1>1. deal[o] \in Candidates /\ deal[o] \in Deals
  BY RouterAssumption DEF TypeOK
<1>2. deal[o].buy \in Venues /\ deal[o].sell \in Venues
  BY <1>1 DEF Deals
<1>3. \A c \in Calls : Kind[VenueOf(o, c)] \in Kinds
  BY <1>2, RouterAssumption DEF VenueOf
<1>4. QED
  BY <1>1, <1>3, TradingAssumption DEF Deals

\* The answer of a venue keeps the types.
LEMMA ReturnType ==
  ASSUME TypeOK, NEW o \in Opps, NEW c \in Calls, Return(o, c)
  PROVE  TypeOK'
<1>1. pc[o] # "idle"
  BY DEF Return, Awaiting
<1>2. Quantity(o, c) \in Nat
  <2>1. fill[o]["buy"].qty \in Nat /\ fill[o]["sell"].qty \in Nat
    BY DEF TypeOK, Reports, Calls
  <2>2. QED
    BY <1>1, <2>1, DealType DEF Quantity
<1>3. Kind[VenueOf(o, c)] \in Kinds
  BY <1>1, DealType
<1>4. PICK a \in AnswersTo(o, c) :
        /\ fill' = [fill EXCEPT ![o][c] = a.says]
        /\ did' = [did EXCEPT ![o][c] = a.did]
  BY DEF Return
<1>5. a.did \in Nat /\ a.says \in Reports
  BY <1>2, <1>3, AnswersType DEF AnswersTo
<1>6. fill' \in [Opps -> [Calls -> Reports]] /\ did' \in [Opps -> [Calls -> Nat]]
  BY <1>4, <1>5 DEF TypeOK
<1>7. waiting' \in [Opps -> SUBSET Calls]
  BY DEF Return, TypeOK
<1>8. QED
  BY <1>6, <1>7 DEF Return, TypeOK

\* Every step of a task keeps the types.
LEMMA TaskType ==
  ASSUME TypeOK, NEW o \in Opps, TaskStep(o)
  PROVE  TypeOK'
<1>1. CASE Start(o)
  <2>1. pc[o] # "idle"
    BY <1>1 DEF Start
  <2>2. risk' \in RiskState
    BY <1>1, <2>1, DealType, LedgerType DEF Start, TypeOK
  <2>3. Route(o) \in Awaiting
    BY DEF Route, Awaiting
  <2>4. FirstCalls(Route(o)) \in SUBSET Calls
    BY DEF FirstCalls, Legs, Calls
  <2>5. pc' \in [Opps -> Places] /\ waiting' \in [Opps -> SUBSET Calls]
    BY <1>1, <2>3, <2>4 DEF Start, Await, TypeOK, Places
  <2>6. \A x \in Opps : pc'[x] # "idle" => pc[x] # "idle"
    BY <1>1, <2>1 DEF Start, Await, TypeOK
  <2>7. QED
    BY <1>1, <2>2, <2>5, <2>6 DEF Start, Await, TypeOK
<1>2. CASE Drop(o)
  <2>1. Dropped \in Results
    BY DEF Dropped, ResultOf, Results
  <2>2. QED
    BY <1>2, <2>1 DEF Drop, End, TypeOK, Places
<1>3. CASE \E c \in Calls : Return(o, c)
  BY <1>3, ReturnType
<1>4. ASSUME pc[o] \in Awaiting,
             NEW p \in Awaiting, NEW cs \in SUBSET Calls, Continue(o, p, cs)
      PROVE  TypeOK'
  <2>1. pc' \in [Opps -> Places] /\ waiting' \in [Opps -> SUBSET Calls]
    BY <1>4 DEF Continue, Await, TypeOK, Places
  <2>2. \A x \in Opps : pc'[x] # "idle" => pc[x] # "idle"
    BY <1>4 DEF Continue, Await, TypeOK, Awaiting
  <2>3. QED
    BY <1>4, <2>1, <2>2 DEF Continue, Await, TypeOK
<1>5. ASSUME pc[o] \in Awaiting, NEW res \in Results, End(o, res)
      PROVE  /\ pc' \in [Opps -> Places]
             /\ result' \in [Opps -> Results]
             /\ \A x \in Opps : pc'[x] # "idle" => pc[x] # "idle"
             /\ UNCHANGED <<deal, waiting, fill, did>>
  BY <1>5 DEF End, TypeOK, Places, Awaiting
<1>6. ASSUME pc[o] \in Awaiting, NEW res \in Returned, Finish(o, res)
      PROVE  TypeOK'
  <2>1. res \in Results /\ res.pnl \in Int
    BY DEF Returned, Results
  <2>2. risk' \in RiskState
    BY <1>6, <2>1, AccountType, LedgerType DEF Finish, TypeOK
  <2>3. metrics' \in Metrics
    BY <1>6, <2>1 DEF Finish, RecordExecution, Metrics, TypeOK
  <2>4. QED
    BY <1>5, <1>6, <2>1, <2>2, <2>3 DEF Finish, TypeOK
<1>7. ASSUME pc[o] \in Awaiting, Fail(o)
      PROVE  TypeOK'
  <2>1. RaisedOut \in Results
    BY DEF RaisedOut, ResultOf, Results
  <2>2. RecordTradeResult(risk, FALSE, 0) \in RiskState
    <3>1. risk \in RiskState
      BY DEF TypeOK
    <3>2. RecordTradeResult(risk, FALSE, 0) = CountFailure(risk)
      BY DEF RecordTradeResult
    <3>3. QED
      BY <3>1, <3>2, RiskManagerType
  <2>3. risk' \in RiskState
    BY <1>7, <2>2, LedgerType DEF Fail
  <2>4. QED
    BY <1>5, <1>7, <2>1, <2>3 DEF Fail, TypeOK
<1>8. QED
  BY <1>1, <1>2, <1>3, <1>4, <1>6, <1>7, TaskShapes

\* The initial state has its types.
LEMMA InitTypes == Init => TypeOK
BY DEF Init, RouterInit, TypeOK, InitialRisk, RiskState, TradingState, Metrics, Places,
       Reports, Untried, Report, Unfinished, ResultOf, Results

\* Every step of the trading side keeps the types.
LEMMA StepTypes ==
  ASSUME TypeOK, [Next]_vars
  PROVE  TypeOK'
<1>1. ASSUME NEW batch \in SUBSET Opps, NEW found \in [batch -> Candidates],
             Scan(batch, found)
      PROVE  TypeOK'
  <2>1. pc' \in [Opps -> Places]
    BY <1>1 DEF Scan, TypeOK, Places
  <2>2. deal' \in [Opps -> Candidates \cup {NoDeal}]
    BY <1>1 DEF Scan, TypeOK
  <2>3. \A o \in Opps : pc'[o] # "idle" => deal'[o] \in Candidates
    BY <1>1 DEF Scan, TypeOK
  <2>4. QED
    BY <1>1, <2>1, <2>2, <2>3 DEF Scan, TypeOK
<1>2. ASSUME NEW o \in Opps, TaskStep(o) PROVE TypeOK'
  BY <1>2, TaskType
<1>3. CASE AuditTick
  <2>1. risk' \in RiskState
    BY <1>3, RiskManagerType DEF AuditTick, TypeOK
  <2>2. QED
    BY <1>3, <2>1 DEF AuditTick, TypeOK
<1>4. ASSUME FeedStale PROVE TypeOK'
  <2>1. HandleFeedStale(risk, ReportedAge) \in RiskState
    <3>1. risk \in RiskState
      BY DEF TypeOK
    <3>2. Halt(risk) \in RiskState
      BY <3>1, RiskManagerType
    <3>3. QED
      BY <3>1, <3>2 DEF HandleFeedStale
  <2>2. QED
    BY <1>4, <2>1 DEF FeedStale, TypeOK
<1>5. CASE UNCHANGED vars
  BY <1>5 DEF vars, TypeOK
<1>6. QED
  BY <1>1, <1>2, <1>3, <1>4, <1>5 DEF Next, Detect

\* The type invariant holds in every reachable state.
THEOREM TypeCorrect == Spec => []TypeOK
<1>1. TypeOK /\ [Next]_vars => TypeOK'
  BY StepTypes
<1>2. QED
  BY <1>1, InitTypes, PTL DEF Spec
-----------------------------------------------------------------------------
\* The gate and the counters behind it

\* What one step of the engine may do to the risk record.
RiskEffects ==
  \/ UNCHANGED risk
  \/ \E o \in Opps, n \in Nat : risk' = RegisterOrder(risk, o, n)
  \/ \E o \in Opps, res \in Returned : risk' = ReleaseOrder(Account(risk, res), o)
  \/ \E o \in Opps : risk' = ReleaseOrder(CountFailure(risk), o)
  \/ risk' = Audit(risk)
  \/ risk' = Halt(risk)

\* Those are all the effects: no other code touches the record.
LEMMA EffectsOnRisk ==
  ASSUME TypeOK, [Next]_vars
  PROVE  RiskEffects
<1>1. ASSUME NEW o \in Opps, TaskStep(o) PROVE RiskEffects
  <2>1. CASE Start(o)
    <3>1. deal[o].notional \in Nat
      BY <2>1, DealType DEF Start
    <3>2. QED
      BY <2>1, <3>1 DEF Start, RiskEffects
  <2>2. CASE Drop(o) \/ \E c \in Calls : Return(o, c)
    BY <2>2 DEF Drop, Return, RiskEffects
  <2>3. ASSUME NEW p, NEW cs, Continue(o, p, cs) PROVE RiskEffects
    BY <2>3 DEF Continue, RiskEffects
  <2>4. ASSUME NEW res \in Returned, Finish(o, res) PROVE RiskEffects
    BY <2>4 DEF Finish, RiskEffects
  <2>5. CASE Fail(o)
    <3>1. RecordTradeResult(risk, FALSE, 0) = CountFailure(risk)
      BY DEF RecordTradeResult
    <3>2. QED
      BY <2>5, <3>1 DEF Fail, RiskEffects
  <2>6. QED
    BY <1>1, <2>1, <2>2, <2>3, <2>4, <2>5, TaskShapes
<1>2. CASE AuditTick
  BY <1>2 DEF AuditTick, RiskEffects
<1>3. ASSUME FeedStale PROVE RiskEffects
  BY <1>3 DEF FeedStale, HandleFeedStale, RiskEffects
<1>4. CASE Detect \/ UNCHANGED vars
  BY <1>4 DEF Detect, Scan, vars, RiskEffects
<1>5. QED
  BY <1>1, <1>2, <1>3, <1>4 DEF Next

\* What is kept about one risk record: trading is active only below the
\* failure limit, and no loss has been booked.
Sound(r) ==
  /\ r.state = "active" => r.failures < MaxFailures \/ r.failures = 0
  /\ r.drawdown = 0 /\ r.peak = r.realized

\* The gate of q is that of r, or has gone from active to paused.
PausesAtMost(r, q) ==
  q.state = r.state \/ (r.state = "active" /\ q.state = "paused")

\* A failure, from whatever state, keeps Sound and pauses at most.
LEMMA CountFailureSound ==
  ASSUME NEW r \in RiskState, Sound(r)
  PROVE  /\ CountFailure(r) \in RiskState
         /\ Sound(CountFailure(r))
         /\ PausesAtMost(r, CountFailure(r))
<1> DEFINE n == r.failures + 1
           c == [r EXCEPT !.failures = n]
<1>1. n \in Nat /\ n > 0
  BY DEF RiskState
<1>2. CountFailure(r) \in RiskState
  BY RiskManagerType
<1>3. CountFailure(r) = CheckCircuitBreakers(c)
  BY Zenon DEF CountFailure
<1> HIDE DEF n
<1>4. c \in RiskState
  BY <1>1 DEF RiskState
<1>5. /\ c.state = r.state /\ c.failures = n
      /\ c.drawdown = r.drawdown /\ c.peak = r.peak /\ c.realized = r.realized
  BY DEF RiskState
<1> HIDE DEF c
<1>6. /\ Pause(c).state = IF c.state = "active" THEN "paused" ELSE c.state
      /\ Pause(c).failures = c.failures /\ Pause(c).drawdown = c.drawdown
      /\ Pause(c).peak = c.peak /\ Pause(c).realized = c.realized
  BY <1>4 DEF Pause, RiskState
<1>7. Sound(Pause(c))
  BY <1>5, <1>6 DEF Sound
<1>8. n < MaxFailures => Sound(c)
  BY <1>5 DEF Sound
<1>9. CASE n >= MaxFailures
  <2>1. CountFailure(r) = Pause(c)
    BY <1>3, <1>5, <1>9 DEF CheckCircuitBreakers
  <2>2. QED
    BY <1>2, <1>5, <1>6, <1>7, <2>1 DEF PausesAtMost
<1>10. CASE n < MaxFailures
  <2>1. CountFailure(r) = c
    BY <1>1, <1>3, <1>5, <1>10, LimitsAssumption DEF CheckCircuitBreakers
  <2>2. QED
    BY <1>2, <1>5, <1>8, <1>10, <2>1 DEF PausesAtMost
<1>11. QED
  BY <1>1, <1>9, <1>10, LimitsAssumption

\* A profit resets the failures and moves the peak with the realised total.
LEMMA ProfitSound ==
  ASSUME NEW r \in RiskState, Sound(r), NEW pnl \in Int, pnl > 0
  PROVE  /\ Sound(RecordTradeResult(r, TRUE, pnl))
         /\ RecordTradeResult(r, TRUE, pnl).state = r.state
<1> DEFINE total == r.realized + pnl
           s == [r EXCEPT !.failures = 0, !.realized = total]
<1>1. r.peak \in Int /\ r.realized \in Int /\ r.peak = r.realized /\ total \in Int
  BY DEF RiskState, Sound
<1>2. total > r.peak
  BY <1>1
<1>3. RecordTradeResult(r, TRUE, pnl) = UpdateDrawdown(s)
  BY Zenon DEF RecordTradeResult
<1>4. s.realized = total /\ s.peak = r.peak /\ s.state = r.state /\ s.failures = 0
  BY DEF RiskState
<1>5. s \in [{"state", "failures", "realized", "peak", "drawdown", "open", "orders"} ->
              {s[f] : f \in {"state", "failures", "realized", "peak", "drawdown", "open", "orders"}}]
  BY DEF RiskState
<1> HIDE DEF s, total
<1>6. /\ UpdateDrawdown(s).state = s.state
      /\ UpdateDrawdown(s).failures = s.failures
      /\ UpdateDrawdown(s).realized = s.realized
      /\ UpdateDrawdown(s).peak = total
      /\ UpdateDrawdown(s).drawdown = total - total
  BY <1>2, <1>4, <1>5 DEF UpdateDrawdown
<1>7. total - total = 0
  BY <1>1
<1>8. Sound(UpdateDrawdown(s)) /\ UpdateDrawdown(s).state = r.state
  BY <1>4, <1>6, <1>7 DEF Sound
<1>9. QED
  BY <1>3, <1>8, Zenon

\* Whatever result is reported, Sound is kept and the gate pauses at most.
LEMMA AccountSound ==
  ASSUME NEW r \in RiskState, Sound(r), NEW res \in Returned
  PROVE  /\ Sound(Account(r, res))
         /\ PausesAtMost(r, Account(r, res))
<1> DEFINE s == IF res.unwind_failed THEN RecordSlippage(r, UnwindSlippage) ELSE r
<1>1. /\ s \in RiskState /\ Sound(s)
      /\ PausesAtMost(r, s)
  <2>1. RecordSlippage(r, UnwindSlippage) \in {CountFailure(r), r}
    BY DEF RecordSlippage
  <2>2. s \in {CountFailure(r), r}
    BY <2>1
  <2> HIDE DEF s
  <2>3. QED
    BY <2>2, CountFailureSound DEF PausesAtMost
<1>2. Account(r, res) = RecordTradeResult(s, res.success, res.pnl)
  BY Zenon DEF Account
<1> HIDE DEF s
<1>3. CASE res.success
  <2>1. res.success = TRUE /\ res.pnl \in Int /\ res.pnl > 0
    BY <1>3 DEF Returned, Results
  <2>2. QED
    BY <1>1, <1>2, <2>1, ProfitSound DEF PausesAtMost
<1>4. CASE ~res.success
  <2>1. RecordTradeResult(s, res.success, res.pnl) = CountFailure(s)
    BY <1>4 DEF RecordTradeResult
  <2>2. QED
    BY <1>1, <1>2, <2>1, CountFailureSound DEF PausesAtMost
<1>5. QED
  BY <1>3, <1>4

\* The ledger does not touch the gate or the counters.
LEMMA LedgerSound ==
  ASSUME NEW r \in RiskState, NEW o \in Opps, NEW n
  PROVE  /\ Sound(RegisterOrder(r, o, n)) <=> Sound(r)
         /\ Sound(ReleaseOrder(r, o)) <=> Sound(r)
         /\ RegisterOrder(r, o, n).state = r.state
         /\ ReleaseOrder(r, o).state = r.state
BY DEF RegisterOrder, ReleaseOrder, Sound, RiskState

\* With no drawdown an audit can only resume a paused engine.
LEMMA AuditSound ==
  ASSUME NEW r \in RiskState, Sound(r)
  PROVE  /\ Sound(Audit(r))
         /\ Audit(r).state = r.state \/ (r.state = "paused" /\ Audit(r).state = "active")
<1>1. CheckDrawdownLimit(r) = r
  BY LimitsAssumption DEF CheckDrawdownLimit, Sound
<1>2. Audit(r) = IF r.state = "paused" /\ ConditionsRecovered(r)
                   THEN [r EXCEPT !.state = "active", !.failures = 0]
                   ELSE r
  BY <1>1, Zenon DEF Audit
<1> DEFINE s == [r EXCEPT !.state = "active", !.failures = 0]
<1>3. /\ s.state = "active" /\ s.failures = 0
      /\ s.drawdown = r.drawdown /\ s.peak = r.peak /\ s.realized = r.realized
  BY DEF RiskState
<1> HIDE DEF s
<1>4. Sound(s)
  BY <1>3 DEF Sound
<1>5. CASE r.state = "paused" /\ ConditionsRecovered(r)
  <2>1. Audit(r) = s
    BY <1>2, <1>5, Zenon DEF s
  <2>2. QED
    BY <1>3, <1>4, <1>5, <2>1
<1>6. CASE ~(r.state = "paused" /\ ConditionsRecovered(r))
  BY <1>2, <1>6, Zenon
<1>7. QED
  BY <1>5, <1>6

\* A step keeps Sound, and moves the gate as CircuitBreaker allows.
LEMMA GateStep ==
  ASSUME TypeOK, Sound(risk), [Next]_vars
  PROVE  Sound(risk') /\ [Breaker!Next]_(risk.state)
<1> USE DEF Breaker!Next, Breaker!PauseGate, Breaker!ResumeGate, Breaker!HaltGate
<1>0. risk \in RiskState
  BY DEF TypeOK
<1>1. CASE UNCHANGED risk
  BY <1>1
<1>2. ASSUME NEW o \in Opps, NEW n \in Nat, risk' = RegisterOrder(risk, o, n)
      PROVE  Sound(risk') /\ risk'.state = risk.state
  BY <1>0, <1>2, LedgerSound
<1>3. ASSUME NEW o \in Opps, NEW res \in Returned, risk' = ReleaseOrder(Account(risk, res), o)
      PROVE  Sound(risk') /\ [Breaker!Next]_(risk.state)
  <2>1. Account(risk, res) \in RiskState
    BY <1>0, AccountType DEF Returned
  <2>2. QED
    BY <1>0, <1>3, <2>1, AccountSound, LedgerSound DEF PausesAtMost
<1>4. ASSUME NEW o \in Opps, risk' = ReleaseOrder(CountFailure(risk), o)
      PROVE  Sound(risk') /\ [Breaker!Next]_(risk.state)
  BY <1>0, <1>4, CountFailureSound, LedgerSound DEF PausesAtMost
<1>5. CASE risk' = Audit(risk)
  BY <1>0, <1>5, AuditSound
<1>6. CASE risk' = Halt(risk)
  BY <1>0, <1>6 DEF Halt, Sound, RiskState
<1>7. QED
  BY <1>1, <1>2, <1>3, <1>4, <1>5, <1>6, EffectsOnRisk DEF RiskEffects

\* The gate starts active, with nothing booked.
LEMMA InitSound == Init => Sound(risk) /\ Breaker!Init
BY DEF Init, RouterInit, InitialRisk, Sound, Breaker!Init

\* While trading is active the failures in a row stay under the limit.
THEOREM ActiveIsHealthy == Spec => []ActiveMeansHealthy
<1>1. TypeOK /\ Sound(risk) /\ [Next]_vars => Sound(risk)'
  BY GateStep DEF Sound
<1>2. Sound(risk) => ActiveMeansHealthy
  BY DEF Sound, ActiveMeansHealthy
<1>3. QED
  BY <1>1, <1>2, InitSound, TypeCorrect, PTL DEF Spec

\* The drawdown the risk manager computes is zero in every reachable state,
\* so its limit never halts the engine.
THEOREM DrawdownIsDead == Spec => []DrawdownStaysZero
<1>1. TypeOK /\ Sound(risk) /\ [Next]_vars => Sound(risk)'
  BY GateStep DEF Sound
<1>2. Sound(risk) => DrawdownStaysZero
  BY DEF Sound, DrawdownStaysZero
<1>3. QED
  BY <1>1, <1>2, InitSound, TypeCorrect, PTL DEF Spec

\* The trading gate implements the abstract circuit breaker: a halt is final.
THEOREM GateImplementsBreaker == Spec => GateIsBreaker
<1>1. TypeOK /\ Sound(risk) /\ [Next]_vars => Sound(risk)'
  BY GateStep DEF Sound
<1>2. TypeOK /\ Sound(risk) /\ [Next]_vars => [Breaker!Next]_(risk.state)
  BY GateStep
<1>3. QED
  BY <1>1, <1>2, InitSound, TypeCorrect, PTL DEF Spec, GateIsBreaker, Breaker!Spec
-----------------------------------------------------------------------------
\* The books

\* Executions that made a profit
Gainers == {o \in Opps : result[o].success}

\* An execution that has not come to an end is no success yet, so that the
\* end of one is counted once.
BooksInv ==
  /\ metrics.pnl = risk.realized
  /\ metrics.fills = Cardinality(Gainers)
  /\ \A o \in Gainers : pc[o] = "done"

\* Failures, the ledger, the audit and a halt leave the realised profit alone.
LEMMA RealizedStays ==
  ASSUME NEW r \in RiskState
  PROVE  /\ CountFailure(r).realized = r.realized
         /\ Audit(r).realized = r.realized
         /\ Halt(r).realized = r.realized
         /\ \A o \in Opps, n \in Nat : RegisterOrder(r, o, n).realized = r.realized
         /\ \A o \in Opps : ReleaseOrder(r, o).realized = r.realized
<1>1. \A q \in RiskState : Pause(q).realized = q.realized /\ Halt(q).realized = q.realized
  BY DEF Pause, Halt, RiskState
<1>2. CountFailure(r).realized = r.realized
  <2> DEFINE c == [r EXCEPT !.failures = r.failures + 1]
  <2>1. c \in RiskState /\ c.realized = r.realized
    BY DEF RiskState
  <2>2. CountFailure(r) = CheckCircuitBreakers(c)
    BY Zenon DEF CountFailure
  <2> HIDE DEF c
  <2>3. QED
    BY <1>1, <2>1, <2>2 DEF CheckCircuitBreakers
<1>3. Audit(r).realized = r.realized
  <2> DEFINE q == CheckDrawdownLimit(r)
  <2>1. q \in RiskState /\ q.realized = r.realized
    BY <1>1, RiskManagerType DEF CheckDrawdownLimit
  <2>2. Audit(r) = IF q.state = "paused" /\ ConditionsRecovered(q)
                     THEN [q EXCEPT !.state = "active", !.failures = 0] ELSE q
    BY Zenon DEF Audit
  <2> HIDE DEF q
  <2>3. [q EXCEPT !.state = "active", !.failures = 0].realized = q.realized
    BY <2>1 DEF RiskState
  <2>4. QED
    BY <2>1, <2>2, <2>3
<1>4. QED
  BY <1>1, <1>2, <1>3 DEF RegisterOrder, ReleaseOrder, RiskState

\* What is reported of a result is booked if it is a success.
LEMMA AccountBooks ==
  ASSUME NEW r \in RiskState, NEW res \in Returned
  PROVE  Account(r, res).realized = IF res.success THEN r.realized + res.pnl ELSE r.realized
<1> DEFINE s == IF res.unwind_failed THEN RecordSlippage(r, UnwindSlippage) ELSE r
<1>1. s \in RiskState /\ s.realized = r.realized
  BY RiskManagerType, RealizedStays DEF RecordSlippage
<1>2. Account(r, res) = RecordTradeResult(s, res.success, res.pnl)
  BY Zenon DEF Account
<1> HIDE DEF s
<1>3. CASE res.success
  <2> DEFINE total == s.realized + res.pnl
             b == [s EXCEPT !.failures = 0, !.realized = total]
  <2>1. total \in Int /\ total = r.realized + res.pnl
    BY <1>1 DEF RiskState, Returned, Results
  <2>2. RecordTradeResult(s, res.success, res.pnl) = UpdateDrawdown(b)
    BY <1>3, Zenon DEF RecordTradeResult
  <2> HIDE DEF total
  <2>3. b \in RiskState /\ b.realized = total
    BY <1>1, <2>1 DEF RiskState
  <2> HIDE DEF b
  <2>4. UpdateDrawdown(b).realized = b.realized
    BY <2>3 DEF UpdateDrawdown, RiskState
  <2>5. QED
    BY <1>2, <1>3, <2>1, <2>2, <2>3, <2>4
<1>4. CASE ~res.success
  <2>1. RecordTradeResult(s, res.success, res.pnl) = CountFailure(s)
    BY <1>4 DEF RecordTradeResult
  <2>2. QED
    BY <1>1, <1>2, <1>4, <2>1, RealizedStays
<1>5. QED
  BY <1>3, <1>4

\* A task ends with its result in both books.
LEMMA FinishKeepsBooks ==
  ASSUME TypeOK, BooksInv, NEW o \in Opps, pc[o] \in Awaiting, NEW res \in Returned, Finish(o, res)
  PROVE  BooksInv'
<1>1. /\ risk \in RiskState /\ result \in [Opps -> Results] /\ pc \in [Opps -> Places]
      /\ metrics.pnl \in Int /\ metrics.fills \in Nat /\ res.success \in BOOLEAN
  BY DEF TypeOK, Metrics, Returned, Results
<1>2. /\ result' = [result EXCEPT ![o] = res] /\ pc' = [pc EXCEPT ![o] = "done"]
      /\ metrics' = RecordExecution(metrics, res)
      /\ risk' = ReleaseOrder(Account(risk, res), o)
  BY DEF Finish, End
<1>3. risk'.realized = IF res.success THEN risk.realized + res.pnl ELSE risk.realized
  BY <1>1, <1>2, AccountType, AccountBooks, RealizedStays DEF Returned
<1>4. metrics'.pnl = risk'.realized
  BY <1>2, <1>3 DEF RecordExecution, BooksInv
<1>5. o \notin Gainers /\ IsFiniteSet(Gainers)
  BY TradingAssumption, FS_Subset DEF BooksInv, Awaiting, Gainers
<1>6. Gainers' = IF res.success THEN Gainers \cup {o} ELSE Gainers
  BY <1>1, <1>2, <1>5 DEF Gainers
<1>7. Cardinality(Gainers') = IF res.success THEN Cardinality(Gainers) + 1 ELSE Cardinality(Gainers)
  BY <1>5, <1>6, FS_AddElement
<1>8. metrics'.fills = Cardinality(Gainers')
  BY <1>2, <1>7 DEF RecordExecution, BooksInv
<1>9. \A x \in Gainers' : pc'[x] = "done"
  BY <1>1, <1>2, <1>6 DEF BooksInv, Gainers
<1>10. QED
  BY <1>4, <1>8, <1>9 DEF BooksInv

\* A task that raises or is dropped is in neither.
LEMMA FailureKeepsBooks ==
  ASSUME TypeOK, BooksInv, NEW o \in Opps, pc[o] # "done", NEW res, ~res.success, End(o, res),
         risk'.realized = risk.realized, UNCHANGED metrics
  PROVE  BooksInv'
<1>1. /\ result \in [Opps -> Results] /\ pc \in [Opps -> Places]
      /\ result' = [result EXCEPT ![o] = res] /\ pc' = [pc EXCEPT ![o] = "done"]
  BY DEF TypeOK, End
<1>2. Gainers' = Gainers
  BY <1>1 DEF BooksInv, Gainers
<1>3. QED
  BY <1>1, <1>2 DEF BooksInv, Gainers

\* Every other step leaves the results and the metrics as they are.
LEMMA OthersKeepBooks ==
  ASSUME TypeOK, BooksInv, risk'.realized = risk.realized, UNCHANGED <<metrics, result>>,
         \A o \in Opps : pc[o] = "done" => pc'[o] = "done"
  PROVE  BooksInv'
BY DEF BooksInv, Gainers

LEMMA StepKeepsBooks == TypeOK /\ BooksInv /\ [Next]_vars => BooksInv'
<1> SUFFICES ASSUME TypeOK, BooksInv, [Next]_vars PROVE BooksInv'
  OBVIOUS
<1>0. risk \in RiskState /\ pc \in [Opps -> Places]
  BY DEF TypeOK
<1>1. ASSUME NEW o \in Opps, TaskStep(o) PROVE BooksInv'
  <2>1. CASE Start(o)
    <3>1. risk' = RegisterOrder(risk, o, deal[o].notional) /\ deal[o].notional \in Nat
      BY <2>1, DealType DEF Start
    <3>2. /\ risk'.realized = risk.realized /\ UNCHANGED <<metrics, result>>
          /\ pc' = [pc EXCEPT ![o] = Route(o)] /\ pc[o] # "done"
      BY <1>0, <2>1, <3>1, RealizedStays DEF Start, Await
    <3>3. QED
      BY <1>0, <3>2, OthersKeepBooks
  <2>2. CASE Drop(o)
    <3>1. /\ pc[o] # "done" /\ ~Dropped.success /\ End(o, Dropped)
          /\ risk'.realized = risk.realized /\ UNCHANGED metrics
      BY <2>2 DEF Drop, Dropped, ResultOf
    <3>2. QED
      BY <3>1, FailureKeepsBooks
  <2>3. ASSUME NEW c \in Calls, Return(o, c) PROVE BooksInv'
    <3>1. UNCHANGED <<risk, metrics, result, pc>>
      BY <2>3 DEF Return
    <3>2. QED
      BY <3>1, OthersKeepBooks
  <2>4. ASSUME NEW p \in Awaiting, NEW cs, pc[o] \in Awaiting, Continue(o, p, cs) PROVE BooksInv'
    <3>1. UNCHANGED <<risk, metrics, result>> /\ pc' = [pc EXCEPT ![o] = p] /\ pc[o] # "done"
      BY <2>4 DEF Continue, Await, Awaiting
    <3>2. QED
      BY <1>0, <3>1, OthersKeepBooks
  <2>5. ASSUME NEW res \in Returned, pc[o] \in Awaiting, Finish(o, res) PROVE BooksInv'
    BY <2>5, FinishKeepsBooks
  <2>6. ASSUME pc[o] \in Awaiting, Fail(o) PROVE BooksInv'
    <3>1. RecordTradeResult(risk, FALSE, 0) = CountFailure(risk)
      BY DEF RecordTradeResult
    <3>2. risk' = ReleaseOrder(CountFailure(risk), o)
      BY <2>6, <3>1 DEF Fail
    <3>3. risk'.realized = risk.realized
      BY <1>0, <3>2, RealizedStays, RiskManagerType
    <3>4. pc[o] # "done" /\ ~RaisedOut.success /\ End(o, RaisedOut) /\ UNCHANGED metrics
      BY <2>6 DEF Fail, RaisedOut, ResultOf, Awaiting
    <3>5. QED
      BY <3>3, <3>4, FailureKeepsBooks
  <2>7. QED
    BY <1>1, <2>1, <2>2, <2>3, <2>4, <2>5, <2>6, TaskShapes
<1>2. CASE AuditTick \/ FeedStale
  <2>1. risk'.realized = risk.realized /\ UNCHANGED <<metrics, result, pc>>
    BY <1>0, <1>2, RealizedStays DEF AuditTick, FeedStale, HandleFeedStale
  <2>2. QED
    BY <2>1, OthersKeepBooks
<1>3. CASE Detect
  <2>1. UNCHANGED <<risk, metrics, result>> /\ \A o \in Opps : pc[o] = "done" => pc'[o] = "done"
    BY <1>3 DEF Detect, Scan
  <2>2. QED
    BY <2>1, OthersKeepBooks
<1>4. CASE UNCHANGED vars
  BY <1>4, OthersKeepBooks DEF vars
<1>5. QED
  BY <1>1, <1>2, <1>3, <1>4 DEF Next

LEMMA InitBooks == Init => BooksInv
<1> SUFFICES ASSUME Init PROVE BooksInv
  OBVIOUS
<1>1. Gainers = {}
  BY DEF Init, RouterInit, Gainers, Unfinished, ResultOf
<1>2. Cardinality(Gainers) = 0
  BY <1>1, FS_EmptySet
<1>3. QED
  BY <1>1, <1>2 DEF Init, RouterInit, InitialRisk, BooksInv

\* The metrics show the profit and the fills the risk manager booked, in
\* whatever order executions of whatever route report.
THEOREM BooksStayEqual == Spec => []BooksAgree
<1>1. BooksInv => BooksAgree
  BY DEF BooksInv, BooksAgree, Gainers
<1>2. QED
  BY <1>1, InitBooks, StepKeepsBooks, TypeCorrect, PTL DEF Spec
-----------------------------------------------------------------------------
\* The open notional

NotionalRoom == MaxNotional + (MaxBatch - 1) * MaxDeal

\* The strengthening: a task that has not run yet was approved against a
\* ledger without the rest of its scan, so it leaves room for the others.
RoomForSpawned ==
  /\ risk.open <= NotionalRoom
  /\ \A o \in Spawned :
       risk.open + deal[o].notional + (Cardinality(Spawned) - 1) * MaxDeal <= NotionalRoom

\* q has the entries and the total of r.
SameLedger(r, q) == q.open = r.open /\ q.orders = r.orders

\* Feedback, audits and halts leave the ledger alone.
LEMMA FeedbackKeepsLedger ==
  ASSUME NEW r \in RiskState
  PROVE  /\ \A res \in Returned : SameLedger(r, Account(r, res))
         /\ SameLedger(r, CountFailure(r))
         /\ SameLedger(r, Audit(r))
         /\ SameLedger(r, Halt(r))
<1> USE DEF SameLedger
<1>1. ASSUME NEW q \in RiskState PROVE SameLedger(q, CountFailure(q))
  BY DEF CountFailure, CheckCircuitBreakers, Pause, RiskState
<1>2. ASSUME NEW q \in RiskState, NEW success \in BOOLEAN, NEW pnl \in Int
      PROVE  SameLedger(q, RecordTradeResult(q, success, pnl))
  BY <1>1 DEF RecordTradeResult, UpdateDrawdown, RiskState
<1>3. ASSUME NEW res \in Returned PROVE SameLedger(r, Account(r, res))
  <2> DEFINE s == IF res.unwind_failed THEN RecordSlippage(r, UnwindSlippage) ELSE r
  <2>1. CountFailure(r) \in RiskState /\ SameLedger(r, CountFailure(r))
    BY <1>1, RiskManagerType
  <2>2. RecordSlippage(r, UnwindSlippage) \in {CountFailure(r), r}
    BY DEF RecordSlippage
  <2>3. s \in RiskState /\ SameLedger(r, s)
    BY <2>1, <2>2
  <2>4. Account(r, res) = RecordTradeResult(s, res.success, res.pnl)
    BY Zenon DEF Account
  <2>5. res.success \in BOOLEAN /\ res.pnl \in Int
    BY DEF Returned, Results
  <2> HIDE DEF s
  <2>6. QED
    BY <1>2, <2>3, <2>4, <2>5
<1>4. SameLedger(r, Audit(r)) /\ SameLedger(r, Halt(r))
  BY DEF Audit, CheckDrawdownLimit, Halt, RiskState
<1>5. QED
  BY <1>1, <1>3, <1>4

\* So the total grows by a registration only.
LEMMA OpenOnlyFalls ==
  ASSUME NEW r \in RiskState
  PROVE  /\ \A res \in Returned, o \in Opps : ReleaseOrder(Account(r, res), o).open <= r.open
         /\ \A o \in Opps : ReleaseOrder(CountFailure(r), o).open <= r.open
         /\ Audit(r).open = r.open
         /\ Halt(r).open = r.open
<1>1. ASSUME NEW q \in RiskState, SameLedger(r, q), NEW o \in Opps
      PROVE  ReleaseOrder(q, o).open <= r.open
  BY <1>1 DEF ReleaseOrder, RiskState, SameLedger
<1>2. CountFailure(r) \in RiskState /\ \A res \in Returned : Account(r, res) \in RiskState
  BY RiskManagerType, AccountType DEF Returned
<1>3. QED
  BY <1>1, <1>2, FeedbackKeepsLedger DEF SameLedger

\* A step that keeps the waiting tasks and adds nothing keeps the room.
LEMMA RoomKept ==
  ASSUME TypeOK, TypeOK', RoomForSpawned,
         Spawned' = Spawned, deal' = deal, risk'.open <= risk.open
  PROVE  RoomForSpawned'
<1>1. risk.open \in Nat /\ risk'.open \in Nat
  BY DEF TypeOK, RiskState
<1>2. \A o \in Spawned : deal[o].notional \in Nat
  BY DealType DEF Spawned
<1>3. IsFiniteSet(Spawned) /\ Cardinality(Spawned) \in Nat
  BY TradingAssumption, FS_Subset, FS_CardinalityType DEF Spawned
<1> DEFINE rest == (Cardinality(Spawned) - 1) * MaxDeal
<1>4. rest \in Int
  BY <1>3, TradingAssumption
<1>5. NotionalRoom \in Int
  BY LimitsAssumption, TradingAssumption DEF NotionalRoom
<1>6. NotionalRoom' = NotionalRoom
  BY DEF NotionalRoom
<1> HIDE DEF rest
<1>7. risk'.open <= NotionalRoom
  BY <1>1, <1>5 DEF RoomForSpawned
<1>8. ASSUME NEW o \in Spawned PROVE risk'.open + deal[o].notional + rest <= NotionalRoom
  <2>1. risk.open + deal[o].notional + rest <= NotionalRoom
    BY DEF RoomForSpawned, rest
  <2>2. QED
    BY <1>1, <1>2, <1>4, <1>5, <2>1
<1>9. QED
  BY <1>6, <1>7, <1>8 DEF RoomForSpawned, rest

\* A scan leaves every task it creates room for the others.
LEMMA RoomAfterScan ==
  ASSUME TypeOK, RoomForSpawned,
         NEW batch \in SUBSET Opps, NEW found \in [batch -> Candidates], Scan(batch, found)
  PROVE  RoomForSpawned'
<1>1. Spawned' = batch
  BY DEF Scan, Spawned, TypeOK
<1>2. \A o \in batch : deal'[o] = found[o]
  BY DEF Scan
<1>3. risk' = risk /\ risk.open \in Nat
  BY DEF Scan, TypeOK, RiskState
<1>4. \A o \in batch : risk.open + found[o].notional <= MaxNotional
  BY DEF Scan, Approves
<1>5. Cardinality(batch) \in Nat /\ Cardinality(batch) <= MaxBatch
  BY TradingAssumption, FS_Subset, FS_CardinalityType DEF Scan
<1> DEFINE n == Cardinality(batch) - 1
           m == MaxBatch - 1
<1>6. n \in Int /\ m \in Int /\ n <= m /\ MaxDeal \in Nat
  BY <1>5, TradingAssumption
<1>7. n * MaxDeal \in Int /\ m * MaxDeal \in Int
  BY <1>6
<1>8. n * MaxDeal <= m * MaxDeal
  <2>1. (m - n) * MaxDeal >= 0
    <3>1. m - n \in Nat
      BY <1>6
    <3>2. \A x, y \in Nat : x * y >= 0
      OBVIOUS
    <3>3. QED
      BY <1>6, <3>1, <3>2
  <2>2. (m - n) * MaxDeal = m * MaxDeal - n * MaxDeal
    <3> HIDE DEF m, n
    <3> QED BY <1>6
  <2>3. QED
    <3> HIDE DEF m, n
    <3> QED BY <1>7, <2>1, <2>2
<1>9. \A o \in batch : found[o].notional \in Nat
  BY RouterAssumption DEF Deals
<1>10. NotionalRoom = MaxNotional + m * MaxDeal /\ NotionalRoom' = NotionalRoom
  BY DEF NotionalRoom
<1> DEFINE nd == n * MaxDeal
           md == m * MaxDeal
<1>11. ASSUME NEW o \in batch
       PROVE  risk.open + found[o].notional + nd <= NotionalRoom
  <2>1. nd \in Int /\ md \in Int /\ nd <= md
    BY <1>7, <1>8
  <2> HIDE DEF nd, md
  <2>2. NotionalRoom = MaxNotional + md
    BY <1>10 DEF md
  <2>3. QED
    BY <1>3, <1>4, <1>9, <2>1, <2>2, LimitsAssumption
<1>12. risk'.open <= NotionalRoom'
  BY <1>3, <1>10 DEF RoomForSpawned
<1>13. \A o \in Spawned' :
         risk'.open + deal'[o].notional + (Cardinality(Spawned') - 1) * MaxDeal <= NotionalRoom'
  BY <1>1, <1>2, <1>3, <1>10, <1>11
<1>14. QED
  BY <1>12, <1>13 DEF RoomForSpawned

\* A task that runs for the first time leaves the others their room, for its
\* notional is at most a MaxDeal.
LEMMA RoomAfterFirstRun ==
  ASSUME TypeOK, RoomForSpawned, NEW o \in Spawned,
         Spawned' = Spawned \ {o}, deal' = deal,
         risk'.open \in {risk.open, risk.open + deal[o].notional}
  PROVE  RoomForSpawned'
<1>1. risk.open \in Nat
  BY DEF TypeOK, RiskState
<1>2. \A x \in Spawned : deal[x].notional \in Nat /\ deal[x].notional <= MaxDeal
  BY DealType DEF Spawned
<1> DEFINE k == Cardinality(Spawned)
<1>3. /\ IsFiniteSet(Spawned)
      /\ k \in Nat /\ k >= 1
      /\ Cardinality(Spawned \ {o}) = k - 1
  <2>1. IsFiniteSet(Spawned)
    BY TradingAssumption, FS_Subset DEF Spawned
  <2>2. Cardinality(Spawned \ {o}) = k - 1 /\ k \in Nat
    BY <2>1, FS_RemoveElement, FS_CardinalityType
  <2>3. Cardinality(Spawned \ {o}) \in Nat
    BY <2>1, FS_Subset, FS_CardinalityType
  <2>4. QED
    BY <2>1, <2>2, <2>3
<1> HIDE DEF k
<1> DEFINE rest == (k - 1) * MaxDeal
           less == (k - 1 - 1) * MaxDeal
<1>4. MaxDeal \in Nat /\ k - 1 \in Nat
  BY <1>3, TradingAssumption
<1>5. rest \in Nat /\ less \in Int /\ less = rest - MaxDeal
  BY <1>4
<1>6. NotionalRoom \in Int /\ NotionalRoom' = NotionalRoom
  BY LimitsAssumption, TradingAssumption DEF NotionalRoom
<1>7. \A x \in Spawned : risk.open + deal[x].notional + rest <= NotionalRoom
  BY DEF RoomForSpawned, k
<1> HIDE DEF rest, less
<1>8. risk'.open \in Nat /\ risk'.open <= risk.open + deal[o].notional
  BY <1>1, <1>2
<1>9. risk'.open <= NotionalRoom
  BY <1>1, <1>2, <1>5, <1>6, <1>7, <1>8
<1>10. ASSUME NEW x \in Spawned
       PROVE  risk'.open + deal[x].notional + less <= NotionalRoom
  <2>1. risk.open + deal[o].notional + rest <= NotionalRoom
    BY <1>7
  <2>2. QED
    BY <1>1, <1>2, <1>4, <1>5, <1>6, <1>8, <2>1
<1>11. \A x \in Spawned' :
         risk'.open + deal'[x].notional + (Cardinality(Spawned') - 1) * MaxDeal <= NotionalRoom'
  BY <1>3, <1>6, <1>10 DEF less
<1>12. QED
  BY <1>6, <1>9, <1>11 DEF RoomForSpawned

\* Every step of a task keeps the room.
LEMMA RoomTaskStep ==
  ASSUME TypeOK, TypeOK', RoomForSpawned, NEW o \in Opps, TaskStep(o)
  PROVE  RoomForSpawned'
<1>0. risk \in RiskState
  BY DEF TypeOK
<1>1. CASE Start(o)
  <2>1. o \in Spawned /\ Route(o) \in Awaiting
    BY <1>1 DEF Start, Spawned, Route, Awaiting
  <2>2. Spawned' = Spawned \ {o} /\ deal' = deal
    BY <1>1, <2>1 DEF Start, Await, Spawned, Awaiting, TypeOK
  <2>3. risk'.open = risk.open + deal[o].notional
    BY <1>0, <1>1 DEF Start, RegisterOrder, RiskState
  <2>4. QED
    BY <2>1, <2>2, <2>3, RoomAfterFirstRun
<1>2. CASE Drop(o)
  <2>1. o \in Spawned
    BY <1>2 DEF Drop, Spawned
  <2>2. Spawned' = Spawned \ {o} /\ deal' = deal /\ risk' = risk
    BY <1>2 DEF Drop, End, Spawned, TypeOK
  <2>3. QED
    BY <2>1, <2>2, RoomAfterFirstRun
<1>3. ASSUME NEW c \in Calls, Return(o, c) PROVE RoomForSpawned'
  <2>1. Spawned' = Spawned /\ deal' = deal /\ risk'.open <= risk.open
    BY <1>0, <1>3 DEF Return, Spawned, RiskState
  <2>2. QED
    BY <2>1, RoomKept
<1>4. ASSUME pc[o] \in Awaiting,
             NEW p \in Awaiting, NEW cs \in SUBSET Calls, Continue(o, p, cs)
      PROVE  RoomForSpawned'
  <2>1. Spawned' = Spawned /\ deal' = deal
    BY <1>4 DEF Continue, Await, Spawned, Awaiting, TypeOK
  <2>2. risk'.open <= risk.open
    BY <1>0, <1>4 DEF Continue, RiskState
  <2>3. QED
    BY <2>1, <2>2, RoomKept
<1>5. ASSUME pc[o] \in Awaiting, NEW res, End(o, res)
      PROVE  Spawned' = Spawned /\ deal' = deal
  BY <1>5 DEF End, Spawned, Awaiting, TypeOK
<1>6. ASSUME pc[o] \in Awaiting, NEW res \in Returned, Finish(o, res)
      PROVE  RoomForSpawned'
  <2>1. risk'.open <= risk.open
    BY <1>0, <1>6, OpenOnlyFalls DEF Finish
  <2>2. QED
    BY <1>5, <1>6, <2>1, RoomKept DEF Finish
<1>7. ASSUME pc[o] \in Awaiting, Fail(o)
      PROVE  RoomForSpawned'
  <2>1. RecordTradeResult(risk, FALSE, 0) = CountFailure(risk)
    BY DEF RecordTradeResult
  <2>2. risk'.open <= risk.open
    BY <1>0, <1>7, <2>1, OpenOnlyFalls DEF Fail
  <2>3. QED
    BY <1>5, <1>7, <2>2, RoomKept DEF Fail
<1>8. QED
  BY <1>1, <1>2, <1>3, <1>4, <1>6, <1>7, TaskShapes

\* The open notional passes its limit by less than one scan of deals, for
\* every number of tasks and whatever order they run in.
THEOREM OvershootIsBounded == Spec => []NotionalOvershootBounded
<1>1. Init => RoomForSpawned
  <2>1. SUFFICES ASSUME Init PROVE RoomForSpawned
    OBVIOUS
  <2>2. Spawned = {} /\ risk.open = 0
    BY <2>1 DEF Init, RouterInit, InitialRisk, Spawned
  <2>3. NotionalRoom >= 0
    <3>1. MaxBatch - 1 \in Nat /\ MaxDeal \in Nat /\ MaxNotional \in Nat
      BY TradingAssumption, LimitsAssumption
    <3>2. (MaxBatch - 1) * MaxDeal \in Nat
      BY <3>1
    <3>3. QED
      BY <3>1, <3>2 DEF NotionalRoom
  <2>4. QED
    BY <2>2, <2>3 DEF RoomForSpawned
<1>2. TypeOK /\ TypeOK' /\ RoomForSpawned /\ [Next]_vars => RoomForSpawned'
  <2> SUFFICES ASSUME TypeOK, TypeOK', RoomForSpawned, [Next]_vars PROVE RoomForSpawned'
    OBVIOUS
  <2>0. risk \in RiskState
    BY DEF TypeOK
  <2>1. CASE Detect
    BY <2>1, RoomAfterScan DEF Detect
  <2>2. ASSUME NEW o \in Opps, TaskStep(o) PROVE RoomForSpawned'
    BY <2>2, RoomTaskStep
  <2>3. CASE AuditTick
    <3>1. Spawned' = Spawned /\ deal' = deal
      BY <2>3 DEF AuditTick, Spawned
    <3>2. risk'.open <= risk.open
      BY <2>0, <2>3, OpenOnlyFalls DEF AuditTick, RiskState
    <3>3. QED
      BY <3>1, <3>2, RoomKept
  <2>4. ASSUME FeedStale PROVE RoomForSpawned'
    <3>1. Spawned' = Spawned /\ deal' = deal
      BY <2>4 DEF FeedStale, Spawned
    <3>2. risk'.open <= risk.open
      BY <2>0, <2>4, OpenOnlyFalls DEF FeedStale, HandleFeedStale, RiskState
    <3>3. QED
      BY <3>1, <3>2, RoomKept
  <2>5. CASE UNCHANGED vars
    <3>1. Spawned' = Spawned /\ deal' = deal /\ risk'.open <= risk.open
      BY <2>0, <2>5 DEF vars, Spawned, RiskState
    <3>2. QED
      BY <3>1, RoomKept
  <2>6. QED
    BY <2>1, <2>2, <2>3, <2>4, <2>5 DEF Next
<1>3. RoomForSpawned => NotionalOvershootBounded
  BY DEF RoomForSpawned, NotionalRoom, NotionalOvershootBounded
<1>4. QED
  BY <1>1, <1>2, <1>3, TypeCorrect, PTL DEF Spec
-----------------------------------------------------------------------------
\* The ledger

\* What the ledger should hold for an execution
Owed(o) == IF pc[o] \in Awaiting THEN deal[o].notional ELSE 0

\* The total alone says nothing of what the next release takes from it: the
\* entries have to be right too, and the total their sum.
LedgerInv ==
  /\ \A o \in Opps : risk.orders[o] = Owed(o)
  /\ risk.open = SumFunctionOnSet(risk.orders, Opps)

\* An entry that was not there is added to the total, and no release is
\* larger than the total, so that the max(0.0, ...) of release_order is idle.
LEMMA LedgerAddsUp ==
  ASSUME NEW r \in RiskState, r.open = SumFunctionOnSet(r.orders, Opps), NEW o \in Opps
  PROVE  /\ ReleaseOrder(r, o).orders = [r.orders EXCEPT ![o] = 0]
         /\ ReleaseOrder(r, o).open = SumFunctionOnSet(ReleaseOrder(r, o).orders, Opps)
         /\ \A n \in Nat : r.orders[o] = 0 =>
              /\ RegisterOrder(r, o, n).orders = [r.orders EXCEPT ![o] = n]
              /\ RegisterOrder(r, o, n).open = SumFunctionOnSet(RegisterOrder(r, o, n).orders, Opps)
<1>1. r.orders \in [Opps -> Nat] /\ r.orders \in [Opps -> Int] /\ r.open \in Nat /\ IsFiniteSet(Opps)
  BY TradingAssumption DEF RiskState
<1> DEFINE rest == SumFunctionOnSet(r.orders, Opps \ {o})
<1>2. r.open = r.orders[o] + rest /\ rest \in Nat
  <2>1. IsFiniteSet(Opps \ {o})
    BY <1>1, FS_RemoveElement
  <2>2. QED
    BY <1>1, <2>1, SumTakeOut, SumType
<1> HIDE DEF rest
<1>3. \A n \in Nat : SumFunctionOnSet([r.orders EXCEPT ![o] = n], Opps) = r.open - r.orders[o] + n
  BY <1>1, SumUpdate
<1>4. /\ ReleaseOrder(r, o).orders = [r.orders EXCEPT ![o] = 0]
      /\ ReleaseOrder(r, o).open = IF r.open > r.orders[o] THEN r.open - r.orders[o] ELSE 0
  BY DEF ReleaseOrder, RiskState
<1>5. \A n \in Nat : /\ RegisterOrder(r, o, n).orders = [r.orders EXCEPT ![o] = n]
                     /\ RegisterOrder(r, o, n).open = r.open + n
  BY DEF RegisterOrder, RiskState
<1>6. r.orders[o] \in Nat
  BY <1>1
<1>7. ReleaseOrder(r, o).open = r.open - r.orders[o] + 0
  BY <1>1, <1>2, <1>4, <1>6
<1>8. \A n \in Nat : r.orders[o] = 0 => r.open + n = r.open - r.orders[o] + n
  BY <1>1
<1>9. QED
  BY <1>3, <1>4, <1>5, <1>7, <1>8

\* An execution ends: its entry goes, and what is owed for it.
LEMMA EndKeepsLedger ==
  ASSUME TypeOK, LedgerInv, NEW o \in Opps,
         NEW r \in RiskState, SameLedger(risk, r), risk' = ReleaseOrder(r, o),
         pc' = [pc EXCEPT ![o] = "done"], deal' = deal
  PROVE  LedgerInv'
<1>1. r.open = SumFunctionOnSet(r.orders, Opps) /\ r.orders = risk.orders
  BY DEF SameLedger, LedgerInv
<1>2. risk'.orders = [r.orders EXCEPT ![o] = 0] /\ risk'.open = SumFunctionOnSet(risk'.orders, Opps)
  BY <1>1, LedgerAddsUp
<1>3. \A x \in Opps : Owed(x)' = IF x = o THEN 0 ELSE Owed(x)
  BY DEF Owed, TypeOK, Awaiting
<1>4. \A x \in Opps : risk'.orders[x] = IF x = o THEN 0 ELSE risk.orders[x]
  BY <1>1, <1>2 DEF RiskState
<1>5. QED
  BY <1>2, <1>3, <1>4 DEF LedgerInv

\* A step after which the same is owed and the ledger is the same keeps it.
LEMMA SameLedgerKept ==
  ASSUME LedgerInv, SameLedger(risk, risk'), \A x \in Opps : Owed(x)' = Owed(x)
  PROVE  LedgerInv'
BY DEF LedgerInv, SameLedger

LEMMA TaskKeepsLedger ==
  ASSUME TypeOK, LedgerInv, NEW o \in Opps, TaskStep(o)
  PROVE  LedgerInv'
<1>0. risk \in RiskState /\ pc \in [Opps -> Places] /\ SameLedger(risk, risk)
  BY DEF TypeOK, SameLedger
<1>1. CASE Start(o)
  <2> DEFINE n == deal[o].notional
  <2>1. /\ pc[o] = "spawned" /\ n \in Nat /\ deal' = deal
        /\ pc' = [pc EXCEPT ![o] = Route(o)] /\ Route(o) \in Awaiting
        /\ risk' = RegisterOrder(risk, o, n)
    BY <1>1, DealType DEF Start, Await, Route, Awaiting
  <2>2. risk.orders[o] = 0 /\ risk.open = SumFunctionOnSet(risk.orders, Opps)
    BY <2>1 DEF LedgerInv, Owed, Awaiting
  <2> HIDE DEF n
  <2>3. risk'.orders = [risk.orders EXCEPT ![o] = n] /\ risk'.open = SumFunctionOnSet(risk'.orders, Opps)
    <3>1. /\ RegisterOrder(risk, o, n).orders = [risk.orders EXCEPT ![o] = n]
          /\ RegisterOrder(risk, o, n).open = SumFunctionOnSet(RegisterOrder(risk, o, n).orders, Opps)
      BY <1>0, <2>1, <2>2, LedgerAddsUp
    <3>2. QED
      BY <2>1, <3>1
  <2>4. \A x \in Opps : Owed(x)' = IF x = o THEN n ELSE Owed(x)
    BY <1>0, <2>1 DEF Owed, n
  <2>5. \A x \in Opps : risk'.orders[x] = IF x = o THEN n ELSE risk.orders[x]
    BY <1>0, <2>3 DEF RiskState
  <2>6. QED
    BY <2>3, <2>4, <2>5 DEF LedgerInv
<1>2. CASE Drop(o)
  <2>1. \A x \in Opps : Owed(x)' = Owed(x)
    BY <1>0, <1>2 DEF Drop, End, Owed, Awaiting
  <2>2. QED
    BY <1>0, <1>2, <2>1, SameLedgerKept DEF Drop
<1>3. CASE \E c \in Calls : Return(o, c)
  <2>1. \A x \in Opps : Owed(x)' = Owed(x)
    BY <1>3 DEF Return, Owed
  <2>2. QED
    BY <1>0, <1>3, <2>1, SameLedgerKept DEF Return
<1>4. ASSUME pc[o] \in Awaiting,
             NEW p \in Awaiting, NEW cs \in SUBSET Calls, Continue(o, p, cs)
      PROVE  LedgerInv'
  <2>1. \A x \in Opps : Owed(x)' = Owed(x)
    BY <1>0, <1>4 DEF Continue, Await, Owed
  <2>2. QED
    BY <1>0, <1>4, <2>1, SameLedgerKept DEF Continue
<1>5. ASSUME NEW res \in Returned, Finish(o, res)
      PROVE  LedgerInv'
  <2>1. Account(risk, res) \in RiskState /\ SameLedger(risk, Account(risk, res))
    BY <1>0, AccountType, FeedbackKeepsLedger DEF Returned
  <2>2. QED
    BY <1>5, <2>1, EndKeepsLedger DEF Finish, End
<1>6. ASSUME Fail(o)
      PROVE  LedgerInv'
  <2>1. RecordTradeResult(risk, FALSE, 0) = CountFailure(risk)
    BY DEF RecordTradeResult
  <2>2. CountFailure(risk) \in RiskState /\ SameLedger(risk, CountFailure(risk))
    BY <1>0, RiskManagerType, FeedbackKeepsLedger
  <2>3. QED
    BY <1>6, <2>1, <2>2, EndKeepsLedger DEF Fail, End
<1>7. QED
  BY <1>1, <1>2, <1>3, <1>4, <1>5, <1>6, TaskShapes

LEMMA StepKeepsLedger ==
  ASSUME TypeOK, LedgerInv, [Next]_vars
  PROVE  LedgerInv'
<1>0. risk \in RiskState
  BY DEF TypeOK
<1>1. CASE Detect
  <2>1. PICK batch \in SUBSET Opps : \E found \in [batch -> Candidates] : Scan(batch, found)
    BY <1>1 DEF Detect
  <2>2. PICK found \in [batch -> Candidates] : Scan(batch, found)
    BY <2>1
  <2>3. \A x \in Opps : Owed(x)' = Owed(x)
    BY <2>2 DEF Scan, Owed, Awaiting
  <2>4. QED
    BY <2>2, <2>3, SameLedgerKept DEF Scan, SameLedger
<1>2. CASE AuditTick \/ FeedStale \/ UNCHANGED vars
  <2>1. \A x \in Opps : Owed(x)' = Owed(x)
    BY <1>2 DEF AuditTick, FeedStale, vars, Owed
  <2>2. risk' \in {risk, Audit(risk), Halt(risk)}
    BY <1>2 DEF AuditTick, FeedStale, vars, HandleFeedStale
  <2>3. SameLedger(risk, risk')
    BY <1>0, <2>2, FeedbackKeepsLedger DEF SameLedger
  <2>4. QED
    BY <2>1, <2>3, SameLedgerKept
<1>3. QED
  BY <1>1, <1>2, TaskKeepsLedger DEF Next

LEMMA InitLedger == Init => LedgerInv
<1> SUFFICES ASSUME Init PROVE LedgerInv
  OBVIOUS
<1>1. /\ risk.open = 0 /\ risk.orders = [o \in Opps |-> 0]
      /\ \A o \in Opps : Owed(o) = 0
  BY DEF Init, RouterInit, InitialRisk, Owed, Awaiting
<1>2. SumFunctionOnSet(risk.orders, Opps) = SumFunctionOnSet(risk.orders, {})
  BY <1>1, TradingAssumption, SumOfNonzero
<1>3. QED
  BY <1>1, <1>2, SumOfNone DEF LedgerInv

\* The open notional is what the executions in flight registered, for any
\* number of them and whichever way each of them ended: a return, an
\* exception or a missing venue (router.py:81-109).
THEOREM LedgerIsExact == Spec => []NotionalAccounting
<1>1. TypeOK /\ LedgerInv => NotionalAccounting
  <2> SUFFICES ASSUME TypeOK, LedgerInv PROVE NotionalAccounting
    OBVIOUS
  <2>1. IsFiniteSet(Opps) /\ IsFiniteSet(InFlight) /\ InFlight \in SUBSET Opps
    BY TradingAssumption, FS_Subset DEF InFlight
  <2>2. \A o \in Opps : risk.orders[o] \in Int
    <3>1. risk \in RiskState
      BY DEF TypeOK
    <3>2. QED
      BY <3>1 DEF RiskState
  <2>3. \A o \in Opps \ InFlight : risk.orders[o] = 0
    BY DEF LedgerInv, Owed, InFlight
  <2>4. risk.open = SumFunctionOnSet(risk.orders, InFlight)
    BY <2>1, <2>2, <2>3, SumOfNonzero DEF LedgerInv
  <2> DEFINE f == [o \in InFlight |-> deal[o].notional]
  <2>5. DOMAIN f = InFlight /\ \A o \in InFlight : risk.orders[o] = f[o]
    BY DEF LedgerInv, Owed, InFlight
  <2> HIDE DEF f
  <2>6. risk.open = SumFunction(f)
    BY <2>1, <2>4, <2>5, SumSame DEF SumFunction
  <2>7. QED
    BY <2>6 DEF NotionalAccounting, f
<1>2. QED
  BY <1>1, InitLedger, StepKeepsLedger, TypeCorrect, PTL DEF Spec
-----------------------------------------------------------------------------
\* The naked leg.  The invariant of an execution says which calls it has
\* made, how it came where it stands and what bounds the quantity of each
\* call; the rest is arithmetic at the places where an execution ends.

\* The calls that are awaited at each place
CallsAt(p) ==
  CASE p = "cex_cex" -> Legs
    [] p \in {"cex_first", "dex_first"} -> {"buy"}
    [] p \in {"dex_second", "cex_hedge"} -> {"sell"}
    [] p = "unwinding" -> {"undo_buy", "undo_sell"}
    [] OTHER -> {}

\* A call is unanswered until its answer, and is made at one place only.
AwaitInv(o) ==
  /\ waiting[o] \subseteq CallsAt(pc[o])
  /\ \A c \in waiting[o] : fill[o][c] = Untried
  /\ pc[o] \in {"idle", "spawned"} => \A c \in Calls : fill[o][c] = Untried
  /\ pc[o] \in {"cex_first", "dex_first"} => fill[o]["sell"] = Untried
  /\ pc[o] \notin {"unwinding", "done"} => \A leg \in Legs : fill[o][Undo(leg)] = Untried

\* Where an execution stands says how it came there.
RouteInv(o) ==
  /\ pc[o] \in {"cex_cex", "cex_first", "dex_first"} => Route(o) = pc[o]
  /\ pc[o] = "dex_second" =>
       /\ Route(o) = "cex_first" /\ IsFilled(fill[o]["buy"])
       /\ IsFilled(fill[o]["sell"]) \/ fill[o]["sell"].qty = 0
  /\ pc[o] = "cex_hedge" => Route(o) = "dex_first" /\ IsFilled(fill[o]["buy"])
  /\ pc[o] = "unwinding" => \A leg \in Legs :
       fill[o][leg].qty > 0 => Undo(leg) \in waiting[o] \/ fill[o][Undo(leg)] # Untried

\* No venue executes more than it was asked for.
QuantityInv(o) ==
  /\ \A c \in Calls : fill[o][c] = Untried => did[o][c] = 0
  /\ pc[o] # "idle" => did[o]["buy"] <= deal[o].size
  /\ pc[o] # "idle" /\ Route(o) # "cex_cex" => did[o]["sell"] <= fill[o]["buy"].qty
  /\ \A leg \in Legs : did[o][Undo(leg)] <= fill[o][leg].qty

\* What NakedLegExplained says of one execution
Explained(o) ==
  \/ ~Naked(o)
  \/ result[o].unwind_failed
  \/ Misreported(o) \/ PartialIgnored(o) \/ ShortUnwind(o) \/ ShortSecondLeg(o)
  \/ RaisedAfterFill(o)

LegInv(o) ==
  /\ AwaitInv(o) /\ RouteInv(o) /\ QuantityInv(o)
  /\ pc[o] = "done" <=> result[o].end # "none"
  /\ pc[o] = "done" => Explained(o)

\* The same of an execution that is about to end with res
Closes(o, res) ==
  \/ ~Naked(o) \/ res.unwind_failed \/ Misreported(o)
  \/ ~res.unwind_triggered /\ \E leg \in Legs : ~IsFilled(fill[o][leg]) /\ fill[o][leg].qty > 0
  \/ ShortUnwind(o) \/ ShortSecondLeg(o)
  \/ res.end = "raised" /\ IsFilled(fill[o]["buy"]) /\ fill[o]["sell"] = Raised

\* What a venue may answer

\* A venue executes a part of the quantity.
LEMMA ExecutedIsPart ==
  ASSUME NEW q \in Nat
  PROVE  \A x \in Executed(q) : x <= q
<1>1. SUFFICES ASSUME NEW f \in Fractions PROVE (q * f) \div 100 <= q
  BY DEF Executed
<1>2. f \in Nat /\ f <= 100
  BY FractionsAssumption
<1> DEFINE x == q * f
<1>3. x \in Nat /\ x <= 100 * q
  BY <1>2
<1> HIDE DEF x
<1>4. x \div 100 <= q
  BY <1>3
<1>5. QED
  BY <1>4 DEF x

\* No answer executes more than the quantity or leaves the call untried, and
\* a swap that is not filled reports no quantity.
LEMMA AnswersBounded ==
  ASSUME NEW kind \in Kinds, NEW q \in Nat
  PROVE  /\ \A a \in IocAnswers(kind, q) \cup SwapAnswers(kind, q) :
              a.did <= q /\ a.says # Untried
         /\ \A a \in SwapAnswers(kind, q) : IsFilled(a.says) \/ a.says.qty = 0
<1> DEFINE Good(S) == \A a \in S : a.did <= q /\ a.says # Untried
<1>0. \A x \in Executed(q) : x \in Nat /\ x <= q
  BY ExecutedIsPart, ExecutedIsNat
<1> USE DEF Answer, Report, Untried
<1>1. Good(Rejected) /\ Good(Lost(q))
  BY <1>0 DEF Rejected, Lost, NoFill
<1>2. Good(BinanceAnswers(q))
  <2>1. \A x \in Executed(q) : \A r \in BinanceReports(x, q) : r # Untried
    BY DEF BinanceReports
  <2>2. QED
    BY <1>0, <1>1, <2>1 DEF BinanceAnswers
<1>3. Good(BybitAnswers(q))
  BY <1>0, <1>1 DEF BybitAnswers
<1>4. Good(KrakenAnswers(q))
  <2>1. \A x \in Executed(q) : \A r \in KrakenReports(x) : r # Untried
    BY DEF KrakenReports
  <2>2. QED
    BY <1>0, <1>1, <2>1 DEF KrakenAnswers
<1>5. Good(HyperliquidAnswers(q))
  <2>1. \A x \in Executed(q) : \A r \in HyperliquidReports(x) : r # Untried
    BY DEF HyperliquidReports, Raised
  <2>2. QED
    BY <1>0, <1>1, <2>1 DEF HyperliquidAnswers
<1>6. Good(DydxAnswers(q))
  BY <1>1 DEF DydxAnswers, NoFill
<1>7. Good(LighterAnswers(q))
  <2>1. \A x \in Executed(q) : \A r \in LighterReports(x) : r # Untried
    BY DEF LighterReports, Raised
  <2>2. QED
    BY <1>0, <1>1, <2>1 DEF LighterAnswers
<1>8. Good(IocAnswers(kind, q))
  BY <1>2, <1>3, <1>4, <1>5, <1>6, <1>7 DEF IocAnswers, Kinds
<1>9. Good(SwapAnswers(kind, q))
  BY <1>0, <1>1 DEF SwapAnswers, Raised
<1>10. \A a \in SwapAnswers(kind, q) : IsFilled(a.says) \/ a.says.qty = 0
  BY DEF SwapAnswers, IsFilled, Rejected, Lost, NoFill, Raised
<1>11. QED
  BY <1>8, <1>9, <1>10

\* The shapes of a step

\* Nothing moves for an execution whose variables stay.
LEMMA LegsOfOthers ==
  ASSUME NEW o, LegInv(o), pc'[o] = pc[o], waiting'[o] = waiting[o], fill'[o] = fill[o],
         did'[o] = did[o], result'[o] = result[o], deal'[o] = deal[o]
  PROVE  LegInv(o)'
<1>1. Route(o)' = Route(o)
  BY DEF Route, IsDex
<1>2. (Naked(o)' <=> Naked(o)) /\ (Misreported(o)' <=> Misreported(o))
  BY DEF Naked, Exposure, Misreported
<1>3. /\ PartialIgnored(o)' <=> PartialIgnored(o)
      /\ ShortUnwind(o)' <=> ShortUnwind(o)
      /\ ShortSecondLeg(o)' <=> ShortSecondLeg(o)
      /\ RaisedAfterFill(o)' <=> RaisedAfterFill(o)
  BY <1>1 DEF PartialIgnored, ShortUnwind, ShortSecondLeg, RaisedAfterFill
<1>4. Explained(o) => Explained(o)'
  BY <1>2, <1>3 DEF Explained
<1>5. AwaitInv(o)'
  BY DEF LegInv, AwaitInv
<1>6. RouteInv(o)'
  BY <1>1 DEF LegInv, RouteInv
<1>7. QuantityInv(o)'
  BY <1>1 DEF LegInv, QuantityInv
<1>8. QED
  BY <1>4, <1>5, <1>6, <1>7 DEF LegInv

\* An execution ends with everything answered.
LEMMA EndKeepsLegs ==
  ASSUME TypeOK, NEW o \in Opps, LegInv(o), pc[o] \in Awaiting, waiting[o] = {},
         NEW res \in Results, res.end # "none", End(o, res), Closes(o, res)
  PROVE  LegInv(o)'
<1>1. /\ pc'[o] = "done" /\ result'[o] = res
      /\ waiting' = waiting /\ fill' = fill /\ did' = did /\ deal' = deal
  BY DEF End, TypeOK
<1>2. Route(o)' = Route(o)
  BY <1>1 DEF Route, IsDex
<1>3. AwaitInv(o)' /\ RouteInv(o)'
  BY <1>1 DEF AwaitInv, RouteInv
<1>4. QuantityInv(o)'
  BY <1>1, <1>2 DEF LegInv, QuantityInv, Awaiting
<1>5. /\ Naked(o)' <=> Naked(o)
      /\ Misreported(o)' <=> Misreported(o)
      /\ ShortUnwind(o)' <=> ShortUnwind(o)
      /\ ShortSecondLeg(o)' <=> ShortSecondLeg(o)
  BY <1>1, <1>2 DEF Naked, Exposure, Misreported, ShortUnwind, ShortSecondLeg
<1>6. Explained(o)'
  BY <1>1, <1>5 DEF Closes, Explained, PartialIgnored, RaisedAfterFill
<1>7. QED
  BY <1>1, <1>3, <1>4, <1>6 DEF LegInv

\* An execution goes on to its next call.
LEMMA ContinueKeepsLegs ==
  ASSUME TypeOK, NEW o \in Opps, LegInv(o), pc[o] \in Awaiting, waiting[o] = {},
         NEW p \in Awaiting, Continue(o, p, CallsAt(p)),
         p \in {"dex_second", "cex_hedge"}, IsFilled(fill[o]["buy"]),
         pc[o] = IF p = "dex_second" THEN "cex_first" ELSE "dex_first"
  PROVE  LegInv(o)'
<1>1. /\ pc'[o] = p /\ waiting'[o] = {"sell"}
      /\ fill' = fill /\ did' = did /\ deal' = deal /\ result' = result
  BY DEF Continue, Await, TypeOK, CallsAt
<1>2. Route(o)' = Route(o)
  BY <1>1 DEF Route, IsDex
<1>3. fill[o]["sell"] = Untried /\ Route(o) = pc[o]
  BY DEF LegInv, AwaitInv, RouteInv
<1>4. AwaitInv(o)'
  BY <1>1, <1>3 DEF LegInv, AwaitInv, CallsAt
<1>5. RouteInv(o)'
  BY <1>1, <1>2, <1>3 DEF RouteInv, Untried, Report
<1>6. QuantityInv(o)'
  BY <1>1, <1>2 DEF LegInv, QuantityInv, Awaiting
<1>7. QED
  BY <1>1, <1>4, <1>5, <1>6 DEF LegInv, Awaiting

\* An execution unwinds every leg that reports a quantity.
LEMMA UnwindKeepsLegs ==
  ASSUME TypeOK, NEW o \in Opps, LegInv(o), pc[o] \in {"cex_cex", "dex_second"}, waiting[o] = {},
         NEW cs \in SUBSET {"undo_buy", "undo_sell"}, Continue(o, "unwinding", cs),
         \A leg \in Legs : fill[o][leg].qty > 0 => Undo(leg) \in cs
  PROVE  LegInv(o)'
<1>1. /\ pc'[o] = "unwinding" /\ waiting'[o] = cs
      /\ fill' = fill /\ did' = did /\ deal' = deal /\ result' = result
  BY DEF Continue, Await, TypeOK
<1>2. Route(o)' = Route(o)
  BY <1>1 DEF Route, IsDex
<1>3. fill[o]["undo_buy"] = Untried /\ fill[o]["undo_sell"] = Untried
  BY DEF LegInv, AwaitInv, Legs, Undo
<1>4. AwaitInv(o)'
  BY <1>1, <1>3 DEF AwaitInv, CallsAt
<1>5. RouteInv(o)'
  BY <1>1 DEF RouteInv
<1>6. QuantityInv(o)'
  BY <1>1, <1>2 DEF LegInv, QuantityInv
<1>7. QED
  BY <1>1, <1>4, <1>5, <1>6 DEF LegInv

\* A call is answered.
LEMMA ReturnKeepsLegs ==
  ASSUME TypeOK, NEW o \in Opps, LegInv(o), NEW c \in Calls, Return(o, c)
  PROVE  LegInv(o)'
<1>1. PICK a \in AnswersTo(o, c) :
        /\ fill' = [fill EXCEPT ![o][c] = a.says]
        /\ did' = [did EXCEPT ![o][c] = a.did]
  BY DEF Return
<1>2. /\ pc[o] \in Awaiting /\ c \in waiting[o] /\ pc'[o] = pc[o]
      /\ waiting'[o] = waiting[o] \ {c}
      /\ deal' = deal /\ result' = result
      /\ fill'[o] = [fill[o] EXCEPT ![c] = a.says]
      /\ did'[o] = [did[o] EXCEPT ![c] = a.did]
      /\ DOMAIN fill[o] = Calls /\ DOMAIN did[o] = Calls
  BY <1>1 DEF Return, TypeOK
<1>3. /\ \A x \in Calls : fill[o][x].qty \in Nat /\ did[o][x] \in Nat
      /\ deal[o].size \in Nat
  BY <1>2, DealType DEF TypeOK, Reports, Awaiting
<1>4. Quantity(o, c) \in Nat /\ Kind[VenueOf(o, c)] \in Kinds
  BY <1>2, <1>3, DealType DEF Quantity, Calls, Awaiting
<1>5. a.did \in Nat /\ a.says.qty \in Nat /\ a.did <= Quantity(o, c) /\ a.says # Untried
  BY <1>4, AnswersType, AnswersBounded DEF AnswersTo, Reports
<1>6. IsSwap(o, c) => IsFilled(a.says) \/ a.says.qty = 0
  BY <1>4, AnswersBounded DEF AnswersTo
<1>7. c \in CallsAt(pc[o]) /\ fill[o][c] = Untried
  BY <1>2 DEF LegInv, AwaitInv
<1>8. Route(o)' = Route(o)
  BY <1>2 DEF Route, IsDex
<1>9. AwaitInv(o)'
  BY <1>2, <1>7 DEF LegInv, AwaitInv, CallsAt, Legs, Undo, Awaiting, Calls
<1>10. RouteInv(o)'
  <2>1. CASE pc[o] = "unwinding"
    BY <1>2, <1>5, <1>7, <2>1 DEF LegInv, RouteInv, CallsAt, Legs, Undo, Calls
  <2>2. CASE pc[o] \in {"dex_second", "cex_hedge"}
    BY <1>2, <1>6, <1>7, <1>8, <2>2 DEF LegInv, RouteInv, CallsAt, IsSwap, Calls
  <2>3. CASE pc[o] \in {"cex_cex", "cex_first", "dex_first"}
    BY <1>2, <1>8, <2>3 DEF LegInv, RouteInv
  <2>4. QED
    BY <1>2, <2>1, <2>2, <2>3 DEF Awaiting
<1>11. QuantityInv(o)'
  <2>1. \A x \in Calls : fill'[o][x] = Untried => did'[o][x] = 0
    BY <1>2, <1>5 DEF LegInv, QuantityInv
  <2>2. did'[o]["buy"] <= deal[o].size
    BY <1>2, <1>5, <1>7 DEF LegInv, QuantityInv, CallsAt, Quantity, Legs, Calls, Awaiting
  <2>3. Route(o) # "cex_cex" => did'[o]["sell"] <= fill'[o]["buy"].qty
    <3>1. CASE c = "sell"
      BY <1>2, <1>5, <1>7, <3>1 DEF LegInv, RouteInv, CallsAt, Quantity, Legs, Calls, Awaiting
    <3>2. CASE c = "buy"
      BY <1>2, <1>5, <1>7, <3>2 DEF LegInv, AwaitInv, RouteInv, QuantityInv, CallsAt, Legs, Calls, Awaiting
    <3>3. CASE c \notin Legs
      BY <1>2, <3>3 DEF LegInv, QuantityInv, Legs, Calls, Awaiting
    <3>4. QED
      BY <3>1, <3>2, <3>3 DEF Legs
  <2>4. ASSUME NEW leg \in Legs PROVE did'[o][Undo(leg)] <= fill'[o][leg].qty
    <3>1. CASE pc[o] = "unwinding"
      BY <1>2, <1>5, <1>7, <3>1 DEF LegInv, QuantityInv, CallsAt, Quantity, Legs, Undo, Calls
    <3>2. CASE pc[o] # "unwinding"
      <4>1. fill[o][Undo(leg)] = Untried /\ did[o][Undo(leg)] = 0
        BY <1>2, <3>2 DEF LegInv, AwaitInv, QuantityInv, Awaiting, Legs, Undo, Calls
      <4>2. c \in Legs
        BY <1>2, <1>7, <3>2 DEF CallsAt, Legs, Awaiting
      <4>3. QED
        BY <1>2, <1>3, <1>5, <4>1, <4>2 DEF Legs, Undo, Calls
    <3>3. QED
      BY <3>1, <3>2
  <2>5. QED
    BY <1>2, <1>8, <2>1, <2>2, <2>3, <2>4 DEF QuantityInv
<1>12. pc'[o] # "done" /\ result'[o].end = "none"
  BY <1>2 DEF LegInv, Awaiting
<1>13. QED
  BY <1>9, <1>10, <1>11, <1>12 DEF LegInv

\* The ways an execution can end

\* What an execution did when no answer was wrong: the quantities reported,
\* and no more than its parts allow.
LEMMA Reported ==
  ASSUME TypeOK, NEW o \in Opps, LegInv(o), ~Misreported(o)
  PROVE  /\ \A c \in Calls : did[o][c] = fill[o][c].qty /\ fill[o][c].qty \in Nat
         /\ fill[o]["undo_buy"].qty <= fill[o]["buy"].qty
         /\ fill[o]["undo_sell"].qty <= fill[o]["sell"].qty
<1>1. \A c \in Calls : did[o][c] = fill[o][c].qty /\ fill[o][c].qty \in Nat
  BY DEF TypeOK, Reports, LegInv, QuantityInv, Misreported, Untried, Report
<1>2. QED
  BY <1>1 DEF LegInv, QuantityInv, Legs, Undo, Calls

\* With legs of the same quantity, after what was unwound, nothing is naked.
LEMMA BalancedIsCovered ==
  ASSUME TypeOK, NEW o \in Opps, LegInv(o), pc[o] \in Awaiting, ~Misreported(o),
         fill[o]["buy"].qty - fill[o]["undo_buy"].qty = fill[o]["sell"].qty - fill[o]["undo_sell"].qty
  PROVE  ~Naked(o)
<1>1. Exposure(o) = 0
  BY Reported DEF Exposure, Calls
<1>2. deal[o].size \in Nat
  BY DealType DEF Awaiting
<1>3. QED
  BY <1>1, <1>2 DEF Naked, Distance

LEMMA UntriedIsEmpty == Untried.qty = 0 /\ Raised.qty = 0 /\ ~IsFilled(Untried) /\ ~IsFilled(Raised)
BY DEF Untried, Raised, Report, IsFilled

LEMMA AfterCexCexKeepsLegs ==
  ASSUME TypeOK, NEW o \in Opps, LegInv(o), AfterCexCex(o)
  PROVE  LegInv(o)'
<1> DEFINE b == fill[o]["buy"]
           s == fill[o]["sell"]
<1>1. pc[o] = "cex_cex" /\ pc[o] \in Awaiting /\ waiting[o] = {}
  BY DEF AfterCexCex, Resumes, Awaiting
<1>2. fill[o]["undo_buy"].qty = 0 /\ fill[o]["undo_sell"].qty = 0
  BY <1>1, UntriedIsEmpty DEF LegInv, AwaitInv, Legs, Undo
<1>3. b.qty \in Nat /\ s.qty \in Nat
  BY DEF TypeOK, Reports, Calls
<1>4. CASE NeedsUnwind(b, s) /\ Continue(o, "unwinding", ToUnwind(o))
  <2>1. /\ ToUnwind(o) \in SUBSET {"undo_buy", "undo_sell"}
        /\ \A leg \in Legs : fill[o][leg].qty > 0 => Undo(leg) \in ToUnwind(o)
    BY DEF ToUnwind, Undo, Legs
  <2>2. QED
    BY <1>1, <1>4, <2>1, UnwindKeepsLegs
<1>5. ASSUME ~NeedsUnwind(b, s), IsFilled(b), NEW p \in Pnls, Finish(o, Assessed(p))
      PROVE  LegInv(o)'
  <2>1. IsFilled(s) /\ 100 * Distance(b.qty, s.qty) <= b.qty
    BY <1>3, <1>5 DEF NeedsUnwind, Distance, IsFilled
  <2>2. ASSUME ~Misreported(o) PROVE ~Naked(o)
    <3>1. Exposure(o) = b.qty - s.qty /\ b.qty <= deal[o].size /\ deal[o].size \in Nat
      BY <1>1, <1>2, <1>3, <2>2, Reported, DealType DEF Exposure, Calls, LegInv, QuantityInv, Awaiting
    <3>2. QED
      BY <1>3, <2>1, <3>1 DEF Naked, Distance
  <2>3. /\ Closes(o, Assessed(p)) /\ End(o, Assessed(p))
        /\ Assessed(p) \in Results /\ Assessed(p).end # "none"
    BY <1>5, <2>2, ResultsReturned DEF Closes, Finish, Returned
  <2>4. QED
    BY <1>1, <2>3, EndKeepsLegs
<1>6. CASE ~NeedsUnwind(b, s) /\ ~IsFilled(b) /\ Finish(o, FailedResult(FALSE, FALSE))
  <2> DEFINE res == FailedResult(FALSE, FALSE)
  <2>1. ~IsFilled(s)
    BY <1>6 DEF NeedsUnwind
  <2>2. CASE b.qty = 0 /\ s.qty = 0
    <3>1. Misreported(o) \/ ~Naked(o)
      BY <1>1, <1>2, <2>2, BalancedIsCovered
    <3>2. QED
      BY <1>1, <1>6, <3>1, ResultsReturned, EndKeepsLegs DEF Closes, Finish, Returned
  <2>3. CASE b.qty > 0 \/ s.qty > 0
    <3>1. \E leg \in Legs : ~IsFilled(fill[o][leg]) /\ fill[o][leg].qty > 0
      BY <1>6, <2>1, <2>3 DEF Legs
    <3>2. ~res.unwind_triggered
      BY DEF FailedResult, ResultOf
    <3>3. QED
      BY <1>1, <1>6, <3>1, <3>2, ResultsReturned, EndKeepsLegs DEF Closes, Finish, Returned
  <2>4. QED
    BY <1>3, <2>2, <2>3
<1>7. QED
  BY <1>4, <1>5, <1>6 DEF AfterCexCex

\* The first order of a sequential route raised or missed.
LEMMA FirstCallKeepsLegs ==
  ASSUME TypeOK, NEW o \in Opps, LegInv(o), AfterCexFirst(o) \/ AfterDexFirst(o)
  PROVE  LegInv(o)'
<1>1. /\ pc[o] \in {"cex_first", "dex_first"} /\ pc[o] \in Awaiting /\ waiting[o] = {}
      /\ \/ fill[o]["buy"] = Raised /\ Fail(o)
         \/ /\ IsFilled(fill[o]["buy"])
            /\ \/ pc[o] = "cex_first" /\ Continue(o, "dex_second", {"sell"})
               \/ pc[o] = "dex_first" /\ Continue(o, "cex_hedge", {"sell"})
         \/ ~IsFilled(fill[o]["buy"]) /\ Finish(o, FailedResult(FALSE, FALSE))
  BY DEF AfterCexFirst, AfterDexFirst, AfterCall, Resumes, Awaiting
<1>2. /\ fill[o]["sell"].qty = 0
      /\ fill[o]["undo_buy"].qty = 0 /\ fill[o]["undo_sell"].qty = 0
      /\ fill[o]["buy"].qty \in Nat
  BY <1>1, UntriedIsEmpty DEF LegInv, AwaitInv, Legs, Undo, TypeOK, Reports, Calls
<1>3. fill[o]["buy"].qty = 0 => Misreported(o) \/ ~Naked(o)
  BY <1>1, <1>2, BalancedIsCovered
<1>4. CASE fill[o]["buy"] = Raised /\ Fail(o)
  <2>1. RaisedOut \in Results /\ RaisedOut.end = "raised"
    BY DEF RaisedOut, ResultOf, Results
  <2>2. QED
    BY <1>1, <1>3, <1>4, <2>1, UntriedIsEmpty, EndKeepsLegs DEF Closes, Fail
<1>5. CASE IsFilled(fill[o]["buy"]) /\ pc[o] = "cex_first" /\ Continue(o, "dex_second", {"sell"})
  BY <1>1, <1>5, ContinueKeepsLegs DEF CallsAt, Awaiting
<1>6. CASE IsFilled(fill[o]["buy"]) /\ pc[o] = "dex_first" /\ Continue(o, "cex_hedge", {"sell"})
  BY <1>1, <1>6, ContinueKeepsLegs DEF CallsAt, Awaiting
<1>7. CASE ~IsFilled(fill[o]["buy"]) /\ Finish(o, FailedResult(FALSE, FALSE))
  <2>1. Closes(o, FailedResult(FALSE, FALSE))
    BY <1>2, <1>3, <1>7 DEF Closes, FailedResult, ResultOf, Legs
  <2>2. QED
    BY <1>1, <1>7, <2>1, ResultsReturned, EndKeepsLegs DEF Finish, Returned
<1>8. QED
  BY <1>1, <1>4, <1>5, <1>6, <1>7

\* The second one was answered.
LEMMA SecondCallKeepsLegs ==
  ASSUME TypeOK, NEW o \in Opps, LegInv(o), AfterSwap(o) \/ AfterHedge(o)
  PROVE  LegInv(o)'
<1> DEFINE b == fill[o]["buy"]
           s == fill[o]["sell"]
<1>1. /\ pc[o] \in {"dex_second", "cex_hedge"} /\ pc[o] \in Awaiting /\ waiting[o] = {}
      /\ \/ s = Raised /\ Fail(o)
         \/ IsFilled(s) /\ \E p \in Pnls : Finish(o, Assessed(p))
         \/ ~IsFilled(s) /\ pc[o] = "dex_second" /\ Continue(o, "unwinding", {"undo_buy"})
         \/ Finish(o, FailedResult(TRUE, TRUE))
  BY DEF AfterSwap, AfterHedge, AfterCall, Resumes, Awaiting
<1>2. IsFilled(b) /\ Route(o) # "cex_cex"
  BY <1>1 DEF LegInv, RouteInv
<1>3. CASE s = Raised /\ Fail(o)
  <2>1. RaisedOut \in Results /\ RaisedOut.end = "raised"
    BY DEF RaisedOut, ResultOf, Results
  <2>2. QED
    BY <1>1, <1>2, <1>3, <2>1, EndKeepsLegs DEF Closes, Fail
<1>4. ASSUME IsFilled(s), NEW p \in Pnls, Finish(o, Assessed(p)) PROVE LegInv(o)'
  <2>1. fill[o]["undo_buy"].qty = 0 /\ fill[o]["undo_sell"].qty = 0
    BY <1>1, UntriedIsEmpty DEF LegInv, AwaitInv, Legs, Undo
  <2>2. Misreported(o) \/ ShortSecondLeg(o) \/ ~Naked(o)
    <3> SUFFICES ASSUME ~Misreported(o), ~ShortSecondLeg(o) PROVE ~Naked(o)
      OBVIOUS
    <3>1. s.qty <= b.qty /\ s.qty \in Nat /\ b.qty \in Nat
      BY <1>1, <1>2, Reported DEF LegInv, QuantityInv, Calls, Awaiting
    <3>2. s.qty = b.qty
      BY <1>2, <1>4, <3>1 DEF ShortSecondLeg
    <3>3. QED
      BY <1>1, <2>1, <3>1, <3>2, BalancedIsCovered
  <2>3. QED
    BY <1>1, <1>4, <2>2, ResultsReturned, EndKeepsLegs DEF Closes, Finish, Returned
<1>5. CASE ~IsFilled(s) /\ pc[o] = "dex_second" /\ Continue(o, "unwinding", {"undo_buy"})
  <2>1. s.qty = 0
    BY <1>5 DEF LegInv, RouteInv
  <2>2. \A leg \in Legs : fill[o][leg].qty > 0 => Undo(leg) \in {"undo_buy"}
    BY <2>1 DEF Legs, Undo
  <2>3. QED
    BY <1>1, <1>5, <2>2, UnwindKeepsLegs
<1>6. CASE Finish(o, FailedResult(TRUE, TRUE))
  <2>1. FailedResult(TRUE, TRUE).unwind_failed
    BY DEF FailedResult, ResultOf
  <2>2. QED
    BY <1>1, <1>6, <2>1, ResultsReturned, EndKeepsLegs DEF Closes, Finish, Returned
<1>7. QED
  BY <1>1, <1>3, <1>4, <1>5, <1>6

\* An unwind that is confirmed took its legs back, or is short.
LEMMA AfterUnwindKeepsLegs ==
  ASSUME TypeOK, NEW o \in Opps, LegInv(o), AfterUnwind(o)
  PROVE  LegInv(o)'
<1> DEFINE done == UnwindConfirmed(o)
           res == FailedResult(TRUE, ~done)
<1>1. pc[o] = "unwinding" /\ pc[o] \in Awaiting /\ waiting[o] = {} /\ Finish(o, res)
  BY DEF AfterUnwind, Resumes, Awaiting
<1>2. res \in Results /\ res.end # "none" /\ res.unwind_failed = ~done
  BY ResultsReturned DEF UnwindConfirmed, Returned, FailedResult, ResultOf
<1>3. ASSUME done, ~Misreported(o), ~ShortUnwind(o) PROVE ~Naked(o)
  <2>1. ASSUME NEW leg \in Legs PROVE fill[o][Undo(leg)].qty = fill[o][leg].qty
    <3>1. /\ fill[o][leg].qty \in Nat /\ fill[o][Undo(leg)].qty \in Nat
          /\ fill[o][Undo(leg)].qty <= fill[o][leg].qty
      BY <1>3, Reported DEF Legs, Undo, Calls
    <3>2. fill[o][leg].qty > 0 => fill[o][Undo(leg)].qty > 0
      BY <1>1, <1>3 DEF LegInv, RouteInv, UnwindConfirmed, Legs, Undo
    <3>3. QED
      BY <1>3, <3>1, <3>2 DEF ShortUnwind
  <2>2. QED
    <3>1. /\ fill[o]["undo_buy"].qty = fill[o]["buy"].qty
          /\ fill[o]["undo_sell"].qty = fill[o]["sell"].qty
      BY <2>1 DEF Legs, Undo
    <3>2. \A c \in Calls : fill[o][c].qty \in Nat
      BY DEF TypeOK, Reports
    <3>3. QED
      BY <1>1, <1>3, <3>1, <3>2, BalancedIsCovered DEF Calls
<1>4. Closes(o, res)
  BY <1>2, <1>3 DEF Closes
<1>5. QED
  BY <1>1, <1>2, <1>4, EndKeepsLegs DEF Finish

\* The invariant

\* A task keeps its own legs explained.
LEMMA TaskKeepsLegs ==
  ASSUME TypeOK, NEW o \in Opps, TaskStep(o), LegInv(o)
  PROVE  LegInv(o)'
<1>1. CASE Start(o)
  <2>1. /\ pc[o] = "spawned" /\ pc'[o] = Route(o) /\ waiting'[o] = FirstCalls(Route(o))
        /\ fill' = fill /\ did' = did /\ deal' = deal /\ result' = result
    BY <1>1 DEF Start, Await, TypeOK
  <2>2. Route(o)' = Route(o) /\ Route(o) \in {"cex_cex", "cex_first", "dex_first"}
    BY <2>1 DEF Route, IsDex
  <2>3. \A c \in Calls : fill[o][c] = Untried
    BY <2>1 DEF LegInv, AwaitInv
  <2>4. AwaitInv(o)'
    BY <2>1, <2>2, <2>3 DEF AwaitInv, CallsAt, FirstCalls, Legs, Undo, Calls
  <2>5. RouteInv(o)'
    BY <2>1, <2>2 DEF RouteInv
  <2>6. QuantityInv(o)'
    BY <2>1, <2>2 DEF LegInv, QuantityInv
  <2>7. QED
    BY <2>1, <2>2, <2>4, <2>5, <2>6 DEF LegInv
<1>2. CASE Drop(o)
  <2>1. /\ pc[o] = "spawned" /\ pc'[o] = "done" /\ result'[o].end = "dropped"
        /\ waiting' = waiting /\ fill' = fill /\ did' = did /\ deal' = deal
    BY <1>2 DEF Drop, End, TypeOK, Dropped, ResultOf
  <2>2. Route(o)' = Route(o)
    BY <2>1 DEF Route, IsDex
  <2>3. AwaitInv(o)'
    BY <2>1 DEF LegInv, AwaitInv, CallsAt
  <2>4. RouteInv(o)' /\ QuantityInv(o)'
    BY <2>1, <2>2 DEF LegInv, RouteInv, QuantityInv
  <2>5. Explained(o)'
    <3>1. \A c \in Calls : did'[o][c] = 0
      BY <2>1 DEF LegInv, AwaitInv, QuantityInv
    <3>2. deal'[o].size \in Nat
      BY <2>1, DealType
    <3>3. QED
      BY <3>1, <3>2 DEF Explained, Naked, Exposure, Distance, Calls
  <2>6. QED
    BY <2>1, <2>3, <2>4, <2>5 DEF LegInv
<1>3. CASE \E c \in Calls : Return(o, c)
  BY <1>3, ReturnKeepsLegs
<1>4. QED
  BY <1>1, <1>2, <1>3, AfterCexCexKeepsLegs, FirstCallKeepsLegs, SecondCallKeepsLegs,
     AfterUnwindKeepsLegs DEF TaskStep

\* A step of a task is no step of another.
LEMMA OthersStay ==
  ASSUME TypeOK, NEW o \in Opps, TaskStep(o), NEW x \in Opps, x # o
  PROVE  /\ pc'[x] = pc[x] /\ waiting'[x] = waiting[x] /\ fill'[x] = fill[x]
         /\ did'[x] = did[x] /\ result'[x] = result[x] /\ deal'[x] = deal[x]
<1> DEFINE Still == /\ pc'[x] = pc[x] /\ waiting'[x] = waiting[x] /\ fill'[x] = fill[x]
                    /\ did'[x] = did[x] /\ result'[x] = result[x] /\ deal'[x] = deal[x]
<1>1. ASSUME NEW p, NEW cs, Await(o, p, cs) PROVE Still
  BY <1>1 DEF Await, TypeOK
<1>2. ASSUME NEW res, End(o, res) PROVE Still
  BY <1>2, <1>2 DEF End, TypeOK
<1>3. ASSUME NEW c \in Calls, Return(o, c) PROVE Still
  BY <1>2, <1>3 DEF Return, TypeOK
<1> HIDE DEF Still
<1>4. ASSUME Start(o) \/ Drop(o) PROVE Still
  BY <1>1, <1>2, <1>4 DEF Start, Drop
<1>5. ASSUME \/ \E p \in Awaiting, cs \in SUBSET Calls : Continue(o, p, cs)
             \/ \E res \in Returned : Finish(o, res)
             \/ Fail(o)
      PROVE  Still
  BY <1>1, <1>2, <1>5 DEF Continue, Finish, Fail
<1>6. Still
  BY <1>3, <1>4, <1>5, TaskShapes
<1>7. QED
  BY <1>6 DEF Still

\* A deal is found for an execution that did not exist.
LEMMA DetectKeepsLegs ==
  ASSUME TypeOK, Detect, NEW x \in Opps, LegInv(x)
  PROVE  LegInv(x)'
<1>1. PICK batch \in SUBSET Opps : \E found \in [batch -> Candidates] : Scan(batch, found)
  BY DEF Detect
<1>2. PICK found \in [batch -> Candidates] : Scan(batch, found)
  BY <1>1
<1>3. UNCHANGED <<waiting, fill, did, result>>
  BY <1>2 DEF Scan
<1>4. CASE x \in batch
  <2>1. pc[x] = "idle" /\ pc'[x] = "spawned" /\ deal'[x] = found[x]
    BY <1>2, <1>4 DEF Scan
  <2>2. \A c \in Calls : fill[x][c] = Untried /\ did[x][c] = 0
    BY <2>1 DEF LegInv, AwaitInv, QuantityInv
  <2>3. deal'[x].size \in Nat
    BY <1>2, <1>4, <2>1, RouterAssumption DEF Deals
  <2>4. QuantityInv(x)'
    BY <1>3, <2>2, <2>3 DEF QuantityInv, Untried, Report, Legs, Undo, Calls
  <2>5. AwaitInv(x)' /\ RouteInv(x)'
    BY <1>3, <2>1 DEF LegInv, AwaitInv, RouteInv, CallsAt
  <2>6. QED
    BY <1>3, <2>1, <2>4, <2>5 DEF LegInv
<1>5. CASE x \notin batch
  <2>1. pc'[x] = pc[x] /\ deal'[x] = deal[x]
    BY <1>2, <1>5 DEF Scan
  <2>2. QED
    BY <1>3, <2>1, LegsOfOthers
<1>6. QED
  BY <1>4, <1>5

LEMMA InitLegs == Init => \A x \in Opps : LegInv(x)
<1> SUFFICES ASSUME Init, NEW x \in Opps PROVE LegInv(x)
  OBVIOUS
<1>1. /\ pc[x] = "idle" /\ waiting[x] = {} /\ result[x] = Unfinished
      /\ \A c \in Calls : fill[x][c] = Untried /\ did[x][c] = 0
  BY DEF Init, RouterInit
<1>2. QuantityInv(x)
  BY <1>1 DEF QuantityInv, Untried, Report, Legs, Undo, Calls
<1>3. QED
  BY <1>1, <1>2 DEF LegInv, AwaitInv, RouteInv, CallsAt, Legs, Undo, Calls, Unfinished, ResultOf

LEMMA StepKeepsLegs ==
  ASSUME TypeOK, [Next]_vars, NEW x \in Opps, LegInv(x)
  PROVE  LegInv(x)'
<1>1. CASE AuditTick \/ FeedStale \/ UNCHANGED vars
  BY <1>1, LegsOfOthers DEF AuditTick, FeedStale, vars
<1>2. ASSUME NEW o \in Opps, TaskStep(o) PROVE LegInv(x)'
  <2>1. CASE x = o
    BY <1>2, <2>1, TaskKeepsLegs
  <2>2. CASE x # o
    BY <1>2, <2>2, OthersStay, LegsOfOthers
  <2>3. QED
    BY <2>1, <2>2
<1>3. QED
  BY <1>1, <1>2, DetectKeepsLegs DEF Next

\* "Never leave a naked leg open" (router.py:4), as far as the code keeps it,
\* for any number of executions on any venues: an execution that ended with
\* more than a percent of its size uncovered flagged it or met one of the
\* five cases that the router does not look at.
THEOREM NakedLegsAreExplained == Spec => []NakedLegExplained
<1>1. TypeOK /\ (\A x \in Opps : LegInv(x)) /\ [Next]_vars => (\A x \in Opps : LegInv(x))'
  BY StepKeepsLegs
<1>2. (\A x \in Opps : LegInv(x)) => NakedLegExplained
  BY DEF LegInv, Explained, NakedLegExplained
<1>3. QED
  BY <1>1, <1>2, InitLegs, TypeCorrect, PTL DEF Spec
-----------------------------------------------------------------------------
\* Start-up and shutdown

Enabled == EnabledVenues(config)

\* A session is open for an enabled venue, one that connected or raised; at
\* the close of the next venue, those that did not raise are still ahead.
SessionInv ==
  /\ sessions \subseteq Enabled
  /\ sessions \subseteq Connected \cup raised
  /\ phase = "closing" =>
       \A v \in sessions \ raised : \E i \in next..Len(config.enabled) : v = config.enabled[i]
  /\ phase \in {"stopping", "exited"} => sessions \subseteq raised

BeforeLive == phase \in Starting \cup {"refused", "aborted"}

\* No task exists before create_all is over, and by then every enabled venue
\* has connected or raised.
StartupInv ==
  /\ BeforeLive => \A o \in Opps : pc[o] = "idle"
  /\ phase = "loading" => next = 1
  /\ phase = "connecting" => \A i \in 1..(next - 1) : config.enabled[i] \in Connected \cup raised
  /\ ~BeforeLive => Enabled \subseteq Connected \cup raised

\* A task is about a pair of the configuration, and was dropped for a venue
\* that is not there.
TaskInv ==
  \A o \in Opps :
    /\ pc[o] # "idle" => {deal[o].buy, deal[o].sell} \subseteq Enabled
    /\ result[o].end = "dropped" =>
         pc[o] = "done" /\ ~({deal[o].buy, deal[o].sell} \subseteq Connected)

EngineInv == EngineTypeOK /\ SessionInv /\ StartupInv /\ TaskInv
-----------------------------------------------------------------------------
\* A step of a task is of a task that exists, keeps its deal, and drops it
\* only if a venue is missing.
LEMMA TaskFrame ==
  ASSUME TypeOK, NEW o \in Opps, TaskStep(o)
  PROVE  /\ pc[o] \notin {"idle", "done"}
         /\ \A x \in Opps : pc[x] # "idle" <=> pc'[x] # "idle"
         /\ deal' = deal
         /\ \A x \in Opps \ {o} : pc'[x] = pc[x] /\ result'[x] = result[x]
         /\ result'[o].end = "dropped" =>
              \/ result[o].end = "dropped"
              \/ pc'[o] = "done" /\ ~({deal[o].buy, deal[o].sell} \subseteq Connected)
<1>1. Route(o) \in Awaiting
  BY DEF Route, Awaiting
<1>2. CASE Start(o)
  BY <1>1, <1>2 DEF Start, Await, Awaiting, TypeOK
<1>3. CASE Drop(o)
  BY <1>3 DEF Drop, End, TypeOK
<1>4. CASE \E c \in Calls : Return(o, c)
  BY <1>4 DEF Return, Awaiting, TypeOK
<1>5. ASSUME pc[o] \in Awaiting, NEW p \in Awaiting, NEW cs \in SUBSET Calls, Continue(o, p, cs)
      PROVE  /\ pc[o] \notin {"idle", "done"}
             /\ pc' = [pc EXCEPT ![o] = p] /\ p # "idle"
             /\ deal' = deal /\ result' = result
  BY <1>5 DEF Continue, Await, Awaiting
<1>6. ASSUME pc[o] \in Awaiting, NEW res, End(o, res), res.end # "dropped"
      PROVE  /\ pc[o] \notin {"idle", "done"}
             /\ pc' = [pc EXCEPT ![o] = "done"]
             /\ deal' = deal
             /\ result' = [result EXCEPT ![o] = res]
  BY <1>6 DEF End, Awaiting
<1>7. ASSUME pc[o] \in Awaiting, NEW res \in Returned, Finish(o, res)
      PROVE  End(o, res) /\ res.end # "dropped"
  BY <1>7 DEF Finish, Returned
<1>8. ASSUME Fail(o) PROVE End(o, RaisedOut) /\ RaisedOut.end # "dropped"
  BY <1>8 DEF Fail, RaisedOut, ResultOf
<1>9. QED
  BY <1>2, <1>3, <1>4, <1>5, <1>6, <1>7, <1>8, TaskShapes DEF TypeOK

\* A task is cancelled where it stands, and leaves nothing to await.
LEMMA CancelFrame ==
  ASSUME EngineTypeOK, NEW o \in Opps, CancelTask(o)
  PROVE  /\ TypeOK'
         /\ pc[o] # "idle"
         /\ pc' = [pc EXCEPT ![o] = "done"]
         /\ result' = [result EXCEPT ![o] = Cancelled]
         /\ deal' = deal
<1>1. PICK executed \in [waiting[o] -> UNION {Executable(o, c) : c \in waiting[o]}] :
        (\A c \in waiting[o] : executed[c] \in Executable(o, c)) /\ Cancel(o, executed)
  BY DEF CancelTask
<1>2. pc[o] # "idle" /\ pc[o] \in {"spawned"} \cup Awaiting
  BY <1>1 DEF Cancel, Awaiting
<1>3. \A c \in Calls : Quantity(o, c) \in Nat
  <2>1. fill[o]["buy"].qty \in Nat /\ fill[o]["sell"].qty \in Nat
    BY DEF EngineTypeOK, TypeOK, Reports, Calls
  <2>2. QED
    BY <1>2, <2>1, DealType DEF Quantity, EngineTypeOK
<1>4. waiting[o] \subseteq Calls
  BY DEF EngineTypeOK, TypeOK
<1>5. \A c \in waiting[o] : executed[c] \in Nat
  <2>1. \A c \in waiting[o] : Executable(o, c) \subseteq Nat
    BY <1>3, <1>4, ExecutedIsNat DEF Executable
  <2>2. QED
    BY <1>1, <2>1
<1>6. did' \in [Opps -> [Calls -> Nat]]
  <2>1. [c \in Calls |-> IF c \in waiting[o] THEN executed[c] ELSE did[o][c]] \in [Calls -> Nat]
    BY <1>5 DEF EngineTypeOK, TypeOK
  <2>2. QED
    BY <1>1, <2>1 DEF Cancel, EngineTypeOK, TypeOK
<1>7. risk' \in RiskState
  BY <1>1, LedgerType DEF Cancel, EngineTypeOK, TypeOK
<1>8. Cancelled \in Results
  BY DEF Cancelled, ResultOf, Results
<1>9. pc' \in [Opps -> Places] /\ waiting' \in [Opps -> SUBSET Calls] /\ result' \in [Opps -> Results]
  BY <1>1, <1>8 DEF Cancel, EngineTypeOK, TypeOK, Places
<1>10. UNCHANGED <<metrics, deal, fill>>
  BY <1>1 DEF Cancel
<1>11. \A x \in Opps : pc'[x] # "idle" => deal'[x] \in Candidates
  BY <1>1, <1>2, <1>10 DEF Cancel, EngineTypeOK, TypeOK
<1>12. TypeOK'
  BY <1>6, <1>7, <1>9, <1>10, <1>11 DEF EngineTypeOK, TypeOK
<1>13. QED
  BY <1>1, <1>2, <1>12 DEF Cancel
-----------------------------------------------------------------------------
\* Type correctness

LEMMA EngineInitHolds == EngineInit => EngineInv
<1>1. ASSUME EngineInit PROVE EngineTypeOK
  BY <1>1, InitTypes DEF EngineInit, EngineTypeOK, Phases, Starting
<1>2. ASSUME EngineInit PROVE SessionInv /\ StartupInv /\ TaskInv
  BY <1>2 DEF EngineInit, Init, RouterInit, SessionInv, StartupInv, TaskInv, BeforeLive, Starting,
              Unfinished, ResultOf
<1>3. QED
  BY <1>1, <1>2 DEF EngineInv

\* The steps of main() itself and of the signal leave the trading side alone.
LEMMA LifecycleFrame ==
  ASSUME Lifecycle \/ Teardown
  PROVE  UNCHANGED <<vars, config, late>>
BY DEF Lifecycle, Teardown, Load, Connect, ConnectFails, GoLive, OrdersCancelled, Skip, Close,
       Closing, Stop, Exit

\* The venue that start-up or shutdown is at is one of the program's.
LEMMA NextIsVenue ==
  ASSUME EngineTypeOK, next <= Len(config.enabled)
  PROVE  /\ config.enabled[next] \in Venues
         /\ config.enabled[next] \in Enabled
         /\ next \in 1..Len(config.enabled)
<1>1. config.enabled \in Seq(Venues) /\ next \in Nat \ {0}
  BY EngineAssumption DEF EngineTypeOK
<1>2. QED
  BY <1>1 DEF Enabled, EnabledVenues, ToSet

LEMMA LifecycleType ==
  ASSUME EngineTypeOK, Lifecycle \/ Teardown
  PROVE  EngineTypeOK'
<1> USE DEF EngineTypeOK, Enter, Phases, Starting, Running, Ended
<1>1. TypeOK' /\ config' = config /\ late' = late
  BY LifecycleFrame DEF vars, TypeOK
<1>2. next + 1 \in Nat \ {0}
  OBVIOUS
<1>3. CASE Load
  BY <1>1, <1>3 DEF Load
<1>4. CASE GoLive \/ Stop \/ Exit \/ Teardown \/ OrdersCancelled
  BY <1>1, <1>4 DEF GoLive, Stop, Exit, Teardown, OrdersCancelled
<1>5. CASE Connect \/ ConnectFails
  BY <1>1, <1>2, <1>5, NextIsVenue DEF Connect, ConnectFails
<1>6. CASE Skip \/ Close
  BY <1>1, <1>2, <1>6, NextIsVenue DEF Skip, Close, Closing, CloseVenue, Closed, CloseFailed
<1>7. QED
  BY <1>3, <1>4, <1>5, <1>6 DEF Lifecycle

LEMMA RunTaskType ==
  ASSUME EngineTypeOK, NEW o \in Opps, RunTask(o)
  PROVE  EngineTypeOK'
<1>1. TypeOK'
  BY TaskType DEF RunTask, EngineTypeOK
<1>2. late' \subseteq Opps \X Calls
  BY <1>1 DEF RunTask, EngineTypeOK, TypeOK, Made
<1>3. QED
  BY <1>1, <1>2 DEF RunTask, EngineTypeOK

LEMMA EngineStepType ==
  ASSUME EngineTypeOK, [EngineNext]_engineVars
  PROVE  EngineTypeOK'
<1>1. CASE Lifecycle \/ Teardown
  BY <1>1, LifecycleType
<1>2. CASE Loops
  <2>1. TypeOK'
    BY <1>2, StepTypes DEF Loops, Next, EngineTypeOK
  <2>2. QED
    BY <1>2, <2>1 DEF Loops, lifeVars, EngineTypeOK
<1>3. ASSUME NEW o \in Opps, RunTask(o) PROVE EngineTypeOK'
  BY <1>3, RunTaskType
<1>4. ASSUME NEW o \in Opps, CancelTask(o) PROVE EngineTypeOK'
  BY <1>4, CancelFrame DEF CancelTask, lifeVars, EngineTypeOK
<1>5. CASE UNCHANGED engineVars
  BY <1>5 DEF engineVars, vars, lifeVars, EngineTypeOK, TypeOK
<1>6. QED
  BY <1>1, <1>2, <1>3, <1>4, <1>5 DEF EngineNext
-----------------------------------------------------------------------------
\* The invariant

\* What lets tasks run leaves the sessions alone.
LEMMA SessionsOfTasks ==
  ASSUME SessionInv, UNCHANGED <<config, phase, next, sessions, raised>>
  PROVE  SessionInv'
BY DEF SessionInv, Enabled

LEMMA LifecycleSessions ==
  ASSUME EngineInv, Lifecycle \/ Teardown
  PROVE  SessionInv'
<1> USE DEF EngineInv, SessionInv, Enter, Enabled
<1>1. config' = config
  BY LifecycleFrame
<1>2. next \in Nat /\ Len(config.enabled) \in Nat
  BY EngineAssumption DEF EngineTypeOK
<1>3. CASE Load \/ GoLive \/ Exit \/ Teardown
  BY <1>1, <1>3 DEF Load, GoLive, Exit, Teardown
<1>4. CASE Stop
  BY <1>1, <1>2, <1>4 DEF Stop
<1>5. CASE Connect \/ ConnectFails
  BY <1>1, <1>5, NextIsVenue DEF Connect, ConnectFails
<1>6. CASE OrdersCancelled
  <2>1. \A v \in EnabledVenues(config) : \E i \in 1..Len(config.enabled) : v = config.enabled[i]
    BY EngineAssumption DEF EngineTypeOK, EnabledVenues, ToSet
  <2>2. QED
    BY <1>1, <1>6, <2>1 DEF OrdersCancelled
<1>7. CASE Skip
  BY <1>1, <1>2, <1>7 DEF Skip, Closing
<1>8. CASE Close
  BY <1>1, <1>2, <1>8 DEF Close, Closing, CloseVenue, Closed, CloseFailed
<1>9. QED
  BY <1>3, <1>4, <1>5, <1>6, <1>7, <1>8 DEF Lifecycle

LEMMA LifecycleStartup ==
  ASSUME EngineInv, Lifecycle \/ Teardown
  PROVE  StartupInv'
<1> USE DEF EngineInv, StartupInv, BeforeLive, Starting, Enter, Enabled
<1>1. config' = config /\ pc' = pc
  BY LifecycleFrame DEF vars
<1>2. next \in Nat /\ Len(config.enabled) \in Nat
  BY EngineAssumption DEF EngineTypeOK
<1>3. CASE Load
  BY <1>1, <1>3 DEF Load
<1>4. CASE Connect \/ ConnectFails
  BY <1>1, <1>2, <1>4 DEF Connect, ConnectFails
<1>5. CASE GoLive
  <2>1. EnabledVenues(config) = {config.enabled[i] : i \in 1..Len(config.enabled)}
    BY EngineAssumption DEF EngineTypeOK, EnabledVenues, ToSet
  <2>2. QED
    BY <1>1, <1>2, <1>5, <2>1 DEF GoLive
<1>6. CASE Teardown \/ OrdersCancelled \/ Stop \/ Exit
  BY <1>1, <1>6 DEF Teardown, OrdersCancelled, Stop, Exit
<1>7. CASE Skip \/ Close
  BY <1>1, <1>7 DEF Skip, Close, Closing, CloseVenue, Closed, CloseFailed
<1>8. QED
  BY <1>3, <1>4, <1>5, <1>6, <1>7 DEF Lifecycle

LEMMA LifecycleTasks ==
  ASSUME EngineInv, Lifecycle \/ Teardown
  PROVE  TaskInv'
<1>1. UNCHANGED <<config, pc, deal, result>>
  BY LifecycleFrame DEF vars
<1>2. QED
  BY <1>1 DEF EngineInv, TaskInv, Enabled

\* The detection loop makes tasks of the configured pairs, all of enabled
\* venues.
LEMMA LoopsKeep ==
  ASSUME EngineInv, Loops
  PROVE  StartupInv' /\ TaskInv'
<1> USE DEF EngineInv
<1>1. phase = "live" /\ UNCHANGED lifeVars
  BY DEF Loops
<1>2. StartupInv'
  BY <1>1 DEF StartupInv, BeforeLive, Starting, Enabled, lifeVars
<1>3. CASE AuditTick \/ FeedStale
  BY <1>1, <1>2, <1>3 DEF AuditTick, FeedStale, TaskInv, Enabled, lifeVars
<1>4. CASE Detect /\ OfPairs'
  <2>1. PICK batch \in SUBSET Opps : \E found \in [batch -> Candidates] : Scan(batch, found)
    BY <1>4 DEF Detect
  <2>2. PICK found \in [batch -> Candidates] : Scan(batch, found)
    BY <2>1
  <2>3. /\ pc' = [o \in Opps |-> IF o \in batch THEN "spawned" ELSE pc[o]]
        /\ deal' = [o \in Opps |-> IF o \in batch THEN found[o] ELSE deal[o]]
        /\ result' = result
        /\ \A o \in batch : pc[o] = "idle"
    BY <2>2 DEF Scan
  <2>4. \A o \in batch : {deal'[o].buy, deal'[o].sell} \subseteq EnabledVenues(config)
    <3>1. \A pair \in config.pairs : {pair.buy, pair.sell} \subseteq EnabledVenues(config)
      BY <1>1 DEF EngineTypeOK, Valid, PairsReferenceKnownVenues
    <3>2. \A o \in batch : o \in Spawned'
      BY <2>3 DEF Spawned
    <3>3. \A o \in batch : \E pair \in config.pairs : pair.buy = deal'[o].buy /\ pair.sell = deal'[o].sell
      BY <1>1, <1>4, <3>2 DEF OfPairs, lifeVars
    <3>4. QED
      BY <3>1, <3>3
  <2>5. QED
    BY <1>1, <1>2, <2>3, <2>4 DEF TaskInv, Enabled, lifeVars
<1>5. QED
  BY <1>2, <1>3, <1>4 DEF Loops

LEMMA RunTaskKeeps ==
  ASSUME EngineInv, NEW o \in Opps, RunTask(o)
  PROVE  SessionInv' /\ StartupInv' /\ TaskInv'
<1> USE DEF EngineInv
<1>1. TypeOK /\ TaskStep(o) /\ UNCHANGED <<config, phase, next, sessions, raised>> /\ phase \in Running
  BY DEF RunTask, EngineTypeOK
<1>2. SessionInv'
  BY <1>1, SessionsOfTasks
<1>3. StartupInv'
  BY <1>1, TaskFrame DEF StartupInv, BeforeLive, Starting, Running, Enabled
<1>4. TaskInv'
  BY <1>1, TaskFrame DEF TaskInv, Enabled
<1>5. QED
  BY <1>2, <1>3, <1>4

LEMMA CancelTaskKeeps ==
  ASSUME EngineInv, NEW o \in Opps, CancelTask(o)
  PROVE  SessionInv' /\ StartupInv' /\ TaskInv'
<1> USE DEF EngineInv
<1>1. UNCHANGED <<config, phase, next, sessions, raised>> /\ phase = "stopping"
  BY DEF CancelTask, lifeVars
<1>2. SessionInv'
  BY <1>1, SessionsOfTasks
<1>3. StartupInv'
  BY <1>1 DEF StartupInv, BeforeLive, Starting, Enabled
<1>4. TaskInv'
  <2>1. /\ pc' = [pc EXCEPT ![o] = "done"] /\ pc[o] # "idle"
        /\ result' = [result EXCEPT ![o] = Cancelled]
        /\ deal' = deal
    BY CancelFrame
  <2>2. Cancelled.end # "dropped"
    BY DEF Cancelled, ResultOf
  <2>3. pc \in [Opps -> Places] /\ result \in [Opps -> Results]
    BY DEF EngineTypeOK, TypeOK
  <2>4. QED
    BY <1>1, <2>1, <2>2, <2>3 DEF TaskInv, Enabled
<1>5. QED
  BY <1>2, <1>3, <1>4

LEMMA EngineStepHolds == EngineInv /\ [EngineNext]_engineVars => EngineInv'
<1> SUFFICES ASSUME EngineInv, [EngineNext]_engineVars PROVE EngineInv'
  OBVIOUS
<1>1. EngineTypeOK'
  BY EngineStepType DEF EngineInv
<1>2. CASE Lifecycle \/ Teardown
  BY <1>1, <1>2, LifecycleSessions, LifecycleStartup, LifecycleTasks DEF EngineInv
<1>3. CASE Loops
  <2>1. SessionInv'
    BY <1>3, SessionsOfTasks DEF Loops, lifeVars, EngineInv
  <2>2. QED
    BY <1>1, <1>3, <2>1, LoopsKeep DEF EngineInv
<1>4. ASSUME NEW o \in Opps, RunTask(o) PROVE EngineInv'
  BY <1>1, <1>4, RunTaskKeeps DEF EngineInv
<1>5. ASSUME NEW o \in Opps, CancelTask(o) PROVE EngineInv'
  BY <1>1, <1>5, CancelTaskKeeps DEF EngineInv
<1>6. CASE UNCHANGED engineVars
  BY <1>1, <1>6 DEF engineVars, vars, lifeVars, EngineInv, SessionInv, StartupInv, TaskInv,
                    BeforeLive, Enabled
<1>7. QED
  BY <1>2, <1>3, <1>4, <1>5, <1>6 DEF EngineNext

LEMMA EngineInvariance == EngineSpec => []EngineInv
BY EngineInitHolds, EngineStepHolds, PTL DEF EngineSpec
-----------------------------------------------------------------------------
\* The trading side, run and cancelled by the engine, and the engine's own
\* variables keep their types; past load() the configuration is valid.
THEOREM EngineTypeCorrect == EngineSpec => []EngineTypeOK
<1>1. EngineInv => EngineTypeOK
  BY DEF EngineInv
<1>2. QED
  BY <1>1, EngineInvariance, PTL

\* Whichever venues fail to connect or to close, and whatever the tasks do
\* meanwhile, the program exits with no session open but theirs
\* (engine.py:163-167, factory.py:46-49).
THEOREM SessionsAreClosed == EngineSpec => []SessionsAccounted
<1>1. EngineInv => SessionsAccounted
  BY DEF EngineInv, SessionInv, SessionsAccounted
<1>2. QED
  BY <1>1, EngineInvariance, PTL

\* An accepted configuration cannot lose an opportunity to a venue that is
\* not enabled: "missing venue" always stands for a connect() that failed
\* (config.py:227-237, router.py:81-84).
THEOREM DropsAreConnectFailures == EngineSpec => []DropsAreFailures
<1>1. EngineInv => DropsAreFailures
  <2> SUFFICES ASSUME EngineInv, NEW o \in Opps, result[o].end = "dropped"
               PROVE  {deal[o].buy, deal[o].sell} \cap raised # {}
    BY DEF DropsAreFailures
  <2>1. /\ pc[o] = "done"
        /\ {deal[o].buy, deal[o].sell} \subseteq Enabled
        /\ ~({deal[o].buy, deal[o].sell} \subseteq Connected)
    BY DEF EngineInv, TaskInv
  <2>2. Enabled \subseteq Connected \cup raised
    BY <2>1 DEF EngineInv, StartupInv
  <2>3. QED
    BY <2>1, <2>2
<1>2. QED
  BY <1>1, EngineInvariance, PTL
-----------------------------------------------------------------------------
\* The ledger at exit

\* A task that is cancelled leaves by the finally block with what it owed;
\* one that never ran owes nothing.
LEMMA CancelKeepsLedger ==
  ASSUME EngineTypeOK, LedgerInv, NEW o \in Opps, CancelTask(o)
  PROVE  LedgerInv'
<1>1. TypeOK /\ risk \in RiskState /\ pc \in [Opps -> Places] /\ SameLedger(risk, risk)
  BY DEF EngineTypeOK, TypeOK, SameLedger
<1>2. /\ pc' = [pc EXCEPT ![o] = "done"] /\ deal' = deal
      /\ risk' = IF pc[o] = "spawned" THEN risk ELSE ReleaseOrder(risk, o)
  BY DEF CancelTask, Cancel
<1>3. CASE pc[o] = "spawned"
  <2>1. \A x \in Opps : Owed(x)' = Owed(x)
    BY <1>1, <1>2, <1>3 DEF Owed, Awaiting
  <2>2. QED
    BY <1>1, <1>2, <1>3, <2>1, SameLedgerKept
<1>4. CASE pc[o] # "spawned"
  BY <1>1, <1>2, <1>4, EndKeepsLedger
<1>5. QED
  BY <1>3, <1>4

\* By then asyncio.run has ended every task.
NoneLeft == phase = "exited" => \A o \in Opps : pc[o] \in {"idle", "done"}

LEMMA EngineKeepsLedger ==
  ASSUME EngineTypeOK, LedgerInv, NoneLeft, [EngineNext]_engineVars
  PROVE  LedgerInv' /\ NoneLeft'
<1>1. TypeOK
  BY DEF EngineTypeOK
<1>2. CASE Lifecycle \/ Teardown
  <2>1. UNCHANGED vars
    BY <1>2, LifecycleFrame
  <2>2. LedgerInv'
    BY <1>1, <2>1, StepKeepsLedger
  <2>3. phase' = "exited" => \A o \in Opps : pc[o] \in {"idle", "done"}
    BY <1>2 DEF Lifecycle, Teardown, Load, Connect, ConnectFails, GoLive, OrdersCancelled, Skip,
                Close, Closing, CloseVenue, Stop, Exit, Enter, NoneLeft
  <2>4. QED
    BY <2>1, <2>2, <2>3 DEF vars, NoneLeft
<1>3. CASE Loops
  BY <1>1, <1>3, StepKeepsLedger DEF Loops, Next, NoneLeft, lifeVars
<1>4. ASSUME NEW o \in Opps, RunTask(o) PROVE LedgerInv' /\ NoneLeft'
  BY <1>1, <1>4, TaskKeepsLedger DEF RunTask, NoneLeft, Running
<1>5. ASSUME NEW o \in Opps, CancelTask(o) PROVE LedgerInv' /\ NoneLeft'
  BY <1>5, CancelKeepsLedger DEF CancelTask, lifeVars, NoneLeft
<1>6. CASE UNCHANGED engineVars
  BY <1>1, <1>6, StepKeepsLedger DEF engineVars, vars, lifeVars, NoneLeft
<1>7. QED
  BY <1>2, <1>3, <1>4, <1>5, <1>6 DEF EngineNext

\* However each execution ends, by itself or cancelled at any of its awaits
\* or before it ran, the program exits with nothing open in the ledger
\* (router.py:107-109).
THEOREM LedgerEndsEmpty == EngineSpec => []LedgerEmptyAtExit
<1>1. EngineInit => LedgerInv /\ NoneLeft
  BY InitLedger DEF EngineInit, NoneLeft
<1>2. EngineTypeOK /\ LedgerInv /\ NoneLeft => LedgerEmptyAtExit
  <2> SUFFICES ASSUME EngineTypeOK, LedgerInv, NoneLeft, phase = "exited"
               PROVE  risk.open = 0 /\ \A o \in Opps : risk.orders[o] = 0
    BY DEF LedgerEmptyAtExit
  <2>1. \A o \in Opps : risk.orders[o] = 0
    BY DEF LedgerInv, NoneLeft, Owed, Awaiting
  <2>2. SumFunctionOnSet(risk.orders, Opps) = SumFunctionOnSet(risk.orders, {})
    BY <2>1, TradingAssumption, SumOfNonzero
  <2>3. QED
    BY <2>1, <2>2, SumOfNone DEF LedgerInv
<1>3. QED
  BY <1>1, <1>2, EngineKeepsLedger, EngineTypeCorrect, PTL DEF EngineSpec
-----------------------------------------------------------------------------
\* The naked leg at exit

\* An execution that was cancelled stays so; every other one is as in Trading.
LegOrCancelled(o) == LegInv(o) \/ (pc[o] = "done" /\ result[o].end = "cancelled")

LEMMA StepKeepsLegsOrCancels ==
  ASSUME EngineTypeOK, [EngineNext]_engineVars, NEW x \in Opps, LegOrCancelled(x)
  PROVE  LegOrCancelled(x)'
<1>1. TypeOK
  BY DEF EngineTypeOK
<1>2. CASE [Next]_vars
  <2>1. CASE LegInv(x)
    BY <1>1, <1>2, <2>1, StepKeepsLegs DEF LegOrCancelled
  <2>2. CASE pc[x] = "done" /\ result[x].end = "cancelled"
    <3>1. pc'[x] = pc[x] /\ result'[x] = result[x]
      <4>1. CASE Detect \/ AuditTick \/ FeedStale \/ UNCHANGED vars
        BY <2>2, <4>1 DEF Detect, Scan, AuditTick, FeedStale, vars
      <4>2. ASSUME NEW o \in Opps, TaskStep(o) PROVE x # o
        BY <1>1, <2>2, <4>2, TaskFrame
      <4>3. QED
        BY <1>1, <1>2, <4>1, <4>2, OthersStay DEF Next
    <3>2. QED
      BY <2>2, <3>1 DEF LegOrCancelled
  <2>3. QED
    BY <2>1, <2>2 DEF LegOrCancelled
<1>3. ASSUME NEW o \in Opps, CancelTask(o) PROVE LegOrCancelled(x)'
  <2>1. CASE x = o
    BY <1>1, <1>3, <2>1, CancelFrame DEF LegOrCancelled, Cancelled, ResultOf, TypeOK
  <2>2. CASE x # o
    <3>1. /\ pc'[x] = pc[x] /\ waiting'[x] = waiting[x] /\ fill'[x] = fill[x]
          /\ did'[x] = did[x] /\ result'[x] = result[x] /\ deal'[x] = deal[x]
      BY <1>1, <1>3, <2>2 DEF CancelTask, Cancel, TypeOK
    <3>2. QED
      BY <3>1, LegsOfOthers DEF LegOrCancelled
  <2>3. QED
    BY <2>1, <2>2
<1>4. CASE Lifecycle \/ Teardown
  BY <1>2, <1>4, LifecycleFrame
<1>5. CASE Loops
  BY <1>2, <1>5 DEF Loops, Next
<1>6. ASSUME NEW o \in Opps, RunTask(o) PROVE LegOrCancelled(x)'
  BY <1>2, <1>6 DEF RunTask, Next
<1>7. CASE UNCHANGED engineVars
  BY <1>2, <1>7 DEF engineVars
<1>8. QED
  BY <1>3, <1>4, <1>5, <1>6, <1>7 DEF EngineNext

\* A naked leg that is left when the program exits was flagged, met one of
\* the four cases the router does not look at, or is of an execution that
\* was cancelled or raised: a teardown that closes the sessions under an
\* unwind adds no silent way (router.py:242-260, engine.py:161-167).
THEOREM ExitsAreExplained == EngineSpec => []ExitExplained
<1>1. EngineInit => \A x \in Opps : LegOrCancelled(x)
  BY InitLegs DEF EngineInit, LegOrCancelled
<1>2. EngineTypeOK /\ (\A x \in Opps : LegOrCancelled(x)) /\ [EngineNext]_engineVars
        => (\A x \in Opps : LegOrCancelled(x))'
  BY StepKeepsLegsOrCancels
<1>3. EngineTypeOK /\ (\A x \in Opps : LegOrCancelled(x)) => ExitExplained
  <2> SUFFICES ASSUME EngineTypeOK, NEW o \in Opps, LegOrCancelled(o), pc[o] = "done", Naked(o)
               PROVE  \/ result[o].unwind_failed \/ result[o].end \in {"cancelled", "raised"}
                      \/ Misreported(o) \/ PartialIgnored(o) \/ ShortUnwind(o) \/ ShortSecondLeg(o)
    BY DEF ExitExplained
  <2>1. CASE result[o].end \in {"cancelled", "raised"}
    BY <2>1
  <2>2. CASE result[o].end \notin {"cancelled", "raised"}
    BY <2>2 DEF LegOrCancelled, LegInv, Explained, RaisedAfterFill
  <2>3. QED
    BY <2>1, <2>2
<1>4. QED
  BY <1>1, <1>2, <1>3, EngineTypeCorrect, PTL DEF EngineSpec
=============================================================================

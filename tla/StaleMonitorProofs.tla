-------------------------- MODULE StaleMonitorProofs --------------------------
(***************************************************************************)
(* The bound on a silent feed, for every number of books and every timing. *)
(* What makes it inductive is what a round of the monitor that did not     *)
(* halt has seen: no delivered book older than StaleAge at the time it     *)
(* ran, which is one Period before the next one is due.                    *)
(***************************************************************************)
EXTENDS StaleMonitor, TLAPS

\* What the feedback of an execution, the audit and the stale-feed callback
\* make of a risk record has its type.
LEMMA FeedbackType ==
  ASSUME NEW r \in RiskState
  PROVE  /\ CountFailure(r) \in RiskState
         /\ RecordTradeResult(r, TRUE, 0) \in RiskState
         /\ Audit(r) \in RiskState
         /\ Halt(r) \in RiskState
<1> USE LimitsAssumption DEF RiskState, TradingState
<1>1. CountFailure(r) \in RiskState
  <2>1. \A q \in RiskState : CheckCircuitBreakers(q) \in RiskState
    BY DEF CheckCircuitBreakers, Pause
  <2>2. QED
    BY <2>1 DEF CountFailure
<1>2. RecordTradeResult(r, TRUE, 0) \in RiskState
  <2> DEFINE total == r.realized + 0
             q == [r EXCEPT !.failures = 0, !.realized = total]
             peak == IF q.realized > q.peak THEN q.realized ELSE q.peak
             drop == peak - q.realized
  <2>1. total \in Int
    OBVIOUS
  <2>2. RecordTradeResult(r, TRUE, 0) = [q EXCEPT !.peak = peak, !.drawdown = drop]
    BY Zenon DEF RecordTradeResult, UpdateDrawdown
  <2> HIDE DEF total
  <2>3. q \in RiskState
    BY <2>1
  <2> HIDE DEF q
  <2>4. peak \in Int /\ drop \in Int
    BY <2>3
  <2> HIDE DEF peak, drop
  <2>5. [q EXCEPT !.peak = peak, !.drawdown = drop] \in RiskState
    BY <2>3, <2>4
  <2>6. QED
    BY <2>2, <2>5, Zenon
<1>3. Halt(r) \in RiskState
  BY DEF Halt
<1>4. Audit(r) \in RiskState
  BY DEF Audit, CheckDrawdownLimit, ConditionsRecovered, Halt
<1>5. QED
  BY <1>1, <1>2, <1>3, <1>4, Zenon

\* No feedback and no audit lifts a halt.
LEMMA HaltStays ==
  ASSUME NEW r \in RiskState, r.state = "halted"
  PROVE  /\ CountFailure(r).state = "halted"
         /\ RecordTradeResult(r, TRUE, 0).state = "halted"
         /\ Audit(r).state = "halted"
         /\ Halt(r).state = "halted"
<1> USE DEF RiskState, TradingState
<1>1. CountFailure(r).state = "halted"
  BY DEF CountFailure, CheckCircuitBreakers, Pause
<1>2. RecordTradeResult(r, TRUE, 0).state = "halted"
  BY DEF RecordTradeResult, UpdateDrawdown
<1>3. Halt(r).state = "halted"
  BY DEF Halt
<1>4. Audit(r).state = "halted"
  BY <1>3 DEF Audit, CheckDrawdownLimit
<1>5. QED
  BY <1>1, <1>2, <1>3, <1>4

MonitorInv ==
  /\ TypeOK
  /\ now <= due + Lateness
  /\ due <= now + Period
  /\ ReportedAge > StaleThreshold =>
       risk.state = "halted"
       \/ \A k \in Books : last[k] # Never => due <= last[k] + StaleAge + Period

\* A step of the monitor, a feed or the clock keeps the types.
LEMMA MonitorType ==
  ASSUME TypeOK, [Next]_vars
  PROVE  TypeOK'
<1> USE MonitorAssumption, LimitsAssumption
<1>1. ASSUME NEW k \in Books, Update(k) PROVE TypeOK'
  BY <1>1 DEF Update, TypeOK
<1>2. CASE Check
  <2>1. Halt(risk) \in RiskState
    BY FeedbackType DEF TypeOK
  <2>2. risk' \in RiskState
    BY <1>2, <2>1 DEF Check, HandleFeedStale, TypeOK
  <2>3. QED
    BY <1>2, <2>2 DEF Check, TypeOK
<1>3. CASE Feedback
  <2>1. risk' \in RiskState
    <3>1. risk \in RiskState
      BY DEF TypeOK
    <3>2. QED
      BY <1>3, <3>1, FeedbackType DEF Feedback
  <2>2. QED
    BY <1>3, <2>1 DEF Feedback, TypeOK
<1>4. CASE Tick
  BY <1>4 DEF Tick, TypeOK
<1>5. CASE UNCHANGED vars
  BY <1>5 DEF vars, TypeOK
<1>6. QED
  BY <1>1, <1>2, <1>3, <1>4, <1>5 DEF Next

\* Every step keeps what the last round of the monitor has seen.
LEMMA MonitorStep ==
  ASSUME MonitorInv, [Next]_vars
  PROVE  MonitorInv'
<1> USE MonitorAssumption
<1>0. TypeOK' /\ now \in Nat /\ due \in Nat /\ last \in [Books -> 0..now]
  BY MonitorType DEF MonitorInv, TypeOK
<1>1. ASSUME NEW k \in Books, Update(k) PROVE MonitorInv'
  BY <1>0, <1>1 DEF Update, MonitorInv
<1>2. CASE Check
  <2>1. now' <= due' + Lateness /\ due' <= now' + Period
    BY <1>0, <1>2 DEF Check
  <2>2. CASE Stale = {}
    <3>1. \A k \in Books : last[k] # Never => now <= last[k] + StaleAge
      BY <1>0, <2>2 DEF Stale, Never
    <3>2. \A k \in Books : last[k] # Never => due' <= last[k] + StaleAge + Period
      BY <1>0, <1>2, <3>1 DEF Check
    <3>3. QED
      BY <1>0, <1>2, <2>1, <3>2 DEF Check, MonitorInv
  <2>3. CASE Stale # {} /\ ReportedAge > StaleThreshold
    <3>1. risk' = Halt(risk)
      BY <1>2, <2>3 DEF Check, HandleFeedStale
    <3>2. risk'.state = "halted"
      BY <3>1 DEF Halt, MonitorInv, TypeOK, RiskState
    <3>3. QED
      BY <1>0, <2>1, <3>2 DEF MonitorInv
  <2>4. QED
    BY <1>0, <2>1, <2>2, <2>3 DEF MonitorInv
<1>3. CASE Feedback
  <2>1. risk.state = "halted" => risk'.state = "halted"
    BY <1>3, HaltStays DEF Feedback, MonitorInv, TypeOK
  <2>2. QED
    BY <1>0, <1>3, <2>1 DEF Feedback, MonitorInv
<1>4. CASE Tick
  BY <1>0, <1>4 DEF Tick, MonitorInv
<1>5. CASE UNCHANGED vars
  BY <1>0, <1>5 DEF vars, MonitorInv
<1>6. QED
  BY <1>1, <1>2, <1>3, <1>4, <1>5 DEF Next

LEMMA MonitorInit == Init => MonitorInv
BY MonitorAssumption
DEF Init, MonitorInv, TypeOK, InitialRisk, RiskState, TradingState, Never

\* The clock, the update times and the risk state keep their types; no book
\* is stamped ahead of the clock.
THEOREM TypeCorrect == Spec => []TypeOK
<1>1. Init => TypeOK
  BY MonitorInit DEF MonitorInv
<1>2. TypeOK /\ [Next]_vars => TypeOK'
  BY MonitorType
<1>3. QED
  BY <1>1, <1>2, PTL DEF Spec

\* A feed that goes silent halts trading within StaleAge, one period of the
\* monitor and its lateness.
THEOREM SilenceIsHalted == Spec => []SilenceHalts
<1>1. Init => MonitorInv
  BY MonitorInit
<1>2. MonitorInv /\ [Next]_vars => MonitorInv'
  BY MonitorStep
<1>3. MonitorInv => SilenceHalts
  <2> SUFFICES ASSUME MonitorInv, ReportedAge > StaleThreshold, NEW k \in Books,
                      last[k] # Never, SilentFor(k) > Reaction
               PROVE  risk.state = "halted"
    BY DEF SilenceHalts
  <2>1. now \in Nat /\ due \in Nat /\ last[k] \in Nat /\ now <= due + Lateness
    BY DEF MonitorInv, TypeOK
  <2>2. now > last[k] + StaleAge + Period + Lateness
    BY <2>1, MonitorAssumption DEF SilentFor, Reaction
  <2>3. ~(due <= last[k] + StaleAge + Period)
    BY <2>1, <2>2, MonitorAssumption
  <2>4. QED
    BY <2>3 DEF MonitorInv
<1>4. QED
  BY <1>1, <1>2, <1>3, PTL DEF Spec
=============================================================================

----------------------------- MODULE StaleMonitor -----------------------------
(***************************************************************************)
(* engine.py's stale-feed monitor over the update times of the books, and  *)
(* the halt it asks the risk manager for, while the other breakers move    *)
(* the same risk state.  Time is counted in ticks; an update that never    *)
(* came has time 0, as last_update_ns does.                                *)
(***************************************************************************)
EXTENDS RiskManager

CONSTANTS
  Books,     \* the keys of _books
  StaleAge,  \* _STALE_NS
  Period,    \* the monitor's sleep
  Lateness,  \* bound: how late the loop runs the monitor
  Horizon    \* bound: the last tick

ASSUME MonitorAssumption ==
  {StaleAge, Period, Lateness, Horizon} \subseteq Nat \ {0}

VARIABLES
  now,   \* time.time_ns()
  last,  \* last_update_ns of each book
  due,   \* when the monitor wakes next
  risk

vars == <<now, last, due, risk>>

Never == 0

Init ==
  /\ now = 1
  /\ last = [k \in Books |-> Never]
  /\ due = now + Period
  /\ risk = InitialRisk

\* Mutant: a book is stamped by the venue's clock, which runs ahead.
UpdateByVenueClock(k) ==
  /\ last' = [last EXCEPT ![k] = now + 1]
  /\ UNCHANGED <<now, due, risk>>

\* handle_update of any message, also an empty one
Update(k) ==
  /\ last' = [last EXCEPT ![k] = now]
  /\ UNCHANGED <<now, due, risk>>

\* Mutant: a venue is stale when all of its books are.
AllStale == {k \in Books : \A b \in Books : last[b] > Never /\ last[b] < now - StaleAge}

\* get_stale_venues
Stale == {k \in Books : last[k] > Never /\ last[k] < now - StaleAge}

\* One round of the monitor: every stale book is reported.
Check ==
  /\ now >= due
  /\ due' = now + Period
  /\ risk' = IF Stale = {} THEN risk ELSE HandleFeedStale(risk, ReportedAge)
  /\ UNCHANGED <<now, last>>

\* An execution ended or the audit ran; failures stop at their limit.
Feedback ==
  /\ \/ risk.failures < MaxFailures /\ risk' = CountFailure(risk)
     \/ risk' = RecordTradeResult(risk, TRUE, 0)
     \/ risk' = Audit(risk)
  /\ UNCHANGED <<now, last, due>>

Tick ==
  /\ now < Horizon
  /\ now < due + Lateness
  /\ now' = now + 1
  /\ UNCHANGED <<last, due, risk>>

Next == (\E k \in Books : Update(k)) \/ Check \/ Feedback \/ Tick

Spec == Init /\ [][Next]_vars

-----------------------------------------------------------------------------
\* Properties

TypeOK ==
  /\ now \in Nat /\ due \in Nat
  /\ last \in [Books -> 0..now]
  /\ risk \in RiskState

SilentFor(k) == now - last[k]

\* The longest a delivered book can be silent before the monitor has seen
\* it: the age itself, a whole sleep and the lateness of the wake-up.
Reaction == StaleAge + Period + Lateness

\* A feed that goes silent halts trading, whatever the other feeds and the
\* other breakers do, if the configured threshold is under the age the
\* monitor reports (engine.py:123-133, manager.py:144-148).
SilenceHalts ==
  ReportedAge > StaleThreshold =>
    \A k \in Books :
      last[k] # Never /\ SilentFor(k) > Reaction => risk.state = "halted"
=============================================================================

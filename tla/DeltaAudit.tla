------------------------------ MODULE DeltaAudit ------------------------------
(***************************************************************************)
(* The risk loop's view of what the venues hold: _collect_positions asks   *)
(* one venue after another, with an await for each, _sync_positions puts   *)
(* the answers in one dict and _check_delta adds them up.  Meanwhile the   *)
(* executions go on trading.  A position is its quantity at its entry      *)
(* price, in dollars.                                                      *)
(***************************************************************************)
EXTENDS Integers, SequencesExt

CONSTANTS
  Order,      \* the names of self._venues in their order
  SpotVenues, \* those configured for spot
  Symbols,
  MaxHeld,    \* bound: dollars of one symbol at one venue
  MaxTrades,  \* bound: orders the venues execute
  Threshold   \* delta_threshold_usd

ASSUME AuditAssumption ==
  /\ Order \in Seq(STRING) /\ SpotVenues \subseteq ToSet(Order)
  /\ IsFiniteSet(Symbols)
  /\ MaxHeld \in Nat /\ MaxTrades \in Nat /\ Threshold \in Nat

Venues == ToSet(Order)

VARIABLES
  hold,       \* what each venue holds of each symbol
  trades,     \* orders executed so far
  asked,      \* venues the collection has asked; 0 while the loop sleeps
  collected,  \* the positions it has got
  missed,     \* venues that failed to answer it
  moved,      \* a venue traded since it began
  positions,  \* _positions
  netDelta,   \* net_delta_usd
  warned      \* the last audit logged a delta exposure

loopVars == <<asked, collected, missed, positions, netDelta, warned>>
vars == <<hold, trades, moved, loopVars>>

Position(v, key, usd) == [venue |-> v, key |-> key, usd |-> usd]

Init ==
  /\ hold = [v \in Venues |-> [s \in Symbols |-> 0]]
  /\ trades = 0 /\ asked = 0 /\ collected = {} /\ missed = {} /\ moved = FALSE
  /\ positions = {} /\ netDelta = 0 /\ warned = FALSE

Total(held) == SumFunction([p \in held |-> p.usd])

\* An order is executed.
Trade(v, s, usd) ==
  /\ trades < MaxTrades /\ trades' = trades + 1
  /\ hold[v][s] + usd \in -MaxHeld..MaxHeld
  /\ hold' = [hold EXCEPT ![v][s] = @ + usd]
  /\ moved' = (asked > 0)
  /\ UNCHANGED loopVars

-----------------------------------------------------------------------------
\* get_positions

Live(v) == {s \in Symbols : hold[v][s] # 0}

\* Kraken and Lighter report none, and neither do Binance and Bybit when
\* they are configured for spot.
ReportsNone(v) == v \in {"kraken", "lighter"} \cup SpotVenues

\* The positions of v that can be left in the dict.  Hyperliquid's parser
\* takes the type of a position for its symbol, and that is the same for all
\* of them: the last one of the answer stays.
Kept(v) ==
  IF ReportsNone(v) \/ Live(v) = {} THEN {{}}
  ELSE IF v = "hyperliquid" THEN {{Position(v, "type", hold[v][s])} : s \in Live(v)}
  ELSE {{Position(v, s, hold[v][s]) : s \in Live(v)}}

\* The sleep ends and the first venue is asked.
Wake ==
  /\ asked = 0
  /\ asked' = 1
  /\ moved' = FALSE
  /\ UNCHANGED <<hold, trades, collected, missed, positions, netDelta, warned>>

\* The venue at hand answers.
Answer ==
  /\ asked \in DOMAIN Order
  /\ \E kept \in Kept(Order[asked]) : collected' = collected \cup kept
  /\ asked' = asked + 1
  /\ UNCHANGED <<hold, trades, moved, missed, positions, netDelta, warned>>

\* Mutant: the failure of a venue ends the loop.
FailureStops ==
  /\ asked \in DOMAIN Order
  /\ ~ReportsNone(Order[asked])
  /\ missed' = missed \cup {Order[asked]}
  /\ asked' = -1
  /\ UNCHANGED <<hold, trades, moved, collected, positions, netDelta, warned>>

\* It fails: Binance raises, which drops it from the results, and the others
\* answer an empty list.
Failure ==
  /\ asked \in DOMAIN Order
  /\ ~ReportsNone(Order[asked])
  /\ missed' = missed \cup {Order[asked]}
  /\ asked' = asked + 1
  /\ UNCHANGED <<hold, trades, moved, collected, positions, netDelta, warned>>

-----------------------------------------------------------------------------
\* audit

\* Mutant: the dict is not cleared.
SyncOnly == positions' = positions \cup collected

\* _sync_positions
SyncPositions == positions' = collected

\* _check_delta: every position the parsers make is a perpetual, which
\* counts negatively.
CheckDelta ==
  /\ netDelta' = -Total(positions')
  /\ warned' = (netDelta' > Threshold \/ netDelta' < -Threshold)

\* Mutant: the results outlive the audit.
AuditKeepsResults ==
  /\ asked > Len(Order)
  /\ SyncPositions
  /\ CheckDelta
  /\ asked' = 0 /\ missed' = {} /\ UNCHANGED collected
  /\ UNCHANGED <<hold, trades, moved>>

\* All venues were asked: the audit runs and the loop sleeps.
Audit ==
  /\ asked > Len(Order)
  /\ SyncPositions
  /\ CheckDelta
  /\ asked' = 0 /\ collected' = {} /\ missed' = {}
  /\ UNCHANGED <<hold, trades, moved>>

Loop == Wake \/ Answer \/ Failure \/ Audit

Next == Loop \/ \E v \in Venues, s \in Symbols, usd \in {-1, 1} : Trade(v, s, usd)

Spec == Init /\ [][Next]_vars

\* The event loop runs the risk loop, and get_positions ends by aiohttp's
\* timeout; no venue owes an answer.
FairSpec == Spec /\ WF_vars(Loop)

-----------------------------------------------------------------------------
\* Properties

TypeOK ==
  /\ hold \in [Venues -> [Symbols -> -MaxHeld..MaxHeld]]
  /\ trades \in 0..MaxTrades
  /\ asked \in 0..(Len(Order) + 1)
  /\ \A p \in collected \cup positions :
       /\ p.venue \in Venues /\ ~ReportsNone(p.venue)
       /\ p.usd \in -MaxHeld..MaxHeld
  /\ asked = 0 => collected = {} /\ missed = {}
  /\ moved \in BOOLEAN /\ warned \in BOOLEAN
  /\ netDelta \in Int

\* What the venues hold in all
Exposure == Total({Position(v, s, hold[v][s]) : v \in Venues, s \in Symbols})

\* Venues whose exposure no audit can see, and positions that share a key
Unseen   == \E v \in Venues : ReportsNone(v) /\ Live(v) # {}
Collided == Cardinality(Live("hyperliquid")) > 1

\* An audit's net delta is what the venues hold, with the sign of a
\* perpetual, unless a venue failed, one traded while the others were being
\* asked, one that reports no positions holds some, or two positions at
\* Hyperliquid share a key: nothing of an earlier audit is left in it
\* (engine.py:135-142, manager.py:195-207, hyperliquid.py:272).
DeltaExplained ==
  [][Audit => netDelta' = -Exposure \/ missed # {} \/ moved \/ Unseen \/ Collided]_vars

\* Every collection ends in an audit, whichever venues fail.
AuditsComplete == asked = 1 ~> asked = 0
=============================================================================

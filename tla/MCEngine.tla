------------------------------- MODULE MCEngine -------------------------------
(***************************************************************************)
(* Small instances of Engine: two venues that connect, one that does not   *)
(* and one that no valid configuration enables.                            *)
(***************************************************************************)
EXTENDS Engine, TLC

MCVenues == {"hyperliquid", "lighter", "kraken", "bybit"}
MCKind == [v \in MCVenues |-> v]
MCConnected == {"hyperliquid", "lighter"}
MCDexVenues == {"lighter"}

MCDeal(buy, sell, type, notional) ==
  [buy |-> buy, sell |-> sell, type |-> type, size |-> 100,
   notional |-> notional, slippage |-> 0]

\* The route with the most awaits, an order that outlives its session and a
\* swap that does not need one; a venue that did not connect; one that is
\* not enabled
MCDeals ==
  {MCDeal("hyperliquid", "lighter", "cex_dex", 2),
   MCDeal("lighter", "kraken", "cex_cex", 1),
   MCDeal("lighter", "bybit", "cex_cex", 1)}

Pair(buy, sell) == [buy |-> buy, sell |-> sell]

\* Every venue connects.
Healthy ==
  [enabled |-> <<"hyperliquid", "lighter">>, required |-> {"hyperliquid"},
   pairs |-> {Pair("hyperliquid", "lighter")},
   categories |-> {}, keys |-> {[length |-> 64, prefixed |-> FALSE]}, logLevel |-> "INFO",
   fees |-> {40, 35}, minPnl |-> 30, allocation |-> "hyperliquid" :> 100]

\* A venue does not connect, and is not required.
Degraded ==
  [Healthy EXCEPT !.enabled = <<"kraken", "hyperliquid", "lighter">>,
                  !.pairs = {Pair("lighter", "kraken")}]

\* It is.
Strict == [Degraded EXCEPT !.required = {"kraken"}]

\* One configuration for every validator to refuse
Bad ==
  {[Healthy EXCEPT !.pairs = @ \cup {Pair("lighter", "bybit")}],
   [Healthy EXCEPT !.pairs = @ \cup {Pair("lighter", "lighter")}],
   [Healthy EXCEPT !.categories = {"option"}],
   [Healthy EXCEPT !.keys = {[length |-> 64, prefixed |-> TRUE]}],
   [Healthy EXCEPT !.logLevel = "VERBOSE"],
   [Healthy EXCEPT !.fees = {1001}],
   [Healthy EXCEPT !.minPnl = 4],
   [Healthy EXCEPT !.allocation = "hyperliquid" :> 98]}

MCConfigs == {Healthy, Degraded, Strict} \cup Bad

AllOrNothing == {0, 100}
Profits == {3}
=============================================================================

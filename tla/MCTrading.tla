------------------------------ MODULE MCTrading ------------------------------
(***************************************************************************)
(* Small instances of Trading.  Every name of a venue is its connector's   *)
(* class, as in VENUE_REGISTRY; "offline" is configured but did not        *)
(* connect.                                                                *)
(***************************************************************************)
EXTENDS Trading, TLC

MCVenues == Kinds \cup {"offline"}
MCKind == [v \in MCVenues |-> IF v = "offline" THEN "kraken" ELSE v]
MCConnected == Kinds
MCDexVenues == {"lighter", "dydx"}

MCDeal(buy, sell, type, size, notional) ==
  [buy |-> buy, sell |-> sell, type |-> type, size |-> size,
   notional |-> notional, slippage |-> 0]

\* Perpetual pairs of the connectors, pairs with a DEX in either place, a
\* venue that is missing, and a slippage too high.
AllRoutes ==
  {d \in
     {MCDeal(b, s, "perp_perp", 100, 1) :
        b \in {"binance", "hyperliquid", "lighter"},
        s \in {"binance", "hyperliquid", "bybit", "kraken", "lighter"}}
     \cup {MCDeal(b, s, "cex_dex", 100, 1) : b \in {"binance", "hyperliquid", "kraken"},
                                             s \in MCDexVenues}
     \cup {MCDeal(b, s, "cex_dex", 100, 1) :
             b \in MCDexVenues, s \in {"binance", "hyperliquid", "bybit", "lighter"}}
     \cup {MCDeal("binance", "offline", "cex_cex", 100, 1),
           [MCDeal("binance", "bybit", "cex_cex", 100, 1) EXCEPT !.slippage = 21]} :
   d.buy # d.sell}

\* Deals for three tasks at once: the two sequential routes, whose results
\* tell a risk record everything an execution can, and a missing venue.
BreakerDeals ==
  {MCDeal("lighter", "hyperliquid", "cex_dex", 100, 2),
   MCDeal("hyperliquid", "lighter", "cex_dex", 100, 1),
   MCDeal("dydx", "offline", "cex_cex", 100, 1)}

\* One deal a route, of connectors that can fill, and one that is dropped.
OnePerRoute ==
  {MCDeal("hyperliquid", "lighter", "perp_perp", 100, 1),
   MCDeal("hyperliquid", "lighter", "cex_dex", 100, 2),
   MCDeal("lighter", "hyperliquid", "cex_dex", 100, 2),
   MCDeal("dydx", "offline", "cex_cex", 100, 1)}

Halves == {0, 50, 100}
Edges  == {0, 50, 99, 100}
AllOrNothing == {0, 100}

Profits  == {3}
Outcomes == {3, -7}

Symmetry == Permutations(Opps)
=============================================================================

----------------------------- MODULE MCDetection -----------------------------
(***************************************************************************)
(* Small instances of DetectionLoop: two venues that share a symbol, one   *)
(* that names it differently, and messages that touch one level.           *)
(***************************************************************************)
EXTENDS DetectionLoop

MCBooks == {<<"binance", "BTCUSDT">>, <<"bybit", "BTCUSDT">>}
OneBook == {<<"binance", "BTCUSDT">>}

MCPairs ==
  <<[buy |-> "binance", sell |-> "hyperliquid", symbol |-> "BTCUSDT"],
    [buy |-> "binance", sell |-> "bybit", symbol |-> "BTCUSDT"],
    [buy |-> "bybit", sell |-> "binance", symbol |-> "BTCUSDT"]>>

\* One level of one side, or nothing; 0 removes the level.
Nothing == [p \in {} |-> 0]

OneLevel(side, p, q) ==
  [s \in Sides |-> IF s = side THEN p :> q ELSE Nothing]

\* Bids at two prices against one ask that the higher of them crosses
CrossingMessages ==
  {OneLevel("bids", p, q) : p \in {1, 2}, q \in {0, 1}}
  \cup {OneLevel("asks", 1, q) : q \in {0, 1}}

\* Three levels a side, bids of two quantities
DeepMessages ==
  {OneLevel("bids", p, q) : p \in Prices, q \in {0, 1, 2}}
  \cup {OneLevel("asks", p, q) : p \in Prices, q \in {0, 2}}
=============================================================================

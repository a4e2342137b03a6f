------------------------------ MODULE Connectors -----------------------------
(***************************************************************************)
(* What a venue connector answers to an order.  An answer pairs what the   *)
(* venue really executed (did, which the program never sees) with what the *)
(* connector's parser returns to the router (says).  The two differ where  *)
(* the parser loses the fill: a lost response, Bybit's unconditional       *)
(* PENDING, Kraken's FILLED without a quantity, Lighter's assumption that  *)
(* a swap that did not revert filled whole.                                *)
(***************************************************************************)
EXTENDS Integers

CONSTANT Fractions  \* percentages of an order a venue may execute

ASSUME FractionsAssumption == Fractions \subseteq 0..100 /\ {0, 100} \subseteq Fractions

Kinds == {"binance", "bybit", "kraken", "hyperliquid", "dydx", "lighter"}

OrderStatus == {"pending", "filled", "partial", "cancelled", "failed"}

Executed(qty) == {(qty * f) \div 100 : f \in Fractions}

\* A FillResult, reduced to what the router reads.
Report(status, qty) == [status |-> status, qty |-> qty]

\* The three other things a call can be: not made, answered None, raised.
Untried == Report("untried", 0)
NoFill  == Report("none", 0)
Raised  == Report("raised", 0)

Reports == [status : OrderStatus \cup {"untried", "none", "raised"}, qty : Nat]

\* FillResult.is_filled; also what the router's `is None` tests come to.
IsFilled(fill) == fill.status = "filled" /\ fill.qty > 0

Answer(did, says) == [did |-> did, says |-> says]

-----------------------------------------------------------------------------
\* Answers common to several connectors

\* The venue refused the order and said so.
Rejected == {Answer(0, Report("failed", 0))}

\* The request or its response was lost: the order may have executed.
Lost(qty) == {Answer(x, NoFill) : x \in Executed(qty)}

-----------------------------------------------------------------------------
\* place_ioc_order of the connectors and their parsers; x is what the venue
\* executed of qty

\* _parse_order_response: EXPIRED or CANCELED with the executed quantity,
\* and any status its map does not know becomes FAILED, with the quantity
\* executed by then (none of it for NEW: acknowledged, fills to come).
BinanceReports(x, qty) ==
  {Report("failed", 0), Report("failed", x)}
  \cup (IF x = qty THEN {Report("filled", x)} ELSE {Report("cancelled", x)})
  \cup (IF x \in {0, qty} THEN {} ELSE {Report("partial", x)})

BinanceAnswers(qty) ==
  Rejected \cup Lost(qty)
  \cup UNION {{Answer(x, r) : r \in BinanceReports(x, qty)} : x \in Executed(qty)}

\* Every accepted order is reported PENDING with nothing filled.
BybitAnswers(qty) ==
  Rejected \cup Lost(qty)
  \cup {Answer(x, Report("pending", 0)) : x \in Executed(qty)}

\* _parse_kraken_order: FILLED when there is a txid, never a quantity.
KrakenReports(x) ==
  {Report("filled", 0)} \cup (IF x = 0 THEN {Report("cancelled", 0)} ELSE {})

KrakenAnswers(qty) ==
  Rejected \cup Lost(qty)
  \cup UNION {{Answer(x, r) : r \in KrakenReports(x)} : x \in Executed(qty)}

\* _parse_hl_response: FILLED carries totalSz, which may be short of the
\* order; an error whose "response" is a string makes .get raise.
HyperliquidReports(x) ==
  IF x = 0 THEN {Report("cancelled", 0), Report("failed", 0), Raised}
           ELSE {Report("filled", x)}

HyperliquidAnswers(qty) ==
  Lost(qty) \cup UNION {{Answer(x, r) : r \in HyperliquidReports(x)} : x \in Executed(qty)}

\* A placeholder: None without a client, FAILED with one.
DydxAnswers(qty) == Rejected \cup {Answer(0, NoFill)}

\* _parse_lighter_response: a status outside its map is FAILED, with the
\* filled amount all the same; an answer of another shape makes it raise,
\* outside the try of place_ioc_order.
LighterReports(x) == {Raised} \cup {Report(s, x) : s \in {"filled", "cancelled", "failed"}}

LighterAnswers(qty) ==
  Lost(qty) \cup UNION {{Answer(x, r) : r \in LighterReports(x)} : x \in Executed(qty)}

\* place_ioc_order of the connector
IocAnswers(kind, qty) ==
  CASE kind = "binance"     -> BinanceAnswers(qty)
    [] kind = "bybit"       -> BybitAnswers(qty)
    [] kind = "kraken"      -> KrakenAnswers(qty)
    [] kind = "hyperliquid" -> HyperliquidAnswers(qty)
    [] kind = "dydx"        -> DydxAnswers(qty)
    [] kind = "lighter"     -> LighterAnswers(qty)

\* execute_atomic_swap, which only Lighter has: the contract reverts on a
\* zero fill, so a receipt with status 1 stands for any other quantity, and
\* the connector reports the whole order.  On another venue the attribute
\* lookup raises before anything is sent.
SwapAnswers(kind, qty) ==
  IF kind = "lighter"
    THEN Rejected \cup Lost(qty)
         \cup {Answer(x, Report("filled", qty)) : x \in Executed(qty) \ {0}}
    ELSE {Answer(0, Raised)}
=============================================================================

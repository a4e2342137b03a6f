------------------------------- MODULE MCAudit -------------------------------
(***************************************************************************)
(* A small instance of DeltaAudit: a connector that raises, one that       *)
(* answers an empty list, and two that report no positions.                *)
(***************************************************************************)
EXTENDS DeltaAudit

MCOrder == <<"binance", "hyperliquid", "bybit", "lighter">>
=============================================================================

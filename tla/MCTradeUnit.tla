----------------------------- MODULE MCTradeUnit -----------------------------
(* TLC instances of TradeUnit. *)
EXTENDS TradeUnit
=============================================================================

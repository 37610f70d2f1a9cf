-------------------------- MODULE MCTradeProcessor --------------------------
EXTENDS TradeProcessor

\* one order may not be in the table yet; the other's account has no unit
MCFirstRows == {[o1 |-> x, o2 |-> "live"] : x \in {"live", "absent"}}
=============================================================================

--------------------------- MODULE MCTradeLifecycle ---------------------------
(* Small instances of TradeLifecycle for TLC.                              *)
EXTENDS TradeLifecycle
=============================================================================

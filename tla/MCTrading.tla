------------------------------ MODULE MCTrading -----------------------------
(* Two windows; market-ops with the trader, and with the hedger. *)
EXTENDS Trading

TwoCrews == {{"trader", "market_ops"}, {"risk_lp", "market_ops"}}
=============================================================================

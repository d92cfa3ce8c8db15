---------------------------- MODULE MCMarketData ----------------------------
(* MarketData with the values of the .cfg files. *)
EXTENDS MarketData
=============================================================================

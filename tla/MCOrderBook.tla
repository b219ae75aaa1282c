---------------------------- MODULE MCOrderBook ----------------------------
(* Model-checking instance of OrderBook: prices below zero.                 *)
EXTENDS OrderBook

MCPriceMin == -3
=============================================================================

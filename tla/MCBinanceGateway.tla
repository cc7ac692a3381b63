--------------------------- MODULE MCBinanceGateway ---------------------------
(***************************************************************************)
(* One order that buys and one that sells, each fillable in parts, and     *)
(* enough calls to query or cancel an order whose submission failed.       *)
(***************************************************************************)
EXTENDS BinanceGateway

MCOrders == {"buy", "sell"}
MCBuys == {"buy"}
=============================================================================

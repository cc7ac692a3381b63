----------------------------- MODULE MCMarketRing -----------------------------
(***************************************************************************)
(* A ring small enough for the producer to lap the consumer several times  *)
(* and for one process() batch to leave messages behind.                   *)
(***************************************************************************)
EXTENDS MarketRing
=============================================================================

------------------------------ MODULE MCExecutor ------------------------------
(***************************************************************************)
(* Finite instances of ArbitrageExecutor: one triangle USDT -> A -> B ->   *)
(* USDT with distinct prices, so that confusing base and quote, quantity   *)
(* and notional, or two legs changes the holdings.                         *)
(***************************************************************************)
EXTENDS ArbitrageExecutor

MCAssets == {"USDT", "BNB", "A", "B"}

MCPath == <<
  [base |-> "A", quote |-> "USDT", buy |-> TRUE, price |-> 2],
  [base |-> "A", quote |-> "B", buy |-> FALSE, price |-> 1],
  [base |-> "B", quote |-> "USDT", buy |-> FALSE, price |-> 3] >>

\* A is sold on an A/USDT market, B is spent on a USDT/B market.
MCExitLegs ==
  [a \in {"A", "B"} |->
     IF a = "A" THEN [base |-> "A", quote |-> "USDT", buy |-> FALSE, price |-> 2]
     ELSE [base |-> "USDT", quote |-> "B", buy |-> TRUE, price |-> 1]]

\* Startup clearing has two assets to sell and may send one order.
MCBalances == [a \in MCAssets |-> IF a \in {"A", "B", "BNB"} THEN 1 ELSE 0]
=============================================================================

---------------------------- MODULE MCPaperTrading ----------------------------
(***************************************************************************)
(* Two groups that share A/USDT; only the second ever gets all its books.  *)
(* Its books offer an edge in either direction, with prices that improve   *)
(* or worsen, little liquidity, and one message that cannot be decoded.    *)
(* Ticks are 0.1 and steps 0.1 of an asset, so that every amount is whole. *)
(***************************************************************************)
EXTENDS PaperTrading

MCSymbols == 1..5
MCTriangles == << <<1, 4, 5>>, <<1, 2, 3>> >>
MCOrderIds == (1..CycleBound) \X (1..3)
MCThreshold == [n |-> 1, d |-> 5]

MCFilters == <<
  [type |-> "PRICE_FILTER", value |-> <<1, 1, 1000>>],
  [type |-> "LOT_SIZE", value |-> <<100, 100, 0>>],
  [type |-> "MIN_NOTIONAL", value |-> <<100>>],
  [type |-> "ICEBERG_PARTS", value |-> <<10>>],
  [type |-> "NOTIONAL", value |-> <<300, 9000>>] >>
Item(b, q) == [base |-> b, quote |-> q, trading |-> TRUE, filters |-> MCFilters]
MCInfo == << Item("A", "USDT"), Item("A", "B"), Item("B", "USDT"),
             Item("A", "C"), Item("C", "USDT") >>

Text(n) == <<n>>
Tenths(n, m) == <<n, Dot, m>>
Message(n, bid, ask, bid_qty, ask_qty) ==
  [id |-> n, bid |-> bid, ask |-> ask, bid_qty |-> bid_qty, ask_qty |-> ask_qty, shape |-> TRUE]

MCStream == <<
  << Message(1, Tenths(1, 9), Text(2), Text(1), Tenths(0, 7)),
     Message(2, Text(8), Tenths(8, 2), Text(1), Text(1)),
     Message(4, Tenths(1, 4), Tenths(1, 5), Text(2), Text(2)) >>,
  << Message(1, Text(4), Tenths(4, 5), Text(2), Text(2)),
     Message(2, Text(4), <<Other>>, Text(2), Text(2)),
     Message(3, Tenths(1, 8), Text(2), Tenths(0, 3), Text(1)) >>,
  << Message(1, Text(1), Tenths(1, 1), Text(3), Text(3)),
     Message(2, Tenths(1, 9), Text(2), Text(2), Tenths(1, 5)) >>,
  <<>>, <<>> >>

-----------------------------------------------------------------------------
(***************************************************************************)
(* What is read and paired before the first message.                       *)
(***************************************************************************)
MCTexts == UNION {[1..n -> {0, 1, 2, 9, Dot, Other}] : n \in 0..5}
MCNumbers == [mantissa : {0, 1, 9, 12, 13, 99, 100, 127}, scale : 0..MaxScale]
ASSUME TickAssumption == QuotedInTicks
=============================================================================

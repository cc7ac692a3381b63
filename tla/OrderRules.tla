------------------------------ MODULE OrderRules ------------------------------
(***************************************************************************)
(* How orders are sized and checked: load_markets(), valid(),              *)
(* prepare_from_book(), prepare_fast() and preflight() of                  *)
(* src/execution/execution.cpp.                                            *)
(*                                                                         *)
(* The code computes with fifty decimal digits.  Here prices are whole     *)
(* multiples of 1/PriceUnit and amounts of 1/AssetUnit; the instance's     *)
(* ticks and steps make every price, notional and commission whole.        *)
(***************************************************************************)
EXTENDS OrderBooks

CONSTANTS PriceUnit, AssetUnit
ASSUME UnitAssumption == PriceUnit \in Nat \ {0} /\ AssetUnit \in Nat \ {0}

Larger(x, y) == IF x > y THEN x ELSE y

-----------------------------------------------------------------------------
(***************************************************************************)
(* load_markets(): the filters of one symbol, in the order they are        *)
(* listed.  A filter is [type, value : up to three numbers].               *)
(***************************************************************************)
Unfiltered(item) ==
  [base |-> item.base, quote |-> item.quote, tick |-> 0, step |-> 0,
   min_price |-> 0, max_price |-> 0, min_qty |-> 0, max_qty |-> 0,
   min_notional |-> 0, max_notional |-> 0]

WithFilter(market, filter) ==
  LET v == filter.value IN
  CASE filter.type = "PRICE_FILTER" ->
         [market EXCEPT !.tick = v[1], !.min_price = v[2], !.max_price = v[3]]
    [] filter.type = "LOT_SIZE" ->
         [market EXCEPT !.step = v[1], !.min_qty = v[2], !.max_qty = v[3]]
    [] filter.type = "MIN_NOTIONAL" -> [market EXCEPT !.min_notional = Larger(@, v[1])]
    [] filter.type = "NOTIONAL" ->
         [market EXCEPT !.min_notional = Larger(@, v[1]), !.max_notional = v[2]]
    [] OTHER -> market

LoadMarket(item) ==
  LET after[i \in 0..Len(item.filters)] ==
        IF i = 0 THEN Unfiltered(item) ELSE WithFilter(after[i - 1], item.filters[i])
      market == after[Len(item.filters)]
  IN IF item.trading /\ market.tick > 0 /\ market.step > 0 THEN market ELSE None

-----------------------------------------------------------------------------
Down(value, step) == (value \div step) * step
Up(value, step) == ((value + step - 1) \div step) * step

\* The scanned price, a fraction, to the nearest tick, halves up.
AcceptedPrice(rate, tick) ==
  ((2 * PriceUnit * rate.n + tick * rate.d) \div (2 * tick * rate.d)) * tick

Notional(price, quantity) == (price * quantity) \div PriceUnit
Affordable(amount, price) == (amount * PriceUnit) \div price

Price(book, buy) == (BestPrice(book, buy) * PriceUnit) \div TenTo[-book.price_exponent]
Liquidity(book, buy) == (BestQty(book, buy) * AssetUnit) \div TenTo[-book.qty_exponent]

\* valid()
Valid(market, price, quantity) ==
  LET notional == Notional(price, quantity) IN
  /\ price > 0 /\ quantity > 0
  /\ price >= market.min_price /\ (market.max_price = 0 \/ price <= market.max_price)
  /\ quantity >= market.min_qty /\ (market.max_qty = 0 \/ quantity <= market.max_qty)
  /\ notional >= market.min_notional
  /\ (market.max_notional = 0 \/ notional <= market.max_notional)

-----------------------------------------------------------------------------
(***************************************************************************)
(* An order is [price, quantity]; None when it cannot be sized.            *)
(***************************************************************************)
Sized(market, leg, amount, price) ==
  Down(IF leg.buy THEN Affordable(amount, price) ELSE amount, market.step)

PrepareFast(market, leg, amount, rate) ==
  LET price == AcceptedPrice(rate, market.tick)
      quantity == Sized(market, leg, amount, price)
  IN IF Valid(market, price, quantity)
     THEN [price |-> price, quantity |-> quantity] ELSE None

IgnoresLiquidity(quantity, liquidity) == quantity > 0
FitsLiquidity(quantity, liquidity) == quantity <= liquidity

\* A missing book and a stale one are the caller's: book is there and fresh.
\* A clearing order takes no more than the level shows.
PrepareFromBook(market, leg, amount, initial_clear, book) ==
  LET raw == Price(book, leg.buy)
      price == IF leg.buy THEN Up(raw, market.tick) ELSE Down(raw, market.tick)
      liquidity == Liquidity(book, leg.buy)
      sized == IF price > 0 THEN Sized(market, leg, amount, price) ELSE 0
      quantity == IF initial_clear /\ liquidity < sized THEN Down(liquidity, market.step) ELSE sized
  IN IF Valid(market, price, quantity) /\ FitsLiquidity(quantity, liquidity)
     THEN [price |-> price, quantity |-> quantity] ELSE None

-----------------------------------------------------------------------------
Spent(market, buy) == IF buy THEN market.quote ELSE market.base
Received(market, buy) == IF buy THEN market.base ELSE market.quote
Commission(proceeds) == proceeds \div FeePart

AcceptsWorse(leg, price, accepted) == price > 0
NotWorse(leg, price, accepted) == IF leg.buy THEN price <= accepted ELSE price >= accepted

\* preflight(): the cycle on paper, leg after leg.  None once a leg failed.
PreflightLeg(market, leg, rate, book, balances) ==
  IF balances = None \/ book = None THEN None
  ELSE LET spend == Spent(market, leg.buy)
           order == PrepareFromBook(market, leg, balances[spend], FALSE, book)
       IN IF order = None THEN None
          ELSE IF ~NotWorse(leg, order.price, AcceptedPrice(rate, market.tick)) THEN None
          ELSE LET quote == Notional(order.price, order.quantity)
                   cost == IF leg.buy THEN quote ELSE order.quantity
                   proceeds == IF leg.buy THEN order.quantity ELSE quote
               IN [balances EXCEPT
                     ![spend] = @ - cost,
                     ![Received(market, leg.buy)] = @ + proceeds - Commission(proceeds)]

Preflight(markets, books, opportunity, amounts) ==
  LET after[i \in 0..3] ==
        IF i = 0 THEN amounts
        ELSE LET leg == opportunity.path[i]
             IN PreflightLeg(markets[leg.index], leg, opportunity.prices[i],
                             books[leg.index], after[i - 1])
  IN after[3] # None
=============================================================================

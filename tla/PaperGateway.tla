----------------------------- MODULE PaperGateway -----------------------------
(***************************************************************************)
(* The simulated exchange of src/execution/paper_gateway.cpp: orders fill  *)
(* against the best level of the current book, from a simulated wallet.    *)
(* Its callers and the queue its handlers run from are PaperTrading's.     *)
(***************************************************************************)
EXTENDS OrderRules

CONSTANTS
  Symbols,    \* config.symbols, by index
  Info,       \* what the exchange says of each symbol
  OrderIds    \* client order ids

VARIABLES
  wallet,     \* simulated balances
  consumed,   \* what was taken from a side of the book, and at which update
  orders      \* every order's report, None before it is filled

gatewayVars == <<wallet, consumed, orders>>

Markets == [s \in Symbols |-> LoadMarket(Info[s])]
Assets == {"USDT"} \cup UNION {{Info[s].base, Info[s].quote} : s \in Symbols}

\* How many numbers load_markets() takes from a filter of a type.
Taken(type) ==
  IF type \in {"PRICE_FILTER", "LOT_SIZE"} THEN 3 ELSE IF type = "NOTIONAL" THEN 2 ELSE 1

ASSUME MarketsAssumption ==
  \A s \in Symbols :
    /\ Info[s].filters \in Seq([type : STRING, value : Seq(Nat)])
    /\ \A i \in DOMAIN Info[s].filters :
         Len(Info[s].filters[i].value) >= Taken(Info[s].filters[i].type)
    /\ Info[s].base # Info[s].quote
    /\ Markets[s] # None

Sides == [symbol : Symbols, buy : BOOLEAN]
NoUpdate == -1

NoFee == [a \in Assets |-> 0]
Report(status, base, quote, commissions) ==
  [revision |-> 1, status |-> status, filled |-> base, quote |-> quote,
   commissions |-> commissions]
Unfilled(status) == Report(status, 0, 0, NoFee)
\* What query() and cancel() say of an order they do not know.
Unheard == [revision |-> 0, status |-> "Unknown", filled |-> 0, quote |-> 0,
            commissions |-> NoFee]

GatewayInit ==
  /\ wallet = [a \in Assets |-> IF a = "USDT" THEN MaxArbitrage * AssetUnit ELSE 0]
  /\ consumed = [k \in Sides |-> [id |-> NoUpdate, used |-> 0]]
  /\ orders = [o \in OrderIds |-> None]

\* The exchange's own filters, on the wire quantity and price.
Lawful(market, order) ==
  /\ Valid(market, order.price, order.quantity)
  /\ Down(order.quantity, market.step) = order.quantity
  /\ Down(order.price, market.tick) = order.price

AlwaysAsOfNow(side, book) == 0
UsedNow(side, book) == IF consumed[side].id = book.id THEN consumed[side].used ELSE 0

FeeForgotten(proceeds) == 0
FeeTaken(proceeds) == Commission(proceeds)

\* fill() of a new order at this book: [report, usage, wallet].
Fill(order, book) ==
  LET market == Markets[order.symbol]
      side == [symbol |-> order.symbol, buy |-> order.buy]
      price == Price(book, order.buy)
      used == UsedNow(side, book)
      available == Liquidity(book, order.buy) - used
      worse == IF order.buy THEN price > order.price ELSE price < order.price
      base == Down(IF available < order.quantity THEN available ELSE order.quantity, market.step)
      quote == Notional(price, base)
      spend == Spent(market, order.buy)
      receive == Received(market, order.buy)
      cost == IF order.buy THEN quote ELSE base
      proceeds == IF order.buy THEN base ELSE quote
      Result(report, more, balances) ==
        [report |-> report, usage |-> [id |-> book.id, used |-> used + more],
         wallet |-> balances]
  IN IF ~Lawful(market, order) \/ book = None
     THEN [report |-> Unfilled("Rejected"), usage |-> consumed[side], wallet |-> wallet]
     ELSE IF price <= 0 \/ available <= 0 \/ worse
               \/ (~order.initial_clear /\ available < order.quantity)
     THEN Result(Unfilled("Expired"), 0, wallet)
     ELSE IF base <= 0 \/ wallet[spend] < cost
     THEN Result(Unfilled("Rejected"), 0, wallet)
     ELSE Result(Report(IF base = order.quantity THEN "Filled" ELSE "Expired", base, quote,
                        [NoFee EXCEPT ![receive] = Commission(proceeds)]),
                 base,
                 [wallet EXCEPT ![spend] = @ - cost,
                                ![receive] = @ + proceeds - FeeTaken(proceeds)])

\* The handler posted by submit(): an order that was filled before is only
\* reported again.
Execute(order, book) ==
  LET result == Fill(order, book) IN
  IF orders[order.id] # None THEN UNCHANGED gatewayVars
  ELSE /\ orders' = [orders EXCEPT ![order.id] = result.report]
       /\ consumed' = [consumed EXCEPT
            ![[symbol |-> order.symbol, buy |-> order.buy]] = result.usage]
       /\ wallet' = result.wallet

NeverFound(id) == Unheard
Lookup(id) == IF orders[id] = None THEN Unheard ELSE orders[id]
=============================================================================

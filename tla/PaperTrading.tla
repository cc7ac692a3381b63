----------------------------- MODULE PaperTrading -----------------------------
(***************************************************************************)
(* The program in paper mode, from a depth message to a filled cycle:      *)
(* ingest() decodes, stores and scans on the main thread, the executor     *)
(* accepts, validates and sends the legs, and the paper gateway fills them *)
(* against the same books from handlers of the same io_context.            *)
(*                                                                         *)
(* The executor's counters and its cap are ArbitrageExecutor's; here are   *)
(* its amounts.  The wire is external: each symbol has a list of messages  *)
(* whose update ids grow, and any of them may be lost or sent again.       *)
(***************************************************************************)
EXTENDS PaperGateway, TradePaths

CONSTANTS
  Triangles,     \* the configured groups, each three symbols
  Stream,        \* the messages of each symbol, in wire order
  Texts,         \* texts and numbers to read and to pair before the first message
  Numbers,
  FirstLegStop,  \* TRUE: the temporary stop after leg 0 is compiled in
  CycleBound,    \* bound: cycles accepted in one behaviour
  UpdateBound,   \* bound: messages ingested
  LookupBound    \* bound: query() and cancel() calls

VARIABLES
  books,        \* the latest book of each symbol, or None
  position,     \* external: how far the wire is in each symbol's list
  state, pending, holdings, budget, opportunity, leg_number, waiting_gateway,
  timeout,      \* the execution timeout is armed
  stopping,
  phase,        \* "process", "poll", "drain" (receiver.stop()) or "exited"
  ready,        \* the io_context's queue of handlers
  accepted, ingested, lookups,
  shown_used,   \* history: what was filled on a side since its book's id is shown
  opening,      \* history: the wallet when the cycle's budget was set aside
  told          \* history: the last report given to a callback, by order

bookVars == <<books, position, shown_used, ingested>>
cycleVars == <<state, pending, holdings, budget, opportunity, leg_number, waiting_gateway,
               timeout, opening, accepted>>
loopVars == <<stopping, phase, ready>>
callVars == <<lookups, told>>
vars == <<gatewayVars, bookVars, cycleVars, loopVars, callVars>>

Messages ==
  [id : Nat, bid : Seq(Characters), ask : Seq(Characters), bid_qty : Seq(Characters),
   ask_qty : Seq(Characters), shape : BOOLEAN]
ASSUME StreamAssumption ==
  /\ Stream \in [Symbols -> Seq(Messages)]
  /\ \A s \in Symbols : \A i, j \in DOMAIN Stream[s] : i < j => Stream[s][i].id < Stream[s][j].id
ASSUME TrialAssumption ==
  /\ Texts \subseteq Seq(Characters)
  /\ Numbers \subseteq [mantissa : 0..MaxMantissa, scale : 0..MaxScale] /\ None \notin Numbers

\* main(): every configured group has its two paths before anything starts.
GroupInfo(g) == [i \in Positions |-> Info[Triangles[g][i]]]
Groups ==
  [g \in DOMAIN Triangles |->
    LET paths == ValidateArbitrage(GroupInfo(g)) IN
    [symbols |-> Triangles[g],
     paths |-> [p \in {1, 2} |->
                 [i \in Positions |->
                   [index |-> Triangles[g][paths[p][i].index], buy |-> paths[p][i].buy]]]]]

ASSUME GroupsAssumption ==
  /\ Triangles \in Seq([Positions -> Symbols])
  /\ \A g \in DOMAIN Triangles : Triangle(GroupInfo(g))

ASSUME BoundsAssumption ==
  /\ CycleBound \in Nat /\ UpdateBound \in Nat /\ LookupBound \in Nat
  /\ (1..CycleBound) \X (1..3) \subseteq OrderIds

NoHoldings == [a \in Assets |-> 0]
Only(asset, amount) == [NoHoldings EXCEPT ![asset] = amount]

Init ==
  /\ GatewayInit
  /\ books = [s \in Symbols |-> None] /\ position = [s \in Symbols |-> 0]
  /\ ingested = 0 /\ shown_used = [k \in Sides |-> 0]
  /\ state = "IDLE" /\ pending = None /\ holdings = NoHoldings /\ budget = 0
  /\ opportunity = None /\ leg_number = 0 /\ waiting_gateway = FALSE
  /\ timeout = FALSE /\ opening = None /\ accepted = 0
  /\ stopping = FALSE /\ phase = "process" /\ ready = <<>>
  /\ lookups = 0 /\ told = [o \in OrderIds |-> Unheard]

-----------------------------------------------------------------------------
(***************************************************************************)
(* Ingestion: decode, update, scan and try_start, one call after another.  *)
(***************************************************************************)
\* Decimal(input_usdt): a long double quotient that should be whole may come
\* out just below.
Budgets(input) ==
  LET whole == (input.n * AssetUnit) \div input.d IN
  {whole} \cup IF (input.n * AssetUnit) % input.d = 0 /\ input # [n |-> MaxArbitrage, d |-> 1]
               THEN {whole - 1} ELSE {}

TryStart(found) ==
  \/ /\ found = None \/ state # "IDLE" \/ stopping \/ accepted = CycleBound
     /\ UNCHANGED <<cycleVars, ready>>
  \/ /\ found # None /\ state = "IDLE" /\ ~stopping /\ accepted < CycleBound
     /\ state' = "VALIDATING" /\ opportunity' = found /\ budget' \in Budgets(found.input)
     /\ pending' = None /\ holdings' = NoHoldings /\ leg_number' = 0
     /\ accepted' = accepted + 1 /\ opening' = None
     /\ timeout' = TRUE
     /\ ready' = Append(ready, [kind |-> "begin"])
     /\ UNCHANGED waiting_gateway

NewUpdate(s, book) == books[s] = None \/ books[s].id # book.id

Ingest(s, i) ==
  LET book == Decode(Stream[s][i]) IN
  /\ (phase = "process" /\ ~stopping) \/ phase = "drain"
  /\ ingested < UpdateBound /\ ingested' = ingested + 1
  /\ i >= position[s] /\ position' = [position EXCEPT ![s] = i]
  /\ UNCHANGED <<gatewayVars, stopping, phase, callVars>>
  /\ \/ /\ book = None
        /\ UNCHANGED <<books, shown_used, cycleVars, ready>>
     \/ /\ book # None
        /\ books' = [books EXCEPT ![s] = book]
        /\ shown_used' = [k \in Sides |->
             IF k.symbol = s /\ NewUpdate(s, book) THEN 0 ELSE shown_used[k]]
        /\ TryStart(ScanEdge(books', Groups, s))

ProcessReturn ==
  /\ phase = "process" /\ phase' = "poll"
  /\ UNCHANGED <<gatewayVars, bookVars, cycleVars, stopping, ready, callVars>>

-----------------------------------------------------------------------------
(***************************************************************************)
(* The executor.                                                           *)
(***************************************************************************)
Run(kind) ==
  /\ phase = "poll" /\ ready # <<>> /\ Head(ready).kind = kind
  /\ UNCHANGED stopping

EndCycle(amounts) ==
  /\ state' = "IDLE" /\ pending' = None /\ timeout' = FALSE /\ holdings' = amounts
  /\ UNCHANGED <<budget, opportunity, waiting_gateway, accepted>>

\* next_leg() and send(): the order goes to the end of the handler queue.
NextLeg(leg, amounts) ==
  LET step == opportunity.path[leg + 1]
      market == Markets[step.index]
      order == PrepareFast(market, step, amounts[Spent(market, step.buy)],
                           opportunity.prices[leg + 1])
      request == [id |-> <<accepted, leg + 1>>, symbol |-> step.index, buy |-> step.buy,
                  price |-> order.price, quantity |-> order.quantity, initial_clear |-> FALSE]
  IN
  /\ leg_number' = leg
  /\ \/ /\ leg = 3
        /\ EndCycle(amounts) /\ ready' = Tail(ready)
     \/ /\ leg < 3 /\ order = None
        /\ EndCycle(amounts) /\ ready' = Tail(ready)
     \/ /\ leg < 3 /\ order # None
        /\ state' = "LEG_PENDING" /\ pending' = request /\ holdings' = amounts
        /\ ready' = Append(Tail(ready), [kind |-> "fill", order |-> request])
        /\ UNCHANGED <<budget, opportunity, waiting_gateway, timeout, accepted>>

\* begin(), start_arbitrage() and preflight(); a book may have become stale.
RunBegin ==
  LET amounts == Only("USDT", budget) IN
  /\ Run("begin")
  /\ UNCHANGED <<gatewayVars, bookVars, phase, callVars>>
  /\ \/ /\ state # "VALIDATING" \/ stopping
        /\ ready' = Tail(ready) /\ UNCHANGED cycleVars
     \/ /\ state = "VALIDATING" /\ ~stopping /\ wallet["USDT"] < budget
        /\ EndCycle(holdings) /\ ready' = Tail(ready) /\ UNCHANGED <<leg_number, opening>>
     \/ /\ state = "VALIDATING" /\ ~stopping /\ wallet["USDT"] >= budget
        /\ opening' = wallet
        /\ EndCycle(amounts) /\ ready' = Tail(ready) /\ UNCHANGED leg_number
     \/ /\ state = "VALIDATING" /\ ~stopping /\ wallet["USDT"] >= budget
        /\ opening' = wallet
        /\ Preflight(Markets, books, opportunity, amounts)
        /\ NextLeg(0, amounts)

SettledBackwards(r) ==
  LET market == Markets[pending.symbol]
      cost == IF pending.buy THEN r.quote ELSE r.filled
      proceeds == IF pending.buy THEN r.filled ELSE r.quote
  IN [holdings EXCEPT ![Received(market, pending.buy)] = @ - cost,
                      ![Spent(market, pending.buy)] = @ + proceeds]
SettleGross(r) ==
  LET market == Markets[pending.symbol]
      cost == IF pending.buy THEN r.quote ELSE r.filled
      proceeds == IF pending.buy THEN r.filled ELSE r.quote
  IN [holdings EXCEPT ![Spent(market, pending.buy)] = @ - cost,
                      ![Received(market, pending.buy)] = @ + proceeds]
Settle(r) == [a \in Assets |-> SettleGross(r)[a] - r.commissions[a]]

\* The gateway's callback and report(): every report of the paper gateway is
\* the only one of its order, terminal and complete.
OnReport(id, r) ==
  \/ /\ pending = None \/ state = "HALTED"
     /\ ready' = Tail(ready) /\ UNCHANGED cycleVars
  \/ /\ pending # None /\ state # "HALTED" /\ pending.id = id
     /\ UNCHANGED opening
     /\ \/ /\ waiting_gateway
           /\ waiting_gateway' = FALSE /\ pending' = None /\ state' = "IDLE"
           /\ holdings' = Settle(r) /\ ready' = Tail(ready)
           /\ UNCHANGED <<budget, opportunity, leg_number, timeout, accepted>>
        \/ /\ ~waiting_gateway
           /\ r.status # "Filled" \/ (FirstLegStop /\ leg_number = 0)
           /\ EndCycle(Settle(r)) /\ ready' = Tail(ready) /\ UNCHANGED leg_number
        \/ /\ ~waiting_gateway
           /\ r.status = "Filled" /\ ~(FirstLegStop /\ leg_number = 0)
           /\ NextLeg(leg_number + 1, Settle(r))

\* fill() and the callback are one handler.
RunFill ==
  LET order == Head(ready).order
      side == [symbol |-> order.symbol, buy |-> order.buy]
  IN
  /\ Run("fill")
  /\ Execute(order, books[order.symbol])
  /\ shown_used' = [shown_used EXCEPT ![side] = @ + orders'[order.id].filled]
  /\ told' = [told EXCEPT ![order.id] = orders'[order.id]]
  /\ OnReport(order.id, orders'[order.id])
  /\ UNCHANGED <<books, position, ingested, phase, lookups>>

\* fail_cycle() while the order's handler is queued keeps the slot.
RunTimeout ==
  /\ Run("timeout") /\ ready' = Tail(ready)
  /\ UNCHANGED <<gatewayVars, bookVars, phase, callVars, holdings, budget, opportunity,
                 leg_number, opening, accepted, pending>>
  /\ \/ state \in {"IDLE", "HALTED"} /\ UNCHANGED <<state, waiting_gateway, timeout>>
     \/ /\ state = "VALIDATING"
        /\ state' = "IDLE" /\ timeout' = FALSE /\ UNCHANGED waiting_gateway
     \/ /\ state = "LEG_PENDING"
        /\ waiting_gateway' = TRUE /\ timeout' = FALSE /\ UNCHANGED state

\* The signal's handler: executor->stop(), then receiver.stop(), which still
\* ingests what is queued.
RunStop ==
  /\ phase = "poll" /\ ready # <<>> /\ Head(ready).kind = "stop" /\ ready' = Tail(ready)
  /\ stopping' = TRUE /\ phase' = "drain"
  /\ UNCHANGED <<gatewayVars, bookVars, callVars, pending, holdings, budget, opportunity,
                 leg_number, waiting_gateway, opening, accepted>>
  /\ IF state = "IDLE" THEN UNCHANGED <<state, timeout>>
     ELSE state' = "HALTED" /\ timeout' = FALSE

DrainEnds ==
  /\ phase = "drain" /\ phase' = "poll"
  /\ UNCHANGED <<gatewayVars, bookVars, cycleVars, stopping, ready, callVars>>

\* query() and cancel() of anybody's order, from any handler.
Query(id) ==
  /\ phase = "poll" /\ lookups < LookupBound /\ lookups' = lookups + 1
  /\ ready' = Append(ready, [kind |-> "lookup", id |-> id])
  /\ UNCHANGED <<gatewayVars, bookVars, cycleVars, stopping, phase, told>>

RunLookup ==
  /\ Run("lookup") /\ ready' = Tail(ready)
  /\ told' = [told EXCEPT ![Head(ready).id] = Lookup(Head(ready).id)]
  /\ UNCHANGED <<gatewayVars, bookVars, cycleVars, phase, lookups>>

TimeoutExpires ==
  /\ phase = "poll" /\ timeout /\ timeout' = FALSE
  /\ ready' = Append(ready, [kind |-> "timeout"])
  /\ UNCHANGED <<gatewayVars, bookVars, stopping, phase, callVars, state, pending, holdings,
                 budget, opportunity, leg_number, waiting_gateway, opening, accepted>>

Stop == [kind |-> "stop"]
Signal ==
  /\ phase = "poll" /\ ~stopping
  /\ \A i \in DOMAIN ready : ready[i] # Stop
  /\ ready' = Append(ready, Stop)
  /\ UNCHANGED <<gatewayVars, bookVars, cycleVars, stopping, phase, callVars>>

PolledOne == TRUE
PollDrained == ready = <<>>

PollReturn ==
  /\ phase = "poll" /\ PollDrained
  /\ phase' = IF stopping /\ ~timeout THEN "exited" ELSE "process"
  /\ UNCHANGED <<gatewayVars, bookVars, cycleVars, stopping, ready, callVars>>

Exited == phase = "exited" /\ UNCHANGED vars

Next ==
  \/ \E s \in Symbols : \E i \in DOMAIN Stream[s] : Ingest(s, i)
  \/ ProcessReturn \/ RunBegin \/ RunFill \/ RunTimeout \/ RunStop \/ DrainEnds
  \/ \E id \in OrderIds : Query(id)
  \/ RunLookup \/ TimeoutExpires \/ Signal \/ PollReturn \/ Exited

Spec == Init /\ [][Next]_vars
-----------------------------------------------------------------------------
Requests ==
  [id : OrderIds, symbol : Symbols, buy : BOOLEAN, price : Nat, quantity : Nat,
   initial_clear : BOOLEAN]
OrderReports ==
  [revision : {0, 1}, status : {"Filled", "Expired", "Rejected", "Unknown"}, filled : Nat,
   quote : Nat, commissions : [Assets -> Nat]]
Legs == [index : Symbols, buy : BOOLEAN]
Opportunities ==
  [path : [1..3 -> Legs], prices : Seq(Positive), input : Positive,
   quantities : [1..3 -> Positive]]
ASSUME NoneAssumption ==
  None \notin Requests \cup OrderReports \cup [Assets -> Nat] \cup Opportunities

Handlers ==
  [kind : {"begin", "timeout", "stop"}] \cup [kind : {"fill"}, order : Requests]
    \cup [kind : {"lookup"}, id : OrderIds]

TypeOK ==
  /\ wallet \in [Assets -> Nat]
  /\ consumed \in [Sides -> [id : Int, used : Nat]]
  /\ orders \in [OrderIds -> OrderReports \cup {None}]
  /\ DOMAIN books = Symbols /\ position \in [Symbols -> Nat]
  /\ shown_used \in [Sides -> Nat]
  /\ state \in {"IDLE", "VALIDATING", "LEG_PENDING", "HALTED"}
  /\ pending \in Requests \cup {None}
  /\ holdings \in [Assets -> Nat] /\ budget \in Nat
  /\ leg_number \in 0..3 /\ waiting_gateway \in BOOLEAN /\ timeout \in BOOLEAN
  /\ stopping \in BOOLEAN /\ phase \in {"process", "poll", "drain", "exited"}
  /\ ready \in Seq(Handlers)
  /\ accepted \in Nat /\ ingested \in Nat /\ lookups \in Nat
  /\ opening \in [Assets -> Nat] \cup {None}
  /\ told \in [OrderIds -> OrderReports]

\* A number of a book is the one written in the message.
Means(mantissa, exponent, text) ==
  mantissa * TenTo[Places(text)] = Digits(text) * TenTo[-exponent]
AsWritten(book, message) ==
  /\ Means(book.bid, book.price_exponent, message.bid)
  /\ Means(book.ask, book.price_exponent, message.ask)
  /\ Means(book.bid_qty, book.qty_exponent, message.bid_qty)
  /\ Means(book.ask_qty, book.qty_exponent, message.ask_qty)

\* "no floating-point rounding on ingestion" (orderbook.hpp): every text is read
\* and every pair of numbers brought to one exponent exactly or refused (looked
\* at before the first message only), and the latest book of a symbol holds the
\* numbers of the message it came from.
DecimalsAreExact ==
  /\ ingested = 0 => /\ \A text \in Texts : ReadsExactly(text)
                     /\ \A bid, ask \in Numbers : PairsExactly(bid, ask)
  /\ \A s \in Symbols : books[s] # None =>
       \E i \in 1..position[s] : /\ Stream[s][i].id = books[s].id
                                /\ AsWritten(books[s], Stream[s][i])

\* Of all ways three markets can connect the assets (looked at before the first
\* message only), exactly the triangles with USDT are accepted, each as two round
\* trips in opposite directions; and an accepted opportunity follows such a path.
Layouts == [Positions -> [trading : BOOLEAN, base : Assets, quote : Assets]]
PathsAreRoundTrips ==
  /\ ingested = 0 => \A markets \in Layouts : BuildsRoundTrips(markets)
  /\ opportunity # None =>
       \E g \in DOMAIN Groups : \E p \in {1, 2} :
         /\ opportunity.path = Groups[g].paths[p]
         /\ RoundTrip(Info, opportunity.path)

\* Every opportunity the scan of an update returns fits the levels it is priced
\* at and the configured input.
ScanFits ==
  [][\A s \in Symbols : books'[s] # books[s] => EdgeFits(books', Groups, s)]_vars

\* The scan of an update finds an edge exactly when a path through its symbol,
\* taken as a whole, has one.
ScanFindsEdge ==
  [][\A s \in Symbols : books'[s] # books[s] => EdgeFound(books', Groups, s)]_vars

\* What the best level of an update offers is sold once, however many orders
\* and cycles take it and however often the update is sent again.
LiquiditySoldOnce ==
  \A k \in Sides :
    shown_used[k] > 0 => shown_used[k] <= Liquidity(books[k.symbol], k.buy)

\* The executor's view of a cycle and the gateway's wallet never part: what
\* the wallet gained or lost since the budget was set aside is what the
\* holdings say, fees and leftovers of every leg included.  (Only a cycle
\* that was stopped ignores its last report.)
HoldingsMatchWallet ==
  opening # None /\ state # "HALTED" =>
    \A a \in Assets : wallet[a] - opening[a] = holdings[a] - Only("USDT", budget)[a]

\* The exchange quotes prices in ticks.
QuotedInTicks ==
  \A s \in Symbols : \A i \in DOMAIN Stream[s] :
    Decode(Stream[s][i]) # None =>
      \A buy \in BOOLEAN :
        Down(Price(Decode(Stream[s][i]), buy), Markets[s].tick) = Price(Decode(Stream[s][i]), buy)

\* Books do not change while a cycle runs (legs and fills follow one another
\* within one poll), so what preflight validated is honoured: the simulated
\* exchange rejects none of the legs, and one expires only because an earlier
\* cycle took liquidity of the same update.
PreflightHonoured ==
  [][\A o \in OrderIds :
       orders[o] = None /\ orders'[o] # None /\ state = "LEG_PENDING" =>
         \/ orders'[o].status = "Filled"
         \/ /\ orders'[o].status = "Expired"
            /\ shown_used[[symbol |-> pending.symbol, buy |-> pending.buy]] > 0]_vars

-----------------------------------------------------------------------------
(***************************************************************************)
(* The gateway's contract: submit() and query() calls wait in the          *)
(* io_context's queue.                                                     *)
(***************************************************************************)
CallsIn(queue) ==
  LET calls[i \in 0..Len(queue)] ==
        IF i = 0 THEN <<>>
        ELSE IF queue[i].kind = "fill" THEN Append(calls[i - 1], queue[i].order.id)
        ELSE IF queue[i].kind = "lookup" THEN Append(calls[i - 1], queue[i].id)
        ELSE calls[i - 1]
  IN calls[Len(queue)]
Calls == CallsIn(ready)

Gateway ==
  INSTANCE OrderGateway WITH
    Orders <- OrderIds, calls <- Calls, alive <- phase # "exited",
    told <- [o \in OrderIds |-> [revision |-> told[o].revision, filled |-> told[o].filled,
                                rejected |-> told[o].status = "Rejected"]]

\* Every order and every lookup is answered once, in the order of the calls,
\* and never takes back what was said before.
ImplementsGateway == Gateway!Spec
=============================================================================

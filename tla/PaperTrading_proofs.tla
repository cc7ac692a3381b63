-------------------------- MODULE PaperTrading_proofs --------------------------
(***************************************************************************)
(* Paper mode, for every configuration and stream: the inductive invariant *)
(* of the cycle under way and its one order, and from it the types, what   *)
(* is sold of an update, the wallet and the holdings, and the contract the *)
(* simulated exchange keeps with its callers.                              *)
(***************************************************************************)
EXTENDS PaperRules_proofs

(***************************************************************************)
(* The inductive invariant.                                                *)
(***************************************************************************)
Typed == TypeOK /\ books \in Books /\ (opportunity = None \/ Found(opportunity))

\* A cycle under way has an opportunity, a number and, once a leg was sent, the
\* order of that leg.
Underway ==
  state \in {"VALIDATING", "LEG_PENDING"} => opportunity # None /\ accepted \in 1..CycleBound
Numbered ==
  /\ state = "LEG_PENDING" => pending # None
  /\ pending # None => leg_number \in 0..2 /\ pending.id = <<accepted, leg_number + 1>>
Unoccupied == state \in {"IDLE", "VALIDATING"} => pending = None

\* At most one order waits to be filled, it is the pending one, and nothing was
\* reported of it.
Fills(queue) == {i \in DOMAIN queue : queue[i].kind = "fill"}
Queued(queue, now, order, reports) ==
  /\ \A i \in Fills(queue) :
       /\ now \in {"LEG_PENDING", "HALTED"} /\ order # None
       /\ queue[i].order = order /\ reports[order.id] = None
  /\ \A i, j \in Fills(queue) : i = j
OneOrder == Queued(ready, state, pending, orders)

\* The pending order is lawful, and what the executor holds pays for it.
Funded ==
  state = "LEG_PENDING" =>
    PaidBy(Markets[pending.symbol], pending, holdings[SpentBy(pending)],
           pending.price, pending.quantity)

\* The numbers of legs not sent yet are free.
ToCome(c, l) ==
  \/ c > accepted
  \/ c = accepted /\ state = "VALIDATING"
  \/ c = accepted /\ state = "LEG_PENDING" /\ l > leg_number
Unsent == \A c \in 1..CycleBound : \A l \in 1..3 : ToCome(c, l) => orders[<<c, l>>] = None

Inv == Typed /\ Underway /\ Numbered /\ Unoccupied /\ OneOrder /\ Funded /\ Unsent

(***************************************************************************)
(* The queue of handlers.                                                  *)
(***************************************************************************)
\* A handler that is no fill adds no fill.
LEMMA OtherAppended ==
  ASSUME NEW queue \in Seq(Handlers), NEW handler \in Handlers, handler.kind # "fill"
  PROVE  /\ Append(queue, handler) \in Seq(Handlers)
         /\ Fills(Append(queue, handler)) = Fills(queue)
         /\ \A i \in Fills(queue) : Append(queue, handler)[i] = queue[i]
<1> DEFINE next == Append(queue, handler)
<1>1. /\ next \in Seq(Handlers) /\ Len(next) = Len(queue) + 1 /\ Len(queue) \in Nat
      /\ \A i \in 1..Len(queue) : next[i] = queue[i]
      /\ next[Len(queue) + 1] = handler
  <2> HIDE DEF Handlers
  <2> QED
    BY AppendProperties
<1>2. DOMAIN next = 1..Len(queue) + 1 /\ DOMAIN queue = 1..Len(queue)
  <2> HIDE DEF Handlers, next
  <2> QED
    BY <1>1
<1> HIDE DEF next
<1>3. \A i : i \in Fills(next) <=> i \in Fills(queue)
  BY <1>1, <1>2 DEF Fills
<1>4. \A i \in Fills(queue) : next[i] = queue[i]
  BY <1>1, <1>2 DEF Fills
<1>5. Fills(next) = Fills(queue)
  BY <1>3
<1> QED
  BY <1>1, <1>4, <1>5 DEF next

\* The handlers after the first.
LEMMA TailIs ==
  ASSUME NEW queue \in Seq(Handlers), queue # <<>>
  PROVE  /\ Head(queue) \in Handlers /\ Tail(queue) \in Seq(Handlers)
         /\ \A i \in Fills(Tail(queue)) :
              i + 1 \in Fills(queue) /\ i + 1 # 1 /\ Tail(queue)[i] = queue[i + 1]
         /\ Head(queue).kind = "fill" => 1 \in Fills(queue)
         /\ Head(queue) = queue[1]
<1> DEFINE rest == Tail(queue)
<1>1. /\ rest \in Seq(Handlers) /\ Len(rest) = Len(queue) - 1 /\ Len(queue) \in Nat \ {0}
      /\ \A i \in 1..Len(rest) : rest[i] = queue[i + 1]
      /\ Head(queue) \in Handlers /\ Head(queue) = queue[1]
  <2> HIDE DEF Handlers
  <2> QED
    BY HeadTailProperties
<1>2. DOMAIN rest = 1..Len(queue) - 1 /\ DOMAIN queue = 1..Len(queue)
  <2> HIDE DEF Handlers, rest
  <2> QED
    BY <1>1
<1> HIDE DEF rest
<1>3. \A i \in Fills(rest) : i + 1 \in Fills(queue) /\ i + 1 # 1 /\ rest[i] = queue[i + 1]
  BY <1>1, <1>2 DEF Fills
<1>4. Head(queue).kind = "fill" => 1 \in Fills(queue)
  BY <1>1, <1>2 DEF Fills
<1> QED
  BY <1>1, <1>3, <1>4 DEF rest

\* Running a handler leaves the others as they are.
LEMMA QueuedTail ==
  ASSUME NEW queue \in Seq(Handlers), queue # <<>>, NEW now, NEW order, NEW reports,
         Queued(queue, now, order, reports)
  PROVE  Queued(Tail(queue), now, order, reports)
<1>1. \A i \in Fills(Tail(queue)) :
        i + 1 \in Fills(queue) /\ i + 1 # 1 /\ Tail(queue)[i] = queue[i + 1]
  BY TailIs
<1>2. \A i \in Fills(Tail(queue)) : i \in Int
  <2>1. Tail(queue) \in Seq(Handlers)
    BY TailIs
  <2> HIDE DEF Handlers
  <2>2. DOMAIN Tail(queue) = 1..Len(Tail(queue)) /\ Len(Tail(queue)) \in Nat
    BY <2>1
  <2> QED
    BY <2>2 DEF Fills
<1>3. \A i, j \in Fills(Tail(queue)) : i + 1 = j + 1 => i = j
  BY <1>2
<1>4. \A i, j \in Fills(Tail(queue)) : i = j
  BY <1>1, <1>3 DEF Queued
<1> QED
  BY <1>1, <1>4 DEF Queued

\* Once the fill runs, no other is queued.
LEMMA FillTaken ==
  ASSUME NEW queue \in Seq(Handlers), queue # <<>>, NEW now, NEW order, NEW reports,
         Queued(queue, now, order, reports), Head(queue).kind = "fill"
  PROVE  /\ Fills(Tail(queue)) = {} /\ Head(queue).order = order
         /\ now \in {"LEG_PENDING", "HALTED"} /\ order # None /\ reports[order.id] = None
<1>1. 1 \in Fills(queue) /\ Head(queue) = queue[1]
  BY TailIs
<1>2. \A i \in Fills(Tail(queue)) : i + 1 \in Fills(queue) /\ i + 1 # 1
  BY TailIs
<1>3. Fills(Tail(queue)) = {}
  BY <1>1, <1>2 DEF Queued
<1> QED
  BY <1>1, <1>3 DEF Queued

\* No fill, nothing to say.
LEMMA NoFillQueued ==
  ASSUME NEW queue, Fills(queue) = {}, NEW now, NEW order, NEW reports
  PROVE  Queued(queue, now, order, reports)
BY DEF Queued

\* A handler that is no fill leaves what is said of the fills.
LEMMA QueuedOther ==
  ASSUME NEW queue \in Seq(Handlers), NEW handler \in Handlers, handler.kind # "fill",
         NEW now, NEW order, NEW reports, Queued(queue, now, order, reports)
  PROVE  Queued(Append(queue, handler), now, order, reports)
BY OtherAppended DEF Queued

\* A fill added to a queue without one.
LEMMA QueuedFill ==
  ASSUME NEW queue \in Seq(Handlers), Fills(queue) = {}, NEW order \in Requests, order # None,
         NEW now \in {"LEG_PENDING", "HALTED"}, NEW reports, reports[order.id] = None
  PROVE  /\ Append(queue, [kind |-> "fill", order |-> order]) \in Seq(Handlers)
         /\ Queued(Append(queue, [kind |-> "fill", order |-> order]), now, order, reports)
<1> DEFINE handler == [kind |-> "fill", order |-> order]
           next == Append(queue, handler)
<1>1. handler \in Handlers /\ handler.order = order
  BY DEF Handlers
<1>2. /\ next \in Seq(Handlers) /\ Len(next) = Len(queue) + 1 /\ Len(queue) \in Nat
      /\ \A i \in 1..Len(queue) : next[i] = queue[i]
      /\ next[Len(queue) + 1] = handler
  <2> HIDE DEF Handlers, handler
  <2> QED
    BY <1>1, AppendProperties
<1>3. DOMAIN next = 1..Len(queue) + 1 /\ DOMAIN queue = 1..Len(queue)
  <2> HIDE DEF Handlers, next
  <2> QED
    BY <1>2
<1> HIDE DEF next, handler
<1>4. \A i \in Fills(next) : i = Len(queue) + 1
  BY <1>2, <1>3 DEF Fills
<1>5. Queued(next, now, order, reports)
  BY <1>1, <1>2, <1>4 DEF Queued
<1> QED
  BY <1>2, <1>5 DEF next, handler

(***************************************************************************)
(* The steps of a cycle.                                                   *)
(***************************************************************************)
Request(leg, order) ==
  LET step == opportunity.path[leg + 1]
  IN [id |-> <<accepted, leg + 1>>, symbol |-> step.index, buy |-> step.buy,
      price |-> order.price, quantity |-> order.quantity, initial_clear |-> FALSE]
Prepared(leg, amounts) ==
  LET step == opportunity.path[leg + 1]
  IN PrepareFast(Markets[step.index], step, amounts[Spent(Markets[step.index], step.buy)],
                 opportunity.prices[leg + 1])

Ended(amounts) ==
  /\ state' = "IDLE" /\ pending' = None /\ timeout' = FALSE /\ holdings' = amounts
  /\ ready' = Tail(ready)
  /\ UNCHANGED <<budget, opportunity, waiting_gateway, accepted>>
Sent(leg, amounts) ==
  /\ leg < 3 /\ Prepared(leg, amounts) # None
  /\ state' = "LEG_PENDING" /\ pending' = Request(leg, Prepared(leg, amounts))
  /\ holdings' = amounts
  /\ ready' = Append(Tail(ready), [kind |-> "fill", order |-> pending'])
  /\ UNCHANGED <<budget, opportunity, waiting_gateway, timeout, accepted>>

\* next_leg() ends the cycle or sends the order of the leg.
LEMMA NextLegIs ==
  ASSUME NEW leg, NEW amounts, NextLeg(leg, amounts)
  PROVE  leg_number' = leg /\ (Ended(amounts) \/ Sent(leg, amounts))
<1> DEFINE order == Prepared(leg, amounts)
<1>1. /\ leg_number' = leg
      /\ \/ EndCycle(amounts) /\ ready' = Tail(ready)
         \/ /\ leg < 3 /\ order # None
            /\ state' = "LEG_PENDING" /\ pending' = Request(leg, order) /\ holdings' = amounts
            /\ ready' = Append(Tail(ready), [kind |-> "fill", order |-> Request(leg, order)])
            /\ UNCHANGED <<budget, opportunity, waiting_gateway, timeout, accepted>>
  BY DEF NextLeg, Prepared, Request
<1>2. CASE EndCycle(amounts) /\ ready' = Tail(ready)
  BY <1>1, <1>2 DEF EndCycle, Ended
<1>3. CASE /\ leg < 3 /\ order # None
           /\ state' = "LEG_PENDING" /\ pending' = Request(leg, order) /\ holdings' = amounts
           /\ ready' = Append(Tail(ready), [kind |-> "fill", order |-> Request(leg, order)])
           /\ UNCHANGED <<budget, opportunity, waiting_gateway, timeout, accepted>>
  <2>1. leg_number' = leg
    BY <1>1
  <2> QED
    BY <1>3, <2>1 DEF Sent
<1> QED
  BY <1>1, <1>2, <1>3

\* The order of a leg is lawful and paid for.
LEMMA RequestFits ==
  ASSUME NEW leg \in 0..2, NEW amounts \in [Assets -> Nat], Found(opportunity),
         accepted \in 1..CycleBound, Prepared(leg, amounts) # None,
         NEW order, order = Request(leg, Prepared(leg, amounts))
  PROVE  /\ order \in Requests /\ order # None /\ order.id = <<accepted, leg + 1>>
         /\ order.symbol = opportunity.path[leg + 1].index
         /\ order.buy = opportunity.path[leg + 1].buy /\ ~order.initial_clear
         /\ Lawful(Markets[order.symbol], order) /\ order.price > 0
         /\ order.price = AcceptedPrice(opportunity.prices[leg + 1], Markets[order.symbol].tick)
         /\ order.quantity = Sized(Markets[order.symbol], opportunity.path[leg + 1],
                                   amounts[SpentBy(order)], order.price)
         /\ PaidBy(Markets[order.symbol], order, amounts[SpentBy(order)], order.price, order.quantity)
<1> DEFINE step == opportunity.path[leg + 1]
           market == Markets[step.index]
           amount == amounts[Spent(market, step.buy)]
           rate == opportunity.prices[leg + 1]
           size == PrepareFast(market, step, amount, rate)
<1>1. /\ step \in Legs /\ rate \in Positive
  BY DEF Found
<1>2. step.index \in Symbols /\ step.buy \in BOOLEAN
  BY <1>1 DEF Legs
<1>3. market \in Ranges /\ market.tick > 0 /\ market.step > 0
  BY <1>2, MarketTypes
<1>4. amount \in Nat
  <2>1. Spent(market, step.buy) \in Assets
    BY <1>3 DEF Spent, Ranges
  <2> QED
    BY <2>1
<1>5. size # None /\ size = Prepared(leg, amounts)
  BY DEF Prepared
<1>6. /\ size.price = AcceptedPrice(rate, market.tick)
      /\ size.quantity = Sized(market, step, amount, size.price)
      /\ size.price \in Nat \ {0} /\ size.quantity \in Nat
      /\ Valid(market, size.price, size.quantity)
      /\ Down(size.price, market.tick) = size.price
      /\ Down(size.quantity, market.step) = size.quantity
      /\ PaidBy(market, step, amount, size.price, size.quantity)
  <2> HIDE DEF step, market, amount, rate, size
  <2>1. size = PrepareFast(market, step, amount, rate)
    BY DEF size
  <2> QED
    BY <1>1, <1>2, <1>3, <1>4, <1>5, <2>1, PreparedFits
<1>7. <<accepted, leg + 1>> \in OrderIds
  <2>1. <<accepted, leg + 1>> \in (1..CycleBound) \X (1..3)
    OBVIOUS
  <2> QED
    BY <2>1, BoundsAssumption
<1>8. order = [id |-> <<accepted, leg + 1>>, symbol |-> step.index, buy |-> step.buy,
               price |-> size.price, quantity |-> size.quantity, initial_clear |-> FALSE]
  BY <1>5 DEF Request
<1> HIDE DEF size
<1>9. /\ order.id = <<accepted, leg + 1>> /\ order.symbol = step.index /\ order.buy = step.buy
      /\ order.price = size.price /\ order.quantity = size.quantity /\ ~order.initial_clear
  BY <1>8
<1>10. order \in Requests
  <2>1. size.price \in Nat /\ FALSE \in BOOLEAN
    BY <1>6
  <2> HIDE DEF step, market, amount
  <2> QED
    BY <1>2, <1>6, <1>7, <1>8, <2>1 DEF Requests
<1>11. order # None
  BY <1>10, NoneAssumption
<1>12. Lawful(Markets[order.symbol], order)
  BY <1>6, <1>9 DEF Lawful
<1>13. amounts[SpentBy(order)] = amount
  BY <1>9 DEF SpentBy
<1>14. PaidBy(Markets[order.symbol], order, amount, order.price, order.quantity)
  BY <1>6, <1>9 DEF PaidBy
<1>15. Markets[order.symbol] = market
  BY <1>9
<1>16. /\ order.symbol = opportunity.path[leg + 1].index
       /\ order.buy = opportunity.path[leg + 1].buy
  BY <1>9
<1> HIDE DEF market
<1>17. /\ order.price = AcceptedPrice(opportunity.prices[leg + 1], Markets[order.symbol].tick)
       /\ order.quantity = Sized(Markets[order.symbol], opportunity.path[leg + 1],
                                 amounts[SpentBy(order)], order.price)
  <2> HIDE DEF amount
  <2> QED
    BY <1>6, <1>9, <1>13, <1>15
<1>18. PaidBy(Markets[order.symbol], order, amounts[SpentBy(order)], order.price, order.quantity)
  <2> HIDE DEF amount
  <2> QED
    BY <1>13, <1>14
<1>19. order.price > 0
  <2> HIDE DEF amount
  <2> QED
    BY <1>6, <1>9
<1> HIDE DEF step, rate, amount
<1> QED
  BY <1>9, <1>10, <1>11, <1>12, <1>16, <1>17, <1>18, <1>19

\* Settling a report of the pending order.
LEMMA SettleIs ==
  ASSUME holdings \in [Assets -> Nat], pending \in Requests, NEW r, Reported(pending, r),
         PaidBy(Markets[pending.symbol], pending, holdings[SpentBy(pending)],
                pending.price, pending.quantity)
  PROVE  /\ Settle(r) \in [Assets -> Nat]
         /\ \A a \in Assets : Settle(r)[a] = holdings[a] + Change(pending, r, a)
<1> DEFINE market == Markets[pending.symbol]
           spend == SpentBy(pending)
           receive == ReceivedBy(pending)
           cost == Cost(pending, r)
           proceeds == Proceeds(pending, r)
<1>1. /\ spend \in Assets /\ receive \in Assets /\ spend # receive /\ pending.buy \in BOOLEAN
      /\ pending.quantity \in Nat /\ pending.price \in Nat
  BY OrderTypes
<1>2. r.filled \in Nat /\ r.quote \in Nat /\ r.commissions \in [Assets -> Nat]
  BY DEF Reported, OrderReports
<1>3. cost \in Nat /\ proceeds \in Nat
  BY <1>2 DEF Cost, Proceeds
<1>4. cost <= holdings[spend] /\ holdings[spend] \in Nat
  <2>1. holdings[spend] \in Nat
    <3> HIDE DEF spend
    <3> QED
      BY <1>1
  <2>2. Notional(pending.price, pending.quantity) \in Nat
    BY <1>1, NotionalTypes
  <2>3. CASE pending.buy
    <3>1. r.quote <= Notional(pending.price, pending.quantity)
      BY <2>3 DEF Reported
    <3>2. Notional(pending.price, pending.quantity) <= holdings[spend]
      BY <2>3 DEF PaidBy
    <3>3. cost = r.quote
      BY <2>3 DEF Cost
    <3> HIDE DEF spend, cost
    <3> QED
      BY <1>2, <2>1, <2>2, <3>1, <3>2, <3>3
  <2>4. CASE ~pending.buy
    <3>1. r.filled <= pending.quantity
      BY DEF Reported
    <3>2. pending.quantity <= holdings[spend]
      BY <2>4 DEF PaidBy
    <3>3. cost = r.filled
      BY <2>4 DEF Cost
    <3> HIDE DEF spend, cost
    <3> QED
      BY <1>1, <1>2, <2>1, <3>1, <3>2, <3>3
  <2> QED
    BY <2>3, <2>4
<1>5. SettleGross(r) = Moved(holdings, spend, receive, cost, proceeds)
  BY DEF SettleGross, Moved, SpentBy, ReceivedBy, Cost, Proceeds
<1>6. \A a \in Assets : SettleGross(r)[a] =
        holdings[a] + (IF a = receive THEN proceeds ELSE 0) - (IF a = spend THEN cost ELSE 0)
  <2>1. holdings \in [Assets -> Int] /\ cost \in Int /\ proceeds \in Int
    <3> HIDE DEF cost, proceeds
    <3> QED
      BY <1>3
  <2> HIDE DEF cost, proceeds, spend, receive
  <2> QED
    BY <1>1, <1>5, <2>1, MovedIs
<1>7. Commission(proceeds) \in Nat /\ Commission(proceeds) <= proceeds
  <2> HIDE DEF proceeds
  <2> QED
    BY <1>3, CommissionFits
<1>8. \A a \in Assets : r.commissions[a] = IF a = receive THEN Commission(proceeds) ELSE 0
  BY DEF Reported
<1>9. Settle(r) = [a \in Assets |-> SettleGross(r)[a] - r.commissions[a]]
  BY DEF Settle
<1>10. \A a \in Assets : Change(pending, r, a) =
         (IF a = receive THEN proceeds - Commission(proceeds) ELSE 0) - (IF a = spend THEN cost ELSE 0)
  BY DEF Change
<1> HIDE DEF cost, proceeds, spend, receive
<1>11. ASSUME NEW a \in Assets
       PROVE  Settle(r)[a] = holdings[a] + Change(pending, r, a) /\ Settle(r)[a] \in Nat
  <2>1. holdings[a] \in Nat
    OBVIOUS
  <2>2. Settle(r)[a] = holdings[a] + (IF a = receive THEN proceeds ELSE 0)
                         - (IF a = spend THEN cost ELSE 0)
                         - (IF a = receive THEN Commission(proceeds) ELSE 0)
    <3>1. Settle(r)[a] = SettleGross(r)[a] - r.commissions[a]
      BY <1>9
    <3>2. SettleGross(r)[a] = holdings[a] + (IF a = receive THEN proceeds ELSE 0)
                                - (IF a = spend THEN cost ELSE 0)
      BY <1>6
    <3>3. r.commissions[a] = IF a = receive THEN Commission(proceeds) ELSE 0
      BY <1>8
    <3> QED
      BY <1>3, <1>7, <2>1, <3>1, <3>2, <3>3
  <2> QED
    BY <1>1, <1>3, <1>4, <1>7, <1>10, <2>1, <2>2
<1>12. Settle(r) \in [Assets -> Nat]
  BY <1>9, <1>11
<1> QED
  BY <1>11, <1>12

Idled(amounts) ==
  /\ waiting_gateway /\ waiting_gateway' = FALSE /\ pending' = None /\ state' = "IDLE"
  /\ holdings' = amounts /\ ready' = Tail(ready)
  /\ UNCHANGED <<budget, opportunity, leg_number, timeout, accepted, opening>>

\* What follows the report of the pending order.
Settled(r) ==
  \/ /\ state = "HALTED" /\ ready' = Tail(ready) /\ UNCHANGED cycleVars
  \/ /\ state = "LEG_PENDING" /\ UNCHANGED opening
     /\ \/ Idled(Settle(r))
        \/ Ended(Settle(r)) /\ UNCHANGED leg_number
        \/ /\ r.status = "Filled"
           /\ leg_number' = leg_number + 1
           /\ Ended(Settle(r)) \/ Sent(leg_number + 1, Settle(r))

PendingFill == Fill(pending, books[pending.symbol])

\* The handler of a submitted order fills the pending one at the current book.
LEMMA FillRuns ==
  ASSUME Inv, RunFill
  PROVE  /\ state \in {"LEG_PENDING", "HALTED"} /\ pending \in Requests
         /\ orders[pending.id] = None /\ Fills(Tail(ready)) = {}
         /\ ready # <<>> /\ Head(ready).kind = "fill" /\ Head(ready).order = pending
         /\ phase = "poll"
         /\ Reported(pending, PendingFill.report)
         /\ Paid(pending, PendingFill.report, PendingFill.wallet)
         /\ Counted(pending, PendingFill.report, books[pending.symbol], PendingFill.usage)
         /\ orders' = [orders EXCEPT ![pending.id] = PendingFill.report]
         /\ consumed' = [consumed EXCEPT ![SideOf(pending)] = PendingFill.usage]
         /\ wallet' = PendingFill.wallet
         /\ shown_used' = [shown_used EXCEPT ![SideOf(pending)] = @ + PendingFill.report.filled]
         /\ told' = [told EXCEPT ![pending.id] = PendingFill.report]
         /\ Settled(PendingFill.report)
         /\ UNCHANGED <<books, position, ingested, phase, lookups, stopping>>
<1> DEFINE order == Head(ready).order
           fill == PendingFill
           r == fill.report
<1>1. ready \in Seq(Handlers) /\ ready # <<>> /\ Head(ready).kind = "fill" /\ phase = "poll"
  BY DEF Inv, Typed, TypeOK, RunFill, Run
<1>2. /\ Fills(Tail(ready)) = {} /\ order = pending
      /\ state \in {"LEG_PENDING", "HALTED"} /\ pending # None /\ orders[pending.id] = None
  BY <1>1, FillTaken DEF Inv, OneOrder
<1>3. pending \in Requests
  BY <1>2 DEF Inv, Typed, TypeOK
<1>4. pending.id \in OrderIds /\ pending.symbol \in Symbols /\ SideOf(pending) \in Sides
  BY <1>3, OrderTypes
<1>5. books[pending.symbol] \in BookTypes \cup {None}
  BY <1>4 DEF Inv, Typed, Books
<1>6. /\ Reported(pending, r) /\ Paid(pending, r, fill.wallet)
      /\ Counted(pending, r, books[pending.symbol], fill.usage)
  <2>1. wallet \in [Assets -> Nat] /\ consumed \in [Sides -> [id : Int, used : Nat]]
    BY DEF Inv, Typed, TypeOK
  <2> QED
    BY <1>3, <1>5, <2>1, FillIs DEF PendingFill
<1>7. /\ Execute(order, books[order.symbol])
      /\ shown_used' = [shown_used EXCEPT ![SideOf(order)] = @ + orders'[order.id].filled]
      /\ told' = [told EXCEPT ![order.id] = orders'[order.id]]
      /\ OnReport(order.id, orders'[order.id])
      /\ UNCHANGED <<books, position, ingested, phase, lookups, stopping>>
  BY DEF RunFill, Run, SideOf
<1> HIDE DEF order
<1>8. /\ Execute(pending, books[pending.symbol])
      /\ shown_used' = [shown_used EXCEPT ![SideOf(pending)] = @ + orders'[pending.id].filled]
      /\ told' = [told EXCEPT ![pending.id] = orders'[pending.id]]
      /\ OnReport(pending.id, orders'[pending.id])
      /\ UNCHANGED <<books, position, ingested, phase, lookups, stopping>>
  BY <1>2, <1>7
<1>9. /\ orders' = [orders EXCEPT ![pending.id] = r]
      /\ consumed' = [consumed EXCEPT ![SideOf(pending)] = fill.usage]
      /\ wallet' = fill.wallet
  BY <1>2, <1>8 DEF Execute, SideOf, PendingFill
<1>10. orders'[pending.id] = r
  <2>1. orders \in [OrderIds -> OrderReports \cup {None}]
    BY DEF Inv, Typed, TypeOK
  <2> HIDE DEF r
  <2> QED
    BY <1>4, <1>9, <2>1
<1>11. OnReport(pending.id, r)
  BY <1>8, <1>10
<1>12. Settled(r)
  <2> HIDE DEF r, fill
  <2>1. CASE state = "HALTED"
    <3>1. ready' = Tail(ready) /\ UNCHANGED cycleVars
      BY <1>2, <1>11, <2>1 DEF OnReport
    <3> QED
      BY <2>1, <3>1 DEF Settled
  <2>2. CASE state = "LEG_PENDING"
    <3>1. /\ UNCHANGED opening
          /\ \/ /\ waiting_gateway
                /\ waiting_gateway' = FALSE /\ pending' = None /\ state' = "IDLE"
                /\ holdings' = Settle(r) /\ ready' = Tail(ready)
                /\ UNCHANGED <<budget, opportunity, leg_number, timeout, accepted>>
             \/ EndCycle(Settle(r)) /\ ready' = Tail(ready) /\ UNCHANGED leg_number
             \/ r.status = "Filled" /\ NextLeg(leg_number + 1, Settle(r))
      BY <1>2, <1>11, <2>2 DEF OnReport
    <3>2. CASE /\ waiting_gateway
               /\ waiting_gateway' = FALSE /\ pending' = None /\ state' = "IDLE"
               /\ holdings' = Settle(r) /\ ready' = Tail(ready)
               /\ UNCHANGED <<budget, opportunity, leg_number, timeout, accepted>>
      <4>1. Idled(Settle(r))
        BY <3>1, <3>2 DEF Idled
      <4> QED
        BY <2>2, <3>1, <4>1 DEF Settled
    <3>3. CASE EndCycle(Settle(r)) /\ ready' = Tail(ready) /\ UNCHANGED leg_number
      <4>1. Ended(Settle(r))
        BY <3>3 DEF EndCycle, Ended
      <4> QED
        BY <2>2, <3>1, <3>3, <4>1 DEF Settled
    <3>4. CASE r.status = "Filled" /\ NextLeg(leg_number + 1, Settle(r))
      <4>1. leg_number' = leg_number + 1 /\ (Ended(Settle(r)) \/ Sent(leg_number + 1, Settle(r)))
        BY <3>4, NextLegIs
      <4> QED
        BY <2>2, <3>1, <3>4, <4>1 DEF Settled
    <3> QED
      BY <3>1, <3>2, <3>3, <3>4
  <2> QED
    BY <1>2, <2>1, <2>2
<1> HIDE DEF r
<1>13. /\ shown_used' = [shown_used EXCEPT ![SideOf(pending)] = @ + r.filled]
       /\ told' = [told EXCEPT ![pending.id] = r]
  BY <1>8, <1>10
<1>14. UNCHANGED <<books, position, ingested, phase, lookups, stopping>>
  BY <1>8
<1>15. Head(ready).order = pending
  BY <1>2 DEF order
<1>16. /\ orders' = [orders EXCEPT ![pending.id] = PendingFill.report]
       /\ shown_used' = [shown_used EXCEPT ![SideOf(pending)] = @ + PendingFill.report.filled]
       /\ told' = [told EXCEPT ![pending.id] = PendingFill.report]
       /\ Settled(PendingFill.report)
  BY <1>9, <1>12, <1>13 DEF r
<1>17. /\ Reported(pending, PendingFill.report)
       /\ Paid(pending, PendingFill.report, PendingFill.wallet)
       /\ Counted(pending, PendingFill.report, books[pending.symbol], PendingFill.usage)
  BY <1>6 DEF r
<1> QED
  BY <1>1, <1>2, <1>3, <1>9, <1>14, <1>15, <1>16, <1>17

(***************************************************************************)
(* The invariant is inductive.                                             *)
(***************************************************************************)
\* What is said of the cycle.
CycleInv == Underway /\ Numbered /\ Unoccupied /\ Funded /\ Unsent

\* No fee and no report are values of their types.
LEMMA NoFeeTypes == NoFee \in [Assets -> Nat] /\ Unheard \in OrderReports
<1>1. NoFee \in [Assets -> Nat]
  BY DEF NoFee
<1> QED
  BY <1>1 DEF Unheard, OrderReports

\* The invariant holds at the start.
LEMMA InvInit == Init => Inv
<1> SUFFICES ASSUME Init PROVE Inv
  OBVIOUS
<1> USE DEF Init, GatewayInit
<1>1. wallet \in [Assets -> Nat] /\ consumed \in [Sides -> [id : Int, used : Nat]]
  <2>1. MaxArbitrage * AssetUnit \in Nat
    BY ScanAssumption, UnitAssumption
  <2>2. \A a \in Assets : (IF a = "USDT" THEN MaxArbitrage * AssetUnit ELSE 0) \in Nat
    BY <2>1
  <2>3. [id |-> NoUpdate, used |-> 0] \in [id : Int, used : Nat]
    BY DEF NoUpdate
  <2> QED
    BY <2>2, <2>3
<1>2. holdings \in [Assets -> Nat] /\ shown_used \in [Sides -> Nat]
  BY DEF NoHoldings
<1>3. told \in [OrderIds -> OrderReports] /\ orders \in [OrderIds -> OrderReports \cup {None}]
  BY NoFeeTypes
<1>4. ready \in Seq(Handlers) /\ Fills(ready) = {}
  BY DEF Fills
<1>5. TypeOK
  <2>1. DOMAIN books = Symbols /\ position \in [Symbols -> Nat]
    OBVIOUS
  <2>2. /\ state \in {"IDLE", "VALIDATING", "LEG_PENDING", "HALTED"}
        /\ pending \in Requests \cup {None} /\ budget \in Nat /\ leg_number \in 0..3
        /\ opening \in [Assets -> Nat] \cup {None}
    OBVIOUS
  <2>3. /\ waiting_gateway \in BOOLEAN /\ timeout \in BOOLEAN /\ stopping \in BOOLEAN
        /\ phase \in {"process", "poll", "drain", "exited"}
        /\ accepted \in Nat /\ ingested \in Nat /\ lookups \in Nat
    OBVIOUS
  <2> QED
    BY ONLY <1>1, <1>2, <1>3, <1>4, <2>1, <2>2, <2>3 DEF TypeOK
<1>6. books \in Books
  BY DEF Books
<1>7. OneOrder
  BY <1>4, NoFillQueued DEF OneOrder
<1>8. Unsent
  <2>1. ASSUME NEW c \in 1..CycleBound, NEW l \in 1..3 PROVE orders[<<c, l>>] = None
    <3>1. <<c, l>> \in OrderIds
      BY BoundsAssumption
    <3> QED
      BY <3>1
  <2> QED
    BY <2>1 DEF Unsent
<1> QED
  BY <1>5, <1>6, <1>7, <1>8 DEF Inv, Typed, Underway, Numbered, Unoccupied, Funded

\* Steps that leave the cycle alone.
LEMMA CycleKept ==
  ASSUME CycleInv,
         UNCHANGED <<orders, state, pending, holdings, opportunity, leg_number, accepted>>
  PROVE  CycleInv'
BY DEF CycleInv, Underway, Numbered, Unoccupied, Funded, Unsent, ToCome

\* Steps that end in an idle executor.
LEMMA IdleKept ==
  ASSUME CycleInv, state' = "IDLE", pending' = None, accepted' = accepted, accepted \in Nat,
         \A c \in 1..CycleBound : \A l \in 1..3 :
           c > accepted => orders'[<<c, l>>] = orders[<<c, l>>]
  PROVE  CycleInv'
<1>1. ASSUME NEW c \in 1..CycleBound, NEW l \in 1..3, ToCome(c, l)'
      PROVE  orders'[<<c, l>>] = None
  <2>1. c > accepted
    BY <1>1 DEF ToCome
  <2> QED
    BY <2>1 DEF CycleInv, Unsent, ToCome
<1>2. Unsent'
  BY <1>1 DEF Unsent
<1> QED
  BY <1>2 DEF CycleInv, Underway, Numbered, Unoccupied, Funded

\* A leg sent: its order is the pending one and the later ones are to come.
LEMMA SentKeeps ==
  ASSUME CycleInv, NEW leg \in 0..2, NEW amounts \in [Assets -> Nat], Found(opportunity),
         opportunity # None, accepted \in 1..CycleBound,
         Sent(leg, amounts), leg_number' = leg,
         \A l \in 1..3 : l > leg => orders'[<<accepted, l>>] = None,
         \A c \in 1..CycleBound : \A l \in 1..3 :
           c > accepted => orders'[<<c, l>>] = orders[<<c, l>>]
  PROVE  CycleInv' /\ pending' \in Requests /\ pending' # None /\ orders'[pending'.id] = None
<1> DEFINE order == Request(leg, Prepared(leg, amounts))
<1>1. /\ pending' = order /\ state' = "LEG_PENDING" /\ holdings' = amounts
      /\ opportunity' = opportunity /\ accepted' = accepted /\ Prepared(leg, amounts) # None
  BY DEF Sent
<1>2. /\ order \in Requests /\ order # None /\ order.id = <<accepted, leg + 1>>
      /\ PaidBy(Markets[order.symbol], order, amounts[SpentBy(order)], order.price, order.quantity)
  <2>1. order = Request(leg, Prepared(leg, amounts))
    OBVIOUS
  <2> HIDE DEF order
  <2> QED
    BY <1>1, <2>1, RequestFits
<1> HIDE DEF order
<1>3. Underway' /\ Numbered' /\ Unoccupied'
  BY <1>1, <1>2 DEF Underway, Numbered, Unoccupied
<1>4. Funded'
  BY <1>1, <1>2 DEF Funded, SpentBy
<1>5. ASSUME NEW c \in 1..CycleBound, NEW l \in 1..3, ToCome(c, l)'
      PROVE  orders'[<<c, l>>] = None
  <2>1. c > accepted \/ (c = accepted /\ l > leg)
    BY <1>1, <1>5 DEF ToCome
  <2>2. CASE c > accepted
    BY <2>2 DEF CycleInv, Unsent, ToCome
  <2>3. CASE c = accepted /\ l > leg
    BY <2>3
  <2> QED
    BY <2>1, <2>2, <2>3
<1>6. Unsent'
  BY <1>5 DEF Unsent
<1>7. orders'[<<accepted, leg + 1>>] = None
  <2>1. leg + 1 \in 1..3 /\ leg + 1 > leg
    OBVIOUS
  <2> QED
    BY <2>1
<1> QED
  BY <1>1, <1>2, <1>3, <1>4, <1>6, <1>7 DEF CycleInv

\* An update stores its book and may start a cycle.
LEMMA IngestKeeps ==
  ASSUME Inv, NEW s \in Symbols, NEW i \in DOMAIN Stream[s], Ingest(s, i)
  PROVE  Inv'
<1> DEFINE message == Stream[s][i]
           book == Decode(message)
<1>1. message \in Messages /\ i \in Nat
  <2>1. Stream[s] \in Seq(Messages)
    BY StreamAssumption
  <2> HIDE DEF Messages
  <2> QED
    BY <2>1
<1>2. book \in BookTypes \cup {None}
  BY <1>1, DecodeTypes
<1>3. /\ ingested' = ingested + 1 /\ position' = [position EXCEPT ![s] = i]
      /\ UNCHANGED <<gatewayVars, stopping, phase, callVars>>
      /\ \/ UNCHANGED <<books, shown_used, cycleVars, ready>>
         \/ /\ book # None
            /\ books' = [books EXCEPT ![s] = book]
            /\ shown_used' = [k \in Sides |->
                 IF k.symbol = s /\ NewUpdate(s, book) THEN 0 ELSE shown_used[k]]
            /\ TryStart(ScanEdge(books', Groups, s))
  BY DEF Ingest
<1> HIDE DEF book
<1>4. books' \in Books /\ shown_used' \in [Sides -> Nat]
  <2>1. books \in Books /\ shown_used \in [Sides -> Nat]
    BY DEF Inv, Typed, TypeOK
  <2>2. CASE UNCHANGED <<books, shown_used>>
    BY <2>1, <2>2
  <2>3. CASE /\ books' = [books EXCEPT ![s] = book]
             /\ shown_used' = [k \in Sides |->
                  IF k.symbol = s /\ NewUpdate(s, book) THEN 0 ELSE shown_used[k]]
    <3>1. books' \in Books
      BY <1>2, <2>1, <2>3 DEF Books
    <3>2. shown_used' \in [Sides -> Nat]
      BY <2>1, <2>3
    <3> QED
      BY <3>1, <3>2
  <2> QED
    BY <1>3, <2>2, <2>3
<1> DEFINE found == ScanEdge(books', Groups, s)
<1>5. \/ UNCHANGED <<cycleVars, ready>>
      \/ /\ found # None /\ state = "IDLE" /\ accepted < CycleBound
         /\ state' = "VALIDATING" /\ opportunity' = found /\ budget' \in Budgets(found.input)
         /\ pending' = None /\ holdings' = NoHoldings /\ leg_number' = 0
         /\ accepted' = accepted + 1 /\ opening' = None
         /\ timeout' = TRUE
         /\ ready' = Append(ready, [kind |-> "begin"])
         /\ UNCHANGED waiting_gateway
  BY <1>3 DEF TryStart
<1>6. /\ position' \in [Symbols -> Nat] /\ ingested' \in Nat /\ DOMAIN books' = Symbols
  <2>1. position \in [Symbols -> Nat] /\ ingested \in Nat
    BY DEF Inv, Typed, TypeOK
  <2> QED
    BY <1>1, <1>3, <1>4, <2>1 DEF Books
<1>7. CASE UNCHANGED <<cycleVars, ready>>
  <2>1. Typed'
    BY <1>3, <1>4, <1>6, <1>7
       DEF Inv, Typed, TypeOK, gatewayVars, callVars, cycleVars
  <2>2. CycleInv'
    <3>1. CycleInv
      BY DEF Inv, CycleInv
    <3> QED
      BY <1>3, <1>7, <3>1, CycleKept DEF gatewayVars, cycleVars
  <2>3. OneOrder'
    BY <1>3, <1>7 DEF Inv, OneOrder, gatewayVars, cycleVars
  <2> QED
    BY <2>1, <2>2, <2>3 DEF Inv, CycleInv
<1>8. CASE /\ found # None /\ state = "IDLE" /\ accepted < CycleBound
           /\ state' = "VALIDATING" /\ opportunity' = found /\ budget' \in Budgets(found.input)
           /\ pending' = None /\ holdings' = NoHoldings /\ leg_number' = 0
           /\ accepted' = accepted + 1 /\ opening' = None
           /\ timeout' = TRUE
           /\ ready' = Append(ready, [kind |-> "begin"])
           /\ UNCHANGED waiting_gateway
  <2>1. Found(found)
    BY <1>4, <1>8, EdgeTypes
  <2> HIDE DEF found
  <2>2. budget' \in Nat
    <3>1. found.input \in Positive
      BY <2>1 DEF Found
    <3> QED
      BY <1>8, <3>1, BudgetTypes
  <2>3. holdings' \in [Assets -> Nat]
    BY <1>8 DEF NoHoldings
  <2>4. ready \in Seq(Handlers) /\ [kind |-> "begin"] \in Handlers /\ Fills(ready) = {}
    <3>1. ready \in Seq(Handlers) /\ OneOrder
      BY DEF Inv, Typed, TypeOK
    <3>2. Fills(ready) = {}
      BY <1>8, <3>1 DEF OneOrder, Queued
    <3> QED
      BY <3>1, <3>2 DEF Handlers
  <2>5. ready' \in Seq(Handlers) /\ Fills(ready') = {}
    <3>1. [kind |-> "begin"].kind # "fill"
      OBVIOUS
    <3> QED
      BY <1>8, <2>4, <3>1, OtherAppended
  <2>6. accepted' \in 1..CycleBound /\ accepted' \in Nat /\ accepted \in Nat
    BY <1>8, BoundsAssumption DEF Inv, Typed, TypeOK
  <2>7. UNCHANGED <<wallet, consumed, orders, stopping, phase, lookups, told>>
    BY <1>3 DEF gatewayVars, callVars
  <2>8. Typed'
    BY <1>4, <1>6, <1>8, <2>1, <2>2, <2>3, <2>5, <2>6, <2>7 DEF Inv, Typed, TypeOK
  <2>9. OneOrder'
    BY <2>5, NoFillQueued DEF OneOrder
  <2>10. Underway' /\ Numbered' /\ Unoccupied' /\ Funded'
    BY <1>8, <2>6 DEF Underway, Numbered, Unoccupied, Funded
  <2>11. Unsent'
    <3>1. ASSUME NEW c \in 1..CycleBound, NEW l \in 1..3, ToCome(c, l)'
          PROVE  orders'[<<c, l>>] = None
      <4>1. c > accepted
        BY <1>8, <2>6, <3>1 DEF ToCome
      <4> QED
        BY <2>7, <4>1 DEF Inv, Unsent, ToCome
    <3> QED
      BY <3>1 DEF Unsent
  <2> QED
    BY <2>8, <2>9, <2>10, <2>11 DEF Inv
<1> QED
  BY <1>5, <1>7, <1>8

\* What the executor's steps leave to others.
Elsewhere ==
  /\ wallet' \in [Assets -> Nat] /\ consumed' \in [Sides -> [id : Int, used : Nat]]
  /\ orders' \in [OrderIds -> OrderReports \cup {None}]
  /\ told' \in [OrderIds -> OrderReports] /\ shown_used' \in [Sides -> Nat]
  /\ opening' \in [Assets -> Nat] \cup {None}
  /\ UNCHANGED <<books, position, ingested, lookups, stopping, phase>>

\* The later cycles' orders are as they were.
Later ==
  \A c \in 1..CycleBound : \A l \in 1..3 : c > accepted => orders'[<<c, l>>] = orders[<<c, l>>]

\* The end of a cycle.
LEMMA EndKeeps ==
  ASSUME Inv, Elsewhere, Later, ready # <<>>, Fills(Tail(ready)) = {},
         NEW amounts \in [Assets -> Nat], state' = "IDLE", pending' = None, holdings' = amounts,
         ready' = Tail(ready), timeout' \in BOOLEAN, waiting_gateway' \in BOOLEAN,
         leg_number' \in 0..3, UNCHANGED <<budget, opportunity, accepted>>
  PROVE  Inv'
<1>1. ready' \in Seq(Handlers) /\ accepted \in Nat
  BY TailIs DEF Inv, Typed, TypeOK
<1>2. Typed'
  BY <1>1 DEF Elsewhere, Inv, Typed, TypeOK
<1>3. CycleInv'
  <2>1. CycleInv
    BY DEF Inv, CycleInv
  <2> QED
    BY <1>1, <2>1, IdleKept DEF Later
<1>4. OneOrder'
  BY NoFillQueued DEF OneOrder
<1> QED
  BY <1>2, <1>3, <1>4 DEF Inv, CycleInv

\* The start of a leg.
LEMMA SendKeeps ==
  ASSUME Inv, Elsewhere, Later, ready # <<>>, Fills(Tail(ready)) = {},
         NEW leg \in 0..2, NEW amounts \in [Assets -> Nat], Sent(leg, amounts), leg_number' = leg,
         state \in {"VALIDATING", "LEG_PENDING"},
         \A l \in 1..3 : l > leg => orders'[<<accepted, l>>] = None
  PROVE  Inv'
<1>1. /\ Found(opportunity) /\ opportunity # None /\ accepted \in 1..CycleBound /\ accepted \in Nat
  BY DEF Inv, Typed, TypeOK, Underway
<1>2. CycleInv' /\ pending' \in Requests /\ pending' # None /\ orders'[pending'.id] = None
  <2>1. CycleInv
    BY DEF Inv, CycleInv
  <2> QED
    BY <1>1, <2>1, SentKeeps DEF Later
<1>3. Tail(ready) \in Seq(Handlers)
  BY TailIs DEF Inv, Typed, TypeOK
<1>4. /\ state' = "LEG_PENDING" /\ holdings' = amounts
      /\ ready' = Append(Tail(ready), [kind |-> "fill", order |-> pending'])
      /\ UNCHANGED <<budget, opportunity, waiting_gateway, timeout, accepted>>
  BY DEF Sent
<1>5. ready' \in Seq(Handlers) /\ OneOrder'
  <2>1. state' \in {"LEG_PENDING", "HALTED"}
    BY <1>4
  <2> QED
    BY <1>2, <1>3, <1>4, <2>1, QueuedFill DEF OneOrder
<1>6. Typed'
  <2>1. leg_number' \in 0..3
    OBVIOUS
  <2> QED
    BY <1>2, <1>4, <1>5, <2>1 DEF Elsewhere, Inv, Typed, TypeOK
<1> QED
  BY <1>2, <1>5, <1>6 DEF Inv, CycleInv

\* A budget is a wallet of its own.
LEMMA OnlyTypes ==
  ASSUME NEW amount \in Nat
  PROVE  Only("USDT", amount) \in [Assets -> Nat]
BY DEF Only, NoHoldings

\* Steps of the cycle that do not touch the gateway.
LEMMA StillElsewhere ==
  ASSUME Inv, UNCHANGED <<gatewayVars, bookVars, callVars, stopping, phase>>,
         opening' \in [Assets -> Nat] \cup {None}
  PROVE  Elsewhere /\ Later
<1>1. Elsewhere
  BY DEF Inv, Typed, TypeOK, Elsewhere, gatewayVars, bookVars, callVars
<1> QED
  BY <1>1 DEF Later, gatewayVars

\* begin() ends the cycle, starts it or finds that it was stopped.
LEMMA BeginKeeps ==
  ASSUME Inv, RunBegin
  PROVE  Inv'
<1> DEFINE amounts == Only("USDT", budget)
<1>1. /\ ready # <<>> /\ ready \in Seq(Handlers) /\ Head(ready).kind = "begin"
      /\ UNCHANGED <<gatewayVars, bookVars, callVars, stopping, phase>>
      /\ budget \in Nat /\ wallet \in [Assets -> Nat] /\ holdings \in [Assets -> Nat]
      /\ leg_number \in 0..3 /\ waiting_gateway \in BOOLEAN
      /\ opening \in [Assets -> Nat] \cup {None}
  BY DEF Inv, Typed, TypeOK, RunBegin, Run
<1>2. amounts \in [Assets -> Nat]
  BY <1>1, OnlyTypes
<1> HIDE DEF amounts
<1>3. \/ ready' = Tail(ready) /\ UNCHANGED cycleVars
      \/ /\ state = "VALIDATING"
         /\ opening' \in {opening, wallet}
         /\ \/ UNCHANGED leg_number /\ (Ended(holdings) \/ Ended(amounts))
            \/ NextLeg(0, amounts)
  <2>1. CASE state # "VALIDATING" \/ stopping
    BY <2>1 DEF RunBegin
  <2>2. CASE state = "VALIDATING" /\ ~stopping
    BY <2>2 DEF RunBegin, EndCycle, Ended, amounts
  <2> QED
    BY <2>1, <2>2
<1>4. CASE ready' = Tail(ready) /\ UNCHANGED cycleVars
  <2>1. ready' \in Seq(Handlers)
    BY <1>1, <1>4, TailIs
  <2>2. Typed'
    BY <1>1, <1>4, <2>1
       DEF Inv, Typed, TypeOK, gatewayVars, bookVars, callVars, cycleVars
  <2>3. CycleInv'
    <3>1. CycleInv
      BY DEF Inv, CycleInv
    <3> QED
      BY <1>1, <1>4, <3>1, CycleKept DEF gatewayVars, cycleVars
  <2>4. OneOrder'
    <3>1. Queued(Tail(ready), state, pending, orders)
      BY <1>1, QueuedTail DEF Inv, OneOrder
    <3> QED
      BY <1>1, <1>4, <3>1 DEF OneOrder, gatewayVars, cycleVars
  <2> QED
    BY <2>2, <2>3, <2>4 DEF Inv, CycleInv
<1>5. CASE /\ state = "VALIDATING"
           /\ opening' \in {opening, wallet}
           /\ \/ UNCHANGED leg_number /\ (Ended(holdings) \/ Ended(amounts))
              \/ NextLeg(0, amounts)
  <2>1. Elsewhere /\ Later
    BY <1>1, <1>5, StillElsewhere
  <2>2. Fills(Tail(ready)) = {}
    <3>1. Queued(Tail(ready), state, pending, orders)
      BY <1>1, QueuedTail DEF Inv, OneOrder
    <3> QED
      BY <1>5, <3>1 DEF Queued
  <2>3. ASSUME NEW held \in [Assets -> Nat], Ended(held), leg_number' \in 0..3 PROVE Inv'
    <3>1. /\ state' = "IDLE" /\ pending' = None /\ holdings' = held /\ ready' = Tail(ready)
          /\ timeout' \in BOOLEAN /\ waiting_gateway' \in BOOLEAN
          /\ UNCHANGED <<budget, opportunity, accepted>>
      BY <1>1, <2>3 DEF Ended
    <3> QED
      BY <1>1, <2>1, <2>2, <2>3, <3>1, EndKeeps
  <2>4. CASE UNCHANGED leg_number /\ (Ended(holdings) \/ Ended(amounts))
    BY <1>1, <1>2, <2>3, <2>4
  <2>5. CASE NextLeg(0, amounts)
    <3>1. leg_number' = 0 /\ (Ended(amounts) \/ Sent(0, amounts))
      BY <2>5, NextLegIs
    <3>2. CASE Ended(amounts)
      BY <1>2, <2>3, <3>1, <3>2
    <3>3. CASE Sent(0, amounts)
      <4>1. \A l \in 1..3 : orders'[<<accepted, l>>] = None
        <5>1. accepted \in 1..CycleBound
          BY <1>5 DEF Inv, Underway
        <5>2. \A l \in 1..3 : orders[<<accepted, l>>] = None
          BY <1>5, <5>1 DEF Inv, Unsent, ToCome
        <5> QED
          BY <1>1, <5>2 DEF gatewayVars
      <4> QED
        <5>1. 0 \in 0..2 /\ leg_number' = 0 /\ state \in {"VALIDATING", "LEG_PENDING"}
          BY <1>5, <3>1
        <5>2. \A l \in 1..3 : l > 0 => orders'[<<accepted, l>>] = None
          BY <4>1
        <5>3. Elsewhere /\ Later /\ ready # <<>> /\ Fills(Tail(ready)) = {}
          BY <1>1, <2>1, <2>2
        <5> QED
          BY <1>2, <3>3, <5>1, <5>2, <5>3, SendKeeps
    <3> QED
      BY <3>1, <3>2, <3>3
  <2> QED
    BY <1>5, <2>4, <2>5
<1> QED
  BY <1>3, <1>4, <1>5

\* The fill of the pending order and what follows its report.
LEMMA FillKeeps ==
  ASSUME Inv, RunFill
  PROVE  Inv'
<1> DEFINE r == PendingFill.report
<1>1. /\ state \in {"LEG_PENDING", "HALTED"} /\ pending \in Requests
      /\ Fills(Tail(ready)) = {} /\ ready # <<>>
      /\ Reported(pending, r) /\ Paid(pending, r, PendingFill.wallet)
      /\ PendingFill.usage \in [id : Int, used : Nat]
      /\ orders' = [orders EXCEPT ![pending.id] = r]
      /\ consumed' = [consumed EXCEPT ![SideOf(pending)] = PendingFill.usage]
      /\ wallet' = PendingFill.wallet
      /\ shown_used' = [shown_used EXCEPT ![SideOf(pending)] = @ + r.filled]
      /\ told' = [told EXCEPT ![pending.id] = r]
      /\ Settled(r)
      /\ UNCHANGED <<books, position, ingested, phase, lookups, stopping>>
  BY FillRuns DEF Counted
<1> HIDE DEF r
<1>2. /\ TypeOK /\ ready \in Seq(Handlers) /\ accepted \in Nat /\ pending # None
  BY <1>1, NoneAssumption DEF Inv, Typed, TypeOK
<1>3. r \in OrderReports /\ r.filled \in Nat /\ wallet' \in [Assets -> Nat]
  BY <1>1 DEF Reported, Paid, OrderReports
<1>4. /\ pending.id \in OrderIds /\ SideOf(pending) \in Sides
      /\ leg_number \in 0..2 /\ pending.id = <<accepted, leg_number + 1>>
  BY <1>1, <1>2, OrderTypes DEF Inv, Numbered
<1>5. /\ consumed' \in [Sides -> [id : Int, used : Nat]]
      /\ orders' \in [OrderIds -> OrderReports \cup {None}]
      /\ told' \in [OrderIds -> OrderReports]
  BY <1>1, <1>2, <1>3 DEF TypeOK
<1>6. shown_used' \in [Sides -> Nat]
  BY <1>1, <1>2, <1>3, <1>4 DEF TypeOK
<1>7. \A c, l : c # accepted \/ l # leg_number + 1 =>
        orders'[<<c, l>>] = orders[<<c, l>>]
  <2>1. ASSUME NEW c, NEW l, c # accepted \/ l # leg_number + 1
        PROVE  orders'[<<c, l>>] = orders[<<c, l>>]
    <3>1. <<c, l>> # pending.id
      BY <1>4, <2>1
    <3> QED
      BY <1>1, <3>1
  <2> QED
    BY <2>1
<1>8. Later
  <2>1. \A c \in 1..CycleBound : c > accepted => c # accepted
    BY <1>2
  <2> QED
    BY <1>7, <2>1 DEF Later
<1>9. CASE state = "HALTED" /\ ready' = Tail(ready) /\ UNCHANGED cycleVars
  <2>1. ready' \in Seq(Handlers)
    BY <1>1, <1>2, <1>9, TailIs
  <2>2. Typed'
    BY <1>1, <1>3, <1>5, <1>6, <1>9, <2>1 DEF Inv, Typed, TypeOK, cycleVars
  <2>3. OneOrder'
    BY <1>1, <1>9, NoFillQueued DEF OneOrder
  <2>4. Underway' /\ Numbered' /\ Unoccupied' /\ Funded'
    BY <1>9 DEF Inv, Underway, Numbered, Unoccupied, Funded, cycleVars
  <2>5. Unsent'
    BY <1>8, <1>9 DEF Inv, Unsent, ToCome, Later, cycleVars
  <2> QED
    BY <2>2, <2>3, <2>4, <2>5 DEF Inv
<1>10. CASE state = "LEG_PENDING"
  <2>1. /\ UNCHANGED opening
        /\ \/ Idled(Settle(r))
           \/ Ended(Settle(r)) /\ UNCHANGED leg_number
           \/ /\ leg_number' = leg_number + 1
              /\ Ended(Settle(r)) \/ Sent(leg_number + 1, Settle(r))
    BY <1>1, <1>10 DEF Settled
  <2>2. Elsewhere
    BY <1>1, <1>2, <1>3, <1>5, <1>6, <2>1 DEF Elsewhere, TypeOK
  <2>3. Settle(r) \in [Assets -> Nat]
    <3>1. PaidBy(Markets[pending.symbol], pending, holdings[SpentBy(pending)],
                 pending.price, pending.quantity)
      BY <1>10 DEF Inv, Funded
    <3> QED
      BY <1>1, <1>2, <3>1, SettleIs DEF TypeOK
  <2> DEFINE amounts == Settle(r)
  <2> HIDE DEF amounts
  <2>4. leg_number + 1 \in 0..3 /\ waiting_gateway \in BOOLEAN /\ timeout \in BOOLEAN
        /\ leg_number \in 0..3
    BY <1>2, <1>4 DEF TypeOK
  <2>5. CASE Idled(amounts) \/ (Ended(amounts) /\ leg_number' \in {leg_number, leg_number + 1})
    <3>1. /\ state' = "IDLE" /\ pending' = None /\ holdings' = amounts /\ ready' = Tail(ready)
          /\ timeout' \in BOOLEAN /\ waiting_gateway' \in BOOLEAN /\ leg_number' \in 0..3
          /\ UNCHANGED <<budget, opportunity, accepted>>
      BY <2>4, <2>5 DEF Idled, Ended
    <3>2. amounts \in [Assets -> Nat]
      BY <2>3 DEF amounts
    <3> QED
      BY <1>1, <1>8, <2>2, <3>1, <3>2, EndKeeps
  <2>6. CASE Sent(leg_number + 1, amounts) /\ leg_number' = leg_number + 1
    <3>1. leg_number + 1 \in 0..2
      BY <1>4, <2>6 DEF Sent
    <3>2. \A l \in 1..3 : l > leg_number + 1 => orders'[<<accepted, l>>] = None
      <4>1. accepted \in 1..CycleBound
        BY <1>10 DEF Inv, Underway
      <4>2. ASSUME NEW l \in 1..3, l > leg_number + 1 PROVE orders'[<<accepted, l>>] = None
        <5>1. l > leg_number /\ l # leg_number + 1
          BY <1>4, <4>2
        <5>2. orders[<<accepted, l>>] = None
          BY <1>10, <4>1, <5>1 DEF Inv, Unsent, ToCome
        <5> QED
          BY <1>7, <5>1, <5>2
      <4> QED
        BY <4>2
    <3>3. amounts \in [Assets -> Nat]
      BY <2>3 DEF amounts
    <3> QED
      BY <1>1, <1>8, <1>10, <2>2, <2>6, <3>1, <3>2, <3>3, SendKeeps
  <2> QED
    BY <2>1, <2>5, <2>6 DEF amounts
<1> QED
  BY <1>1, <1>9, <1>10 DEF Settled

\* Handlers and steps that leave the cycle's order alone.
LEMMA QueueKeeps ==
  ASSUME Inv, ready' \in Seq(Handlers),
         Queued(ready', state, pending, orders),
         told' \in [OrderIds -> OrderReports], lookups' \in Nat, timeout' \in BOOLEAN,
         waiting_gateway' \in BOOLEAN, stopping' \in BOOLEAN,
         phase' \in {"process", "poll", "drain", "exited"},
         UNCHANGED <<gatewayVars, bookVars, pending, holdings, budget, opportunity, leg_number,
                     opening, accepted>>,
         \/ state' = state
         \/ state' = "HALTED"
         \/ state' = "IDLE" /\ state = "VALIDATING"
  PROVE  Inv'
<1>1. Typed'
  <2>1. state' \in {"IDLE", "VALIDATING", "LEG_PENDING", "HALTED"}
    BY DEF Inv, Typed, TypeOK
  <2> QED
    BY <2>1 DEF Inv, Typed, TypeOK, gatewayVars, bookVars
<1>2. UNCHANGED orders
  BY DEF gatewayVars
<1>3. Underway' /\ Numbered' /\ Unoccupied' /\ Funded'
  BY DEF Inv, Underway, Numbered, Unoccupied, Funded
<1>4. Unsent'
  BY <1>2 DEF Inv, Unsent, ToCome
<1>5. OneOrder'
  BY <1>2 DEF OneOrder, Queued
<1> QED
  BY <1>1, <1>3, <1>4, <1>5 DEF Inv

\* The timeout's handler.
LEMMA TimeoutKeeps ==
  ASSUME Inv, RunTimeout
  PROVE  Inv'
<1>1. /\ ready # <<>> /\ ready \in Seq(Handlers) /\ TypeOK /\ Queued(ready, state, pending, orders)
  BY DEF Inv, Typed, TypeOK, RunTimeout, Run, OneOrder
<1>2. ready' \in Seq(Handlers) /\ Queued(ready', state, pending, orders)
  BY <1>1, TailIs, QueuedTail DEF RunTimeout
<1>3. /\ \/ state' = state
         \/ state' = "IDLE" /\ state = "VALIDATING"
      /\ timeout' \in BOOLEAN /\ waiting_gateway' \in BOOLEAN
  BY <1>1 DEF RunTimeout, TypeOK
<1> QED
  BY <1>1, <1>2, <1>3, QueueKeeps DEF RunTimeout, Run, TypeOK, callVars

\* The signal's handler.
LEMMA StopKeeps ==
  ASSUME Inv, RunStop
  PROVE  Inv'
<1>1. /\ ready # <<>> /\ ready \in Seq(Handlers) /\ TypeOK /\ Queued(ready, state, pending, orders)
  BY DEF Inv, Typed, TypeOK, RunStop, OneOrder
<1>2. ready' \in Seq(Handlers) /\ Queued(ready', state, pending, orders)
  BY <1>1, TailIs, QueuedTail DEF RunStop
<1>3. (state' = state \/ state' = "HALTED") /\ timeout' \in BOOLEAN
  BY <1>1 DEF RunStop, TypeOK
<1> QED
  BY <1>1, <1>2, <1>3, QueueKeeps DEF RunStop, TypeOK, callVars

\* Handlers are queued, and a lookup tells what is known.
LEMMA CallsKeep ==
  ASSUME Inv,
         (\E id \in OrderIds : Query(id)) \/ RunLookup \/ TimeoutExpires \/ Signal
  PROVE  Inv'
<1>1. /\ ready \in Seq(Handlers) /\ TypeOK /\ Queued(ready, state, pending, orders)
  BY DEF Inv, Typed, TypeOK, OneOrder
<1>2. ASSUME NEW handler \in Handlers, handler.kind # "fill", ready' = Append(ready, handler)
      PROVE  ready' \in Seq(Handlers) /\ Queued(ready', state, pending, orders)
  BY <1>1, <1>2, OtherAppended, QueuedOther
<1>3. CASE \E id \in OrderIds : Query(id)
  <2>1. PICK id \in OrderIds : Query(id)
    BY <1>3
  <2> DEFINE handler == [kind |-> "lookup", id |-> id]
  <2>2. handler \in Handlers /\ handler.kind # "fill" /\ ready' = Append(ready, handler)
    BY <2>1 DEF Query, Handlers
  <2> HIDE DEF handler
  <2>3. ready' \in Seq(Handlers) /\ Queued(ready', state, pending, orders)
    BY <1>2, <2>2
  <2> QED
    BY <1>1, <2>1, <2>3, QueueKeeps DEF Query, TypeOK, cycleVars
<1>4. CASE RunLookup
  <2>1. ready # <<>> /\ Head(ready).kind = "lookup" /\ ready' = Tail(ready)
    BY <1>4 DEF RunLookup, Run
  <2>2. ready' \in Seq(Handlers) /\ Queued(ready', state, pending, orders)
    BY <1>1, <2>1, TailIs, QueuedTail
  <2>3. Head(ready).id \in OrderIds
    <3>1. Head(ready) \in Handlers
      BY <1>1, <2>1, TailIs
    <3> QED
      BY <2>1, <3>1 DEF Handlers
  <2>4. Lookup(Head(ready).id) \in OrderReports
    BY <1>1, <2>3, NoFeeTypes DEF Lookup, TypeOK
  <2>5. told' \in [OrderIds -> OrderReports]
    BY <1>1, <1>4, <2>3, <2>4 DEF RunLookup, TypeOK
  <2> QED
    BY <1>1, <1>4, <2>2, <2>5, QueueKeeps DEF RunLookup, Run, TypeOK, cycleVars
<1>5. CASE TimeoutExpires
  <2> DEFINE handler == [kind |-> "timeout"]
  <2>1. handler \in Handlers /\ handler.kind # "fill" /\ ready' = Append(ready, handler)
    BY <1>5 DEF TimeoutExpires, Handlers
  <2> HIDE DEF handler
  <2>2. ready' \in Seq(Handlers) /\ Queued(ready', state, pending, orders)
    BY <1>2, <2>1
  <2> QED
    BY <1>1, <1>5, <2>2, QueueKeeps DEF TimeoutExpires, TypeOK, callVars
<1>6. CASE Signal
  <2>1. Stop \in Handlers /\ Stop.kind # "fill" /\ ready' = Append(ready, Stop)
    BY <1>6 DEF Signal, Handlers, Stop
  <2>2. ready' \in Seq(Handlers) /\ Queued(ready', state, pending, orders)
    BY <1>2, <2>1
  <2> QED
    BY <1>1, <1>6, <2>2, QueueKeeps DEF Signal, TypeOK, callVars, cycleVars
<1> QED
  BY <1>3, <1>4, <1>5, <1>6

\* The main loop goes on.
LEMMA LoopKeeps ==
  ASSUME Inv, ProcessReturn \/ DrainEnds \/ PollReturn
  PROVE  Inv'
<1>1. /\ UNCHANGED <<gatewayVars, bookVars, cycleVars, stopping, ready, callVars>>
      /\ phase' \in {"process", "poll", "drain", "exited"}
  BY DEF ProcessReturn, DrainEnds, PollReturn
<1>2. /\ ready \in Seq(Handlers) /\ TypeOK /\ Queued(ready, state, pending, orders)
  BY DEF Inv, Typed, TypeOK, OneOrder
<1> QED
  BY <1>1, <1>2, QueueKeeps DEF TypeOK, cycleVars, callVars

\* Nothing happens.
LEMMA StutterKeeps ==
  ASSUME Inv, UNCHANGED vars
  PROVE  Inv'
<1>1. UNCHANGED <<gatewayVars, bookVars, cycleVars, stopping, phase, ready, callVars>>
  BY DEF vars, loopVars
<1>2. /\ ready \in Seq(Handlers) /\ TypeOK /\ Queued(ready, state, pending, orders)
  BY DEF Inv, Typed, TypeOK, OneOrder
<1> QED
  BY <1>1, <1>2, QueueKeeps DEF TypeOK, cycleVars, callVars

\* Every step keeps the invariant.
LEMMA InvNext == Inv /\ [Next]_vars => Inv'
<1> SUFFICES ASSUME Inv, [Next]_vars PROVE Inv'
  OBVIOUS
<1>1. ASSUME NEW s \in Symbols, NEW i \in DOMAIN Stream[s], Ingest(s, i) PROVE Inv'
  BY <1>1, IngestKeeps
<1>2. CASE ProcessReturn \/ DrainEnds \/ PollReturn
  BY <1>2, LoopKeeps
<1>3. CASE (\E id \in OrderIds : Query(id)) \/ RunLookup \/ TimeoutExpires \/ Signal
  BY <1>3, CallsKeep
<1>4. CASE UNCHANGED vars
  BY <1>4, StutterKeeps
<1> QED
  BY <1>1, <1>2, <1>3, <1>4, BeginKeeps, FillKeeps, TimeoutKeeps, StopKeeps DEF Next, Exited

\* One order at most is under way, it is lawful and paid for, its number was
\* never used, and everything has its type.
THEOREM Invariant == Spec => []Inv
BY InvInit, InvNext, PTL DEF Spec

\* Paper mode keeps its types: amounts, counters and reports are natural
\* numbers in every state, so no settlement ever takes an asset below zero.
THEOREM TypesAreKept == Spec => []TypeOK
<1>1. Inv => TypeOK
  BY DEF Inv, Typed
<1> QED
  BY <1>1, Invariant, PTL

(***************************************************************************)
(* What is sold of an update.                                              *)
(***************************************************************************)
\* A stored book is one of the wire's messages, not later than the wire is.
Wired ==
  \A s \in Symbols :
    books[s] # None =>
      \E j \in DOMAIN Stream[s] : j <= position[s] /\ books[s] = Decode(Stream[s][j])

\* The gateway's count of a side is of the shown book's update or of an earlier
\* one, and it is what was filled since that update is shown.
CountedAt(k, book) ==
  IF book = None THEN consumed[k].id = NoUpdate /\ shown_used[k] = 0
  ELSE /\ consumed[k].id <= book.id
       /\ shown_used[k] = UsedNow(k, book)
       /\ shown_used[k] > 0 => shown_used[k] <= Liquidity(book, k.buy)
Usage == \A k \in Sides : CountedAt(k, books[k.symbol])

Sold == Inv /\ Wired /\ Usage

\* Nothing is sold at the start.
LEMMA SoldInit == Init => Sold
<1> SUFFICES ASSUME Init PROVE Sold
  OBVIOUS
<1>1. Inv
  BY InvInit
<1>2. Wired
  BY DEF Init, Wired
<1>3. Usage
  BY DEF Init, GatewayInit, Usage, CountedAt, Sides, NoUpdate
<1> QED
  BY <1>1, <1>2, <1>3 DEF Sold

\* Steps that leave books and gateway alone.
LEMMA SoldStays ==
  ASSUME Sold, Inv', UNCHANGED <<gatewayVars, books, position, shown_used>>
  PROVE  Sold'
BY DEF Sold, Wired, Usage, CountedAt, UsedNow, gatewayVars

\* The messages of a symbol.
LEMMA WireTypes ==
  ASSUME NEW s \in Symbols
  PROVE  /\ DOMAIN Stream[s] \subseteq Nat
         /\ \A i \in DOMAIN Stream[s] : Stream[s][i] \in Messages
<1>1. Stream[s] \in Seq(Messages)
  BY StreamAssumption
<1> HIDE DEF Messages
<1> QED
  BY <1>1

\* A later update replaces the book and its count, the same one changes nothing.
LEMMA IngestSold ==
  ASSUME Sold, NEW s \in Symbols, NEW i \in DOMAIN Stream[s], Ingest(s, i)
  PROVE  Sold'
<1> DEFINE book == Decode(Stream[s][i])
<1>1. Inv' /\ Inv
  BY IngestKeeps DEF Sold
<1>2. /\ i \in Nat /\ i >= position[s] /\ position' = [position EXCEPT ![s] = i]
      /\ UNCHANGED gatewayVars
      /\ \/ UNCHANGED <<books, shown_used>>
         \/ /\ book # None
            /\ books' = [books EXCEPT ![s] = book]
            /\ shown_used' = [k \in Sides |->
                 IF k.symbol = s /\ NewUpdate(s, book) THEN 0 ELSE shown_used[k]]
  BY WireTypes DEF Ingest
<1>3. /\ position \in [Symbols -> Nat] /\ books \in Books
      /\ consumed \in [Sides -> [id : Int, used : Nat]]
  BY <1>1 DEF Inv, Typed, TypeOK
<1>4. book # None => book.id = Stream[s][i].id /\ book.id \in Nat
  <2>1. Stream[s][i] \in Messages
    BY WireTypes
  <2> QED
    BY <2>1, DecodeTypes DEF Messages
<1>5. ASSUME books[s] # None
      PROVE  \E j \in DOMAIN Stream[s] :
               /\ j <= i /\ j \in Nat /\ books[s] = Decode(Stream[s][j])
               /\ books[s].id = Stream[s][j].id /\ books[s].id \in Nat
  <2>1. PICK j \in DOMAIN Stream[s] : j <= position[s] /\ books[s] = Decode(Stream[s][j])
    BY <1>5 DEF Sold, Wired
  <2>2. j \in Nat /\ Stream[s][j] \in Messages
    BY WireTypes
  <2>3. j <= i
    BY <1>2, <1>3, <2>1, <2>2
  <2>4. books[s].id = Stream[s][j].id /\ books[s].id \in Nat
    BY <1>5, <2>1, <2>2, DecodeTypes DEF Messages
  <2> QED
    BY <2>1, <2>2, <2>3, <2>4
<1> HIDE DEF book
<1>6. ASSUME book # None, books[s] # None
      PROVE  books[s] = book \/ books[s].id < book.id
  <2>1. PICK j \in DOMAIN Stream[s] :
          /\ j <= i /\ j \in Nat /\ books[s] = Decode(Stream[s][j])
          /\ books[s].id = Stream[s][j].id /\ books[s].id \in Nat
    BY <1>5, <1>6
  <2>2. CASE j = i
    BY <2>1, <2>2 DEF book
  <2>3. CASE j # i
    <3>1. j < i
      BY <1>2, <2>1, <2>3
    <3>2. Stream[s][j].id < Stream[s][i].id
      BY <3>1, StreamAssumption
    <3> QED
      BY <1>4, <1>6, <2>1, <3>2
  <2> QED
    BY <2>2, <2>3
<1>7. CASE UNCHANGED <<books, shown_used>>
  <2>1. ASSUME NEW x \in Symbols, books'[x] # None
        PROVE  \E j \in DOMAIN Stream[x] : j <= position'[x] /\ books'[x] = Decode(Stream[x][j])
    <3>1. PICK j \in DOMAIN Stream[x] : j <= position[x] /\ books[x] = Decode(Stream[x][j])
      BY <1>7, <2>1 DEF Sold, Wired
    <3>2. j \in Nat /\ position[x] \in Nat /\ position'[x] \in Nat /\ position'[x] >= position[x]
      BY <1>2, <1>3, WireTypes
    <3>3. j <= position'[x]
      BY <3>1, <3>2
    <3> QED
      BY <1>7, <3>1, <3>3
  <2>2. Wired'
    BY <2>1 DEF Wired
  <2>3. Usage'
    BY <1>2, <1>7 DEF Sold, Usage, CountedAt, UsedNow, gatewayVars
  <2> QED
    BY <1>1, <2>2, <2>3 DEF Sold
<1>8. CASE /\ book # None
           /\ books' = [books EXCEPT ![s] = book]
           /\ shown_used' = [k \in Sides |->
                IF k.symbol = s /\ NewUpdate(s, book) THEN 0 ELSE shown_used[k]]
  <2>1. /\ books'[s] = book /\ position'[s] = i
        /\ \A x \in Symbols : x # s => books'[x] = books[x] /\ position'[x] = position[x]
    BY <1>2, <1>3, <1>8 DEF Books
  <2>2. Wired'
    <3>1. ASSUME NEW x \in Symbols, books'[x] # None
          PROVE  \E j \in DOMAIN Stream[x] : j <= position'[x] /\ books'[x] = Decode(Stream[x][j])
      <4>1. CASE x = s
        <5>1. i <= position'[s] /\ books'[s] = Decode(Stream[s][i])
          BY <1>2, <2>1 DEF book
        <5> QED
          BY <4>1, <5>1
      <4>2. CASE x # s
        BY <2>1, <3>1, <4>2 DEF Sold, Wired
      <4> QED
        BY <4>1, <4>2
    <3> QED
      BY <3>1 DEF Wired
  <2>3. ASSUME NEW k \in Sides
        PROVE  CountedAt(k, books[k.symbol])'
    <3>1. /\ CountedAt(k, books[k.symbol]) /\ k.symbol \in Symbols
          /\ consumed' = consumed /\ consumed[k].id \in Int
          /\ shown_used'[k] = IF k.symbol = s /\ NewUpdate(s, book) THEN 0 ELSE shown_used[k]
      BY <1>2, <1>3, <1>8 DEF Sold, Usage, Sides, gatewayVars
    <3>2. CASE k.symbol # s
      <4>1. books'[k.symbol] = books[k.symbol] /\ shown_used'[k] = shown_used[k]
        BY <2>1, <3>1, <3>2
      <4> QED
        BY <3>1, <4>1 DEF CountedAt, UsedNow
    <3>3. CASE k.symbol = s /\ books[s] = book
      <4>1. ~NewUpdate(s, book)
        BY <1>8, <3>3 DEF NewUpdate
      <4>2. books'[k.symbol] = books[k.symbol] /\ shown_used'[k] = shown_used[k]
        BY <2>1, <3>1, <3>3, <4>1
      <4> QED
        BY <3>1, <4>2 DEF CountedAt, UsedNow
    <3>4. CASE k.symbol = s /\ (books[s] = None \/ books[s].id < book.id)
      <4>1. /\ book.id \in Nat /\ consumed[k].id < book.id
            /\ books[s] # None => books[s].id \in Nat
        <5>1. CASE books[s] = None
          BY <1>4, <1>8, <3>1, <3>4, <5>1 DEF CountedAt, NoUpdate
        <5>2. CASE books[s] # None
          <6>1. books[s].id \in Nat /\ book.id \in Nat
            BY <1>4, <1>5, <1>8, <5>2
          <6>2. consumed[k].id <= books[s].id
            BY <3>1, <3>4, <5>2 DEF CountedAt
          <6> QED
            BY <3>1, <3>4, <5>2, <6>1, <6>2
        <5> QED
          BY <5>1, <5>2
      <4>2. NewUpdate(s, book)
        BY <3>4, <4>1 DEF NewUpdate
      <4>3. books'[k.symbol] = book /\ shown_used'[k] = 0
        BY <2>1, <3>1, <3>4, <4>2
      <4>4. consumed[k].id <= book.id /\ consumed[k].id # book.id
        BY <3>1, <4>1
      <4> QED
        BY <1>8, <3>1, <4>3, <4>4 DEF CountedAt, UsedNow
    <3> QED
      BY <1>6, <1>8, <3>2, <3>3, <3>4
  <2>4. Usage'
    BY <2>3 DEF Usage
  <2> QED
    BY <1>1, <2>2, <2>4 DEF Sold
<1> QED
  BY <1>2, <1>7, <1>8

\* A fill takes what is left of the shown update and counts it.
LEMMA FillSold ==
  ASSUME Sold, RunFill
  PROVE  Sold'
<1> DEFINE side == SideOf(pending)
           book == books[pending.symbol]
           r == PendingFill.report
           usage == PendingFill.usage
<1>1. Inv /\ Inv'
  BY FillKeeps DEF Sold
<1>2. /\ pending \in Requests /\ Reported(pending, r) /\ Counted(pending, r, book, usage)
      /\ consumed' = [consumed EXCEPT ![side] = usage]
      /\ shown_used' = [shown_used EXCEPT ![side] = @ + r.filled]
      /\ UNCHANGED <<books, position>>
  BY <1>1, FillRuns
<1>3. /\ side \in Sides /\ side.symbol = pending.symbol /\ side.buy = pending.buy
      /\ pending.symbol \in Symbols
  BY <1>2, OrderTypes DEF SideOf
<1>4. /\ consumed \in [Sides -> [id : Int, used : Nat]] /\ shown_used \in [Sides -> Nat]
      /\ book \in BookTypes \cup {None}
  BY <1>1, <1>3 DEF Inv, Typed, TypeOK, Books
<1>5. r.filled \in Nat
  BY <1>2 DEF Reported, OrderReports
<1> HIDE DEF r, usage, side, book
<1>6. /\ consumed'[side] = usage /\ shown_used'[side] = shown_used[side] + r.filled
      /\ \A k \in Sides : k # side => consumed'[k] = consumed[k] /\ shown_used'[k] = shown_used[k]
  BY <1>2, <1>3, <1>4
<1>7. CountedAt(side, book)
  BY <1>3 DEF Sold, Usage, book
<1>8. ASSUME NEW k \in Sides PROVE CountedAt(k, books[k.symbol])'
  <2>1. CountedAt(k, books[k.symbol]) /\ books'[k.symbol] = books[k.symbol]
    BY <1>2 DEF Sold, Usage
  <2>2. CASE k # side
    BY <1>6, <2>1, <2>2 DEF CountedAt, UsedNow
  <2>3. CASE k = side
    <3>1. books[k.symbol] = book /\ books'[k.symbol] = book /\ CountedAt(k, book)
      BY <1>3, <2>1, <2>3 DEF book
    <3>2. /\ shown_used[k] \in Nat /\ consumed[k] \in [id : Int, used : Nat] /\ k.buy = pending.buy
          /\ consumed'[k] = usage /\ shown_used'[k] = shown_used[k] + r.filled
      BY <1>3, <1>4, <1>6, <2>3
    <3>3. \/ usage = consumed[k] /\ r.filled = 0
          \/ /\ book # None /\ usage.id = book.id
             /\ usage.used = UsedNow(k, book) + r.filled
             /\ r.filled > 0 => usage.used <= Liquidity(book, k.buy)
      BY <1>2, <2>3, <3>2 DEF Counted, side
    <3>4. CASE usage = consumed[k] /\ r.filled = 0
      <4>1. consumed'[k] = consumed[k] /\ shown_used'[k] = shown_used[k]
        BY <3>2, <3>4
      <4> QED
        BY <3>1, <4>1 DEF CountedAt, UsedNow
    <3>5. CASE /\ book # None /\ usage.id = book.id
               /\ usage.used = UsedNow(k, book) + r.filled
               /\ r.filled > 0 => usage.used <= Liquidity(book, k.buy)
      <4>1. shown_used[k] = UsedNow(k, book) /\ book.id \in Nat
        BY <1>4, <3>1, <3>5 DEF CountedAt, BookTypes
      <4>2. shown_used'[k] = usage.used
        BY <3>2, <3>5, <4>1
      <4>3. shown_used'[k] > 0 => shown_used'[k] <= Liquidity(book, k.buy)
        BY <1>5, <3>1, <3>2, <3>5, <4>2 DEF CountedAt
      <4>4. consumed'[k].id <= book.id
        BY <3>2, <3>5, <4>1
      <4> QED
        BY <3>1, <3>2, <3>5, <4>2, <4>3, <4>4 DEF CountedAt, UsedNow
    <3> QED
      BY <3>3, <3>4, <3>5
  <2> QED
    BY <2>2, <2>3
<1>9. Usage'
  BY <1>8 DEF Usage
<1>10. Wired'
  BY <1>2 DEF Sold, Wired
<1> QED
  BY <1>1, <1>9, <1>10 DEF Sold

\* Every step keeps the count of what is sold.
LEMMA SoldNext == Sold /\ [Next]_vars => Sold'
<1> SUFFICES ASSUME Sold, [Next]_vars PROVE Sold'
  OBVIOUS
<1>1. Inv'
  BY InvNext DEF Sold
<1>2. ASSUME UNCHANGED <<gatewayVars, books, position, shown_used>> PROVE Sold'
  BY <1>1, <1>2, SoldStays
<1>3. ASSUME NEW s \in Symbols, NEW i \in DOMAIN Stream[s], Ingest(s, i) PROVE Sold'
  BY <1>3, IngestSold
<1>4. CASE RunFill
  BY <1>4, FillSold
<1>5. CASE ProcessReturn \/ DrainEnds \/ PollReturn
  BY <1>2, <1>5 DEF ProcessReturn, DrainEnds, PollReturn, bookVars
<1>6. CASE (\E id \in OrderIds : Query(id)) \/ RunLookup \/ TimeoutExpires \/ Signal
  BY <1>2, <1>6 DEF Query, RunLookup, TimeoutExpires, Signal, bookVars
<1>7. CASE RunBegin \/ RunTimeout \/ RunStop
  BY <1>2, <1>7 DEF RunBegin, RunTimeout, RunStop, bookVars
<1>8. CASE UNCHANGED vars
  BY <1>2, <1>8 DEF vars, bookVars
<1> QED
  BY <1>3, <1>4, <1>5, <1>6, <1>7, <1>8 DEF Next, Exited

\* What an update offers is sold once, whatever the orders, the cycles and the
\* messages sent again: the gateway's own count of a side is exactly what was
\* filled since the update is shown, and it never exceeds what the level shows.
THEOREM SoldOnce == Spec => []LiquiditySoldOnce
<1>1. Sold => LiquiditySoldOnce
  <2> SUFFICES ASSUME Sold, NEW k \in Sides, shown_used[k] > 0
               PROVE  shown_used[k] <= Liquidity(books[k.symbol], k.buy)
    BY DEF LiquiditySoldOnce
  <2>1. CountedAt(k, books[k.symbol])
    BY DEF Sold, Usage
  <2> QED
    BY <2>1 DEF CountedAt
<1> QED
  BY <1>1, SoldInit, SoldNext, PTL DEF Spec

(***************************************************************************)
(* Wallet and holdings.                                                    *)
(***************************************************************************)
\* What a report changes is a whole number.
LEMMA ChangeTypes ==
  ASSUME NEW order \in Requests, NEW r, Reported(order, r), NEW a \in Assets
  PROVE  Change(order, r, a) \in Int
<1>1. Cost(order, r) \in Nat /\ Proceeds(order, r) \in Nat
  BY OrderTypes DEF Reported, OrderReports, Cost, Proceeds
<1>2. Commission(Proceeds(order, r)) \in Nat
  BY <1>1, CommissionFits
<1> QED
  BY <1>1, <1>2 DEF Change

\* Before begin() the wallet of the cycle is not noted.
Noted == Inv /\ (state = "VALIDATING" => opening = None) /\ HoldingsMatchWallet

\* Neither the wallet nor the cycle's amounts move.
LEMMA NotedStays ==
  ASSUME Noted, Inv', UNCHANGED <<wallet, opening, holdings, budget>>,
         state' \in {state, "HALTED", "IDLE"},
         state' = state \/ state' = "HALTED" \/ opening = None
  PROVE  Noted'
BY DEF Noted, HoldingsMatchWallet

\* begin() notes the wallet when it sets the budget aside.
LEMMA BeginNotes ==
  ASSUME Noted, RunBegin
  PROVE  Noted'
<1> DEFINE amounts == Only("USDT", budget)
<1>1. Inv /\ Inv' /\ TypeOK /\ UNCHANGED wallet
  BY BeginKeeps DEF Noted, Inv, Typed, RunBegin, gatewayVars
<1>2. amounts \in [Assets -> Nat]
  BY <1>1, OnlyTypes DEF TypeOK
<1> HIDE DEF amounts
<1>3. \/ UNCHANGED cycleVars
      \/ state = "VALIDATING" /\ state' = "IDLE" /\ UNCHANGED <<opening, holdings, budget>>
      \/ /\ opening' = wallet /\ holdings' = amounts /\ budget' = budget
         /\ state' \in {"IDLE", "LEG_PENDING"}
  <2>1. ASSUME NextLeg(0, amounts)
        PROVE  holdings' = amounts /\ budget' = budget /\ state' \in {"IDLE", "LEG_PENDING"}
    BY <2>1, NextLegIs DEF Ended, Sent
  <2>2. CASE state # "VALIDATING" \/ stopping
    BY <2>2 DEF RunBegin
  <2>3. CASE state = "VALIDATING" /\ ~stopping
    BY <2>1, <2>3 DEF RunBegin, EndCycle, amounts
  <2> QED
    BY <2>2, <2>3
<1>4. CASE UNCHANGED cycleVars
  BY <1>1, <1>4, NotedStays DEF cycleVars
<1>5. CASE state = "VALIDATING" /\ state' = "IDLE" /\ UNCHANGED <<opening, holdings, budget>>
  BY <1>1, <1>5, NotedStays DEF Noted
<1>6. CASE /\ opening' = wallet /\ holdings' = amounts /\ budget' = budget
           /\ state' \in {"IDLE", "LEG_PENDING"}
  <2>1. \A a \in Assets : wallet'[a] - opening'[a] = holdings'[a] - Only("USDT", budget')[a]
    <3>1. \A a \in Assets : wallet[a] \in Nat /\ amounts[a] \in Nat
      BY <1>1, <1>2 DEF TypeOK
    <3>2. \A a \in Assets : wallet[a] - wallet[a] = amounts[a] - amounts[a]
      BY <3>1
    <3> QED
      BY <1>1, <1>6, <3>2 DEF amounts
  <2> QED
    BY <1>1, <1>6, <2>1 DEF Noted, HoldingsMatchWallet
<1> QED
  BY <1>3, <1>4, <1>5, <1>6

\* A fill changes wallet and holdings alike.
LEMMA FillNotes ==
  ASSUME Noted, RunFill
  PROVE  Noted'
<1> DEFINE r == PendingFill.report
<1>1. Inv /\ Inv' /\ TypeOK
  BY FillKeeps DEF Noted, Inv, Typed
<1>2. /\ pending \in Requests /\ Reported(pending, r)
      /\ Paid(pending, r, wallet')
      /\ Settled(r)
  BY <1>1, FillRuns
<1> HIDE DEF r
<1>3. CASE state = "HALTED" /\ UNCHANGED cycleVars
  BY <1>1, <1>3 DEF Noted, HoldingsMatchWallet, cycleVars
<1>4. CASE state = "LEG_PENDING"
  <2>1. /\ Settle(r) \in [Assets -> Nat]
        /\ \A a \in Assets : Settle(r)[a] = holdings[a] + Change(pending, r, a)
    <3>1. PaidBy(Markets[pending.symbol], pending, holdings[SpentBy(pending)],
                 pending.price, pending.quantity)
      BY <1>1, <1>4 DEF Inv, Funded
    <3> QED
      BY <1>1, <1>2, <3>1, SettleIs DEF TypeOK
  <2> DEFINE amounts == Settle(r)
  <2> HIDE DEF amounts
  <2>2. /\ holdings' = amounts /\ UNCHANGED <<opening, budget>>
        /\ state' \in {"IDLE", "LEG_PENDING"}
    BY <1>2, <1>4 DEF Settled, Idled, Ended, Sent, amounts
  <2>3. \A a \in Assets :
          /\ amounts[a] = holdings[a] + Change(pending, r, a)
          /\ wallet'[a] = wallet[a] + Change(pending, r, a)
          /\ amounts[a] \in Nat /\ holdings[a] \in Nat /\ wallet[a] \in Nat /\ wallet'[a] \in Nat
    BY <1>1, <1>2, <2>1 DEF TypeOK, Paid, amounts
  <2>4. ASSUME opening # None
        PROVE  \A a \in Assets :
                 wallet'[a] - opening[a] = holdings'[a] - Only("USDT", budget)[a]
    <3>1. opening \in [Assets -> Nat] /\ Only("USDT", budget) \in [Assets -> Nat]
      BY <1>1, <2>4, OnlyTypes DEF TypeOK
    <3> DEFINE start == Only("USDT", budget)
    <3>2. \A a \in Assets : wallet[a] - opening[a] = holdings[a] - start[a]
      BY <1>4, <2>4 DEF Noted, HoldingsMatchWallet
    <3> HIDE DEF start
    <3>3. ASSUME NEW a \in Assets
          PROVE  wallet'[a] - opening[a] = amounts[a] - start[a]
      <4>1. opening[a] \in Nat /\ start[a] \in Nat
        BY <3>1 DEF start
      <4>2. wallet'[a] - wallet[a] = amounts[a] - holdings[a]
        <5> DEFINE d == Change(pending, r, a)
        <5>1. amounts[a] = holdings[a] + d /\ wallet'[a] = wallet[a] + d
          BY <2>3
        <5>2. d \in Int
          BY <1>2, ChangeTypes
        <5> HIDE DEF d
        <5> QED
          BY <2>3, <5>1, <5>2
      <4> QED
        BY <2>3, <3>2, <4>1, <4>2
    <3> QED
      BY <2>2, <3>3 DEF start
  <2> QED
    BY <1>1, <2>2, <2>4 DEF Noted, HoldingsMatchWallet
<1> QED
  BY <1>2, <1>3, <1>4 DEF Settled

\* Every step keeps wallet and holdings together.
LEMMA NotedNext == Noted /\ [Next]_vars => Noted'
<1> SUFFICES ASSUME Noted, [Next]_vars PROVE Noted'
  OBVIOUS
<1>1. Inv'
  BY InvNext DEF Noted
<1>2. ASSUME UNCHANGED <<gatewayVars, opening, holdings, budget>>,
             state' = state \/ state' = "HALTED" \/ (state = "VALIDATING" /\ state' = "IDLE")
      PROVE  Noted'
  <2>1. state' = state \/ state' = "HALTED" \/ opening = None
    BY <1>2 DEF Noted
  <2> QED
    BY <1>1, <1>2, <2>1, NotedStays DEF gatewayVars
<1>3. ASSUME NEW s \in Symbols, NEW i \in DOMAIN Stream[s], Ingest(s, i) PROVE Noted'
  <2>1. UNCHANGED gatewayVars /\ (UNCHANGED cycleVars \/ (opening' = None /\ state' = "VALIDATING"))
    BY <1>3 DEF Ingest, TryStart
  <2>2. CASE UNCHANGED cycleVars
    BY <1>2, <2>1, <2>2 DEF cycleVars
  <2>3. CASE opening' = None
    BY <1>1, <2>3 DEF Noted, HoldingsMatchWallet
  <2> QED
    BY <2>1, <2>2, <2>3
<1>4. CASE ProcessReturn \/ DrainEnds \/ PollReturn
  BY <1>2, <1>4 DEF ProcessReturn, DrainEnds, PollReturn, cycleVars
<1>5. CASE (\E id \in OrderIds : Query(id)) \/ RunLookup \/ TimeoutExpires \/ Signal
  BY <1>2, <1>5 DEF Query, RunLookup, TimeoutExpires, Signal, cycleVars
<1>6. CASE RunTimeout \/ RunStop
  BY <1>2, <1>6 DEF RunTimeout, RunStop
<1>7. CASE UNCHANGED vars
  BY <1>2, <1>7 DEF vars, cycleVars
<1> QED
  BY <1>3, <1>4, <1>5, <1>6, <1>7, BeginNotes, FillNotes DEF Next, Exited

\* The executor's view of a cycle and the simulated wallet never part: every
\* cost, proceeds and commission the gateway booked is in the holdings, once.
THEOREM WalletIsHeld == Spec => []HoldingsMatchWallet
<1>1. Init => Noted
  BY InvInit DEF Init, Noted, HoldingsMatchWallet
<1>2. Noted => HoldingsMatchWallet
  BY DEF Noted
<1> QED
  BY <1>1, <1>2, NotedNext, PTL DEF Spec

(***************************************************************************)
(* The path of an opportunity.                                             *)
(***************************************************************************)
Travelled ==
  opportunity # None =>
    \E g \in DOMAIN Groups : \E p \in {1, 2} : opportunity.path = Groups[g].paths[p]

\* Only an update's scan sets the opportunity, to a configured path.
LEMMA TravelledNext == Travelled /\ [Next]_vars => Travelled'
<1> SUFFICES ASSUME Travelled, [Next]_vars PROVE Travelled'
  OBVIOUS
<1>1. ASSUME UNCHANGED opportunity PROVE Travelled'
  BY <1>1 DEF Travelled
<1>2. ASSUME NEW s \in Symbols, NEW i \in DOMAIN Stream[s], Ingest(s, i) PROVE Travelled'
  <2>1. \/ UNCHANGED opportunity
        \/ /\ ScanEdge(books', Groups, s) # None
           /\ opportunity' = ScanEdge(books', Groups, s)
    BY <1>2 DEF Ingest, TryStart, cycleVars
  <2>2. CASE /\ ScanEdge(books', Groups, s) # None
             /\ opportunity' = ScanEdge(books', Groups, s)
    <3>1. PICK g \in DOMAIN Groups, p \in {1, 2} :
            ScanEdge(books', Groups, s) = EdgeOf(books', Groups[g].paths[p])
      BY <2>2, EdgeIs
    <3>2. EdgeOf(books', Groups[g].paths[p]).path = Groups[g].paths[p]
      BY DEF EdgeOf
    <3>3. opportunity'.path = Groups[g].paths[p]
      BY <2>2, <3>1, <3>2
    <3> QED
      BY <3>3 DEF Travelled
  <2> QED
    BY <1>1, <2>1, <2>2
<1>3. CASE RunBegin
  <2>1. UNCHANGED opportunity
    BY <1>3, NextLegIs DEF RunBegin, EndCycle, Ended, Sent, cycleVars
  <2> QED
    BY <1>1, <2>1
<1>4. CASE RunFill
  <2>1. \A id, r : OnReport(id, r) => UNCHANGED opportunity
    BY NextLegIs DEF OnReport, EndCycle, Ended, Sent, cycleVars
  <2>2. UNCHANGED opportunity
    BY <1>4, <2>1 DEF RunFill
  <2> QED
    BY <1>1, <2>2
<1>5. CASE ProcessReturn \/ DrainEnds \/ PollReturn
  BY <1>1, <1>5 DEF ProcessReturn, DrainEnds, PollReturn, cycleVars
<1>6. CASE (\E id \in OrderIds : Query(id)) \/ RunLookup \/ TimeoutExpires \/ Signal
  BY <1>1, <1>6 DEF Query, RunLookup, TimeoutExpires, Signal, cycleVars
<1>7. CASE RunTimeout \/ RunStop
  BY <1>1, <1>7 DEF RunTimeout, RunStop
<1>8. CASE UNCHANGED vars
  BY <1>1, <1>8 DEF vars, cycleVars
<1> QED
  BY <1>2, <1>3, <1>4, <1>5, <1>6, <1>7, <1>8 DEF Next, Exited

\* validate_arbitrage() accepts exactly the triangles with USDT, and every
\* opportunity the executor takes leads from USDT over three different markets
\* back to USDT.
THEOREM PathsGoRound == Spec => []PathsAreRoundTrips
<1>1. Init => Travelled
  BY DEF Init, Travelled
<1>2. Travelled => PathsAreRoundTrips
  BY TrianglesAreBuilt, GroupRoundTrips DEF Travelled, PathsAreRoundTrips
<1> QED
  BY <1>1, <1>2, TravelledNext, PTL DEF Spec

(***************************************************************************)
(* The edge scan.                                                          *)
(***************************************************************************)
\* After each step the books are well typed.
LEMMA BooksNext == Inv /\ [Next]_vars => books' \in Books
BY InvNext DEF Inv, Typed

\* Every opportunity scan_edge() returns fits the levels it is priced at and the
\* configured input, for any books and thresholds.
THEOREM EdgesFit == Spec => ScanFits
<1>1. Inv /\ [Next]_vars =>
        [\A s \in Symbols : books'[s] # books[s] => EdgeFits(books', Groups, s)]_vars
  <2> SUFFICES ASSUME Inv, [Next]_vars, NEW s \in Symbols PROVE EdgeFits(books', Groups, s)
    OBVIOUS
  <2>1. books' \in Books
    BY BooksNext
  <2> QED
    BY <2>1, FoundFits
<1> QED
  BY <1>1, Invariant, PTL DEF ScanFits, Spec

\* scan_edge() finds an edge exactly when a path through the updated symbol
\* returns, taken as a whole, more than the threshold.
THEOREM EdgesFound == Spec => ScanFindsEdge
<1>1. Inv /\ [Next]_vars =>
        [\A s \in Symbols : books'[s] # books[s] => EdgeFound(books', Groups, s)]_vars
  <2> SUFFICES ASSUME Inv, [Next]_vars, NEW s \in Symbols PROVE EdgeFound(books', Groups, s)
    OBVIOUS
  <2>1. books' \in Books
    BY BooksNext
  <2> QED
    BY <2>1, EdgesAreFound
<1> QED
  BY <1>1, Invariant, PTL DEF ScanFindsEdge, Spec

(***************************************************************************)
(* Exact decimals.                                                         *)
(***************************************************************************)
\* The latest book of a symbol holds the numbers of the message it came from,
\* whatever texts the exchange sends; and every text is read and every pair of
\* numbers brought to one exponent exactly or refused.
THEOREM DecimalsStayExact == Spec => []DecimalsAreExact
<1>1. Sold => DecimalsAreExact
  <2> SUFFICES ASSUME Sold PROVE DecimalsAreExact
    OBVIOUS
  <2>1. \A text \in Texts : ReadsExactly(text)
    BY TrialAssumption, TextsReadExactly
  <2>2. ASSUME NEW bid \in Numbers, NEW ask \in Numbers PROVE PairsExactly(bid, ask)
    <3>1. /\ bid.mantissa \in 0..MaxMantissa /\ bid.scale \in Nat /\ bid # None
          /\ ask.mantissa \in 0..MaxMantissa /\ ask.scale \in Nat /\ ask # None
      BY TrialAssumption, DecimalAssumption
    <3> QED
      BY <3>1, NumbersPairExactly
  <2>3. ASSUME NEW s \in Symbols, books[s] # None
        PROVE  \E i \in 1..position[s] : /\ Stream[s][i].id = books[s].id
                                         /\ AsWritten(books[s], Stream[s][i])
    <3>1. PICK j \in DOMAIN Stream[s] : j <= position[s] /\ books[s] = Decode(Stream[s][j])
      BY <2>3 DEF Sold, Wired
    <3>2. Stream[s][j] \in Messages /\ position[s] \in Nat /\ j \in 1..position[s]
      <4>1. Stream[s] \in Seq(Messages) /\ position[s] \in Nat
        BY StreamAssumption DEF Sold, Inv, Typed, TypeOK
      <4> HIDE DEF Messages
      <4> QED
        BY <3>1, <4>1
    <3>3. AsWritten(books[s], Stream[s][j])
      BY <2>3, <3>1, <3>2, BooksAreAsWritten
    <3>4. Stream[s][j].id = books[s].id
      BY <2>3, <3>1, <3>2, DecodeTypes
    <3> QED
      BY <3>2, <3>3, <3>4
  <2> QED
    BY <2>1, <2>2, <2>3 DEF DecimalsAreExact
<1> QED
  BY <1>1, SoldInit, SoldNext, PTL DEF Spec

(***************************************************************************)
(* What preflight() validated.                                             *)
(***************************************************************************)
\* The amounts preflight() plans with, after each leg.
MarketOf(n) == Markets[opportunity.path[n].index]
PlanStep(n, balances) ==
  PreflightLeg(MarketOf(n), opportunity.path[n], opportunity.prices[n],
               books[opportunity.path[n].index], balances)
Plan0 == Only("USDT", budget)
Plan1 == PlanStep(1, Plan0)
Plan2 == PlanStep(2, Plan1)
Plan3 == PlanStep(3, Plan2)
Planned(n) == IF n = 0 THEN Plan0 ELSE IF n = 1 THEN Plan1 ELSE IF n = 2 THEN Plan2 ELSE Plan3
LegPlanned(n) ==
  LegPlan(MarketOf(n), opportunity.path[n], opportunity.prices[n],
          books[opportunity.path[n].index], Planned(n - 1), Planned(n))

\* Preflight() is the plan of the three legs.
LEMMA PreflightIs ==
  Preflight(Markets, books, opportunity, Only("USDT", budget)) <=> Plan3 # None
<1> DEFINE amounts == Only("USDT", budget)
           Body(f, i) ==
             IF i = 0 THEN amounts
             ELSE PreflightLeg(Markets[opportunity.path[i].index], opportunity.path[i],
                               opportunity.prices[i], books[opportunity.path[i].index], f[i - 1])
           after == CHOOSE after : after = [i \in 0..3 |-> Body(after, i)]
           plan == [i \in 0..3 |-> Planned(i)]
<1>1. plan = [i \in 0..3 |-> Body(plan, i)]
  <2>1. plan[0] = Plan0 /\ plan[1] = Plan1 /\ plan[2] = Plan2 /\ plan[3] = Plan3
    BY DEF Planned
  <2>2. Body(plan, 0) = plan[0]
    BY <2>1 DEF Plan0
  <2>3. /\ Body(plan, 1) = PlanStep(1, plan[0])
        /\ Body(plan, 2) = PlanStep(2, plan[1])
        /\ Body(plan, 3) = PlanStep(3, plan[2])
    <3> HIDE DEF plan
    <3> QED
      BY DEF PlanStep, MarketOf
  <2>4. Body(plan, 1) = plan[1] /\ Body(plan, 2) = plan[2] /\ Body(plan, 3) = plan[3]
    BY <2>1, <2>3 DEF Plan1, Plan2, Plan3
  <2>5. \A i \in 0..3 : plan[i] = Body(plan, i)
    <3> HIDE DEF plan, Body
    <3> QED
      BY <2>2, <2>4
  <2>6. plan = [i \in 0..3 |-> plan[i]]
    OBVIOUS
  <2> HIDE DEF plan, Body
  <2> QED
    BY <2>5, <2>6
<1>2. after = [i \in 0..3 |-> Body(after, i)]
  <2> HIDE DEF plan, Body
  <2> QED
    BY <1>1
<1>3. Preflight(Markets, books, opportunity, amounts) <=> after[3] # None
  BY DEF Preflight
<1> HIDE DEF after
<1>4. /\ after[0] = amounts
      /\ after[1] = PlanStep(1, after[0])
      /\ after[2] = PlanStep(2, after[1])
      /\ after[3] = PlanStep(3, after[2])
  <2>1. after[0] = Body(after, 0) /\ after[1] = Body(after, 1) /\ after[2] = Body(after, 2)
        /\ after[3] = Body(after, 3)
    <3> HIDE DEF Body
    <3> QED
      BY <1>2
  <2> QED
    BY <2>1 DEF PlanStep, MarketOf
<1>5. after[3] = Plan3
  BY <1>4 DEF Plan0, Plan1, Plan2, Plan3
<1> QED
  BY <1>3, <1>5

\* A leg is planned when preflight() lets it pass.
LEMMA PlanStepIs ==
  ASSUME QuotedInTicks, Wired, Typed, opportunity # None, NEW n \in 1..3,
         NEW balances \in [Assets -> Nat], PlanStep(n, balances) # None
  PROVE  LegPlan(MarketOf(n), opportunity.path[n], opportunity.prices[n],
                 books[opportunity.path[n].index], balances, PlanStep(n, balances))
<1> DEFINE leg == opportunity.path[n]
           market == MarketOf(n)
           rate == opportunity.prices[n]
           book == books[leg.index]
           result == PlanStep(n, balances)
<1>1. leg.index \in Symbols /\ leg.buy \in BOOLEAN
  BY DEF Typed, Found, Legs
<1>2. /\ market \in Ranges /\ market.tick > 0 /\ market.step > 0
      /\ market.base # market.quote /\ market = Markets[leg.index]
  BY <1>1, MarketTypes DEF MarketOf
<1>3. book \in BookTypes \cup {None}
  BY <1>1 DEF Typed, Books
<1>4. ASSUME book # None
      PROVE  Down(Price(book, leg.buy), market.tick) = Price(book, leg.buy)
  <2>1. PICK j \in DOMAIN Stream[leg.index] : book = Decode(Stream[leg.index][j])
    BY <1>1, <1>4 DEF Wired
  <2> QED
    BY <1>1, <1>2, <1>4, <2>1 DEF QuotedInTicks
<1>5. result = PreflightLeg(market, leg, rate, book, balances)
  BY DEF PlanStep
<1> HIDE DEF leg, market, rate, book, result
<1>6. LegPlan(market, leg, rate, book, balances, result)
  <2>1. result # None
    BY DEF result
  <2> QED
    BY <1>1, <1>2, <1>3, <1>4, <1>5, <2>1, LegPlanIs
<1> QED
  BY <1>6 DEF leg, market, rate, book, result

\* Once preflight() passed, all three legs are planned.
LEMMA PlanIs ==
  ASSUME QuotedInTicks, Wired, Typed, opportunity # None, Plan3 # None
  PROVE  /\ \A n \in 1..3 : LegPlanned(n)
         /\ \A n \in 0..3 : Planned(n) \in [Assets -> Nat]
<1>1. \A n : PlanStep(n, None) = None
  BY DEF PlanStep, PreflightLeg
<1>2. Plan2 # None /\ Plan1 # None
  BY <1>1 DEF Plan3, Plan2
<1>3. Plan0 \in [Assets -> Nat]
  BY OnlyTypes DEF Plan0, Typed, TypeOK
<1>4. ASSUME NEW n \in 1..3, NEW before \in [Assets -> Nat], PlanStep(n, before) # None
      PROVE  /\ LegPlan(MarketOf(n), opportunity.path[n], opportunity.prices[n],
                        books[opportunity.path[n].index], before, PlanStep(n, before))
             /\ PlanStep(n, before) \in [Assets -> Nat]
  <2>1. LegPlan(MarketOf(n), opportunity.path[n], opportunity.prices[n],
                books[opportunity.path[n].index], before, PlanStep(n, before))
    BY <1>4, PlanStepIs
  <2> QED
    BY <2>1 DEF LegPlan
<1>5. /\ LegPlan(MarketOf(1), opportunity.path[1], opportunity.prices[1],
                 books[opportunity.path[1].index], Plan0, Plan1)
      /\ Plan1 \in [Assets -> Nat]
  BY <1>2, <1>3, <1>4 DEF Plan1
<1>6. /\ LegPlan(MarketOf(2), opportunity.path[2], opportunity.prices[2],
                 books[opportunity.path[2].index], Plan1, Plan2)
      /\ Plan2 \in [Assets -> Nat]
  BY <1>2, <1>4, <1>5 DEF Plan2
<1>7. /\ LegPlan(MarketOf(3), opportunity.path[3], opportunity.prices[3],
                 books[opportunity.path[3].index], Plan2, Plan3)
      /\ Plan3 \in [Assets -> Nat]
  BY <1>4, <1>6 DEF Plan3
<1>8. LegPlanned(1) /\ LegPlanned(2) /\ LegPlanned(3)
  BY <1>5, <1>6, <1>7 DEF LegPlanned, Planned
<1>9. \A n \in 1..3 : LegPlanned(n)
  BY <1>8
<1>10. \A n \in 0..3 : Planned(n) \in [Assets -> Nat]
  BY <1>3, <1>5, <1>6, <1>7 DEF Planned
<1> QED
  BY <1>9, <1>10

\* No two legs spend the same asset.
SpentOn(n) == Spent(MarketOf(n), opportunity.path[n].buy)
LEMMA SpentOnce ==
  ASSUME Typed, Travelled, opportunity # None
  PROVE  /\ \A n \in 1..3 : SpentOn(n) \in Assets
         /\ \A l, m \in 1..3 : l # m => SpentOn(l) # SpentOn(m)
<1> DEFINE path == opportunity.path
<1>1. \A n \in 1..3 :
        /\ path[n].index \in Symbols /\ path[n].buy \in BOOLEAN
        /\ Spends(Info, path[n]) = SpentOn(n) /\ Spends(Info, path[n]) # Gains(Info, path[n])
        /\ SpentOn(n) \in Assets
  <2> SUFFICES ASSUME NEW n \in 1..3
               PROVE  /\ path[n].index \in Symbols /\ path[n].buy \in BOOLEAN
                      /\ Spends(Info, path[n]) = SpentOn(n)
                      /\ Spends(Info, path[n]) # Gains(Info, path[n])
                      /\ SpentOn(n) \in Assets
    OBVIOUS
  <2>1. path[n].index \in Symbols /\ path[n].buy \in BOOLEAN
    BY DEF Typed, Found, Legs
  <2>2. /\ MarketOf(n) \in Ranges
        /\ MarketOf(n).base = Info[path[n].index].base
        /\ MarketOf(n).quote = Info[path[n].index].quote
        /\ MarketOf(n).base # MarketOf(n).quote
    BY <2>1, MarketTypes DEF MarketOf
  <2> QED
    BY <2>1, <2>2 DEF Spends, Gains, SpentOn, Spent, Ranges
<1>2. RoundTrip(Info, path)
  BY GroupRoundTrips DEF Travelled
<1> HIDE DEF path
<1>3. /\ SpentOn(1) = "USDT" /\ Gains(Info, path[3]) = "USDT"
      /\ SpentOn(2) = Gains(Info, path[1]) /\ SpentOn(3) = Gains(Info, path[2])
  BY <1>1, <1>2 DEF RoundTrip
<1>4. SpentOn(1) # SpentOn(2) /\ SpentOn(2) # SpentOn(3) /\ SpentOn(3) # SpentOn(1)
  BY <1>1, <1>3
<1> QED
  BY <1>1, <1>4

\* While a leg is pending the plan stands: the books are as they were, its order
\* waits, the amounts of the legs to come are within the plan, and the wallet
\* had the budget when the cycle began.
Within(n, amounts) == \A l \in 1..3 : l > n => amounts[SpentOn(l)] <= Planned(n)[SpentOn(l)]
Promised ==
  state = "LEG_PENDING" =>
    /\ phase = "poll" /\ Fills(ready) # {}
    /\ Plan3 # None
    /\ Prepared(leg_number, holdings) # None
    /\ pending = Request(leg_number, Prepared(leg_number, holdings))
    /\ Within(leg_number, holdings)
    /\ opening # None /\ \A a \in Assets : opening[a] >= Plan0[a]
Kept == Sold /\ Noted /\ Travelled /\ Promised

\* The plan is of the books, the opportunity and the budget.
LEMMA PlanStays ==
  ASSUME UNCHANGED <<books, opportunity, budget>>
  PROVE  /\ Plan0' = Plan0 /\ Plan3' = Plan3
         /\ \A n : SpentOn(n)' = SpentOn(n)
         /\ \A n : Planned(n)' = Planned(n)
         /\ \A n, amounts : Within(n, amounts)' <=> Within(n, amounts)
<1>1. \A n : MarketOf(n)' = MarketOf(n)
  BY DEF MarketOf
<1>2. \A n : SpentOn(n)' = SpentOn(n)
  BY <1>1 DEF SpentOn
<1>3. \A n, balances : PlanStep(n, balances)' = PlanStep(n, balances)
  BY <1>1 DEF PlanStep
<1>4. Plan0' = Plan0
  BY DEF Plan0, Only, NoHoldings
<1>5. Plan1' = Plan1
  BY <1>4 DEF Plan1, PlanStep, MarketOf
<1>6. Plan2' = Plan2
  BY <1>5 DEF Plan2, PlanStep, MarketOf
<1>7. Plan3' = Plan3
  BY <1>6 DEF Plan3, PlanStep, MarketOf
<1>8. \A n : Planned(n)' = Planned(n)
  BY <1>4, <1>5, <1>6, <1>7 DEF Planned
<1>9. \A n, amounts : Within(n, amounts)' <=> Within(n, amounts)
  BY <1>2, <1>8 DEF Within
<1> QED
  BY <1>2, <1>4, <1>7, <1>8, <1>9

\* Steps that leave the books and the cycle alone, and its order in the queue.
LEMMA PromisedStays ==
  ASSUME Promised, Fills(ready') # {} \/ Fills(ready) = {}, phase' = phase,
         UNCHANGED <<books, state, pending, holdings, budget, opportunity, leg_number,
                     opening, accepted>>
  PROVE  Promised'
<1>1. /\ Plan0' = Plan0 /\ Plan3' = Plan3
      /\ Within(leg_number, holdings)' <=> Within(leg_number, holdings)
  <2>1. \A n, amounts : Within(n, amounts)' <=> Within(n, amounts)
    BY PlanStays
  <2> QED
    BY PlanStays, <2>1 DEF Within
<1>2. Prepared(leg_number, holdings)' = Prepared(leg_number, holdings)
  BY DEF Prepared
<1>3. Request(leg_number, Prepared(leg_number, holdings))' =
        Request(leg_number, Prepared(leg_number, holdings))
  BY <1>2 DEF Request
<1> QED
  BY <1>1, <1>2, <1>3 DEF Promised

\* A handler that is no fill leaves the fill in the queue.
LEMMA FillsStay ==
  ASSUME NEW queue \in Seq(Handlers), queue # <<>>, Head(queue).kind # "fill",
         Fills(queue) # {}
  PROVE  Fills(Tail(queue)) # {}
<1> DEFINE rest == Tail(queue)
<1>1. /\ Len(rest) = Len(queue) - 1 /\ Len(queue) \in Nat \ {0} /\ rest \in Seq(Handlers)
      /\ \A i \in 1..Len(rest) : rest[i] = queue[i + 1]
      /\ Head(queue) = queue[1]
  <2> HIDE DEF Handlers
  <2> QED
    BY HeadTailProperties
<1>2. DOMAIN rest = 1..Len(rest) /\ DOMAIN queue = 1..Len(queue)
  <2> HIDE DEF Handlers, rest
  <2> QED
    BY <1>1
<1> HIDE DEF rest
<1>3. PICK i \in DOMAIN queue : queue[i].kind = "fill"
  BY DEF Fills
<1>4. i - 1 \in 1..Len(rest) /\ rest[i - 1] = queue[i]
  <2>1. i # 1
    BY <1>1, <1>3
  <2>2. i - 1 \in 1..Len(rest) /\ (i - 1) + 1 = i
    BY <1>1, <1>2, <2>1
  <2> QED
    BY <1>1, <2>2
<1>5. i - 1 \in Fills(rest)
  BY <1>2, <1>3, <1>4 DEF Fills
<1> QED
  BY <1>5 DEF rest

\* A fill at the end of the queue is in the queue.
LEMMA FillsAppended ==
  ASSUME NEW queue \in Seq(Handlers), NEW order \in Requests
  PROVE  Fills(Append(queue, [kind |-> "fill", order |-> order])) # {}
<1> DEFINE handler == [kind |-> "fill", order |-> order]
           next == Append(queue, handler)
<1>1. handler \in Handlers /\ handler.kind = "fill"
  BY DEF Handlers
<1>2. /\ next \in Seq(Handlers) /\ Len(next) = Len(queue) + 1 /\ Len(queue) \in Nat
      /\ next[Len(queue) + 1] = handler
  <2> HIDE DEF Handlers, handler
  <2> QED
    BY <1>1, AppendProperties
<1>3. DOMAIN next = 1..Len(queue) + 1
  <2> HIDE DEF Handlers, next
  <2> QED
    BY <1>2
<1> HIDE DEF next, handler
<1>4. Len(queue) + 1 \in Fills(next)
  BY <1>1, <1>2, <1>3 DEF Fills
<1> QED
  BY <1>4 DEF next, handler

\* The pending order against the plan of its leg.
Ahead == leg_number + 1
BestNow == Price(books[pending.symbol], pending.buy)
EarnedNow(a) ==
  Earned(MarketOf(Ahead), opportunity.path[Ahead], BestNow, pending.quantity, a)
LEMMA PendingIs ==
  ASSUME QuotedInTicks, Kept, state = "LEG_PENDING"
  PROVE  /\ leg_number \in 0..2 /\ opportunity # None
         /\ pending \in Requests /\ ~pending.initial_clear
         /\ Lawful(Markets[pending.symbol], pending)
         /\ pending.buy = opportunity.path[Ahead].buy
         /\ Markets[pending.symbol] = MarketOf(Ahead) /\ SpentBy(pending) = SpentOn(Ahead)
         /\ books[pending.symbol] \in BookTypes /\ books[pending.symbol] # None
         /\ BestNow \in Nat \ {0}
         /\ NotWorse(pending, BestNow, pending.price)
         /\ pending.quantity <= Liquidity(books[pending.symbol], pending.buy)
         /\ Take(pending.buy, BestNow, pending.quantity) <= holdings[SpentBy(pending)]
         /\ \A a \in Assets : a # SpentBy(pending) =>
              /\ EarnedNow(a) \in Nat
              /\ Planned(leg_number)[a] + EarnedNow(a) <= Planned(Ahead)[a]
<1> DEFINE n == leg_number + 1
           leg == opportunity.path[n]
           market == MarketOf(n)
           rate == opportunity.prices[n]
           book == books[leg.index]
           best == Price(book, leg.buy)
           x == holdings[SpentOn(n)]
           y == Planned(leg_number)[SpentOn(n)]
           most == Sized(market, leg, y, best)
           quantity == pending.quantity
<1>1. /\ Inv /\ Typed /\ Wired /\ Travelled /\ TypeOK
      /\ opportunity # None /\ Found(opportunity) /\ accepted \in 1..CycleBound
      /\ leg_number \in 0..2
  BY DEF Kept, Sold, Inv, Typed, Underway, Numbered
<1>2. /\ Prepared(leg_number, holdings) # None
      /\ pending = Request(leg_number, Prepared(leg_number, holdings))
      /\ Within(leg_number, holdings) /\ Plan3 # None
  BY DEF Kept, Promised
<1>3. n \in 1..3 /\ n > leg_number /\ n - 1 = leg_number
  BY <1>1
<1>4. /\ pending \in Requests
      /\ pending.symbol = leg.index /\ pending.buy = leg.buy /\ ~pending.initial_clear
      /\ Lawful(Markets[pending.symbol], pending)
      /\ pending.price = AcceptedPrice(rate, Markets[pending.symbol].tick)
      /\ pending.quantity = Sized(Markets[pending.symbol], leg, holdings[SpentBy(pending)], pending.price)
  <2>1. holdings \in [Assets -> Nat]
    BY <1>1 DEF TypeOK
  <2> QED
    BY <1>1, <1>2, <2>1, RequestFits
<1>5. /\ leg.index \in Symbols /\ leg.buy \in BOOLEAN
      /\ market = Markets[pending.symbol] /\ SpentBy(pending) = SpentOn(n)
      /\ market \in Ranges /\ market.tick > 0 /\ market.step > 0
  <2>1. leg.index \in Symbols /\ leg.buy \in BOOLEAN
    BY <1>1, <1>3 DEF Found, Legs
  <2>2. market = Markets[leg.index]
    BY DEF MarketOf
  <2>3. SpentBy(pending) = SpentOn(n)
    BY <1>4, <2>2 DEF SpentBy, SpentOn
  <2> QED
    BY <1>4, <2>1, <2>2, <2>3, MarketTypes
<1>6. SpentOn(n) \in Assets
  BY <1>1, <1>3, SpentOnce
<1>7. LegPlanned(n) /\ Planned(leg_number) \in [Assets -> Nat] /\ Planned(n) \in [Assets -> Nat]
  <2>1. leg_number \in 0..3 /\ n \in 0..3
    BY <1>1
  <2> HIDE DEF n
  <2> QED
    BY <1>1, <1>2, <1>3, <2>1, PlanIs
<1>8. LegPlan(market, leg, rate, book, Planned(leg_number), Planned(n))
  <2>1. LegPlan(market, leg, rate, book, Planned(n - 1), Planned(n))
    BY <1>7 DEF LegPlanned
  <2> HIDE DEF n
  <2> QED
    BY <1>3, <2>1
<1>9. x \in Nat /\ y \in Nat /\ x <= y
  <2>1. x <= y
    BY <1>2, <1>3 DEF Within
  <2>2. holdings \in [Assets -> Nat]
    BY <1>1 DEF TypeOK
  <2> QED
    BY <1>6, <1>7, <2>1, <2>2
<1>10. /\ book \in BookTypes /\ book # None
       /\ best \in Nat \ {0} /\ NotWorse(leg, best, pending.price)
       /\ most <= Liquidity(book, leg.buy)
       /\ \A a \in Assets : a # SpentOn(n) =>
            Planned(n)[a] = Planned(leg_number)[a] + Earned(market, leg, best, most, a)
  <2>1. SpentOn(n) = Spent(market, leg.buy)
    BY DEF SpentOn
  <2>2. pending.price = AcceptedPrice(rate, market.tick)
    BY <1>4, <1>5
  <2> HIDE DEF market, leg, rate, book, n
  <2> QED
    BY <1>8, <2>1, <2>2 DEF LegPlan
<1>11. quantity = Sized(market, leg, x, pending.price)
  BY <1>4, <1>5
<1>12. pending.price \in Nat \ {0}
  BY <1>4, OrderTypes DEF Lawful, Valid
<1>13. /\ Ahead = n /\ BestNow = best /\ book = books[pending.symbol]
       /\ \A a : EarnedNow(a) = Earned(market, leg, best, quantity, a)
  BY <1>4 DEF Ahead, BestNow, EarnedNow
<1> HIDE DEF n, leg, market, rate, book, best, x, y
<1>14. /\ quantity \in Nat /\ most \in Nat /\ quantity <= most
       /\ Take(leg.buy, best, quantity) <= x
       /\ \A a : /\ Earned(market, leg, best, quantity, a) \in Nat
                 /\ Earned(market, leg, best, most, a) \in Nat
                 /\ Earned(market, leg, best, quantity, a) <= Earned(market, leg, best, most, a)
  <2> DEFINE limit == pending.price
  <2>1. /\ market \in Ranges /\ market.tick > 0 /\ market.step > 0 /\ leg.buy \in BOOLEAN
        /\ limit \in Nat \ {0} /\ best \in Nat \ {0} /\ NotWorse(leg, best, limit)
        /\ quantity = Sized(market, leg, x, limit)
    BY <1>5, <1>10, <1>11, <1>12
  <2> HIDE DEF quantity, limit
  <2> QED
    BY ONLY <1>9, <2>1, LegHonoured
<1>15. quantity <= Liquidity(book, leg.buy)
  <2>1. Liquidity(book, leg.buy) \in Nat
    BY <1>5, <1>10, LevelTypes
  <2> HIDE DEF quantity, most
  <2> QED
    BY <1>10, <1>14, <2>1
<1>16. \A a \in Assets : a # SpentBy(pending) =>
         /\ EarnedNow(a) \in Nat
         /\ Planned(leg_number)[a] + EarnedNow(a) <= Planned(n)[a]
  <2> HIDE DEF quantity, most
  <2> SUFFICES ASSUME NEW a \in Assets, a # SpentBy(pending)
               PROVE  /\ EarnedNow(a) \in Nat
                      /\ Planned(leg_number)[a] + EarnedNow(a) <= Planned(n)[a]
    OBVIOUS
  <2>1. Planned(leg_number)[a] \in Nat
    BY <1>7
  <2>2. /\ EarnedNow(a) \in Nat /\ Earned(market, leg, best, most, a) \in Nat
        /\ EarnedNow(a) <= Earned(market, leg, best, most, a)
    BY <1>13, <1>14
  <2>3. Planned(n)[a] = Planned(leg_number)[a] + Earned(market, leg, best, most, a)
    BY <1>5, <1>10
  <2> QED
    BY <2>1, <2>2, <2>3
<1>17. NotWorse(pending, best, pending.price)
  BY <1>4, <1>10 DEF NotWorse, leg
<1>18. Take(pending.buy, best, quantity) <= holdings[SpentBy(pending)]
  BY <1>4, <1>5, <1>14 DEF leg, x
<1>19. /\ Markets[pending.symbol] = MarketOf(Ahead) /\ SpentBy(pending) = SpentOn(Ahead)
       /\ pending.buy = opportunity.path[Ahead].buy
  BY <1>4, <1>5, <1>13 DEF market, leg
<1>20. pending.buy = leg.buy
  BY <1>4 DEF leg
<1>21. /\ books[pending.symbol] \in BookTypes /\ books[pending.symbol] # None
       /\ BestNow \in Nat \ {0}
       /\ NotWorse(pending, BestNow, pending.price)
       /\ quantity <= Liquidity(books[pending.symbol], pending.buy)
       /\ Take(pending.buy, BestNow, quantity) <= holdings[SpentBy(pending)]
  <2> HIDE DEF quantity
  <2> QED
    BY <1>10, <1>13, <1>15, <1>17, <1>18, <1>20
<1>22. \A a \in Assets : a # SpentBy(pending) =>
         /\ EarnedNow(a) \in Nat
         /\ Planned(leg_number)[a] + EarnedNow(a) <= Planned(Ahead)[a]
  BY ONLY <1>13, <1>16
<1> QED
  BY ONLY <1>1, <1>4, <1>19, <1>21, <1>22

\* The exchange fills the pending order in full, unless something was taken of
\* the level since it is shown.
LEMMA PendingHonoured ==
  ASSUME QuotedInTicks, Kept, state = "LEG_PENDING"
  PROVE  \/ /\ PendingFill.report.status = "Filled"
            /\ PendingFill.report.filled = pending.quantity
            /\ PendingFill.report.quote = Notional(BestNow, pending.quantity)
         \/ /\ PendingFill.report.status = "Expired"
            /\ shown_used[SideOf(pending)] > 0
<1> DEFINE book == books[pending.symbol]
           spend == SpentBy(pending)
           cost == Take(pending.buy, BestNow, pending.quantity)
<1>1. /\ pending \in Requests /\ ~pending.initial_clear
      /\ Lawful(Markets[pending.symbol], pending)
      /\ book \in BookTypes /\ book # None /\ BestNow \in Nat \ {0}
      /\ NotWorse(pending, BestNow, pending.price)
      /\ pending.quantity <= Liquidity(book, pending.buy)
      /\ cost <= holdings[spend]
  BY PendingIs
<1>2. /\ wallet \in [Assets -> Nat] /\ consumed \in [Sides -> [id : Int, used : Nat]]
      /\ holdings \in [Assets -> Nat] /\ budget \in Nat /\ opening \in [Assets -> Nat] \cup {None}
  BY DEF Kept, Sold, Inv, Typed, TypeOK
<1>3. spend \in Assets /\ SideOf(pending) \in Sides /\ SideOf(pending).symbol = pending.symbol
      /\ SideOf(pending).buy = pending.buy /\ pending.buy \in BOOLEAN /\ pending.quantity \in Nat
  BY <1>1, OrderTypes DEF SideOf
<1>4. cost <= wallet[spend]
  <2>1. opening # None /\ opening[spend] >= Plan0[spend]
    BY <1>3 DEF Kept, Promised
  <2>2. wallet[spend] - opening[spend] = holdings[spend] - Plan0[spend]
    BY <1>3, <2>1 DEF Kept, Noted, HoldingsMatchWallet, Plan0
  <2>3. Plan0[spend] \in Nat
    BY <1>2, <1>3, OnlyTypes DEF Plan0
  <2>4. wallet[spend] \in Nat /\ holdings[spend] \in Nat /\ opening[spend] \in Nat
    BY <1>2, <1>3, <2>1
  <2>5. cost \in Nat
    <3>1. Notional(BestNow, pending.quantity) \in Nat
      BY <1>1, <1>3, NotionalTypes
    <3> QED
      BY <1>3, <3>1 DEF Take
  <2> HIDE DEF cost, spend
  <2> QED
    BY <1>1, <2>1, <2>2, <2>3, <2>4, <2>5
<1>5. shown_used[SideOf(pending)] = UsedNow(SideOf(pending), book)
  <2>1. CountedAt(SideOf(pending), book)
    BY <1>3 DEF Kept, Sold, Usage
  <2> QED
    BY <1>1, <2>1 DEF CountedAt
<1>6. PendingFill = Fill(pending, book) /\ BestNow = Price(book, pending.buy)
  BY DEF PendingFill, BestNow
<1> HIDE DEF book, spend
<1>7. \/ /\ Fill(pending, book).report.status = "Filled"
         /\ Fill(pending, book).report.filled = pending.quantity
         /\ Fill(pending, book).report.quote = Notional(BestNow, pending.quantity)
      \/ /\ Fill(pending, book).report.status = "Expired"
         /\ UsedNow(SideOf(pending), book) > 0
  BY <1>1, <1>2, <1>4, <1>6, FillHonoured DEF spend
<1> QED
  BY <1>5, <1>6, <1>7

\* What the cycle holds after a full fill is within the plan again.
LEMMA SettledWithin ==
  ASSUME QuotedInTicks, Kept, state = "LEG_PENDING", Reported(pending, PendingFill.report),
         PendingFill.report.status = "Filled"
  PROVE  Within(Ahead, Settle(PendingFill.report))
<1> DEFINE r == PendingFill.report
           amounts == Settle(r)
<1>1. /\ leg_number \in 0..2 /\ opportunity # None /\ pending \in Requests
      /\ pending.buy = opportunity.path[Ahead].buy
      /\ Markets[pending.symbol] = MarketOf(Ahead) /\ SpentBy(pending) = SpentOn(Ahead)
      /\ \A a \in Assets : a # SpentBy(pending) =>
           /\ EarnedNow(a) \in Nat
           /\ Planned(leg_number)[a] + EarnedNow(a) <= Planned(Ahead)[a]
  BY PendingIs
<1>2. r.filled = pending.quantity /\ r.quote = Notional(BestNow, pending.quantity)
  BY PendingHonoured
<1>3. \A a \in Assets : amounts[a] = holdings[a] + Change(pending, r, a)
  <2>1. PaidBy(Markets[pending.symbol], pending, holdings[SpentBy(pending)],
               pending.price, pending.quantity)
    BY DEF Kept, Sold, Inv, Funded
  <2>2. holdings \in [Assets -> Nat]
    BY DEF Kept, Sold, Inv, Typed, TypeOK
  <2> HIDE DEF r
  <2>3. Reported(pending, r)
    BY DEF r
  <2> QED
    BY <1>1, <2>1, <2>2, <2>3, SettleIs
<1> HIDE DEF amounts, r
<1>4. \A a \in Assets : a # SpentBy(pending) => Change(pending, r, a) = EarnedNow(a)
  <2> SUFFICES ASSUME NEW a \in Assets, a # SpentBy(pending)
               PROVE  Change(pending, r, a) = EarnedNow(a)
    OBVIOUS
  <2>1. Proceeds(pending, r) = Yield(pending.buy, BestNow, pending.quantity)
    BY <1>2 DEF Proceeds, Yield
  <2>2. ReceivedBy(pending) = Received(MarketOf(Ahead), opportunity.path[Ahead].buy)
    BY <1>1 DEF ReceivedBy
  <2>3. EarnedNow(a) \in Nat
    BY <1>1
  <2>4. EarnedNow(a) = IF a = ReceivedBy(pending)
                       THEN Proceeds(pending, r) - Commission(Proceeds(pending, r)) ELSE 0
    BY <1>1, <2>1, <2>2 DEF EarnedNow, Earned
  <2>5. Change(pending, r, a) = EarnedNow(a) - 0
    BY <2>4 DEF Change
  <2> QED
    BY <2>3, <2>5
<1>5. ASSUME NEW l \in 1..3, l > Ahead PROVE amounts[SpentOn(l)] <= Planned(Ahead)[SpentOn(l)]
  <2>1. Ahead \in 1..3 /\ l # Ahead /\ l > leg_number
    BY <1>1, <1>5 DEF Ahead
  <2>2. SpentOn(l) \in Assets /\ SpentOn(l) # SpentBy(pending)
    <3>1. Typed /\ Travelled
      BY DEF Kept, Sold, Inv
    <3> QED
      BY <1>1, <2>1, <3>1, SpentOnce
  <2>3. holdings[SpentOn(l)] <= Planned(leg_number)[SpentOn(l)]
    BY <2>1 DEF Kept, Promised, Within
  <2>4. holdings[SpentOn(l)] \in Nat
    BY <2>2 DEF Kept, Sold, Inv, Typed, TypeOK
  <2>5. Planned(leg_number)[SpentOn(l)] \in Nat /\ Planned(Ahead)[SpentOn(l)] \in Nat
    <3>1. Wired /\ Typed /\ Plan3 # None
      BY DEF Kept, Sold, Inv, Promised
    <3>2. leg_number \in 0..3 /\ Ahead \in 0..3
      BY <1>1, <2>1
    <3>3. \A n \in 0..3 : Planned(n) \in [Assets -> Nat]
      BY <1>1, <3>1, PlanIs
    <3> QED
      BY <2>2, <3>2, <3>3
  <2> DEFINE a == SpentOn(l)
             e == EarnedNow(a)
  <2>6. amounts[a] = holdings[a] + e /\ e \in Nat
        /\ Planned(leg_number)[a] + e <= Planned(Ahead)[a]
    BY <1>1, <1>3, <1>4, <2>2
  <2> HIDE DEF a, e
  <2> QED
    BY <2>3, <2>4, <2>5, <2>6 DEF a
<1> QED
  BY <1>5 DEF Within, amounts, r

\* begin() makes the plan and sends the first leg.
LEMMA BeginPromises ==
  ASSUME Kept, Inv', RunBegin
  PROVE  Promised'
<1> DEFINE amounts == Only("USDT", budget)
<1>1. /\ Inv /\ TypeOK /\ Typed /\ Travelled /\ ready \in Seq(Handlers) /\ ready # <<>>
      /\ Head(ready).kind = "begin" /\ phase = "poll"
      /\ UNCHANGED <<wallet, books, phase>>
  BY DEF Kept, Sold, Inv, Typed, TypeOK, RunBegin, Run, gatewayVars, bookVars
<1>2. CASE UNCHANGED cycleVars /\ ready' = Tail(ready)
  <2>1. Fills(ready') # {} \/ Fills(ready) = {}
    BY <1>1, <1>2, FillsStay
  <2> QED
    BY <1>1, <1>2, <2>1, PromisedStays DEF Kept, cycleVars
<1>3. CASE state' # "LEG_PENDING"
  BY <1>3 DEF Promised
<1>4. CASE /\ state = "VALIDATING" /\ wallet["USDT"] >= budget /\ opening' = wallet
           /\ Preflight(Markets, books, opportunity, amounts)
           /\ leg_number' = 0 /\ Sent(0, amounts)
  <2>1. /\ Prepared(0, amounts) # None /\ holdings' = amounts
        /\ pending' = Request(0, Prepared(0, amounts))
        /\ ready' = Append(Tail(ready), [kind |-> "fill", order |-> pending'])
        /\ UNCHANGED <<budget, opportunity, accepted>>
    BY <1>4 DEF Sent
  <2>2. Plan0' = Plan0 /\ Plan3' = Plan3 /\ (Within(0, amounts)' <=> Within(0, amounts))
    <3>1. Plan0' = Plan0 /\ Plan3' = Plan3
      BY <1>1, <2>1, PlanStays
    <3>2. \A n, held : Within(n, held)' <=> Within(n, held)
      BY <1>1, <2>1, PlanStays
    <3>3. amounts' = amounts
      BY <2>1 DEF Only, NoHoldings
    <3> HIDE DEF amounts
    <3>4. Within(0, amounts)' <=> Within(0, amounts)
      BY <3>2, <3>3 DEF Within
    <3> QED
      BY <3>1, <3>4
  <2>3. amounts \in [Assets -> Nat] /\ amounts = Plan0
    BY <1>1, OnlyTypes DEF TypeOK, Plan0
  <2>4. Within(0, amounts)
    <3>1. opportunity # None
      BY <1>1, <1>4 DEF Inv, Underway
    <3>2. \A l \in 1..3 : SpentOn(l) \in Assets
      BY <1>1, <3>1, SpentOnce
    <3> HIDE DEF amounts
    <3> QED
      BY <2>3, <3>2 DEF Within, Planned
  <2>5. Plan3 # None
    BY <1>4, PreflightIs
  <2>6. Fills(ready') # {}
    <3>1. pending' \in Requests
      <4>1. pending' # None
        BY <1>4 DEF Inv, Numbered, Sent
      <4> QED
        BY <4>1 DEF Inv, Typed, TypeOK
    <3>2. Tail(ready) \in Seq(Handlers)
      BY <1>1, TailIs
    <3> QED
      BY <2>1, <3>1, <3>2, FillsAppended
  <2>7. opening' # None /\ \A a \in Assets : opening'[a] >= Plan0[a]
    <3>1. wallet \in [Assets -> Nat] /\ budget \in Nat
      BY <1>1 DEF TypeOK
    <3>2. opening' # None
      BY <1>4, <3>1, NoneAssumption
    <3>3. \A a \in Assets : Plan0[a] = IF a = "USDT" THEN budget ELSE 0
      BY DEF Plan0, Only, NoHoldings
    <3> QED
      BY <1>4, <3>1, <3>2, <3>3
  <2>8. Prepared(leg_number, holdings)' = Prepared(0, amounts)
    BY <1>4, <2>1 DEF Prepared
  <2>9. Request(leg_number, Prepared(leg_number, holdings))' = Request(0, Prepared(0, amounts))
    BY <1>4, <2>1, <2>8 DEF Request
  <2>10. Within(leg_number, holdings)'
    <3>1. Within(0, amounts)'
      BY <2>2, <2>4
    <3>2. amounts' = amounts
      BY <2>1 DEF Only, NoHoldings
    <3> HIDE DEF amounts
    <3> QED
      BY <1>4, <2>1, <3>1, <3>2 DEF Within
  <2> HIDE DEF amounts
  <2> QED
    BY <1>1, <2>1, <2>2, <2>5, <2>6, <2>7, <2>8, <2>9, <2>10 DEF Promised
<1>5. \/ UNCHANGED cycleVars /\ ready' = Tail(ready)
      \/ state' # "LEG_PENDING"
      \/ /\ state = "VALIDATING" /\ wallet["USDT"] >= budget /\ opening' = wallet
         /\ Preflight(Markets, books, opportunity, amounts)
         /\ NextLeg(0, amounts)
  <2> HIDE DEF amounts
  <2>1. CASE state # "VALIDATING" \/ stopping
    BY <2>1 DEF RunBegin
  <2>2. CASE state = "VALIDATING" /\ ~stopping
    BY <2>2 DEF RunBegin, EndCycle, amounts
  <2> QED
    BY <2>1, <2>2
<1>6. ASSUME NextLeg(0, amounts)
      PROVE  state' # "LEG_PENDING" \/ (leg_number' = 0 /\ Sent(0, amounts))
  <2> HIDE DEF amounts
  <2> QED
    BY <1>6, NextLegIs DEF Ended
<1> HIDE DEF amounts
<1> QED
  BY <1>2, <1>3, <1>4, <1>5, <1>6

\* A leg that was filled is followed by the next one of the plan.
LEMMA FillPromises ==
  ASSUME QuotedInTicks, Kept, Inv', RunFill
  PROVE  Promised'
<1> DEFINE r == PendingFill.report
           amounts == Settle(r)
<1>1. /\ Inv /\ ready \in Seq(Handlers)
  BY DEF Kept, Sold, Inv, Typed, TypeOK
<1>2. /\ Reported(pending, r) /\ Settled(r) /\ ready # <<>> /\ phase = "poll"
      /\ UNCHANGED <<books, phase>>
  BY <1>1, FillRuns
<1>3. \/ state' # "LEG_PENDING"
      \/ /\ state = "LEG_PENDING" /\ UNCHANGED opening /\ r.status = "Filled"
         /\ leg_number' = leg_number + 1 /\ Sent(leg_number + 1, amounts)
  <2> HIDE DEF amounts
  <2>1. \/ state = "HALTED" /\ UNCHANGED state
        \/ /\ state = "LEG_PENDING" /\ UNCHANGED opening
           /\ \/ Idled(amounts)
              \/ Ended(amounts)
              \/ /\ r.status = "Filled" /\ leg_number' = leg_number + 1
                 /\ Sent(leg_number + 1, amounts)
    BY <1>2 DEF Settled, amounts, cycleVars
  <2> QED
    BY <2>1 DEF Idled, Ended
<1>4. CASE state' # "LEG_PENDING"
  BY <1>4 DEF Promised
<1>5. CASE /\ state = "LEG_PENDING" /\ UNCHANGED opening /\ r.status = "Filled"
           /\ leg_number' = leg_number + 1 /\ Sent(leg_number + 1, amounts)
  <2>1. Within(leg_number + 1, amounts)
    BY <1>2, <1>5, SettledWithin DEF Ahead
  <2> HIDE DEF amounts
  <2>2. /\ Prepared(leg_number + 1, amounts) # None /\ holdings' = amounts
        /\ pending' = Request(leg_number + 1, Prepared(leg_number + 1, amounts))
        /\ ready' = Append(Tail(ready), [kind |-> "fill", order |-> pending'])
        /\ state' = "LEG_PENDING"
        /\ UNCHANGED <<budget, opportunity, accepted>>
    BY <1>5 DEF Sent
  <2>3. /\ Plan0' = Plan0 /\ Plan3' = Plan3
        /\ \A n : SpentOn(n)' = SpentOn(n)
        /\ \A n : Planned(n)' = Planned(n)
    BY <1>2, <2>2, PlanStays
  <2>4. Within(leg_number, holdings)'
    <3> DEFINE n == leg_number + 1
    <3>1. \A l \in 1..3 : l > n => amounts[SpentOn(l)] <= Planned(n)[SpentOn(l)]
      BY <2>1 DEF Within
    <3>2. leg_number' = n /\ holdings' = amounts
      BY <1>5, <2>2
    <3>3. Planned(leg_number)' = Planned(n)
      BY <2>3, <3>2 DEF Planned
    <3> HIDE DEF n
    <3> QED
      BY <2>3, <3>1, <3>2, <3>3 DEF Within
  <2>5. Fills(ready') # {}
    <3>1. pending' \in Requests
      <4>1. pending' # None
        BY <1>5, <2>2 DEF Inv, Numbered
      <4> QED
        BY <4>1 DEF Inv, Typed, TypeOK
    <3>2. Tail(ready) \in Seq(Handlers)
      BY <1>1, <1>2, TailIs
    <3> QED
      BY <2>2, <3>1, <3>2, FillsAppended
  <2>6. Prepared(leg_number, holdings)' = Prepared(leg_number + 1, amounts)
    BY <1>5, <2>2 DEF Prepared
  <2>7. Request(leg_number, Prepared(leg_number, holdings))'
          = Request(leg_number + 1, Prepared(leg_number + 1, amounts))
    BY <1>5, <2>2, <2>6 DEF Request
  <2>8. Plan3 # None /\ opening # None /\ \A a \in Assets : opening[a] >= Plan0[a]
    BY <1>5 DEF Kept, Promised
  <2> QED
    BY <1>2, <1>5, <2>2, <2>3, <2>4, <2>5, <2>6, <2>7, <2>8 DEF Promised
<1> QED
  BY <1>3, <1>4, <1>5

\* Every step keeps the plan.
LEMMA KeptNext ==
  ASSUME QuotedInTicks, Kept, [Next]_vars
  PROVE  Kept'
<1>1. Sold' /\ Noted' /\ Travelled'
  BY SoldNext, NotedNext, TravelledNext DEF Kept
<1>2. /\ Inv' /\ Inv /\ Promised /\ ready \in Seq(Handlers)
      /\ (state = "LEG_PENDING" => phase = "poll" /\ Fills(ready) # {})
  BY <1>1 DEF Kept, Sold, Inv, Typed, TypeOK, Promised
<1>3. ASSUME state' # "LEG_PENDING" PROVE Promised'
  BY <1>3 DEF Promised
<1>4. ASSUME UNCHANGED <<books, state, pending, holdings, budget, opportunity, leg_number,
                         opening, accepted, phase>>,
             Fills(ready') # {} \/ Fills(ready) = {}
      PROVE  Promised'
  BY <1>2, <1>4, PromisedStays
<1>5. ASSUME NEW s \in Symbols, NEW i \in DOMAIN Stream[s], Ingest(s, i) PROVE Promised'
  <2>1. phase # "poll" /\ state' \in {state, "VALIDATING"}
    BY <1>5 DEF Ingest, TryStart, cycleVars
  <2> QED
    BY <1>2, <1>3, <2>1
<1>6. ASSUME ProcessReturn \/ DrainEnds PROVE Promised'
  BY <1>2, <1>3, <1>6 DEF ProcessReturn, DrainEnds, cycleVars
<1>7. ASSUME PollReturn PROVE Promised'
  <2>1. Fills(ready) = {} /\ state' = state
    BY <1>7 DEF PollReturn, PollDrained, Fills, cycleVars
  <2> QED
    BY <1>2, <1>3, <2>1
<1>8. ASSUME NEW handler \in Handlers, handler.kind # "fill", ready' = Append(ready, handler),
             UNCHANGED <<books, state, pending, holdings, budget, opportunity, leg_number,
                         opening, accepted, phase>>
      PROVE  Promised'
  <2>1. Fills(ready') = Fills(ready)
    BY <1>2, <1>8, OtherAppended
  <2> QED
    BY <1>4, <1>8, <2>1
<1>9. ASSUME ready # <<>>, Head(ready).kind # "fill", ready' = Tail(ready),
             UNCHANGED <<books, pending, holdings, budget, opportunity, leg_number,
                         opening, accepted, phase>>,
             state' = state \/ state' # "LEG_PENDING"
      PROVE  Promised'
  <2>1. Fills(ready') # {} \/ Fills(ready) = {}
    BY <1>2, <1>9, FillsStay
  <2> QED
    BY <1>3, <1>4, <1>9, <2>1
<1>10. ASSUME NEW id \in OrderIds, Query(id) PROVE Promised'
  <2> DEFINE handler == [kind |-> "lookup", id |-> id]
  <2>1. handler \in Handlers /\ handler.kind # "fill"
    BY DEF Handlers
  <2>2. /\ ready' = Append(ready, handler)
        /\ UNCHANGED <<books, state, pending, holdings, budget, opportunity, leg_number,
                       opening, accepted, phase>>
    BY <1>10 DEF Query, bookVars, cycleVars
  <2> HIDE DEF handler
  <2> QED
    BY <1>8, <2>1, <2>2
<1>11. ASSUME TimeoutExpires PROVE Promised'
  <2> DEFINE handler == [kind |-> "timeout"]
  <2>1. handler \in Handlers /\ handler.kind # "fill"
    BY DEF Handlers
  <2>2. /\ ready' = Append(ready, handler)
        /\ UNCHANGED <<books, state, pending, holdings, budget, opportunity, leg_number,
                       opening, accepted, phase>>
    BY <1>11 DEF TimeoutExpires, bookVars
  <2> HIDE DEF handler
  <2> QED
    BY <1>8, <2>1, <2>2
<1>12. ASSUME Signal PROVE Promised'
  <2>1. Stop \in Handlers /\ Stop.kind # "fill"
    BY DEF Handlers, Stop
  <2>2. /\ ready' = Append(ready, Stop)
        /\ UNCHANGED <<books, state, pending, holdings, budget, opportunity, leg_number,
                       opening, accepted, phase>>
    BY <1>12 DEF Signal, bookVars, cycleVars
  <2> QED
    BY <1>8, <2>1, <2>2
<1>13. ASSUME RunTimeout \/ RunLookup PROVE Promised'
  <2>1. /\ ready # <<>> /\ Head(ready).kind # "fill" /\ ready' = Tail(ready)
        /\ UNCHANGED <<books, pending, holdings, budget, opportunity, leg_number,
                       opening, accepted, phase>>
        /\ state' = state \/ state' # "LEG_PENDING"
    BY <1>13 DEF RunTimeout, RunLookup, Run, bookVars, cycleVars
  <2> QED
    BY <1>9, <2>1
<1>14. ASSUME RunStop PROVE Promised'
  <2>1. state' # "LEG_PENDING"
    BY <1>14 DEF RunStop
  <2> QED
    BY <1>3, <2>1
<1>15. ASSUME UNCHANGED vars PROVE Promised'
  <2>1. ready' = ready
    BY <1>15 DEF vars, loopVars
  <2> QED
    BY <1>4, <1>15, <2>1 DEF vars, bookVars, cycleVars, loopVars
<1>16. Promised'
  BY <1>2, <1>5, <1>6, <1>7, <1>10, <1>11, <1>12, <1>13, <1>14, <1>15,
     BeginPromises, FillPromises DEF Next, Exited
<1> QED
  BY <1>1, <1>16 DEF Kept

\* An order's first report comes from its fill.
LEMMA FillHonours ==
  ASSUME QuotedInTicks, Kept, [Next]_vars, NEW o \in OrderIds,
         orders[o] = None, orders'[o] # None, state = "LEG_PENDING"
  PROVE  \/ orders'[o].status = "Filled"
         \/ /\ orders'[o].status = "Expired"
            /\ shown_used[[symbol |-> pending.symbol, buy |-> pending.buy]] > 0
<1>1. orders' # orders
  OBVIOUS
<1>2. RunFill
  BY <1>1 DEF Next, Exited, vars, gatewayVars, Ingest, ProcessReturn, RunBegin, RunTimeout,
              RunStop, DrainEnds, Query, RunLookup, TimeoutExpires, Signal, PollReturn
<1>3. Inv /\ orders \in [OrderIds -> OrderReports \cup {None}]
  BY DEF Kept, Sold, Inv, Typed, TypeOK
<1>4. orders' = [orders EXCEPT ![pending.id] = PendingFill.report]
  BY <1>2, <1>3, FillRuns
<1>5. o = pending.id /\ orders'[o] = PendingFill.report
  BY <1>3, <1>4
<1> QED
  BY <1>5, PendingHonoured DEF SideOf

\* On an exchange that quotes in ticks, what preflight() validated is honoured:
\* as the books stand while a cycle runs and every leg's amount, price and
\* quantity stay within the plan, no leg is rejected, and one expires only when
\* an earlier cycle took something of the same update.
THEOREM PreflightIsHonoured ==
  ASSUME QuotedInTicks PROVE Spec => PreflightHonoured
<1>1. Init => Kept
  <2> SUFFICES ASSUME Init PROVE Kept
    OBVIOUS
  <2>1. Sold /\ Inv
    BY SoldInit, InvInit
  <2>2. Noted /\ Travelled /\ Promised
    BY <2>1 DEF Init, Noted, HoldingsMatchWallet, Travelled, Promised
  <2> QED
    BY <2>1, <2>2 DEF Kept
<1>2. Kept /\ [Next]_vars => Kept'
  BY KeptNext
<1>3. Kept /\ [Next]_vars =>
        [\A o \in OrderIds :
           orders[o] = None /\ orders'[o] # None /\ state = "LEG_PENDING" =>
             \/ orders'[o].status = "Filled"
             \/ /\ orders'[o].status = "Expired"
                /\ shown_used[[symbol |-> pending.symbol, buy |-> pending.buy]] > 0]_vars
  BY FillHonours
<1> QED
  BY <1>1, <1>2, <1>3, PTL DEF Spec, PreflightHonoured

(***************************************************************************)
(* The calls that wait in the queue.                                       *)
(***************************************************************************)
More(calls, handler) ==
  IF handler.kind = "fill" THEN Append(calls, handler.order.id)
  ELSE IF handler.kind = "lookup" THEN Append(calls, handler.id)
  ELSE calls
Walk(f, queue) ==
  /\ f \in [0..Len(queue) -> Seq(OrderIds)] /\ f[0] = <<>>
  /\ \A i \in 1..Len(queue) : f[i] = More(f[i - 1], queue[i])

\* A handler adds the order it is called for.
LEMMA MoreTypes ==
  ASSUME NEW calls \in Seq(OrderIds), NEW handler \in Handlers
  PROVE  More(calls, handler) \in Seq(OrderIds)
<1>1. handler.kind = "fill" => handler.order.id \in OrderIds
  BY DEF Handlers, Requests
<1>2. handler.kind = "lookup" => handler.id \in OrderIds
  BY DEF Handlers
<1> QED
  BY <1>1, <1>2, AppendProperties DEF More

\* The calls of a queue are walked from its front.
LEMMA CallsWalk ==
  ASSUME NEW queue \in Seq(Handlers)
  PROVE  \E f : Walk(f, queue) /\ CallsIn(queue) = f[Len(queue)]
<1> DEFINE n == Len(queue)
           V == Seq(OrderIds)
           base == <<>>
           Body(calls, i) == More(calls, queue[i])
           step == [m \in (1..n) \X V |-> Body(m[2], m[1])]
           calls == CHOOSE calls : calls =
                      [i \in 0..n |-> IF i = 0 THEN <<>>
                        ELSE IF queue[i].kind = "fill" THEN Append(calls[i - 1], queue[i].order.id)
                        ELSE IF queue[i].kind = "lookup" THEN Append(calls[i - 1], queue[i].id)
                        ELSE calls[i - 1]]
<1>1. n \in Nat /\ base \in V /\ \A i \in 1..n : queue[i] \in Handlers
  <2> HIDE DEF Handlers
  <2> QED
    BY EmptySeq
<1>2. ASSUME NEW old \in V, NEW i \in 1..n PROVE Body(old, i) \in V
  BY <1>1, MoreTypes
<1>3. step \in [(1..n) \X V -> V]
  <2> HIDE DEF V, Body, n
  <2> QED
    BY <1>2
<1>4. PICK f : Iterates(f, V, base, step, n)
  <2> HIDE DEF V, n, step, base
  <2> QED
    BY <1>1, <1>3, StepsKeep
<1>5. \A i \in 1..n : f[i] = Body(f[i - 1], i)
  <2> HIDE DEF V, n, Body
  <2>1. \A i \in 1..n : f[i - 1] \in V
    BY <1>1, <1>4 DEF Iterates
  <2> QED
    BY <1>4, <2>1 DEF Iterates
<1>6. f = [i \in 0..n |-> IF i = 0 THEN base ELSE Body(f[i - 1], i)]
  <2> HIDE DEF V, n, Body, base, step
  <2>1. \A i \in 0..n : f[i] = IF i = 0 THEN base ELSE Body(f[i - 1], i)
    BY <1>1, <1>4, <1>5 DEF Iterates
  <2> QED
    BY <1>4, <2>1 DEF Iterates
<1>7. calls = [i \in 0..n |-> IF i = 0 THEN base ELSE Body(calls[i - 1], i)]
  <2> HIDE DEF V, n
  <2> QED
    BY <1>6 DEF More
<1>8. calls[0] = base /\ \A i \in 1..n : calls[i] = Body(calls[i - 1], i)
  <2> HIDE DEF V, Body, calls, base, n
  <2>1. 0 \in 0..n /\ \A i \in 1..n : i \in 0..n /\ i # 0
    BY <1>1
  <2> QED
    BY <1>7, <2>1
<1>9. \A i \in 0..n : calls[i] \in V
  <2> HIDE DEF V, Body, calls, base, n
  <2>1. calls[0] \in V /\ \A i \in 1..n : calls[i - 1] \in V => calls[i] \in V
    BY <1>1, <1>2, <1>8
  <2> QED
    BY <1>1, <2>1, StepsStay
<1>10. calls \in [0..n -> V]
  <2> HIDE DEF V, Body, calls, base, n
  <2> QED
    BY <1>7, <1>9
<1>11. CallsIn(queue) = calls[n]
  BY DEF CallsIn
<1>12. Walk(calls, queue)
  <2> HIDE DEF calls
  <2> QED
    BY <1>8, <1>10 DEF Walk
<1> QED
  BY <1>11, <1>12

\* Queues that begin alike are walked alike.
LEMMA WalkUnique ==
  ASSUME NEW q, NEW r, NEW f, NEW g, NEW n \in Nat, Walk(f, q), Walk(g, r),
         Len(q) \in Nat, Len(r) \in Nat, n <= Len(q), n <= Len(r),
         \A i \in 1..n : q[i] = r[i]
  PROVE  f[n] = g[n]
<1> DEFINE S == {i \in Nat : i <= n => f[i] = g[i]}
<1>1. 0 \in S
  BY DEF Walk
<1>2. ASSUME NEW i \in Nat, i \in S PROVE i + 1 \in S
  <2>1. CASE i + 1 <= n
    <3>1. /\ i + 1 \in 1..n /\ i + 1 \in 1..Len(q) /\ i + 1 \in 1..Len(r) /\ (i + 1) - 1 = i
          /\ f[i] = g[i]
      BY <1>2, <2>1
    <3>2. f[i + 1] = More(f[i], q[i + 1]) /\ g[i + 1] = More(g[i], r[i + 1])
      BY <3>1 DEF Walk
    <3> QED
      BY <3>1, <3>2
  <2> QED
    BY <2>1
<1>3. Nat \subseteq S
  <2> HIDE DEF S
  <2> QED
    BY <1>1, <1>2, NatInduct
<1> QED
  BY <1>3

\* A handler at the end of the queue adds its call at the end.
LEMMA CallsAppend ==
  ASSUME NEW queue \in Seq(Handlers), NEW handler \in Handlers
  PROVE  /\ CallsIn(queue) \in Seq(OrderIds)
         /\ CallsIn(Append(queue, handler)) = More(CallsIn(queue), handler)
<1> DEFINE next == Append(queue, handler)
           n == Len(queue)
<1>1. /\ next \in Seq(Handlers) /\ Len(next) = n + 1 /\ n \in Nat
      /\ \A i \in 1..n : next[i] = queue[i]
      /\ next[n + 1] = handler
  <2> HIDE DEF Handlers
  <2> QED
    BY AppendProperties
<1>2. PICK f : Walk(f, queue) /\ CallsIn(queue) = f[n]
  BY CallsWalk
<1>3. PICK g : Walk(g, next) /\ CallsIn(next) = g[Len(next)]
  BY <1>1, CallsWalk
<1> HIDE DEF next, n
<1>4. f[n] = g[n]
  <2>1. n <= Len(queue) /\ n <= Len(next) /\ Len(queue) \in Nat /\ Len(next) \in Nat
    BY <1>1 DEF n
  <2>2. \A i \in 1..n : queue[i] = next[i]
    BY <1>1
  <2>3. Walk(f, queue) /\ Walk(g, next) /\ n \in Nat
    BY <1>1, <1>2, <1>3
  <2> QED
    BY ONLY <2>1, <2>2, <2>3, WalkUnique
<1>5. g[n + 1] = More(g[n], handler)
  <2>1. n + 1 \in 1..Len(next) /\ (n + 1) - 1 = n
    BY <1>1
  <2> QED
    BY <1>1, <1>3, <2>1 DEF Walk
<1>6. f[n] \in Seq(OrderIds)
  BY <1>1, <1>2 DEF Walk, n
<1> QED
  BY <1>1, <1>2, <1>3, <1>4, <1>5, <1>6 DEF next

\* Appending to the back of a concatenation.
LEMMA MoreBehind ==
  ASSUME NEW front \in Seq(OrderIds), NEW back \in Seq(OrderIds), NEW handler \in Handlers
  PROVE  More(front \o back, handler) = front \o More(back, handler)
<1>1. ASSUME NEW o \in OrderIds
      PROVE  Append(front \o back, o) = front \o Append(back, o)
  <2>1. front \o back \in Seq(OrderIds) /\ <<o>> \in Seq(OrderIds)
    BY ConcatProperties
  <2>2. Append(front \o back, o) = (front \o back) \o <<o>>
    BY <2>1, AppendIsConcat
  <2>3. Append(back, o) = back \o <<o>>
    BY AppendIsConcat
  <2>4. (front \o back) \o <<o>> = front \o (back \o <<o>>)
    BY <2>1, ConcatAssociative
  <2> QED
    BY <2>2, <2>3, <2>4
<1>2. handler.kind = "fill" => handler.order.id \in OrderIds
  BY DEF Handlers, Requests
<1>3. handler.kind = "lookup" => handler.id \in OrderIds
  BY DEF Handlers
<1> QED
  BY <1>1, <1>2, <1>3 DEF More

\* The call of the first handler is the first call.
LEMMA CallsTail ==
  ASSUME NEW queue \in Seq(Handlers), queue # <<>>
  PROVE  CallsIn(queue) = More(<<>>, Head(queue)) \o CallsIn(Tail(queue))
<1> DEFINE rest == Tail(queue)
           front == More(<<>>, Head(queue))
           n == Len(rest)
<1>1. /\ rest \in Seq(Handlers) /\ Len(queue) = n + 1 /\ n \in Nat
      /\ \A i \in 1..n : rest[i] = queue[i + 1]
      /\ Head(queue) = queue[1] /\ Head(queue) \in Handlers
  <2> HIDE DEF Handlers
  <2> QED
    BY HeadTailProperties
<1>2. PICK f : Walk(f, queue) /\ CallsIn(queue) = f[Len(queue)]
  BY CallsWalk
<1>3. PICK g : Walk(g, rest) /\ CallsIn(rest) = g[n]
  BY <1>1, CallsWalk
<1>4. front \in Seq(OrderIds)
  BY <1>1, MoreTypes, EmptySeq
<1> DEFINE S == {i \in Nat : i <= n => f[i + 1] = front \o g[i]}
<1>5. 0 \in S
  <2>1. f[1] = More(f[0], queue[1]) /\ f[0] = <<>> /\ g[0] = <<>>
    <3>1. 1 \in 1..Len(queue) /\ 1 - 1 = 0
      BY <1>1
    <3> QED
      BY <1>2, <1>3, <3>1 DEF Walk
  <2>2. f[1] = front
    BY <1>1, <2>1
  <2>3. front \o <<>> = front
    <3> HIDE DEF front
    <3> QED
      BY <1>4, ConcatEmptySeq
  <2> HIDE DEF front, n
  <2>4. f[0 + 1] = front \o g[0]
    BY <2>1, <2>2, <2>3
  <2> QED
    BY <2>4
<1>6. ASSUME NEW i \in Nat, i \in S PROVE i + 1 \in S
  <2> HIDE DEF front, rest, n
  <2>1. ASSUME i + 1 <= n PROVE f[(i + 1) + 1] = front \o g[i + 1]
    <3>1. /\ f[i + 1] = front \o g[i] /\ (i + 1) + 1 \in 1..Len(queue) /\ i + 1 \in 1..n
          /\ ((i + 1) + 1) - 1 = i + 1 /\ (i + 1) - 1 = i /\ i \in 0..n
      BY <1>1, <1>6, <2>1
    <3>2. f[(i + 1) + 1] = More(f[i + 1], queue[(i + 1) + 1])
      BY <1>2, <3>1 DEF Walk
    <3>3. g[i + 1] = More(g[i], rest[i + 1]) /\ g[i] \in Seq(OrderIds)
      BY <1>3, <3>1 DEF Walk, n
    <3>4. rest[i + 1] = queue[(i + 1) + 1]
      BY <1>1, <3>1
    <3>5. rest[i + 1] \in Handlers
      <4> HIDE DEF Handlers
      <4> QED
        BY <1>1, <3>1, ElementOfSeq DEF n
    <3>6. More(front \o g[i], rest[i + 1]) = front \o More(g[i], rest[i + 1])
      BY <1>4, <3>3, <3>5, MoreBehind
    <3> QED
      BY <3>1, <3>2, <3>3, <3>4, <3>6
  <2> QED
    BY <2>1
<1>7. Nat \subseteq S
  <2> HIDE DEF S
  <2> QED
    BY <1>5, <1>6, NatInduct
<1>8. f[n + 1] = front \o g[n]
  <2> HIDE DEF front, n
  <2> QED
    BY <1>1, <1>7
<1> QED
  BY <1>1, <1>2, <1>3, <1>8

\* The answered call leaves the front.
LEMMA CallsHead ==
  ASSUME NEW queue \in Seq(Handlers), queue # <<>>
  PROVE  LET handler == Head(queue) IN
         /\ handler.kind \notin {"fill", "lookup"} => CallsIn(Tail(queue)) = CallsIn(queue)
         /\ \A o \in OrderIds :
              \/ handler.kind = "fill" /\ o = handler.order.id
              \/ handler.kind = "lookup" /\ o = handler.id
              => /\ CallsIn(queue) # <<>> /\ Head(CallsIn(queue)) = o
                 /\ Tail(CallsIn(queue)) = CallsIn(Tail(queue))
<1> DEFINE calls == CallsIn(Tail(queue))
           handler == Head(queue)
<1>1. CallsIn(queue) = More(<<>>, handler) \o calls
  BY CallsTail
<1>2. Tail(queue) \in Seq(Handlers) /\ handler \in Handlers
  BY TailIs
<1>3. calls \in Seq(OrderIds)
  BY <1>2, CallsAppend
<1> HIDE DEF calls, handler
<1>4. ASSUME handler.kind \notin {"fill", "lookup"} PROVE calls = CallsIn(queue)
  BY <1>1, <1>3, <1>4, ConcatEmptySeq DEF More
<1>5. ASSUME NEW o \in OrderIds,
             \/ handler.kind = "fill" /\ o = handler.order.id
             \/ handler.kind = "lookup" /\ o = handler.id
      PROVE  /\ CallsIn(queue) # <<>> /\ Head(CallsIn(queue)) = o
             /\ Tail(CallsIn(queue)) = calls
  <2>1. CallsIn(queue) = <<o>> \o calls
    BY <1>1, <1>5 DEF More
  <2>2. <<o>> \o calls # <<>> /\ Head(<<o>> \o calls) = o /\ Tail(<<o>> \o calls) = calls
    BY <1>3
  <2> QED
    BY <2>1, <2>2
<1> QED
  BY <1>4, <1>5 DEF calls, handler

(***************************************************************************)
(* The gateway's contract.                                                 *)
(***************************************************************************)
\* What was told of an order is nothing or its report, and the report is final.
Final(r) == r.revision = 1 /\ (r.status = "Rejected" => r.filled = 0)
Truth ==
  \A o \in OrderIds :
    /\ told[o] = Unheard \/ told[o] = orders[o]
    /\ orders[o] # None => Final(orders[o])

\* Nothing was told at the start.
LEMMA TruthInit == Init => Truth
BY DEF Init, GatewayInit, Truth

\* Only the fill of an order and the lookup of one say something.
LEMMA TruthNext == Inv /\ Truth /\ [Next]_vars => Truth'
<1> SUFFICES ASSUME Inv, Truth, [Next]_vars PROVE Truth'
  OBVIOUS
<1>1. told \in [OrderIds -> OrderReports] /\ orders \in [OrderIds -> OrderReports \cup {None}]
  BY DEF Inv, Typed, TypeOK
<1>2. ASSUME UNCHANGED <<gatewayVars, told>> PROVE Truth'
  BY <1>2 DEF Truth, gatewayVars
<1>3. CASE \E s \in Symbols : \E i \in DOMAIN Stream[s] : Ingest(s, i)
  BY <1>2, <1>3 DEF Ingest, callVars
<1>4. CASE ProcessReturn \/ DrainEnds \/ PollReturn \/ TimeoutExpires \/ Signal
  BY <1>2, <1>4 DEF ProcessReturn, DrainEnds, PollReturn, TimeoutExpires, Signal, callVars
<1>5. CASE RunBegin \/ RunTimeout \/ RunStop \/ \E id \in OrderIds : Query(id)
  BY <1>2, <1>5 DEF RunBegin, RunTimeout, RunStop, Query, callVars
<1>6. CASE UNCHANGED vars
  BY <1>2, <1>6 DEF vars, callVars
<1>7. CASE RunLookup
  <2>1. UNCHANGED orders /\ told' = [told EXCEPT ![Head(ready).id] = Lookup(Head(ready).id)]
    BY <1>7 DEF RunLookup, gatewayVars
  <2>2. \A o : Lookup(o) = Unheard \/ Lookup(o) = orders[o]
    BY DEF Lookup
  <2> QED
    BY <1>1, <2>1, <2>2 DEF Truth
<1>8. CASE RunFill
  <2> DEFINE r == PendingFill.report
  <2>1. /\ orders' = [orders EXCEPT ![pending.id] = r] /\ told' = [told EXCEPT ![pending.id] = r]
        /\ Reported(pending, r)
    BY <1>8, FillRuns
  <2>2. Final(r)
    BY <2>1 DEF Reported, Final
  <2> HIDE DEF r
  <2>3. ASSUME NEW o \in OrderIds
        PROVE  /\ told'[o] = Unheard \/ told'[o] = orders'[o]
               /\ orders'[o] # None => Final(orders'[o])
    <3>1. CASE o = pending.id
      BY <1>1, <2>1, <2>2, <3>1
    <3>2. CASE o # pending.id
      <4>1. told'[o] = told[o] /\ orders'[o] = orders[o]
        BY <1>1, <2>1, <3>2
      <4> QED
        BY <4>1 DEF Truth
    <3> QED
      BY <3>1, <3>2
  <2> QED
    BY <2>3 DEF Truth
<1> QED
  BY <1>3, <1>4, <1>5, <1>6, <1>7, <1>8 DEF Next, Exited

\* What was told, as the contract has it.
Telling(r) == [revision |-> r.revision, filled |-> r.filled, rejected |-> r.status = "Rejected"]
Tellings == [o \in OrderIds |-> Telling(told[o])]

\* Nothing new was told.
LEMMA TellingsStay == UNCHANGED told => UNCHANGED Tellings
BY DEF Tellings

\* Steps that neither call, nor tell, nor end the caller.
LEMMA GatewayStutters ==
  UNCHANGED <<Calls, Tellings, phase # "exited">> => UNCHANGED Gateway!vars
BY DEF Gateway!vars, Tellings, Telling

\* A gateway opens as the contract does.
LEMMA RefineInit == Init => Gateway!Init
<1> SUFFICES ASSUME Init PROVE Gateway!Init
  OBVIOUS
<1>1. Calls = <<>>
  <2>1. <<>> \in Seq(Handlers) /\ Len(<<>>) = 0
    BY EmptySeq
  <2>2. PICK f : Walk(f, <<>>) /\ CallsIn(<<>>) = f[Len(<<>>)]
    BY <2>1, CallsWalk
  <2> QED
    BY <2>1, <2>2 DEF Init, Calls, Walk
<1>2. \A o \in OrderIds : Telling(told[o]) = Gateway!Untold
  BY DEF Init, Unheard, Telling, Gateway!Untold
<1> QED
  BY <1>1, <1>2 DEF Init, Gateway!Init, Telling

\* A report that follows what was told of its order.
LEMMA ToldFollows ==
  ASSUME NEW r \in OrderReports, NEW old \in OrderReports,
         r = old \/ (old = Unheard /\ Final(r))
  PROVE  Gateway!Follows(Telling(r), Telling(old))
<1>1. CASE r = old
  BY <1>1 DEF Gateway!Follows
<1>2. CASE old = Unheard /\ Final(r)
  <2>1. Telling(old).revision = 0 /\ Telling(old).filled = 0 /\ ~Telling(old).rejected
    BY <1>2 DEF Telling, Unheard
  <2>2. Telling(r).revision = 1 /\ Telling(r).filled = r.filled
        /\ (Telling(r).rejected <=> r.status = "Rejected")
    BY <1>2 DEF Telling, Final
  <2>3. r.filled \in Nat /\ (r.status = "Rejected" => r.filled = 0)
    BY <1>2 DEF Final, OrderReports
  <2>4. /\ Telling(r).revision > Telling(old).revision
        /\ Telling(r).filled >= Telling(old).filled
    BY <2>1, <2>2, <2>3
  <2>5. Telling(r).rejected => Telling(r).filled = 0
    BY <2>2, <2>3
  <2> QED
    BY <2>1, <2>4, <2>5 DEF Gateway!Follows
<1> QED
  BY <1>1, <1>2

\* Telling the caller of the order at the front answers its call.
LEMMA Answered ==
  ASSUME NEW o \in OrderIds, NEW r \in OrderReports, told \in [OrderIds -> OrderReports],
         r = told[o] \/ (told[o] = Unheard /\ Final(r)),
         told' = [told EXCEPT ![o] = r],
         Calls # <<>>, Head(Calls) = o,
         Calls' = Tail(Calls) \/ \E x \in OrderIds : Calls' = Append(Tail(Calls), x),
         phase' = phase
  PROVE  Gateway!Answer
<1>1. told'[o] = r /\ \A p \in OrderIds : p # o => told'[p] = told[p]
  OBVIOUS
<1>2. Tellings' = [p \in OrderIds |-> Telling(told'[p])]
      /\ Tellings = [p \in OrderIds |-> Telling(told[p])]
  BY DEF Tellings
<1>3. /\ Tellings'[o] = Telling(r) /\ Tellings[o] = Telling(told[o])
      /\ Tellings' = [Tellings EXCEPT ![o] = Tellings'[o]]
  BY <1>1, <1>2
<1>4. Gateway!Follows(Tellings'[o], Tellings[o])
  <2>1. told[o] \in OrderReports
    OBVIOUS
  <2> QED
    BY <1>3, <2>1, ToldFollows
<1> QED
  BY <1>3, <1>4 DEF Gateway!Answer, Tellings, Telling

\* The pending order's report answers its submission.
LEMMA RefineFill ==
  ASSUME Inv, Truth, RunFill
  PROVE  Gateway!Answer
<1> DEFINE r == PendingFill.report
<1>1. /\ pending \in Requests /\ orders[pending.id] = None /\ ready # <<>>
      /\ Head(ready).kind = "fill" /\ Head(ready).order = pending
      /\ Reported(pending, r) /\ told' = [told EXCEPT ![pending.id] = r]
      /\ Settled(r) /\ phase' = phase
  BY FillRuns
<1> HIDE DEF r
<1>2. /\ told \in [OrderIds -> OrderReports] /\ ready \in Seq(Handlers) /\ pending.id \in OrderIds
  BY <1>1, OrderTypes DEF Inv, Typed, TypeOK
<1>3. r \in OrderReports /\ Final(r)
  BY <1>1 DEF Reported, Final
<1>4. told[pending.id] = Unheard
  <2>1. told[pending.id] # None
    BY <1>2, NoneAssumption
  <2> QED
    BY <1>1, <1>2, <2>1 DEF Truth
<1>5. Calls # <<>> /\ Head(Calls) = pending.id /\ Tail(Calls) = CallsIn(Tail(ready))
  BY <1>1, <1>2, CallsHead DEF Calls
<1>6. Calls' = Tail(Calls) \/ \E x \in OrderIds : Calls' = Append(Tail(Calls), x)
  <2>1. CASE ready' = Tail(ready)
    BY <1>5, <2>1 DEF Calls
  <2>2. CASE ready' # Tail(ready)
    <3>1. /\ ready' = Append(Tail(ready), [kind |-> "fill", order |-> pending'])
          /\ state' = "LEG_PENDING"
      BY <1>1, <2>2 DEF Settled, Idled, Ended, Sent
    <3>2. pending' \in Requests
      <4>1. Inv'
        BY FillKeeps
      <4>2. pending' \in Requests \cup {None} /\ (state' = "LEG_PENDING" => pending' # None)
        BY <4>1 DEF Inv, Typed, TypeOK, Numbered
      <4> QED
        BY <3>1, <4>2
    <3>3. [kind |-> "fill", order |-> pending'] \in Handlers /\ pending'.id \in OrderIds
      BY <3>2 DEF Handlers, Requests
    <3>4. CallsIn(ready') = Append(CallsIn(Tail(ready)), pending'.id)
      BY <1>1, <1>2, <3>1, <3>3, TailIs, CallsAppend DEF More
    <3> QED
      BY <1>5, <3>3, <3>4 DEF Calls
  <2> QED
    BY <2>1, <2>2
<1> QED
  BY <1>1, <1>2, <1>3, <1>4, <1>5, <1>6, Answered

\* A lookup answers its call with what is known.
LEMMA RefineLookup ==
  ASSUME Inv, Truth, RunLookup
  PROVE  Gateway!Answer
<1> DEFINE o == Head(ready).id
           r == Lookup(o)
<1>1. /\ ready # <<>> /\ Head(ready).kind = "lookup" /\ ready' = Tail(ready)
      /\ told' = [told EXCEPT ![o] = r] /\ phase' = phase
  BY DEF RunLookup, Run
<1>2. /\ told \in [OrderIds -> OrderReports] /\ ready \in Seq(Handlers)
      /\ orders \in [OrderIds -> OrderReports \cup {None}]
  BY DEF Inv, Typed, TypeOK
<1>3. o \in OrderIds
  <2>1. Head(ready) \in Handlers
    BY <1>1, <1>2, TailIs
  <2> QED
    BY <1>1, <2>1 DEF Handlers
<1>4. Calls # <<>> /\ Head(Calls) = o /\ Tail(Calls) = CallsIn(Tail(ready))
  BY <1>1, <1>2, <1>3, CallsHead DEF Calls
<1>5. Calls' = Tail(Calls)
  BY <1>1, <1>4 DEF Calls
<1>6. r \in OrderReports /\ (r = told[o] \/ (told[o] = Unheard /\ Final(r)))
  <2>1. told[o] # None
    BY <1>2, <1>3, NoneAssumption
  <2>2. CASE orders[o] = None
    <3>1. r = Unheard /\ told[o] = Unheard
      BY <1>3, <2>1, <2>2 DEF Lookup, Truth
    <3> QED
      BY <3>1, NoFeeTypes
  <2>3. CASE orders[o] # None
    <3>1. r = orders[o] /\ Final(r) /\ r \in OrderReports
      BY <1>2, <1>3, <2>3 DEF Lookup, Truth
    <3>2. told[o] = Unheard \/ told[o] = orders[o]
      BY <1>3 DEF Truth
    <3> QED
      BY <3>1, <3>2
  <2> QED
    BY <2>2, <2>3
<1> HIDE DEF r, o
<1> QED
  BY <1>1, <1>2, <1>3, <1>4, <1>5, <1>6, Answered

\* Handlers that are no calls come and go unnoticed, and those that are make
\* one.
LEMMA RefineQueue ==
  ASSUME Inv, UNCHANGED <<told, phase>>, NEW handler \in Handlers,
         \/ ready' = ready
         \/ ready' = Append(ready, handler)
         \/ /\ ready # <<>> /\ Head(ready).kind \notin {"fill", "lookup"}
            /\ ready' = Tail(ready) \/ ready' = Append(Tail(ready), handler)
  PROVE  [Gateway!Next]_(Gateway!vars)
<1>1. ready \in Seq(Handlers)
  BY DEF Inv, Typed, TypeOK
<1>2. Calls' = Calls \/ Calls' = More(Calls, handler)
  <2>1. CASE ready' = ready
    BY <2>1 DEF Calls
  <2>2. CASE ready' = Append(ready, handler)
    BY <1>1, <2>2, CallsAppend DEF Calls
  <2>3. CASE /\ ready # <<>> /\ Head(ready).kind \notin {"fill", "lookup"}
             /\ ready' = Tail(ready) \/ ready' = Append(Tail(ready), handler)
    <3>1. CallsIn(Tail(ready)) = Calls /\ Tail(ready) \in Seq(Handlers)
      BY <1>1, <2>3, CallsHead, TailIs DEF Calls
    <3> QED
      BY <2>3, <3>1, CallsAppend DEF Calls
  <2> QED
    BY <2>1, <2>2, <2>3
<1>3. CASE Calls' = Calls
  <2>1. UNCHANGED <<Calls, Tellings, phase # "exited">>
    BY <1>3, TellingsStay
  <2> QED
    BY <2>1, GatewayStutters
<1>4. CASE Calls' # Calls
  <2>1. PICK o \in OrderIds : Calls' = Append(Calls, o)
    BY <1>2, <1>4 DEF More, Handlers, Requests
  <2>2. Gateway!Call(o)
    BY <2>1, TellingsStay DEF Gateway!Call, Tellings, Telling
  <2> QED
    BY <2>2 DEF Gateway!Next
<1> QED
  BY <1>3, <1>4

\* Every step is one of the contract's or none of its business.
LEMMA RefineNext ==
  ASSUME Inv, Truth, Inv', [Next]_vars
  PROVE  [Gateway!Next]_(Gateway!vars)
<1>1. ASSUME UNCHANGED <<ready, told, phase>> PROVE UNCHANGED Gateway!vars
  <2>1. UNCHANGED <<Calls, Tellings, phase # "exited">>
    BY <1>1, TellingsStay DEF Calls
  <2> QED
    BY <2>1, GatewayStutters
<1>2. CASE \E s \in Symbols : \E i \in DOMAIN Stream[s] : Ingest(s, i)
  <2>1. /\ UNCHANGED <<told, phase>>
        /\ ready' = ready \/ ready' = Append(ready, [kind |-> "begin"])
    BY <1>2 DEF Ingest, TryStart, callVars
  <2>2. [kind |-> "begin"] \in Handlers
    BY DEF Handlers
  <2> QED
    BY <2>1, <2>2, RefineQueue
<1>3. CASE ProcessReturn \/ DrainEnds
  <2>1. UNCHANGED <<ready, told>> /\ phase # "exited" /\ phase' # "exited"
    BY <1>3 DEF ProcessReturn, DrainEnds, callVars
  <2>2. UNCHANGED <<Calls, Tellings, phase # "exited">>
    BY <2>1, TellingsStay DEF Calls
  <2> QED
    BY <2>2, GatewayStutters
<1>4. CASE RunBegin
  <2>1. /\ UNCHANGED <<told, phase>> /\ ready # <<>> /\ Head(ready).kind \notin {"fill", "lookup"}
        /\ \/ ready' = Tail(ready)
           \/ /\ ready' = Append(Tail(ready), [kind |-> "fill", order |-> pending'])
              /\ state' = "LEG_PENDING"
    <3>1. /\ UNCHANGED <<told, phase>> /\ ready # <<>> /\ Head(ready).kind = "begin"
          /\ ready' = Tail(ready) \/ NextLeg(0, Only("USDT", budget))
      BY <1>4 DEF RunBegin, Run, callVars
    <3> QED
      BY <3>1, NextLegIs DEF Ended, Sent
  <2>2. CASE ready' = Tail(ready)
    <3>1. [kind |-> "begin"] \in Handlers
      BY DEF Handlers
    <3> QED
      BY <2>1, <2>2, <3>1, RefineQueue
  <2>3. CASE /\ ready' = Append(Tail(ready), [kind |-> "fill", order |-> pending'])
             /\ state' = "LEG_PENDING"
    <3>1. pending' \in Requests
      <4>1. pending' \in Requests \cup {None} /\ (state' = "LEG_PENDING" => pending' # None)
        BY DEF Inv, Typed, TypeOK, Numbered
      <4> QED
        BY <2>3, <4>1
    <3>2. [kind |-> "fill", order |-> pending'] \in Handlers
      BY <3>1 DEF Handlers
    <3> QED
      BY <2>1, <2>3, <3>2, RefineQueue
  <2> QED
    BY <2>1, <2>2, <2>3
<1>5. CASE RunFill
  BY <1>5, RefineFill DEF Gateway!Next
<1>6. CASE RunLookup
  BY <1>6, RefineLookup DEF Gateway!Next
<1>7. CASE RunTimeout
  <2>1. /\ UNCHANGED <<told, phase>> /\ ready # <<>> /\ Head(ready).kind \notin {"fill", "lookup"}
        /\ ready' = Tail(ready) /\ [kind |-> "begin"] \in Handlers
    BY <1>7 DEF RunTimeout, Run, callVars, Handlers
  <2> QED
    BY <2>1, RefineQueue
<1>8. CASE RunStop
  <2>1. /\ UNCHANGED told /\ ready # <<>> /\ Head(ready).kind \notin {"fill", "lookup"}
        /\ ready' = Tail(ready) /\ phase = "poll" /\ phase' = "drain"
    BY <1>8 DEF RunStop, callVars
  <2>2. ready \in Seq(Handlers)
    BY DEF Inv, Typed, TypeOK
  <2>3. Calls' = Calls
    BY <2>1, <2>2, CallsHead DEF Calls
  <2>4. UNCHANGED <<Calls, Tellings, phase # "exited">>
    BY <2>1, <2>3, TellingsStay
  <2> QED
    BY <2>4, GatewayStutters
<1>9. CASE \E id \in OrderIds : Query(id)
  <2>1. PICK id \in OrderIds : Query(id)
    BY <1>9
  <2>2. /\ UNCHANGED <<told, phase>> /\ ready' = Append(ready, [kind |-> "lookup", id |-> id])
        /\ [kind |-> "lookup", id |-> id] \in Handlers
    BY <2>1 DEF Query, Handlers
  <2> QED
    BY <2>2, RefineQueue
<1>10. CASE TimeoutExpires
  <2>1. /\ UNCHANGED <<told, phase>> /\ ready' = Append(ready, [kind |-> "timeout"])
        /\ [kind |-> "timeout"] \in Handlers
    BY <1>10 DEF TimeoutExpires, Handlers, callVars
  <2> QED
    BY <2>1, RefineQueue
<1>11. CASE Signal
  <2>1. UNCHANGED <<told, phase>> /\ ready' = Append(ready, Stop) /\ Stop \in Handlers
    BY <1>11 DEF Signal, Handlers, callVars, Stop
  <2> QED
    BY <2>1, RefineQueue
<1>12. CASE PollReturn
  <2>1. UNCHANGED <<ready, told>> /\ phase = "poll"
        /\ (phase' = "process" \/ phase' = "exited")
    BY <1>12 DEF PollReturn, callVars
  <2>2. CASE phase' = "process"
    <3>1. UNCHANGED <<Calls, Tellings, phase # "exited">>
      BY <2>1, <2>2, TellingsStay DEF Calls
    <3> QED
      BY <3>1, GatewayStutters
  <2>3. CASE phase' = "exited"
    <3>1. Gateway!Close
      BY <2>1, <2>3, TellingsStay DEF Gateway!Close, Tellings, Telling, Calls
    <3> QED
      BY <3>1 DEF Gateway!Next
  <2> QED
    BY <2>1, <2>2, <2>3
<1>13. CASE UNCHANGED vars
  BY <1>1, <1>13 DEF vars, loopVars, callVars
<1> QED
  BY <1>2, <1>3, <1>4, <1>5, <1>6, <1>7, <1>8, <1>9, <1>10, <1>11, <1>12, <1>13 DEF Next, Exited

\* The simulated exchange keeps what every gateway promises its caller: one
\* answer for each call and in their order, and nothing said is taken back.
THEOREM PaperGatewayIsKept == Spec => ImplementsGateway
BY Invariant, InvInit, InvNext, TruthInit, TruthNext, RefineInit, RefineNext, PTL
   DEF Spec, ImplementsGateway, Gateway!Spec
=============================================================================

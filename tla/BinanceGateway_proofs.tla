------------------------- MODULE BinanceGateway_proofs -------------------------
(***************************************************************************)
(* Type correctness of the live gateway, that it never reports as rejected *)
(* an order the exchange has or may still get, that its wallet holds every *)
(* reported fill once, and that it implements the abstract gateway, for    *)
(* any orders, any size and any number of calls.                           *)
(***************************************************************************)
EXTENDS BinanceGateway, Recursion_proofs, SequenceTheorems

\* What the place of the worker says of its operation, request and report.
Place ==
  /\ stage = "idle" <=> operation = None
  /\ stage \in {"account", "deliver"} <=> report # None
  /\ stage \in {"prepare", "connect", "write", "read"} =>
       (request = "POST" <=> operation.kind = "submit")
  /\ request = "GET trades" => fetched # None

\* No report of a rejection was posted for o; nothing of o left the client.
Clean(o) ==
  \A i \in DOMAIN delivered : delivered[i].status = "Rejected" => delivered[i].order # o
Unsent(o) == o \notin transit /\ exchange[o].status = "unknown" /\ Clean(o)

Sending(o) == operation # None /\ operation.kind = "submit" /\ operation.order = o

\* A submission that waits is the only one of its order and nothing of it was
\* sent; neither was anything of an order nobody submitted.
Waiting ==
  /\ \A o \in Orders \ submitted : Unsent(o)
  /\ \A i \in DOMAIN queue : queue[i].kind = "submit" =>
       /\ queue[i].order \in submitted
       /\ Unsent(queue[i].order) /\ ~Sending(queue[i].order)
       /\ \A j \in DOMAIN queue :
            queue[j].kind = "submit" /\ queue[j].order = queue[i].order => j = i

\* The submission the worker does has not been rejected, and is unsent until
\* the write.
Working ==
  operation # None /\ operation.kind = "submit" =>
    /\ operation.order \in submitted /\ Clean(operation.order)
    /\ stage \in {"prepare", "connect", "write"} => Unsent(operation.order)

\* The exchange does not know what is still on its way.
OnItsWay == \A o \in transit : exchange[o].status = "unknown"

\* A rejection about to be posted is of a submission the exchange does not
\* have and will not get.
Rejecting ==
  report # None /\ report.status = "Rejected" =>
    /\ stage = "deliver" /\ Sending(report.order)
    /\ ~KnownTo(report.order) /\ report.order \notin transit

Inv ==
  /\ TypeOK /\ Place /\ Waiting /\ Working /\ OnItsWay /\ Rejecting
  /\ NeverRejectsPlaced

Requesting == {"prepare", "connect", "write", "read"}

-----------------------------------------------------------------------------
(***************************************************************************)
(* Parts of steps.                                                         *)
(***************************************************************************)
\* The type invariant in groups that most steps leave alone as a whole.
CallTypes == queue \in Seq(Operations) /\ submitted \in SUBSET Orders /\ calls \in Nat
WorkTypes ==
  /\ operation \in Operations \cup {None}
  /\ request \in {"none", "POST", "DELETE", "GET order", "GET trades"}
  /\ stage \in {"idle", "prepare", "connect", "write", "read", "account", "deliver"}
  /\ connection \in {"none", "open"}
  /\ fetched \in ExchangeOrders \cup {None} /\ report \in Reports \cup {None}
BookTypes ==
  /\ wallet \in [base : Int, quote : Int, fee : Int]
  /\ accounted \in [Orders -> Accounts] /\ revisions \in [Orders -> Nat]
  /\ delivered \in Seq(Reports)
ExchangeTypes == transit \in SUBSET Orders /\ exchange \in [Orders -> ExchangeOrders]
LifeTypes == owned \in BOOLEAN /\ io \in BOOLEAN /\ destroyed_by \in {None, "main", "worker"}

\* The type invariant is the conjunction of its groups.
LEMMA TypeGroups ==
  /\ TypeOK => CallTypes /\ WorkTypes /\ BookTypes /\ ExchangeTypes /\ LifeTypes
  /\ CallTypes' /\ WorkTypes' /\ BookTypes' /\ ExchangeTypes' /\ LifeTypes' => TypeOK'
BY DEF TypeOK, CallTypes, WorkTypes, BookTypes, ExchangeTypes, LifeTypes

\* A group of variables that a step leaves alone stays well typed.
LEMMA TypesKept ==
  /\ WorkTypes /\ UNCHANGED <<operation, request, stage, connection, fetched, report>> => WorkTypes'
  /\ BookTypes /\ UNCHANGED <<wallet, accounted, revisions, delivered>> => BookTypes'
  /\ CallTypes /\ UNCHANGED <<queue, submitted, calls>> => CallTypes'
  /\ ExchangeTypes /\ UNCHANGED <<transit, exchange>> => ExchangeTypes'
  /\ LifeTypes /\ UNCHANGED <<owned, io, destroyed_by>> => LifeTypes'
BY DEF CallTypes, WorkTypes, BookTypes, ExchangeTypes, LifeTypes

\* The queue and the posted reports are about orders.
LEMMA OrdersOnly ==
  ASSUME TypeOK
  PROVE  /\ \A i \in DOMAIN queue : queue[i].order \in Orders
         /\ \A i \in DOMAIN delivered : delivered[i].order \in Orders
<1>1. ASSUME NEW i \in DOMAIN queue PROVE queue[i].order \in Orders
  <2>1. queue \in Seq(Operations) /\ i \in 1..Len(queue)
    BY <1>1, LenProperties DEF TypeOK
  <2>2. queue[i] \in Operations
    BY <2>1, ElementOfSeq
  <2> QED
    BY <2>2 DEF Operations
<1>2. ASSUME NEW i \in DOMAIN delivered PROVE delivered[i].order \in Orders
  <2>1. delivered \in Seq(Reports) /\ i \in 1..Len(delivered)
    BY <1>2, LenProperties DEF TypeOK
  <2>2. delivered[i] \in Reports
    BY <2>1, ElementOfSeq
  <2> QED
    BY <2>2 DEF Reports
<1> QED
  BY <1>1, <1>2

\* Every queued operation is about one of the orders.
LEMMA OrdersOnlyNext ==
  ASSUME TypeOK'
  PROVE  \A i \in DOMAIN queue' : queue'[i].order \in Orders
<1> SUFFICES ASSUME NEW i \in DOMAIN queue' PROVE queue'[i].order \in Orders
  OBVIOUS
<1>1. queue' \in Seq(Operations) /\ i \in 1..Len(queue')
  BY LenProperties DEF TypeOK
<1>2. queue'[i] \in Operations
  BY <1>1, ElementOfSeq
<1> QED
  BY <1>2 DEF Operations

\* While a request is made there is an operation and no report yet.
LEMMA AtWork ==
  ASSUME Inv, stage \in Requesting
  PROVE  /\ operation \in Operations /\ operation # None /\ operation.order \in Orders
         /\ operation.kind \in {"submit", "query", "cancel"}
         /\ report = None
         /\ request = "POST" <=> operation.kind = "submit"
<1>1. operation # None /\ report = None
  BY DEF Inv, Place, Requesting
<1>2. operation \in Operations
  BY <1>1 DEF Inv, TypeOK
<1>3. request = "POST" <=> operation.kind = "submit"
  BY DEF Inv, Place, Requesting
<1> QED
  BY <1>1, <1>2, <1>3 DEF Operations

\* A report is made for the operation's order.
LEMMA MakesReport ==
  ASSUME TypeOK, operation \in Operations, NEW status \in Statuses, NEW filled \in 0..Size,
         NEW charged \in 0..Size, NEW complete \in BOOLEAN,
         MakeReport(status, filled, charged, complete)
  PROVE  /\ revisions' \in [Orders -> Nat] /\ report' \in Reports /\ report' # None
         /\ report'.order = operation.order /\ report'.status = status
<1>1. operation.order \in Orders
  BY DEF Operations
<1>2. revisions' \in [Orders -> Nat] /\ revisions'[operation.order] \in Nat
  <2>1. revisions \in [Orders -> Nat] /\ revisions[operation.order] + 1 \in Nat
    <3>1. revisions \in [Orders -> Nat]
      BY DEF TypeOK
    <3>2. revisions[operation.order] \in Nat
      BY <1>1, <3>1
    <3> QED
      BY <3>1, <3>2
  <2>2. revisions' = [revisions EXCEPT ![operation.order] = revisions[operation.order] + 1]
    BY DEF MakeReport, RevisionOfNext
  <2> QED
    BY <1>1, <2>1, <2>2
<1>3. report' = [order |-> operation.order, revision |-> revisions'[operation.order],
                 status |-> status, filled |-> filled, charged |-> charged,
                 complete |-> complete]
  BY DEF MakeReport
<1>4. report' \in Reports
  BY <1>1, <1>2, <1>3 DEF Reports
<1> QED
  BY <1>2, <1>3, <1>4, NoneAssumption

\* Nothing is sent, or the operation's own submission is.
SendsAtMost ==
  \/ transit' = transit
  \/ /\ operation.kind = "submit" /\ operation # None /\ Unsent(operation.order)
     /\ transit' = transit \cup {operation.order}

\* A step of the worker that sends at most its own submission disturbs none of
\* the orders that wait or were rejected.
LEMMA SendKeeps ==
  ASSUME Inv, SendsAtMost, UNCHANGED <<queue, submitted, operation, delivered, exchange>>
  PROVE  Waiting' /\ OnItsWay' /\ NeverRejectsPlaced'
<1>1. CASE transit' = transit
  BY <1>1 DEF Inv, Waiting, OnItsWay, NeverRejectsPlaced, Unsent, Clean, Sending, KnownTo
<1>2. CASE /\ operation.kind = "submit" /\ operation # None /\ Unsent(operation.order)
           /\ transit' = transit \cup {operation.order}
  <2>1. operation.order \in submitted
    BY <1>2 DEF Inv, Working
  <2>2. Waiting'
    BY <1>2, <2>1 DEF Inv, Waiting, Unsent, Clean, Sending
  <2>3. OnItsWay'
    BY <1>2 DEF Inv, OnItsWay, Unsent
  <2>4. NeverRejectsPlaced'
    BY <1>2 DEF Inv, NeverRejectsPlaced, Unsent, Clean, KnownTo
  <2> QED
    BY <2>2, <2>3, <2>4
<1> QED
  BY <1>1, <1>2 DEF SendsAtMost

\* The exchange takes an order that is on its way, drops it, or goes on with
\* one that is open: none that waits, is prepared or was rejected.
ExchangeMoves(o) ==
  /\ \/ o \in transit /\ transit' = transit \ {o}
     \/ exchange[o].status = "open" /\ transit' = transit
  /\ \A p \in Orders : p # o => exchange'[p] = exchange[p]

\* A move of the exchange keeps what the invariant says of orders and of what is on its way.
LEMMA ExchangeKeeps ==
  ASSUME Inv, NEW o \in Orders, ExchangeMoves(o),
         UNCHANGED <<queue, submitted, operation, delivered>>
  PROVE  /\ Waiting' /\ OnItsWay' /\ NeverRejectsPlaced'
         /\ \A p \in Orders : Unsent(p) => Unsent(p)'
         /\ \A p \in Orders : ~KnownTo(p) /\ p \notin transit => ~KnownTo(p)' /\ p \notin transit'
<1>1. o \notin transit' /\ \A p \in transit' : p \in transit /\ p # o /\ p \in Orders
  BY DEF ExchangeMoves, Inv, OnItsWay, TypeOK
<1>2. \A p \in Orders : Unsent(p) => Unsent(p)'
  BY <1>1 DEF ExchangeMoves, Unsent, Clean
<1>3. \A p \in Orders : ~KnownTo(p) /\ p \notin transit => ~KnownTo(p)' /\ p \notin transit'
  BY <1>1 DEF ExchangeMoves, KnownTo
<1>4. \A i \in DOMAIN queue : queue[i].order \in Orders
  BY OrdersOnly DEF Inv
<1>5. \A i \in DOMAIN delivered : delivered[i].order \in Orders
  BY OrdersOnly DEF Inv
<1>6. Waiting'
  BY <1>2, <1>4 DEF Inv, Waiting, Sending
<1>7. OnItsWay'
  BY <1>1 DEF Inv, OnItsWay, ExchangeMoves
<1>8. NeverRejectsPlaced'
  BY <1>3, <1>5 DEF Inv, NeverRejectsPlaced
<1> QED
  BY <1>2, <1>3, <1>6, <1>7, <1>8

\* What did not work out becomes a report; it is a rejection only when the
\* exchange cannot have the order.
LEMMA FailKeeps ==
  ASSUME Inv, stage \in Requesting, NEW u \in BOOLEAN, Fail(u), SendsAtMost,
         connection' \in {"none", "open"}, UNCHANGED <<callVars, exchange, lifeVars>>,
         operation.kind = "submit" /\ ~u =>
           ~KnownTo(operation.order) /\ operation.order \notin transit'
  PROVE  Inv'
<1> DEFINE status == IF operation.kind = "submit" /\ ~u THEN "Rejected" ELSE "Unknown"
<1>1. /\ operation \in Operations /\ operation # None /\ operation.order \in Orders
  BY AtWork
<1>2. /\ MakeReport(status, 0, 0, TRUE) /\ status \in Statuses
      /\ stage' = "deliver" /\ request' = "none" /\ fetched' = None
      /\ UNCHANGED <<queue, submitted, calls, operation, wallet, accounted, delivered,
                     exchange, owned, io, destroyed_by>>
  BY DEF Fail, ReportsFailure, Statuses, callVars, lifeVars
<1>3. 0 \in 0..Size /\ TRUE \in BOOLEAN
  BY GatewayAssumption
<1>4. /\ revisions' \in [Orders -> Nat] /\ report' \in Reports /\ report' # None
      /\ report'.order = operation.order /\ report'.status = status
  BY <1>1, <1>2, <1>3, MakesReport DEF Inv
<1>5. transit' \in SUBSET Orders
  BY <1>1 DEF SendsAtMost, Inv, TypeOK
<1>6. TypeOK'
  BY <1>2, <1>4, <1>5 DEF Inv, TypeOK
<1>7. Place'
  BY <1>1, <1>2, <1>4 DEF Place
<1>8. Waiting' /\ OnItsWay' /\ NeverRejectsPlaced'
  BY <1>2, SendKeeps
<1>9. Working'
  BY <1>2 DEF Inv, Working, Clean
<1>10. Rejecting'
  BY <1>1, <1>2, <1>4 DEF Rejecting, Sending, KnownTo
<1> QED
  BY <1>6, <1>7, <1>8, <1>9, <1>10 DEF Inv

\* What the exchange said of the order becomes a report that rejects nothing.
LEMMA TellKeeps ==
  ASSUME Inv, stage = "read", NEW status \in {"Open", "Filled", "Expired"}, NEW filled \in 0..Size,
         NEW charged \in 0..Size, NEW complete \in BOOLEAN,
         MakeReport(status, filled, charged, complete), Respond,
         stage' = "account", request' = "none", fetched' \in {fetched, None},
         UNCHANGED <<operation, wallet, accounted, delivered>>
  PROVE  Inv'
<1>1. operation \in Operations /\ operation # None
  BY AtWork DEF Requesting
<1>2. /\ connection' \in {"none", "open"}
      /\ UNCHANGED <<queue, submitted, calls, transit, exchange, owned, io, destroyed_by>>
  BY DEF Respond, callVars, exchangeVars, lifeVars
<1>3. /\ revisions' \in [Orders -> Nat] /\ report' \in Reports /\ report' # None
      /\ report'.status = status
  BY <1>1, MakesReport DEF Inv, Statuses
<1>4. TypeOK'
  BY <1>2, <1>3 DEF Inv, TypeOK
<1>5. Place'
  BY <1>1, <1>3 DEF Place
<1>6. Waiting' /\ OnItsWay' /\ NeverRejectsPlaced'
  BY <1>2, SendKeeps DEF SendsAtMost
<1>7. Working'
  BY <1>2 DEF Inv, Working, Clean
<1>8. Rejecting'
  BY <1>3 DEF Rejecting
<1> QED
  BY <1>4, <1>5, <1>6, <1>7, <1>8 DEF Inv

-----------------------------------------------------------------------------
(***************************************************************************)
(* The steps.                                                              *)
(***************************************************************************)
LEMMA InitInv == Init => Inv
<1> SUFFICES ASSUME Init PROVE Inv
  OBVIOUS
<1>1. /\ <<>> \in Seq(Operations) /\ <<>> \in Seq(Reports) /\ DOMAIN <<>> = {}
      /\ Nothing \in Accounts /\ [status |-> "unknown", filled |-> 0] \in ExchangeOrders
  BY EmptySeq, GatewayAssumption DEF Nothing, Accounts, ExchangeOrders
<1>2. TypeOK
  <2>1. /\ accounted \in [Orders -> Accounts] /\ revisions \in [Orders -> Nat]
        /\ exchange \in [Orders -> ExchangeOrders]
        /\ wallet \in [base : Int, quote : Int, fee : Int]
    BY <1>1 DEF Init
  <2> QED
    BY <1>1, <2>1 DEF Init, TypeOK
<1>3. Place /\ Working /\ Rejecting /\ OnItsWay
  BY DEF Init, Place, Working, Rejecting, OnItsWay
<1>4. Waiting /\ NeverRejectsPlaced
  BY <1>1 DEF Init, Waiting, Unsent, Clean, NeverRejectsPlaced
<1> QED
  BY <1>2, <1>3, <1>4 DEF Inv

\* A call waits behind the others; the first one of an order is its submission.
LEMMA CallInv == ASSUME Inv, NEW o \in Orders, Submit(o) \/ Query(o) \/ Cancel(o) PROVE Inv'
<1>1. PICK kind \in {"submit", "query", "cancel"} :
        /\ queue' = Append(queue, [kind |-> kind, order |-> o])
        /\ submitted' = submitted \cup {o}
        /\ kind = "submit" => o \notin submitted
  BY DEF Submit, Query, Cancel, Enqueue
<1>2. /\ calls' = calls + 1
      /\ UNCHANGED <<operation, request, stage, connection, fetched, report, wallet, accounted,
                     revisions, delivered, transit, exchange, owned, io, destroyed_by>>
  BY DEF Submit, Query, Cancel, Enqueue, workVars, bookVars, exchangeVars, lifeVars
<1> DEFINE new == [kind |-> kind, order |-> o]
<1>3. /\ queue \in Seq(Operations) /\ Len(queue) \in Nat /\ DOMAIN queue = 1..Len(queue)
      /\ new \in Operations /\ new.kind = kind /\ new.order = o
  BY LenProperties DEF Inv, TypeOK, Operations
<1> HIDE DEF new
<1>4. /\ queue' \in Seq(Operations) /\ DOMAIN queue' = 1..Len(queue) + 1
      /\ \A i \in DOMAIN queue : queue'[i] = queue[i]
      /\ queue'[Len(queue) + 1] = new
  BY <1>1, <1>3, AppendProperties, LenProperties DEF new
<1>5. TypeOK'
  <2>1. CallTypes'
    <3>1. submitted \in SUBSET Orders /\ calls \in Nat
      BY DEF Inv, TypeOK
    <3>2. submitted' \in SUBSET Orders /\ calls' \in Nat
      BY <1>1, <1>2, <3>1
    <3> QED
      BY <1>4, <3>2 DEF CallTypes
  <2> QED
    BY <1>2, <2>1, TypeGroups, TypesKept DEF Inv
<1>6. Place' /\ Working' /\ OnItsWay' /\ Rejecting' /\ NeverRejectsPlaced'
  BY <1>1, <1>2 DEF Inv, Place, Working, OnItsWay, Rejecting, NeverRejectsPlaced, Sending, Unsent,
     Clean, KnownTo
<1>7. Waiting'
  <2>1. /\ \A p \in Orders : Unsent(p)' <=> Unsent(p)
        /\ \A p \in Orders : Sending(p)' <=> Sending(p)
    BY <1>2 DEF Unsent, Clean, Sending
  <2>2. \A i \in DOMAIN queue : queue[i].order \in Orders
    BY OrdersOnly DEF Inv
  <2>3. kind = "submit" => Unsent(o) /\ ~Sending(o)
    BY <1>1 DEF Inv, Waiting, Working, Sending
  <2>4. kind = "submit" => \A i \in DOMAIN queue : queue[i].kind = "submit" => queue[i].order # o
    BY <1>1 DEF Inv, Waiting
  <2>5. \A i \in DOMAIN queue' : queue'[i].kind = "submit" =>
          /\ queue'[i].order \in submitted'
          /\ \A p \in Orders : queue'[i].order = p => Unsent(p)' /\ ~Sending(p)'
    <3> SUFFICES ASSUME NEW i \in DOMAIN queue', queue'[i].kind = "submit"
                 PROVE  /\ queue'[i].order \in submitted'
                        /\ \A p \in Orders : queue'[i].order = p => Unsent(p)' /\ ~Sending(p)'
      OBVIOUS
    <3>1. CASE i \in DOMAIN queue
      BY <1>1, <1>4, <2>1, <3>1 DEF Inv, Waiting
    <3>2. CASE i = Len(queue) + 1
      BY <1>1, <1>3, <1>4, <2>1, <2>3, <3>2
    <3> QED
      BY <1>3, <1>4, <3>1, <3>2
  <2>6. \A i, j \in DOMAIN queue' :
          queue'[i].kind = "submit" /\ queue'[j].kind = "submit" /\ queue'[i].order = queue'[j].order
            => i = j
    BY <1>1, <1>3, <1>4, <2>4 DEF Inv, Waiting
  <2>7. \A p \in Orders \ submitted' : Unsent(p)'
    BY <1>1, <2>1 DEF Inv, Waiting
  <2>8. \A i \in DOMAIN queue' : queue'[i].order \in Orders
    BY <1>5, OrdersOnlyNext
  <2> QED
    BY <2>5, <2>6, <2>7, <2>8 DEF Waiting, Unsent, Clean, Sending
<1> QED
  BY <1>5, <1>6, <1>7 DEF Inv

\* The head of the queue becomes the operation.
LEMMA TakeInv == Inv /\ Take => Inv'
<1> SUFFICES ASSUME Inv, Take PROVE Inv'
  OBVIOUS
<1>1. /\ stage = "idle" /\ queue # <<>> /\ operation' = Head(queue) /\ queue' = Tail(queue)
      /\ request' = FirstRequest(Head(queue).kind) /\ stage' = "prepare"
      /\ UNCHANGED <<submitted, calls, connection, fetched, report, wallet, accounted, revisions,
                     delivered, transit, exchange, owned, io, destroyed_by>>
  BY DEF Take, bookVars, exchangeVars, lifeVars
<1>2. /\ queue \in Seq(Operations) /\ Len(queue) \in Nat /\ Len(queue) # 0
      /\ DOMAIN queue = 1..Len(queue) /\ Head(queue) = queue[1] /\ queue[1] \in Operations
      /\ queue' \in Seq(Operations) /\ DOMAIN queue' = 1..Len(queue) - 1
      /\ \A i \in 1..Len(queue) - 1 : queue'[i] = queue[i + 1]
  <2>1. queue \in Seq(Operations) /\ queue # <<>>
    BY <1>1 DEF Inv, TypeOK
  <2> QED
    BY <1>1, <2>1, HeadTailProperties, LenProperties, EmptySeq, ElementOfSeq
<1>3. /\ operation' \in Operations /\ operation' # None /\ operation' = queue[1]
      /\ 1 \in DOMAIN queue
  BY <1>1, <1>2, NoneAssumption
<1>4. request' \in {"POST", "DELETE", "GET order"} /\ (request' = "POST" <=> operation'.kind = "submit")
  BY <1>1, <1>2, <1>3 DEF FirstRequest, Operations
<1>5. TypeOK'
  BY <1>1, <1>2, <1>3, <1>4 DEF Inv, TypeOK
<1>6. Place'
  BY <1>1, <1>3, <1>4 DEF Inv, Place
<1>7. Working'
  BY <1>1, <1>3 DEF Inv, Waiting, Working, Unsent, Clean
<1>8. OnItsWay' /\ NeverRejectsPlaced'
  BY <1>1 DEF Inv, OnItsWay, NeverRejectsPlaced, KnownTo
<1>9. Rejecting'
  BY <1>1 DEF Inv, Place, Rejecting
<1>10. Waiting'
  <2>1. \A p : Unsent(p)' <=> Unsent(p)
    BY <1>1 DEF Unsent, Clean
  <2>2. \A i \in DOMAIN queue' : i + 1 \in DOMAIN queue /\ queue'[i] = queue[i + 1] /\ i + 1 # 1
    BY <1>2
  <2>3. \A i \in DOMAIN queue' : queue'[i].kind = "submit" =>
          /\ queue'[i].order \in submitted'
          /\ \A p \in Orders : queue'[i].order = p => Unsent(p)'
    BY <1>1, <2>1, <2>2 DEF Inv, Waiting
  <2>4. \A i \in DOMAIN queue' : queue'[i].kind = "submit" /\ queue[1].kind = "submit" =>
          queue'[i].order # queue[1].order
    BY <1>3, <2>2 DEF Inv, Waiting
  <2>5. \A i, j \in DOMAIN queue' :
          queue'[i].kind = "submit" /\ queue'[j].kind = "submit" /\ queue'[i].order = queue'[j].order
            => i = j
    BY <1>2, <2>2 DEF Inv, Waiting
  <2>6. \A p \in Orders \ submitted' : Unsent(p)'
    BY <1>1, <2>1 DEF Inv, Waiting
  <2>7. \A i \in DOMAIN queue' : queue'[i].order \in Orders
    BY <1>5, OrdersOnlyNext
  <2> QED
    BY <1>3, <2>3, <2>4, <2>5, <2>6, <2>7 DEF Waiting, Unsent, Clean, Sending
<1> QED
  BY <1>5, <1>6, <1>7, <1>8, <1>9, <1>10 DEF Inv

\* An error before the write is certain: nothing of the submission was sent.
LEMMA UnsentUntilWritten ==
  ASSUME Inv, stage \in {"prepare", "connect", "write"}, operation.kind = "submit"
  PROVE  Unsent(operation.order) /\ ~KnownTo(operation.order)
<1>1. operation # None
  BY AtWork DEF Requesting
<1> QED
  BY <1>1 DEF Inv, Working, Unsent, KnownTo

\* A step to the next stage of a request.
LEMMA ProceedKeeps ==
  ASSUME Inv, stage \in Requesting, stage' \in Requesting,
         stage' \in {"prepare", "connect", "write"} /\ operation.kind = "submit" =>
           Unsent(operation.order)',
         connection' \in {"none", "open"}, SendsAtMost,
         UNCHANGED <<callVars, operation, request, fetched, report, bookVars, exchange, lifeVars>>
  PROVE  Inv'
<1>1. operation \in Operations /\ operation.order \in Orders /\ report = None
  BY AtWork
<1>2. UNCHANGED <<queue, submitted, calls, operation, request, fetched, report, wallet, accounted,
                  revisions, delivered, exchange, owned, io, destroyed_by>>
  BY DEF callVars, bookVars, lifeVars
<1>3. TypeOK'
  <2>1. transit' \in SUBSET Orders
    BY <1>1 DEF SendsAtMost, Inv, TypeOK
  <2> QED
    BY <1>2, <2>1 DEF Inv, TypeOK, Requesting
<1>4. Place'
  BY <1>1, <1>2 DEF Inv, Place, Requesting
<1>5. Waiting' /\ OnItsWay' /\ NeverRejectsPlaced'
  BY <1>2, SendKeeps
<1>6. Working'
  BY <1>2 DEF Inv, Working, Clean
<1>7. Rejecting'
  BY <1>1, <1>2 DEF Rejecting
<1> QED
  BY <1>3, <1>4, <1>5, <1>6, <1>7 DEF Inv

\* Preparing a request preserves the invariant.
LEMMA PrepareInv == Inv /\ Prepare => Inv'
<1> SUFFICES ASSUME Inv, Prepare PROVE Inv'
  OBVIOUS
<1>1. /\ stage = "prepare" /\ stage \in Requesting /\ connection' \in {"none", "open"}
      /\ SendsAtMost /\ transit' = transit
      /\ UNCHANGED <<callVars, exchange, lifeVars>>
  BY DEF Prepare, Requesting, SendsAtMost, exchangeVars, Inv, TypeOK
<1>2. operation.kind = "submit" => Unsent(operation.order) /\ ~KnownTo(operation.order)
  BY <1>1, UnsentUntilWritten
<1>3. CASE stage' = "connect" /\ UNCHANGED <<operation, request, fetched, report, bookVars>>
  <2>1. operation.kind = "submit" => Unsent(operation.order)'
    BY <1>1, <1>2, <1>3 DEF Unsent, Clean, bookVars
  <2> QED
    BY <1>1, <1>3, <2>1, ProceedKeeps DEF Requesting
<1>4. CASE Fail(FALSE)
  BY <1>1, <1>2, <1>4, FailKeeps DEF Unsent
<1> QED
  BY <1>3, <1>4 DEF Prepare

\* Connecting preserves the invariant.
LEMMA ConnectInv == Inv /\ Connect => Inv'
<1> SUFFICES ASSUME Inv, Connect PROVE Inv'
  OBVIOUS
<1>1. /\ stage = "connect" /\ stage \in Requesting /\ connection' \in {"none", "open"}
      /\ SendsAtMost /\ transit' = transit
      /\ UNCHANGED <<callVars, exchange, lifeVars>>
  BY DEF Connect, Requesting, SendsAtMost, exchangeVars
<1>2. operation.kind = "submit" => Unsent(operation.order) /\ ~KnownTo(operation.order)
  BY <1>1, UnsentUntilWritten
<1>3. CASE stage' = "write" /\ UNCHANGED <<operation, request, fetched, report, bookVars>>
  <2>1. operation.kind = "submit" => Unsent(operation.order)'
    BY <1>1, <1>2, <1>3 DEF Unsent, Clean, bookVars
  <2> QED
    BY <1>1, <1>3, <2>1, ProceedKeeps DEF Requesting
<1>4. CASE Fail(FALSE)
  BY <1>1, <1>2, <1>4, FailKeeps DEF Unsent
<1> QED
  BY <1>3, <1>4 DEF Connect

\* What a write sends is the operation's own submission or no order at all.
LEMMA WrittenSends ==
  ASSUME Inv, stage = "write", Written
  PROVE  SendsAtMost
<1>1. operation # None /\ (request = "POST" <=> operation.kind = "submit")
  BY AtWork DEF Requesting
<1>2. operation.kind = "submit" => Unsent(operation.order)
  BY UnsentUntilWritten
<1> QED
  BY <1>1, <1>2 DEF Written, SendsAtMost

\* Writing the request preserves the invariant.
LEMMA WriteInv == Inv /\ Write => Inv'
<1> SUFFICES ASSUME Inv, Write PROVE Inv'
  OBVIOUS
<1>1. /\ stage = "write" /\ stage \in Requesting /\ stage' = "read" /\ SendsAtMost
      /\ connection' \in {"none", "open"}
      /\ UNCHANGED <<callVars, operation, request, fetched, report, bookVars, exchange, lifeVars>>
  BY WrittenSends DEF Write, Requesting, Inv, TypeOK
<1> QED
  BY <1>1, ProceedKeeps DEF Requesting

\* A failed connection, write or read preserves the invariant.
LEMMA TransportFailsInv == Inv /\ TransportFails => Inv'
<1> SUFFICES ASSUME Inv, TransportFails PROVE Inv'
  OBVIOUS
<1>1. /\ stage \in Requesting /\ connection' \in {"none", "open"} /\ SendsAtMost
      /\ Fail(Uncertain) /\ UNCHANGED <<callVars, exchange, lifeVars>>
  BY WrittenSends DEF TransportFails, Requesting, SendsAtMost
<1>2. Uncertain \in BOOLEAN /\ (operation.kind = "submit" => Uncertain)
  BY <1>1, AtWork DEF Uncertain
<1> QED
  BY <1>1, <1>2, FailKeeps

\* An answer from which nothing certain follows preserves the invariant.
LEMMA AnswerInDoubtInv == Inv /\ AnswerInDoubt => Inv'
<1> SUFFICES ASSUME Inv, AnswerInDoubt PROVE Inv'
  OBVIOUS
<1>1. /\ stage \in Requesting /\ connection' \in {"none", "open"} /\ SendsAtMost
      /\ Fail(Uncertain) /\ UNCHANGED <<callVars, exchange, lifeVars>>
  BY DEF AnswerInDoubt, Respond, Requesting, SendsAtMost, exchangeVars
<1>2. Uncertain \in BOOLEAN /\ (operation.kind = "submit" => Uncertain)
  BY <1>1, AtWork DEF Uncertain
<1> QED
  BY <1>1, <1>2, FailKeeps

\* A refused submission has arrived, so nothing of it is on its way.
LEMMA AnswerRefusedInv == Inv /\ AnswerRefused => Inv'
<1> SUFFICES ASSUME Inv, AnswerRefused PROVE Inv'
  OBVIOUS
<1>1. /\ stage \in Requesting /\ connection' \in {"none", "open"} /\ SendsAtMost
      /\ transit' = transit /\ Fail(FALSE) /\ UNCHANGED <<callVars, exchange, lifeVars>>
  BY DEF AnswerRefused, Respond, Requesting, SendsAtMost, exchangeVars
<1>2. operation.kind = "submit" =>
        ~KnownTo(operation.order) /\ operation.order \notin transit
  <2>1. operation.kind = "submit" => exchange[operation.order].status = "refused"
    BY <1>1, AtWork DEF AnswerRefused
  <2> QED
    BY <2>1 DEF Inv, OnItsWay, KnownTo
<1> QED
  BY <1>1, <1>2, FailKeeps

\* The three answers that tell of an order's fills.
LEMMA AnswerTellsInv == Inv /\ (AnswerPosted \/ AnswerTrades) => Inv'
<1> SUFFICES ASSUME Inv, AnswerPosted \/ AnswerTrades PROVE Inv'
  OBVIOUS
<1>1. \A order \in ExchangeOrders : StatusOf(order) \in {"Open", "Filled", "Expired"}
  BY DEF StatusOf
<1>2. operation.order \in Orders /\ stage = "read"
  BY AtWork DEF AnswerPosted, AnswerTrades, Requesting
<1>3. exchange[operation.order] \in ExchangeOrders /\ exchange[operation.order].filled \in 0..Size
  BY <1>2 DEF Inv, TypeOK, ExchangeOrders
<1>4. CASE AnswerPosted
  <2>1. /\ MakeReport(StatusOf(exchange[operation.order]), exchange[operation.order].filled,
                      exchange[operation.order].filled, TRUE)
        /\ Respond /\ stage' = "account" /\ request' = "none" /\ fetched' = fetched
        /\ UNCHANGED <<operation, wallet, accounted, delivered>>
    BY <1>4 DEF AnswerPosted
  <2> QED
    BY <1>1, <1>2, <1>3, <2>1, TellKeeps
<1>5. CASE AnswerTrades
  <2>1. fetched \in ExchangeOrders /\ fetched.filled \in 0..Size
    BY <1>5 DEF AnswerTrades, Inv, TypeOK, Place, ExchangeOrders
  <2>2. PICK listed \in 0..exchange[operation.order].filled :
          MakeReport(StatusOf(fetched), fetched.filled, listed, listed = fetched.filled)
    BY <1>5 DEF AnswerTrades
  <2>3. listed \in 0..Size /\ (listed = fetched.filled) \in BOOLEAN
    BY <1>3, GatewayAssumption
  <2>4. /\ Respond /\ stage' = "account" /\ request' = "none" /\ fetched' = None
        /\ UNCHANGED <<operation, wallet, accounted, delivered>>
    BY <1>5 DEF AnswerTrades
  <2> QED
    BY <1>1, <1>2, <2>1, <2>2, <2>3, <2>4, TellKeeps
<1> QED
  BY <1>4, <1>5

\* The answer to a query of an order preserves the invariant.
LEMMA AnswerOrderInv == Inv /\ AnswerOrder => Inv'
<1> SUFFICES ASSUME Inv, AnswerOrder PROVE Inv'
  OBVIOUS
<1> DEFINE order == exchange[operation.order]
<1>1. /\ stage = "read" /\ stage \in Requesting /\ request = "GET order" /\ Respond
      /\ UNCHANGED <<operation, wallet, accounted, delivered>>
  BY DEF AnswerOrder, Requesting
<1>2. /\ operation.order \in Orders /\ operation.kind # "submit" /\ report = None
      /\ operation # None
  BY <1>1, AtWork
<1>3. order \in ExchangeOrders /\ order # None /\ order.filled \in 0..Size
  <2>1. order \in ExchangeOrders
    BY <1>2 DEF Inv, TypeOK
  <2> QED
    BY <2>1, NoneAssumption DEF ExchangeOrders
<1>4. StatusOf(order) \in {"Open", "Filled", "Expired"}
  BY DEF StatusOf
<1>5. CASE order.filled = 0 /\ MakeReport(StatusOf(order), 0, 0, TRUE) /\ stage' = "account"
           /\ request' = "none" /\ UNCHANGED fetched
  <2>1. 0 \in 0..Size /\ TRUE \in BOOLEAN
    BY GatewayAssumption
  <2> QED
    BY <1>1, <1>4, <1>5, <2>1, TellKeeps
<1>6. CASE fetched' = order /\ request' = "GET trades" /\ stage' = "connect"
           /\ UNCHANGED <<report, revisions>>
  <2>1. /\ connection' \in {"none", "open"}
        /\ UNCHANGED <<queue, submitted, calls, operation, report, revisions, wallet, accounted,
                       delivered, transit, exchange, owned, io, destroyed_by>>
    BY <1>1, <1>6 DEF Respond, callVars, exchangeVars, lifeVars
  <2>2. TypeOK'
    BY <1>3, <1>6, <2>1 DEF Inv, TypeOK
  <2>3. Place'
    BY <1>2, <1>3, <1>6, <2>1 DEF Place
  <2>4. Waiting' /\ OnItsWay' /\ NeverRejectsPlaced'
    BY <2>1, SendKeeps DEF SendsAtMost
  <2>5. Working' /\ Rejecting'
    BY <1>2, <2>1 DEF Working, Rejecting
  <2> QED
    BY <2>2, <2>3, <2>4, <2>5 DEF Inv
<1> QED
  BY <1>5, <1>6 DEF AnswerOrder

\* A cancellation closes an open order, which is neither waiting nor rejected.
LEMMA AnswerCanceledInv == Inv /\ AnswerCanceled => Inv'
<1> SUFFICES ASSUME Inv, AnswerCanceled PROVE Inv'
  OBVIOUS
<1> DEFINE o == operation.order
<1>1. /\ stage = "read" /\ stage \in Requesting /\ request = "DELETE"
      /\ exchange[o].status = "open" /\ connection' \in {"none", "open"}
      /\ exchange' = [exchange EXCEPT ![o].status = "done"]
      /\ request' = "GET order" /\ stage' = "connect"
      /\ UNCHANGED <<queue, submitted, calls, operation, fetched, report, wallet, accounted,
                     revisions, delivered, transit, owned, io, destroyed_by>>
  BY DEF AnswerCanceled, Requesting, callVars, bookVars, lifeVars
<1>2. o \in Orders /\ operation.kind # "submit" /\ report = None /\ operation # None
  BY <1>1, AtWork
<1>3. exchange' \in [Orders -> ExchangeOrders] /\ \A p \in Orders : p # o => exchange'[p] = exchange[p]
  BY <1>1, <1>2 DEF Inv, TypeOK, ExchangeOrders
<1>4. TypeOK'
  BY <1>1, <1>3 DEF Inv, TypeOK
<1>5. Place'
  BY <1>1, <1>2 DEF Place
<1>6. Waiting' /\ OnItsWay' /\ NeverRejectsPlaced'
  <2>1. ExchangeMoves(o)
    BY <1>1, <1>3 DEF ExchangeMoves
  <2> QED
    BY <1>1, <1>2, <2>1, ExchangeKeeps
<1>7. Working' /\ Rejecting'
  BY <1>1, <1>2 DEF Working, Rejecting
<1> QED
  BY <1>4, <1>5, <1>6, <1>7 DEF Inv

\* The accounting of the fetched fills preserves the invariant.
LEMMA AccountInv == Inv /\ Account => Inv'
<1> SUFFICES ASSUME Inv, Account PROVE Inv'
  OBVIOUS
<1>1. /\ stage = "account" /\ stage' = "deliver"
      /\ UNCHANGED <<queue, submitted, calls, operation, request, connection, fetched, report,
                     revisions, delivered, transit, exchange, owned, io, destroyed_by>>
  BY DEF Account, callVars, exchangeVars, lifeVars
<1>2. /\ report # None /\ report \in Reports /\ operation # None /\ report.order \in Orders
      /\ report.filled \in 0..Size /\ report.charged \in 0..Size
  <2>1. report # None /\ operation # None
    BY <1>1 DEF Inv, Place
  <2>2. report \in Reports
    BY <2>1 DEF Inv, TypeOK
  <2> QED
    BY <2>1, <2>2 DEF Reports
<1>3. /\ accounted[report.order].filled \in 0..Size /\ accounted[report.order].charged \in 0..Size
      /\ wallet.base \in Int /\ wallet.quote \in Int /\ wallet.fee \in Int
  BY <1>2 DEF Inv, TypeOK, Accounts
<1>4. wallet' \in [base : Int, quote : Int, fee : Int] /\ accounted' \in [Orders -> Accounts]
  <2>1. CASE UNCHANGED <<wallet, accounted>>
    BY <2>1 DEF Inv, TypeOK
  <2>2. CASE report.filled >= accounted[report.order].filled
    <3> DEFINE units == report.filled - accounted[report.order].filled
               side == IF report.order \in Buys THEN units ELSE -units
               fee == IF report.charged = 0 THEN wallet.fee
                      ELSE wallet.fee - (report.charged - accounted[report.order].charged)
    <3>1. units \in Int /\ side \in Int /\ fee \in Int
      BY <1>2, <1>3, GatewayAssumption
    <3>2. \/ /\ wallet' = [base |-> wallet.base + side, quote |-> wallet.quote - 2 * side, fee |-> fee]
             /\ accounted' = [accounted EXCEPT
                  ![report.order] = [filled |-> report.filled, charged |-> report.charged]]
          \/ UNCHANGED <<wallet, accounted>>
      BY DEF Account, FilledSince
    <3> HIDE DEF units, side, fee
    <3>3. wallet.base + side \in Int /\ wallet.quote - 2 * side \in Int
      BY <1>3, <3>1
    <3>4. [filled |-> report.filled, charged |-> report.charged] \in Accounts
      BY <1>2 DEF Accounts
    <3> QED
      <4>1. accounted \in [Orders -> Accounts] /\ wallet \in [base : Int, quote : Int, fee : Int]
        BY DEF Inv, TypeOK
      <4>2. [base |-> wallet.base + side, quote |-> wallet.quote - 2 * side, fee |-> fee]
              \in [base : Int, quote : Int, fee : Int]
        BY <3>1, <3>3
      <4>3. [accounted EXCEPT ![report.order] = [filled |-> report.filled, charged |-> report.charged]]
              \in [Orders -> Accounts]
        BY <3>4, <4>1
      <4> QED
        BY <3>2, <4>1, <4>2, <4>3
  <2> QED
    BY <2>1, <2>2 DEF Account
<1>5. TypeOK'
  BY <1>1, <1>4 DEF Inv, TypeOK
<1>6. Place'
  BY <1>1, <1>2 DEF Inv, Place
<1>7. Waiting' /\ OnItsWay' /\ NeverRejectsPlaced'
  BY <1>1, SendKeeps DEF SendsAtMost
<1>8. Working' /\ Rejecting'
  BY <1>1 DEF Inv, Working, Rejecting, Clean, Sending, KnownTo
<1> QED
  BY <1>5, <1>6, <1>7, <1>8 DEF Inv

\* A rejection that is posted is of a submission that no longer waits.
LEMMA DeliverInv == Inv /\ Deliver => Inv'
<1> SUFFICES ASSUME Inv, Deliver PROVE Inv'
  OBVIOUS
<1>1. /\ stage = "deliver" /\ stage' = "idle" /\ report' = None /\ operation' = None
      /\ destroyed_by' \in {destroyed_by, "worker"}
      /\ delivered' = Append(delivered, report) \/ delivered' = delivered
      /\ UNCHANGED <<queue, submitted, calls, request, connection, fetched, wallet, accounted,
                     revisions, transit, exchange, owned, io>>
  BY DEF Deliver, callVars, exchangeVars
<1>2. report # None /\ report \in Reports
  BY <1>1 DEF Inv, Place, TypeOK
<1>3. /\ delivered' \in Seq(Reports)
      /\ \A i \in DOMAIN delivered' :
           delivered'[i] = report \/ \E j \in DOMAIN delivered : delivered'[i] = delivered[j]
  <2>1. CASE delivered' = delivered
    BY <2>1 DEF Inv, TypeOK
  <2>2. CASE delivered' = Append(delivered, report)
    <3>1. delivered \in Seq(Reports) /\ Len(delivered) \in Nat /\ DOMAIN delivered = 1..Len(delivered)
      BY LenProperties DEF Inv, TypeOK
    <3>2. /\ delivered' \in Seq(Reports) /\ DOMAIN delivered' = 1..Len(delivered) + 1
          /\ \A i \in 1..Len(delivered) : delivered'[i] = delivered[i]
          /\ delivered'[Len(delivered) + 1] = report
      BY <1>2, <2>2, <3>1, AppendProperties, LenProperties
    <3> QED
      BY <3>1, <3>2
  <2> QED
    BY <1>1, <2>1, <2>2
<1>4. TypeOK'
  BY <1>1, <1>3 DEF Inv, TypeOK
<1>5. Place' /\ Working' /\ Rejecting'
  BY <1>1 DEF Inv, Place, Working, Rejecting
<1>6. OnItsWay'
  BY <1>1 DEF Inv, OnItsWay
<1>7. NeverRejectsPlaced'
  BY <1>1, <1>2, <1>3 DEF Inv, NeverRejectsPlaced, Rejecting, KnownTo
<1>8. Waiting'
  <2>1. report.status = "Rejected" => Sending(report.order) /\ report.order \in submitted
    BY <1>2 DEF Inv, Rejecting, Working, Sending
  <2>2. \A p : Unsent(p) /\ (report.status = "Rejected" => report.order # p) => Unsent(p)'
    BY <1>1, <1>3 DEF Unsent, Clean
  <2>3. \A i \in DOMAIN queue : queue[i].kind = "submit" =>
          Unsent(queue[i].order) /\ (report.status = "Rejected" => report.order # queue[i].order)
    BY <2>1 DEF Inv, Waiting
  <2>4. \A p \in Orders \ submitted : Unsent(p)'
    BY <2>1, <2>2 DEF Inv, Waiting
  <2>5. \A p : ~Sending(p)'
    BY <1>1 DEF Sending
  <2> QED
    BY <1>1, <2>2, <2>3, <2>4, <2>5 DEF Inv, Waiting
<1> QED
  BY <1>4, <1>5, <1>6, <1>7, <1>8 DEF Inv

\* The end of main() and stuttering.
LEMMA EndInv == Inv /\ (Release \/ DestroyIo \/ UNCHANGED vars) => Inv'
<1> SUFFICES ASSUME Inv, Release \/ DestroyIo \/ UNCHANGED vars PROVE Inv'
  OBVIOUS
<1>1. /\ owned' \in {owned, FALSE} /\ io' \in {io, FALSE} /\ destroyed_by' \in {destroyed_by, "main"}
      /\ UNCHANGED <<queue, submitted, calls, operation, request, stage, connection, fetched,
                     report, wallet, accounted, revisions, delivered, transit, exchange>>
  BY DEF Release, DestroyIo, vars, callVars, workVars, bookVars, exchangeVars, lifeVars
<1>2. TypeOK'
  <2>1. LifeTypes'
    BY <1>1, Zenon DEF Inv, TypeOK, LifeTypes
  <2> QED
    BY <1>1, <2>1, TypeGroups, TypesKept DEF Inv
<1>3. Waiting' /\ OnItsWay' /\ NeverRejectsPlaced'
  BY <1>1, SendKeeps DEF SendsAtMost
<1>4. Place' /\ Working' /\ Rejecting'
  BY <1>1 DEF Inv, Place, Working, Rejecting, Unsent, Clean, Sending, KnownTo
<1> QED
  BY <1>2, <1>3, <1>4 DEF Inv

\* The exchange.
LEMMA ExchangeInv == ASSUME Inv, NEW o \in Orders, Arrive(o) \/ Lose(o) \/ Execute(o) PROVE Inv'
<1>1. UNCHANGED <<queue, submitted, calls, operation, request, stage, connection, fetched, report,
                  wallet, accounted, revisions, delivered, owned, io, destroyed_by>>
  BY DEF Arrive, Lose, Execute, callVars, workVars, bookVars, lifeVars
<1>2. /\ exchange' \in [Orders -> ExchangeOrders]
      /\ \A p \in Orders : p # o => exchange'[p] = exchange[p]
  <2>1. /\ exchange \in [Orders -> ExchangeOrders] /\ exchange[o] \in ExchangeOrders
        /\ exchange[o].filled \in 0..Size
    BY DEF Inv, TypeOK, ExchangeOrders
  <2>2. \/ exchange' = exchange
        \/ \E s \in {"open", "done"}, f \in 0..Size :
             exchange' = [exchange EXCEPT ![o] = [status |-> s, filled |-> f]]
        \/ exchange' = [exchange EXCEPT ![o].status = "refused"]
    BY <2>1, GatewayAssumption DEF Arrive, Lose, Execute
  <2>3. \A s \in {"open", "done"}, f \in 0..Size : [status |-> s, filled |-> f] \in ExchangeOrders
    BY DEF ExchangeOrders
  <2>4. [exchange[o] EXCEPT !.status = "refused"] \in ExchangeOrders
    BY <2>1 DEF ExchangeOrders
  <2> QED
    BY <2>1, <2>2, <2>3, <2>4
<1>3. ExchangeMoves(o)
  BY <1>2 DEF Arrive, Lose, Execute, ExchangeMoves
<1>4. TypeOK'
  <2>1. ExchangeTypes'
    BY <1>2, <1>3 DEF ExchangeMoves, ExchangeTypes, Inv, TypeOK
  <2> QED
    BY <1>1, <2>1, TypeGroups, TypesKept DEF Inv
<1>5. Place'
  BY <1>1 DEF Inv, Place
<1>6. Waiting' /\ OnItsWay' /\ NeverRejectsPlaced'
  BY <1>1, <1>3, ExchangeKeeps
<1>7. Working'
  <2>1. operation # None => operation.order \in Orders
    BY DEF Inv, TypeOK, Operations
  <2>2. \A p \in Orders : Unsent(p) => Unsent(p)'
    BY <1>1, <1>3, ExchangeKeeps
  <2> QED
    BY <1>1, <2>1, <2>2 DEF Inv, Working, Clean
<1>8. Rejecting'
  <2>1. report # None => report.order \in Orders
    BY DEF Inv, TypeOK, Reports
  <2>2. \A p \in Orders : ~KnownTo(p) /\ p \notin transit => ~KnownTo(p)' /\ p \notin transit'
    BY <1>1, <1>3, ExchangeKeeps
  <2> QED
    BY <1>1, <2>1, <2>2 DEF Inv, Rejecting, Sending
<1> QED
  BY <1>4, <1>5, <1>6, <1>7, <1>8 DEF Inv

-----------------------------------------------------------------------------
\* The inductive invariant holds in every state.
THEOREM Invariant == Spec => []Inv
<1>1. Inv /\ [Next]_vars => Inv'
  <2> SUFFICES ASSUME Inv, [Next]_vars PROVE Inv'
    OBVIOUS
  <2>1. CASE \E o \in Orders : Submit(o) \/ Query(o) \/ Cancel(o)
    BY <2>1, CallInv
  <2>2. CASE Take \/ Prepare \/ Connect \/ Write \/ TransportFails
    BY <2>2, TakeInv, PrepareInv, ConnectInv, WriteInv, TransportFailsInv
  <2>3. CASE AnswerInDoubt \/ AnswerRefused \/ AnswerPosted \/ AnswerCanceled
    BY <2>3, AnswerInDoubtInv, AnswerRefusedInv, AnswerTellsInv, AnswerCanceledInv
  <2>4. CASE AnswerOrder \/ AnswerTrades \/ Account \/ Deliver
    BY <2>4, AnswerOrderInv, AnswerTellsInv, AccountInv, DeliverInv
  <2>5. CASE \E o \in Orders : Arrive(o) \/ Lose(o) \/ Execute(o)
    BY <2>5, ExchangeInv
  <2>6. CASE Release \/ DestroyIo \/ Gone \/ UNCHANGED vars
    BY <2>6, EndInv DEF Gone
  <2> QED
    BY <2>1, <2>2, <2>3, <2>4, <2>5, <2>6 DEF Next, Worker
<1> QED
  BY InitInv, <1>1, PTL DEF Spec

\* The gateway is well typed.
THEOREM TypeCorrect == Spec => []TypeOK
<1>1. Inv => TypeOK
  BY DEF Inv
<1> QED
  BY Invariant, <1>1, PTL

\* An order that may have reached the exchange, or still may, is never
\* reported as rejected.
THEOREM RejectedMeansRefused == Spec => []NeverRejectsPlaced
<1>1. Inv => NeverRejectsPlaced
  BY DEF Inv
<1> QED
  BY Invariant, <1>1, PTL
-----------------------------------------------------------------------------
(***************************************************************************)
(* The books: what is reported of an order never runs ahead of what the    *)
(* exchange did, nor of what the wallet cache was changed by.              *)
(***************************************************************************)
\* The report in the making is the newest of its order and takes nothing back.
Reporting ==
  report # None =>
    /\ operation # None /\ report.order = operation.order /\ fetched = None
    /\ report.revision = revisions[report.order] /\ report.revision > 0
    /\ Tells(report) =>
         KnownTo(report.order) /\ report.filled <= exchange[report.order].filled
    /\ ~Tells(report) => report.filled = 0
    /\ stage = "deliver" => report.filled <= accounted[report.order].filled
    /\ \A i \in DOMAIN delivered : delivered[i].order = report.order =>
         /\ delivered[i].revision < report.revision
         /\ Tells(delivered[i]) /\ Tells(report) => delivered[i].filled <= report.filled

\* The order read by query_now() is still good when its trades are read.
Fetching ==
  fetched # None =>
    /\ stage \in {"connect", "write", "read"} /\ request = "GET trades"
    /\ KnownTo(operation.order) /\ fetched.filled <= exchange[operation.order].filled
    /\ \A i \in DOMAIN delivered :
         delivered[i].order = operation.order /\ Tells(delivered[i]) =>
           delivered[i].filled <= fetched.filled

\* What was posted of an order is numbered, accounted and done.
Posted ==
  \A i \in DOMAIN delivered :
    LET r == delivered[i] IN
    /\ r.revision <= revisions[r.order] /\ r.filled <= accounted[r.order].filled
    /\ Tells(r) => KnownTo(r.order) /\ r.filled <= exchange[r.order].filled

\* The wallet cache changed by the fills accounted, each once.
FilledIn(S) == Sums([o \in S |-> accounted[o].filled], S)[S]
Cached ==
  /\ wallet.base = FilledIn(Buys) - FilledIn(Orders \ Buys)
  /\ wallet.quote = 2 * (FilledIn(Orders \ Buys) - FilledIn(Buys))

Books == Reporting /\ Fetching /\ Posted /\ Cached

\* What a posted report is.
LEMMA PostedTypes ==
  ASSUME TypeOK, NEW i \in DOMAIN delivered
  PROVE  /\ delivered[i] \in Reports /\ delivered[i].order \in Orders
         /\ delivered[i].revision \in Nat /\ delivered[i].filled \in Nat
<1>1. delivered \in Seq(Reports) /\ i \in 1..Len(delivered)
  BY LenProperties DEF TypeOK
<1>2. delivered[i] \in Reports
  BY <1>1, ElementOfSeq
<1> QED
  BY <1>2, GatewayAssumption DEF Reports

\* The fills and numbers of an order are natural numbers.
LEMMA CountTypes ==
  ASSUME TypeOK, NEW o \in Orders
  PROVE  /\ revisions[o] \in Nat /\ accounted[o].filled \in Nat /\ exchange[o].filled \in Nat
         /\ accounted[o].filled \in Int
<1>1. revisions[o] \in Nat /\ accounted[o] \in Accounts /\ exchange[o] \in ExchangeOrders
  BY DEF TypeOK
<1> QED
  BY <1>1, GatewayAssumption DEF Accounts, ExchangeOrders

\* A report made of the running operation is newer than every one posted.
LEMMA MakingKeeps ==
  ASSUME Inv, Books, stage \in Requesting, NEW status \in Statuses, NEW filled \in 0..Size,
         NEW charged \in 0..Size, NEW complete \in BOOLEAN,
         MakeReport(status, filled, charged, complete),
         UNCHANGED <<operation, wallet, accounted, delivered, exchange>>, fetched' = None,
         stage' \in {"account", "deliver"}, stage' = "deliver" => filled = 0,
         status \in {"Rejected", "Unknown"} => filled = 0,
         status \notin {"Rejected", "Unknown"} =>
           /\ KnownTo(operation.order) /\ filled <= exchange[operation.order].filled
           /\ \A i \in DOMAIN delivered :
                delivered[i].order = operation.order /\ Tells(delivered[i]) =>
                  delivered[i].filled <= filled
  PROVE  Books'
<1> DEFINE o == operation.order
<1>1. operation # None /\ operation \in Operations /\ o \in Orders
  BY AtWork
<1>2. TypeOK
  BY DEF Inv
<1>3. /\ revisions' = [revisions EXCEPT ![o] = revisions[o] + 1]
      /\ report' = [order |-> o, revision |-> revisions'[o], status |-> status,
                    filled |-> filled, charged |-> charged, complete |-> complete]
  BY DEF MakeReport, RevisionOfNext
<1>4. revisions \in [Orders -> Nat] /\ revisions[o] \in Nat /\ accounted[o].filled \in Nat
  BY <1>1, <1>2, CountTypes DEF TypeOK
<1>5. revisions'[o] = revisions[o] + 1 /\ \A p \in Orders : p # o => revisions'[p] = revisions[p]
  BY <1>1, <1>3, <1>4
<1>6. Tells(report') <=> status \notin {"Rejected", "Unknown"}
  BY <1>3 DEF Tells, Statuses
<1>7. \A i \in DOMAIN delivered :
        /\ delivered[i].order \in Orders /\ delivered[i].revision \in Nat
        /\ delivered[i].revision <= revisions[delivered[i].order]
  BY <1>2, PostedTypes DEF Books, Posted
<1>8. Reporting'
  <2> SUFFICES
        /\ operation' # None /\ report'.order = operation'.order /\ fetched' = None
        /\ report'.revision = revisions'[report'.order] /\ report'.revision > 0
        /\ Tells(report') =>
             KnownTo(report.order)' /\ report'.filled <= exchange'[report'.order].filled
        /\ ~Tells(report') => report'.filled = 0
        /\ stage' = "deliver" => report'.filled <= accounted'[report'.order].filled
        /\ \A i \in DOMAIN delivered' : delivered'[i].order = report'.order =>
             /\ delivered'[i].revision < report'.revision
             /\ Tells(delivered'[i]) /\ Tells(report') => delivered'[i].filled <= report'.filled
    BY DEF Reporting, Tells
  <2>1. /\ report'.order = o /\ report'.filled = filled /\ report'.revision = revisions[o] + 1
        /\ revisions[o] + 1 > 0
    BY <1>3, <1>4, <1>5
  <2> HIDE DEF o
  <2>2. \A i \in DOMAIN delivered : delivered[i].order = o => delivered[i].revision < revisions[o] + 1
    BY <1>4, <1>7
  <2>3. \A i \in DOMAIN delivered : delivered[i].order = o /\ Tells(delivered[i]) /\ Tells(report') =>
          delivered[i].filled <= filled
    BY <1>6 DEF o
  <2>4. Tells(report') => KnownTo(o) /\ filled <= exchange[o].filled
    BY <1>6 DEF o
  <2>5. /\ ~Tells(report') => filled = 0
        /\ stage' = "deliver" => filled <= accounted[o].filled
    BY <1>4, <1>6
  <2>6. operation' # None /\ o = operation'.order
    BY <1>1 DEF o
  <2>7. KnownTo(report.order)' <=> KnownTo(o)
    BY <2>1 DEF KnownTo
  <2> QED
    BY <1>5, <2>1, <2>2, <2>3, <2>4, <2>5, <2>6, <2>7
<1>9. Fetching'
  BY DEF Fetching
<1>10. Posted'
  <2>1. ASSUME NEW i \in DOMAIN delivered
        PROVE  delivered[i].revision <= revisions'[delivered[i].order]
    <3>1. CASE delivered[i].order = o
      BY <1>4, <1>5, <1>7, <3>1
    <3>2. CASE delivered[i].order # o
      BY <1>5, <1>7, <3>2
    <3> QED
      BY <3>1, <3>2
  <2> QED
    BY <2>1 DEF Books, Posted, KnownTo, Tells
<1>11. Cached'
  BY DEF Books, Cached, FilledIn
<1> QED
  BY <1>8, <1>9, <1>10, <1>11 DEF Books

\* A failure tells nothing of fills.
LEMMA FailBooks ==
  ASSUME Inv, Books, stage \in Requesting, NEW u \in BOOLEAN, Fail(u), UNCHANGED exchange
  PROVE  Books'
<1> DEFINE status == IF operation.kind = "submit" /\ ~u THEN "Rejected" ELSE "Unknown"
<1>1. /\ MakeReport(status, 0, 0, TRUE) /\ stage' = "deliver" /\ fetched' = None
      /\ UNCHANGED <<operation, wallet, accounted, delivered, exchange>>
  BY DEF Fail, ReportsFailure
<1>2. status \in Statuses /\ status \in {"Rejected", "Unknown"} /\ 0 \in 0..Size
  BY GatewayAssumption DEF Statuses
<1> HIDE DEF status
<1> QED
  BY <1>1, <1>2, MakingKeeps

\* While the reports stay and the exchange goes on, so do the books.
LEMMA GoingOnKeeps ==
  ASSUME Inv, Books, UNCHANGED <<report, fetched, revisions, delivered, wallet, accounted>>,
         report # None => operation' = operation /\ (stage' = "deliver" => stage = "deliver"),
         fetched # None =>
           /\ operation' = operation /\ request' = request
           /\ stage' \in {"connect", "write", "read"},
         \A p \in Orders :
           KnownTo(p) => KnownTo(p)' /\ exchange[p].filled <= exchange'[p].filled,
         \A p \in Orders : exchange'[p].filled \in Nat
  PROVE  Books'
<1>1. TypeOK
  BY DEF Inv
<1>2. ASSUME NEW p \in Orders, NEW n \in Nat, KnownTo(p), n <= exchange[p].filled
      PROVE  KnownTo(p)' /\ n <= exchange'[p].filled
  BY <1>1, <1>2, CountTypes
<1>3. Posted'
  <2>1. ASSUME NEW i \in DOMAIN delivered, Tells(delivered[i])
        PROVE  /\ KnownTo(delivered[i].order)'
               /\ delivered[i].filled <= exchange'[delivered[i].order].filled
    BY <1>1, <1>2, <2>1, PostedTypes DEF Books, Posted
  <2> QED
    BY <2>1 DEF Books, Posted, KnownTo, Tells
<1>4. Reporting'
  <2>1. CASE report # None /\ Tells(report)
    <3>1. report \in Reports
      BY <1>1, <2>1 DEF TypeOK
    <3>2. report.order \in Orders /\ report.filled \in Nat
      BY <3>1, GatewayAssumption DEF Reports
    <3>3. KnownTo(report.order)' /\ report.filled <= exchange'[report.order].filled
      BY <1>2, <2>1, <3>2 DEF Books, Reporting
    <3> QED
      BY <2>1, <3>3 DEF Books, Reporting, Tells, KnownTo
  <2>2. CASE report # None /\ ~Tells(report)
    BY <2>2 DEF Books, Reporting, Tells
  <2>3. CASE report = None
    BY <2>3 DEF Reporting
  <2> QED
    BY <2>1, <2>2, <2>3
<1>5. Fetching'
  <2>1. CASE fetched # None
    <3>1. fetched \in ExchangeOrders /\ operation \in Operations
      BY <1>1, <2>1 DEF TypeOK, Inv, Place, Books, Fetching
    <3>2. operation.order \in Orders
      BY <3>1 DEF Operations
    <3>3. fetched.filled \in Nat
      BY <3>1, GatewayAssumption DEF ExchangeOrders
    <3>4. KnownTo(operation.order)' /\ fetched.filled <= exchange'[operation.order].filled
      BY <1>2, <2>1, <3>2, <3>3 DEF Books, Fetching
    <3> QED
      BY <2>1, <3>4 DEF Books, Fetching, Tells, KnownTo
  <2>2. CASE fetched = None
    BY <2>2 DEF Fetching
  <2> QED
    BY <2>1, <2>2
<1>6. Cached'
  BY DEF Books, Cached, FilledIn
<1> QED
  BY <1>3, <1>4, <1>5, <1>6 DEF Books

\* The calls, the end of main() and the worker's way to an answer.
LEMMA QuietBooks ==
  ASSUME Inv, Books,
         \/ \E o \in Orders : Submit(o) \/ Query(o) \/ Cancel(o) \/ Lose(o)
         \/ Take \/ Write \/ Release \/ DestroyIo \/ UNCHANGED vars
         \/ (Prepare /\ stage' = "connect") \/ (Connect /\ stage' = "write")
  PROVE  Books'
<1>1. \A p \in Orders : exchange[p].filled \in Nat /\ exchange[p].filled <= exchange[p].filled
  BY CountTypes DEF Inv
<1>2. UNCHANGED <<report, fetched, revisions, delivered, wallet, accounted, exchange>>
  BY DEF Submit, Query, Cancel, Enqueue, Lose, Take, Write, Release, DestroyIo, Prepare, Connect,
     Fail, ReportsFailure, vars, callVars, workVars, bookVars, exchangeVars, lifeVars
<1> DEFINE Proceeds ==
      Take \/ Write \/ (Prepare /\ stage' = "connect") \/ (Connect /\ stage' = "write")
<1>3. Proceeds \/ UNCHANGED <<operation, request, stage>>
  <2>1. ASSUME NEW o \in Orders, Submit(o) \/ Query(o) \/ Cancel(o) \/ Lose(o)
        PROVE  UNCHANGED <<operation, request, stage>>
    BY <2>1 DEF Submit, Query, Cancel, Enqueue, Lose, workVars
  <2>2. CASE Release \/ DestroyIo \/ UNCHANGED vars
    BY <2>2 DEF Release, DestroyIo, vars, workVars
  <2> QED
    BY <2>1, <2>2
<1>4. report # None => operation' = operation /\ (stage' = "deliver" => stage = "deliver")
  <2>1. CASE Proceeds
    BY <2>1 DEF Take, Write, Prepare, Connect, Inv, Place
  <2> QED
    BY <1>3, <2>1
<1>5. fetched # None =>
        operation' = operation /\ request' = request /\ stage' \in {"connect", "write", "read"}
  <2>1. CASE Proceeds
    BY <2>1 DEF Take, Write, Prepare, Connect, Fail, ReportsFailure, Books, Fetching
  <2>2. CASE UNCHANGED <<operation, request, stage>>
    BY <2>2 DEF Books, Fetching
  <2> QED
    BY <1>3, <2>1, <2>2
<1> QED
  BY <1>1, <1>2, <1>4, <1>5, GoingOnKeeps DEF KnownTo

\* A request that fails accounts nothing and posts a report that holds no fills.
LEMMA FailingBooks ==
  ASSUME Inv, Books,
         \/ TransportFails \/ AnswerInDoubt \/ AnswerRefused
         \/ (Prepare /\ stage' # "connect") \/ (Connect /\ stage' # "write")
  PROVE  Books'
<1>1. Uncertain \in BOOLEAN
  BY DEF Uncertain
<1>2. stage \in Requesting /\ UNCHANGED exchange /\ (Fail(Uncertain) \/ Fail(FALSE))
  BY DEF TransportFails, AnswerInDoubt, AnswerRefused, Prepare, Connect, Respond, Requesting,
     exchangeVars
<1> QED
  BY <1>1, <1>2, FailBooks

\* The exchange only adds to what it did of an order it knows.
LEMMA ExchangeBooks ==
  ASSUME Inv, Books, AnswerCanceled \/ \E o \in Orders : Arrive(o) \/ Execute(o)
  PROVE  Books'
<1>1. /\ exchange \in [Orders -> ExchangeOrders] /\ exchange' \in [Orders -> ExchangeOrders]
  <2>1. TypeOK'
    BY AnswerCanceledInv, ExchangeInv DEF Inv
  <2> QED
    BY <2>1 DEF Inv, TypeOK
<1>2. ASSUME NEW p \in Orders
      PROVE  /\ exchange'[p].filled \in Nat
             /\ KnownTo(p) => KnownTo(p)' /\ exchange[p].filled <= exchange'[p].filled
  <2>1. exchange[p].filled \in 0..Size /\ exchange'[p].filled \in 0..Size
    BY <1>1 DEF ExchangeOrders
  <2>2. CASE AnswerCanceled
    <3>1. exchange' = [exchange EXCEPT ![operation.order].status = "done"]
      BY <2>2 DEF AnswerCanceled
    <3>2. exchange'[p] = exchange[p] \/ exchange'[p] = [exchange[p] EXCEPT !.status = "done"]
      BY <1>1, <3>1
    <3>3. exchange[p] \in ExchangeOrders
      BY <1>1
    <3>4. exchange'[p].filled = exchange[p].filled /\ (KnownTo(p) => KnownTo(p)')
      BY <3>2, <3>3 DEF KnownTo, ExchangeOrders
    <3> QED
      BY <2>1, <3>4, GatewayAssumption
  <2>3. ASSUME NEW o \in Orders, Arrive(o) PROVE KnownTo(p) => exchange'[p] = exchange[p]
    <3>1. exchange[o].status = "unknown"
      BY <2>3 DEF Arrive, Inv, OnItsWay
    <3>2. p # o => exchange'[p] = exchange[p]
      BY <1>1, <2>3 DEF Arrive
    <3> QED
      BY <3>1, <3>2 DEF KnownTo
  <2>4. ASSUME NEW o \in Orders, Execute(o)
        PROVE  KnownTo(p) => KnownTo(p)' /\ exchange[p].filled <= exchange'[p].filled
    <3>1. PICK st \in {"open", "done"}, f \in exchange[o].filled..Size :
            exchange' = [exchange EXCEPT ![o] = [status |-> st, filled |-> f]]
      BY <2>4 DEF Execute
    <3>2. CASE p = o
      BY <1>1, <2>1, <3>1, <3>2, GatewayAssumption DEF KnownTo
    <3>3. CASE p # o
      BY <1>1, <2>1, <3>1, <3>3, GatewayAssumption DEF KnownTo
    <3> QED
      BY <3>2, <3>3
  <2> QED
    BY <2>1, <2>2, <2>3, <2>4, GatewayAssumption DEF KnownTo
<1>3. UNCHANGED <<report, fetched, revisions, delivered, wallet, accounted, operation>>
  <2>1. CASE AnswerCanceled
    BY <2>1 DEF AnswerCanceled, bookVars
  <2>2. CASE \E o \in Orders : Arrive(o) \/ Execute(o)
    BY <2>2 DEF Arrive, Execute, workVars, bookVars
  <2> QED
    BY <2>1, <2>2
<1>4. /\ report # None => operation' = operation /\ (stage' = "deliver" => stage = "deliver")
      /\ fetched # None =>
           operation' = operation /\ request' = request /\ stage' \in {"connect", "write", "read"}
  <2>1. CASE AnswerCanceled
    <3>1. report = None /\ fetched = None
      BY <2>1 DEF AnswerCanceled, Books, Fetching, Inv, Place
    <3> QED
      BY <3>1
  <2>2. CASE \E o \in Orders : Arrive(o) \/ Execute(o)
    <3>1. UNCHANGED <<operation, request, stage>>
      BY <2>2 DEF Arrive, Execute, workVars
    <3> QED
      BY <3>1 DEF Books, Fetching
  <2> QED
    BY <2>1, <2>2
<1> QED
  BY <1>2, <1>3, <1>4, GoingOnKeeps

\* The answers that become a report tell what the exchange did, or had done
\* when query_now() read the order.
LEMMA AnswerBooks ==
  ASSUME Inv, Books, AnswerPosted \/ AnswerOrder \/ AnswerTrades
  PROVE  Books'
<1> DEFINE o == operation.order
           order == exchange[o]
<1>1. /\ stage = "read" /\ stage \in Requesting /\ report = None /\ o \in Orders
      /\ operation # None
      /\ UNCHANGED <<operation, wallet, accounted, delivered, exchange>>
  <2>1. stage = "read"
    BY DEF AnswerPosted, AnswerOrder, AnswerTrades
  <2> QED
    BY <2>1, AtWork DEF AnswerPosted, AnswerOrder, AnswerTrades, Respond, Requesting, exchangeVars
<1>2. order \in ExchangeOrders /\ order.filled \in 0..Size /\ order # None
  <2>1. order \in ExchangeOrders
    BY <1>1 DEF Inv, TypeOK
  <2> QED
    BY <2>1, NoneAssumption DEF ExchangeOrders
<1>3. /\ \A x : StatusOf(x) \in Statuses /\ StatusOf(x) \notin {"Rejected", "Unknown"}
      /\ TRUE \in BOOLEAN /\ 0 \in 0..Size
  BY GatewayAssumption DEF StatusOf, Statuses
<1>4. KnownTo(o) =>
        \A i \in DOMAIN delivered :
          delivered[i].order = o /\ Tells(delivered[i]) => delivered[i].filled <= order.filled
  BY DEF Books, Posted
<1>5. CASE AnswerPosted
  <2>1. /\ request = "POST" /\ KnownTo(o) /\ fetched' = fetched /\ stage' = "account"
        /\ MakeReport(StatusOf(order), order.filled, order.filled, TRUE)
    BY <1>5 DEF AnswerPosted
  <2>2. fetched' = None /\ order.filled <= order.filled
    BY <1>2, <2>1 DEF Books, Fetching
  <2> HIDE DEF order
  <2> QED
    BY <1>1, <1>2, <1>3, <1>4, <2>1, <2>2, MakingKeeps DEF order
<1>6. CASE AnswerTrades
  <2>1. PICK listed \in 0..order.filled :
          MakeReport(StatusOf(fetched), fetched.filled, listed, listed = fetched.filled)
    BY <1>6 DEF AnswerTrades
  <2>2. request = "GET trades" /\ stage' = "account" /\ fetched' = None
    BY <1>6 DEF AnswerTrades
  <2>3. fetched # None /\ fetched \in ExchangeOrders
    BY <2>2 DEF Inv, TypeOK, Place
  <2>4. fetched.filled \in 0..Size /\ listed \in 0..Size /\ (listed = fetched.filled) \in BOOLEAN
    BY <1>2, <2>3, GatewayAssumption DEF ExchangeOrders
  <2>5. /\ KnownTo(o) /\ fetched.filled <= exchange[o].filled
        /\ \A i \in DOMAIN delivered :
             delivered[i].order = o /\ Tells(delivered[i]) => delivered[i].filled <= fetched.filled
    BY <2>3 DEF Books, Fetching
  <2> QED
    BY <1>1, <1>3, <2>1, <2>2, <2>4, <2>5, MakingKeeps
<1>7. CASE AnswerOrder
  <2>1. request = "GET order" /\ KnownTo(o) /\ fetched = None
    BY <1>7 DEF AnswerOrder, Books, Fetching
  <2>2. CASE order.filled = 0 /\ MakeReport(StatusOf(order), 0, 0, TRUE) /\ stage' = "account"
             /\ UNCHANGED fetched
    <3>1. 0 <= exchange[o].filled /\ fetched' = None
      <4>1. fetched' = None
        BY <2>1, <2>2
      <4>2. exchange[o].filled = 0
        BY <2>2
      <4> QED
        BY <4>1, <4>2
    <3>2. \A i \in DOMAIN delivered :
            delivered[i].order = o /\ Tells(delivered[i]) => delivered[i].filled <= 0
      BY <1>4, <2>1, <2>2
    <3>3. /\ MakeReport(StatusOf(order), 0, 0, TRUE) /\ stage' = "account" /\ KnownTo(o)
          /\ StatusOf(order) \in Statuses /\ StatusOf(order) \notin {"Rejected", "Unknown"}
      BY <1>3, <2>1, <2>2
    <3> HIDE DEF order
    <3> QED
      BY <1>1, <1>3, <3>1, <3>2, <3>3, MakingKeeps
  <2>3. CASE fetched' = order /\ request' = "GET trades" /\ stage' = "connect"
             /\ UNCHANGED <<report, revisions>>
    <3>1. Fetching'
      <4>1. order.filled \in Int /\ fetched'.filled = order.filled
        <5>1. order.filled \in Int
          BY <1>2, GatewayAssumption
        <5>2. fetched' = order
          BY <2>3
        <5> QED
          BY <5>1, <5>2
      <4> HIDE DEF order, o
      <4>2. fetched'.filled <= exchange[o].filled
        BY <4>1 DEF order
      <4>3. \A i \in DOMAIN delivered :
              delivered[i].order = o /\ Tells(delivered[i]) => delivered[i].filled <= fetched'.filled
        BY <1>4, <2>1, <4>1
      <4> QED
        BY <1>1, <2>1, <2>3, <4>2, <4>3 DEF o, Fetching, Tells, KnownTo
    <3>2. Reporting'
      BY <1>1, <2>3 DEF Reporting
    <3>3. Posted' /\ Cached'
      BY <1>1, <2>3 DEF Books, Posted, Cached, FilledIn, Tells, KnownTo
    <3> QED
      BY <3>1, <3>2, <3>3 DEF Books
  <2> QED
    BY <1>7, <2>2, <2>3 DEF AnswerOrder
<1> QED
  BY <1>5, <1>6, <1>7

\* One order's fills change the sum of the side it is on, and no other.
LEMMA FilledMoves ==
  ASSUME TypeOK, TypeOK', NEW S, S \subseteq Orders, NEW o \in Orders,
         \A p \in Orders \ {o} : accounted'[p].filled = accounted[p].filled
  PROVE  /\ FilledIn(S) \in Int
         /\ FilledIn(S)' = FilledIn(S) +
              (IF o \in S THEN accounted'[o].filled - accounted[o].filled ELSE 0)
<1> DEFINE g == [p \in S |-> accounted[p].filled]
           h == [p \in S |-> accounted'[p].filled]
<1>1. IsFiniteSet(S)
  BY FS_Subset, GatewayAssumption
<1>2. \A p \in S : accounted[p].filled \in Int /\ accounted'[p].filled \in Int
  <2>1. accounted \in [Orders -> Accounts] /\ accounted' \in [Orders -> Accounts]
    BY DEF TypeOK
  <2>2. \A p \in S : accounted[p] \in Accounts /\ accounted'[p] \in Accounts
    BY <2>1
  <2> QED
    BY <2>2, GatewayAssumption DEF Accounts
<1>3. g \in [S -> Int] /\ h \in [S -> Int]
  BY <1>2
<1>4. FilledIn(S) = Sums(g, S)[S] /\ FilledIn(S)' = Sums(h, S)[S]
  BY DEF FilledIn
<1>5. CASE o \in S
  <2>1. \A x \in S \ {o} : h[x] = g[x]
    OBVIOUS
  <2>2. h[o] = accounted'[o].filled /\ g[o] = accounted[o].filled
    BY <1>5
  <2> HIDE DEF g, h
  <2>3. Sums(g, S)[S] \in Int /\ Sums(h, S)[S] = Sums(g, S)[S] + (h[o] - g[o])
    BY <1>1, <1>3, <1>5, <2>1, SumChanges
  <2> QED
    BY <1>4, <1>5, <2>2, <2>3
<1>6. CASE o \notin S
  <2>1. h = g
    BY <1>6
  <2> HIDE DEF g, h
  <2>2. Sums(g, S)[S] \in Int
    BY <1>1, <1>3, SumOf
  <2> QED
    BY <1>4, <1>6, <2>1, <2>2
<1> QED
  BY <1>5, <1>6

\* Accounting adds what is new of the report to the cache.
LEMMA AccountBooks ==
  ASSUME Inv, Books, Account
  PROVE  Books'
<1> DEFINE o == report.order
           units == report.filled - accounted[o].filled
           side == IF o \in Buys THEN units ELSE -units
<1>1. /\ stage = "account" /\ stage' = "deliver"
      /\ UNCHANGED <<operation, request, fetched, report, revisions, delivered, exchange>>
  BY DEF Account, exchangeVars
<1>2. report # None /\ o \in Orders /\ report.filled \in Nat
  <2>1. report # None /\ report \in Reports
    BY <1>1 DEF Inv, Place, TypeOK
  <2> QED
    BY <2>1, GatewayAssumption DEF Reports
<1>3. TypeOK /\ TypeOK'
  BY AccountInv DEF Inv
<1>4. \/ report.filled < accounted[o].filled /\ UNCHANGED <<wallet, accounted>>
      \/ /\ report.filled >= accounted[o].filled
         /\ wallet'.base = wallet.base + side /\ wallet'.quote = wallet.quote - 2 * side
         /\ accounted' = [accounted EXCEPT ![o] = [filled |-> report.filled,
                                                   charged |-> report.charged]]
  BY DEF Account, FilledSince
<1>5. /\ \A p \in Orders \ {o} : accounted'[p] = accounted[p]
      /\ accounted[o].filled \in Nat /\ accounted'[o].filled \in Nat
      /\ accounted[o].filled <= accounted'[o].filled /\ report.filled <= accounted'[o].filled
      /\ wallet'.base = wallet.base +
           (IF o \in Buys THEN accounted'[o].filled - accounted[o].filled
            ELSE -(accounted'[o].filled - accounted[o].filled))
      /\ wallet'.quote = wallet.quote - 2 *
           (IF o \in Buys THEN accounted'[o].filled - accounted[o].filled
            ELSE -(accounted'[o].filled - accounted[o].filled))
  <2>1. /\ accounted[o].filled \in Nat /\ accounted'[o].filled \in Nat
        /\ accounted \in [Orders -> Accounts]
        /\ wallet.base \in Int /\ wallet.quote \in Int
    <3> HIDE DEF o
    <3>1. accounted[o] \in Accounts /\ accounted'[o] \in Accounts
      BY <1>2, <1>3 DEF TypeOK
    <3>2. accounted[o].filled \in Nat /\ accounted'[o].filled \in Nat
      BY <3>1, GatewayAssumption DEF Accounts
    <3>3. wallet.base \in Int /\ wallet.quote \in Int /\ accounted \in [Orders -> Accounts]
      BY <1>3 DEF TypeOK
    <3> QED
      BY <3>2, <3>3
  <2>2. CASE report.filled < accounted[o].filled /\ UNCHANGED <<wallet, accounted>>
    BY <1>2, <2>1, <2>2
  <2>3. CASE /\ report.filled >= accounted[o].filled
             /\ wallet'.base = wallet.base + side /\ wallet'.quote = wallet.quote - 2 * side
             /\ accounted' = [accounted EXCEPT ![o] = [filled |-> report.filled,
                                                       charged |-> report.charged]]
    <3>1. accounted'[o].filled = report.filled /\ \A p \in Orders \ {o} : accounted'[p] = accounted[p]
      BY <1>2, <2>1, <2>3
    <3> QED
      BY <1>2, <2>1, <2>3, <3>1
  <2> QED
    BY <1>4, <2>2, <2>3
<1>6. Cached'
  <2> DEFINE gain == accounted'[o].filled - accounted[o].filled
             sold == Orders \ Buys
  <2>1. gain \in Int /\ wallet.base \in Int /\ wallet.quote \in Int
    <3>1. wallet.base \in Int /\ wallet.quote \in Int
      BY <1>3 DEF TypeOK
    <3> QED
      BY <1>5, <3>1
  <2>2. /\ FilledIn(Buys) \in Int
        /\ FilledIn(Buys)' = FilledIn(Buys) + (IF o \in Buys THEN gain ELSE 0)
    BY <1>2, <1>3, <1>5, FilledMoves, GatewayAssumption
  <2>3. /\ FilledIn(sold) \in Int
        /\ FilledIn(sold)' = FilledIn(sold) + (IF o \in sold THEN gain ELSE 0)
    BY <1>2, <1>3, <1>5, FilledMoves
  <2>4. /\ wallet.base = FilledIn(Buys) - FilledIn(sold)
        /\ wallet.quote = 2 * (FilledIn(sold) - FilledIn(Buys))
    BY DEF Books, Cached
  <2>5. /\ wallet'.base = wallet.base + (IF o \in Buys THEN gain ELSE -gain)
        /\ wallet'.quote = wallet.quote - 2 * (IF o \in Buys THEN gain ELSE -gain)
        /\ (o \in Buys <=> o \notin sold)
    BY <1>2, <1>5
  <2> HIDE DEF gain, sold, o
  <2>6. /\ wallet'.base = FilledIn(Buys)' - FilledIn(sold)'
        /\ wallet'.quote = 2 * (FilledIn(sold)' - FilledIn(Buys)')
    BY <2>1, <2>2, <2>3, <2>4, <2>5
  <2> QED
    BY <2>6 DEF Cached, sold
<1>7. Posted'
  <2>1. ASSUME NEW i \in DOMAIN delivered
        PROVE  delivered[i].filled <= accounted'[delivered[i].order].filled
    <3>1. /\ delivered[i].order \in Orders /\ delivered[i].filled \in Nat
          /\ delivered[i].filled <= accounted[delivered[i].order].filled
      BY <1>3, PostedTypes DEF Books, Posted
    <3>2. CASE delivered[i].order = o
      BY <1>5, <3>1, <3>2
    <3>3. CASE delivered[i].order # o
      BY <1>5, <3>1, <3>3
    <3> QED
      BY <3>2, <3>3
  <2> QED
    BY <1>1, <2>1 DEF Books, Posted, Tells, KnownTo
<1>8. Reporting' /\ Fetching'
  BY <1>1, <1>5 DEF Books, Reporting, Fetching, Tells, KnownTo
<1> QED
  BY <1>6, <1>7, <1>8 DEF Books

\* What delivering appends.
LEMMA DeliverAppends ==
  ASSUME Inv, Deliver, delivered' = Append(delivered, report)
  PROVE  /\ report # None /\ report \in Reports /\ Len(delivered) \in Nat
         /\ DOMAIN delivered = 1..Len(delivered) /\ DOMAIN delivered' = 1..Len(delivered) + 1
         /\ \A i \in 1..Len(delivered) : delivered'[i] = delivered[i]
         /\ delivered'[Len(delivered) + 1] = report
<1>1. report # None /\ report \in Reports
  BY DEF Deliver, Inv, Place, TypeOK
<1>2. delivered \in Seq(Reports) /\ Len(delivered) \in Nat /\ DOMAIN delivered = 1..Len(delivered)
  BY LenProperties DEF Inv, TypeOK
<1>3. /\ delivered' \in Seq(Reports) /\ Len(delivered') = Len(delivered) + 1
      /\ \A i \in 1..Len(delivered) : delivered'[i] = delivered[i]
      /\ delivered'[Len(delivered) + 1] = report
  BY <1>1, <1>2, AppendProperties
<1> QED
  BY <1>1, <1>2, <1>3, LenProperties

\* Delivering the report in hand appends it to those posted and accounts nothing.
LEMMA DeliverBooks ==
  ASSUME Inv, Books, Deliver
  PROVE  Books'
<1>1. /\ stage = "deliver" /\ report # None /\ report' = None
      /\ UNCHANGED <<fetched, wallet, accounted, revisions, exchange>>
  BY DEF Deliver, exchangeVars, Inv, Place
<1>2. fetched = None
  BY <1>1 DEF Books, Reporting
<1>3. report.order \in Orders /\ revisions[report.order] \in Nat
  <2>1. report \in Reports
    BY <1>1 DEF Inv, TypeOK
  <2>2. report.order \in Orders
    BY <2>1 DEF Reports
  <2> QED
    BY <2>2, CountTypes DEF Inv
<1>4. Posted'
  <2>1. CASE delivered' = delivered
    BY <1>1, <2>1 DEF Books, Posted, Tells, KnownTo
  <2>2. CASE delivered' = Append(delivered, report)
    <3>1. ASSUME NEW i \in DOMAIN delivered'
          PROVE  /\ delivered'[i].revision <= revisions[delivered'[i].order]
                 /\ delivered'[i].filled <= accounted[delivered'[i].order].filled
                 /\ Tells(delivered'[i]) =>
                      /\ exchange[delivered'[i].order].status \in {"open", "done"}
                      /\ delivered'[i].filled <= exchange[delivered'[i].order].filled
      <4>1. i \in 1..Len(delivered) \/ i = Len(delivered) + 1
        BY <2>2, DeliverAppends
      <4>2. CASE i \in 1..Len(delivered)
        <5>1. i \in DOMAIN delivered /\ delivered'[i] = delivered[i]
          BY <2>2, <4>2, DeliverAppends
        <5> QED
          BY <5>1 DEF Books, Posted, KnownTo
      <4>3. CASE i = Len(delivered) + 1
        <5>1. delivered'[i] = report
          BY <2>2, <4>3, DeliverAppends
        <5> QED
          BY <1>1, <1>3, <5>1 DEF Books, Reporting, KnownTo
      <4> QED
        BY <4>1, <4>2, <4>3
    <3> QED
      BY <1>1, <3>1 DEF Posted, Tells, KnownTo
  <2> QED
    BY <2>1, <2>2 DEF Deliver
<1>5. Reporting' /\ Fetching' /\ Cached'
  BY <1>1, <1>2 DEF Books, Reporting, Fetching, Cached, FilledIn
<1> QED
  BY <1>4, <1>5 DEF Books

\* The books are right at the start: nothing posted, nothing accounted.
LEMMA InitBooks == Init => Books
<1> SUFFICES ASSUME Init PROVE Books
  OBVIOUS
<1>1. Reporting /\ Fetching /\ Posted
  BY EmptySeq DEF Init, Reporting, Fetching, Posted
<1>2. ASSUME NEW S, S \subseteq Orders PROVE FilledIn(S) = 0
  <2> DEFINE g == [o \in S |-> accounted[o].filled]
  <2>1. IsFiniteSet(S)
    BY <1>2, FS_Subset, GatewayAssumption
  <2>2. \A o \in S : g[o] = 0
    BY <1>2 DEF Init, Nothing
  <2>3. g \in [S -> Int]
    BY <2>2
  <2> HIDE DEF g
  <2>4. Sums(g, S)[S] = 0
    BY <2>1, <2>2, <2>3, SumOfZeros
  <2> QED
    BY <2>4 DEF FilledIn, g
<1>3. FilledIn(Buys) = 0 /\ FilledIn(Orders \ Buys) = 0
  BY <1>2, GatewayAssumption
<1>4. Cached
  BY <1>3 DEF Init, Cached
<1> QED
  BY <1>1, <1>4 DEF Books

\* The books are right in every state.
LEMMA BooksKept == Spec => []Books
<1>1. Inv /\ Books /\ [Next]_vars => Books'
  <2> SUFFICES ASSUME Inv, Books, [Next]_vars PROVE Books'
    OBVIOUS
  <2>1. CASE \E o \in Orders : Submit(o) \/ Query(o) \/ Cancel(o)
    BY <2>1, QuietBooks
  <2>2. CASE Take \/ Write \/ Release \/ DestroyIo \/ Gone \/ UNCHANGED vars
    BY <2>2, QuietBooks DEF Gone
  <2>3. CASE Prepare \/ Connect
    BY <2>3, QuietBooks, FailingBooks
  <2>4. CASE TransportFails \/ AnswerInDoubt \/ AnswerRefused
    BY <2>4, FailingBooks
  <2>5. CASE AnswerPosted \/ AnswerOrder \/ AnswerTrades
    BY <2>5, AnswerBooks
  <2>6. CASE AnswerCanceled
    BY <2>6, ExchangeBooks
  <2>7. CASE Account \/ Deliver
    BY <2>7, AccountBooks, DeliverBooks
  <2>8. CASE \E o \in Orders : Arrive(o) \/ Lose(o) \/ Execute(o)
    BY <2>8, QuietBooks, ExchangeBooks
  <2> QED
    BY <2>1, <2>2, <2>3, <2>4, <2>5, <2>6, <2>7, <2>8 DEF Next, Worker
<1> QED
  BY InitBooks, Invariant, <1>1, PTL DEF Spec

\* The balance cache is what it was plus every accounted fill once, and it
\* holds the fills of each report when the report is posted, for any orders and
\* whatever the exchange answers.
THEOREM WalletIsAccounted == Spec => []WalletHoldsReports
<1>1. Books => WalletHoldsReports
  <2> SUFFICES ASSUME Books PROVE WalletHoldsReports
    OBVIOUS
  <2> DEFINE bought == MapThenSumSet(LAMBDA o : accounted[o].filled, Buys)
             sold == MapThenSumSet(LAMBDA o : accounted[o].filled, Orders \ Buys)
  <2>1. bought = FilledIn(Buys) /\ sold = FilledIn(Orders \ Buys)
    BY DEF MapThenSumSet, MapThenFoldSet, FilledIn, Sums, SumBy, Chosen
  <2>2. /\ wallet.base = bought - sold /\ wallet.quote = 2 * (sold - bought)
        /\ \A i \in DOMAIN delivered :
             delivered[i].filled <= accounted[delivered[i].order].filled
    <3> HIDE DEF bought, sold
    <3> QED
      BY <2>1 DEF Books, Cached, Posted
  <2> QED
    BY <2>2 DEF WalletHoldsReports
<1> QED
  BY BooksKept, <1>1, PTL

-----------------------------------------------------------------------------
(***************************************************************************)
(* The gateway's contract.                                                 *)
(***************************************************************************)
\* The orders of the calls that wait.
Waits == [i \in DOMAIN queue |-> queue[i].order]

\* Sequences of orders, as the contract's calls change.
LEMMA CallsMove ==
  ASSUME NEW S, NEW w \in Seq(S), NEW a \in S, NEW b \in S
  PROVE  /\ <<>> \o Append(w, b) = Append(<<>> \o w, b)
         /\ <<a>> \o Append(w, b) = Append(<<a>> \o w, b)
         /\ <<a>> \o w # <<>> /\ Head(<<a>> \o w) = a /\ Tail(<<a>> \o w) = w
         /\ <<>> \o w = w
         /\ w # <<>> => <<Head(w)>> \o Tail(w) = w
<1>1. <<>> \in Seq(S) /\ <<a>> \in Seq(S) /\ <<b>> \in Seq(S) /\ Append(w, b) = w \o <<b>>
  BY EmptySeq, AppendIsConcat
<1>2. /\ <<>> \o w = w /\ <<>> \o Append(w, b) = Append(w, b)
  BY ConcatEmptySeq, AppendProperties
<1>3. <<a>> \o w \in Seq(S)
  BY <1>1, ConcatProperties
<1>4. <<a>> \o Append(w, b) = Append(<<a>> \o w, b)
  BY <1>1, <1>3, ConcatAssociative, AppendIsConcat
<1>5. /\ Len(<<a>> \o w) = 1 + Len(w) /\ Len(w) \in Nat
      /\ \A i \in 1..1 + Len(w) : (<<a>> \o w)[i] = IF i <= 1 THEN a ELSE w[i - 1]
  <2>1. Len(<<a>>) = 1 /\ <<a>>[1] = a /\ Len(w) \in Nat
    BY LenProperties
  <2>2. /\ Len(<<a>> \o w) = Len(<<a>>) + Len(w)
        /\ \A i \in 1..Len(<<a>>) + Len(w) :
             (<<a>> \o w)[i] = IF i <= Len(<<a>>) THEN <<a>>[i] ELSE w[i - Len(<<a>>)]
    BY <1>1, ConcatProperties
  <2>3. ASSUME NEW i \in 1..1 + Len(w)
        PROVE  (<<a>> \o w)[i] = IF i <= 1 THEN a ELSE w[i - 1]
    <3>1. (<<a>> \o w)[i] = IF i <= 1 THEN <<a>>[i] ELSE w[i - 1]
      BY <2>1, <2>2
    <3>2. i <= 1 => i = 1
      BY <2>1
    <3> QED
      BY <2>1, <3>1, <3>2
  <2> QED
    BY <2>1, <2>2, <2>3
<1>6. <<a>> \o w # <<>>
  BY <1>3, <1>5, EmptySeq
<1>7. Head(<<a>> \o w) = a
  BY <1>3, <1>5, <1>6
<1>8. Tail(<<a>> \o w) = w
  <2> DEFINE t == Tail(<<a>> \o w)
  <2>1. /\ t \in Seq(S) /\ Len(t) = Len(w)
        /\ \A i \in 1..Len(t) : t[i] = (<<a>> \o w)[i + 1]
    BY <1>3, <1>5, <1>6, HeadTailProperties
  <2> HIDE DEF t
  <2>2. \A i \in 1..Len(t) : t[i] = w[i]
    BY <1>5, <2>1
  <2>3. t = w
    BY <2>1, <2>2, SeqEqual
  <2> QED
    BY <2>3 DEF t
<1>9. ASSUME w # <<>> PROVE <<Head(w)>> \o Tail(w) = w
  <2> DEFINE r == <<Head(w)>> \o Tail(w)
  <2>1. /\ Head(w) \in S /\ Tail(w) \in Seq(S) /\ Len(Tail(w)) = Len(w) - 1
        /\ \A i \in 1..Len(Tail(w)) : Tail(w)[i] = w[i + 1]
    BY <1>9, HeadTailProperties
  <2>2. Len(w) \in Nat /\ Len(w) # 0 /\ Head(w) = w[1]
    BY <1>9, EmptySeq, LenProperties
  <2>3. <<Head(w)>> \in Seq(S) /\ Len(<<Head(w)>>) = 1 /\ <<Head(w)>>[1] = Head(w)
    BY <2>1
  <2>4. /\ r \in Seq(S) /\ Len(r) = Len(w)
        /\ \A i \in 1..Len(w) : r[i] = IF i <= 1 THEN <<Head(w)>>[i] ELSE Tail(w)[i - 1]
    BY <2>1, <2>2, <2>3, ConcatProperties
  <2>5. ASSUME NEW i \in 1..Len(r) PROVE r[i] = w[i]
    <3> HIDE DEF r
    <3>1. CASE i = 1
      BY <2>2, <2>3, <2>4, <3>1
    <3>2. CASE i # 1
      <4>1. i - 1 \in 1..Len(Tail(w)) /\ (i - 1) + 1 = i /\ ~(i <= 1)
        BY <2>1, <2>2, <2>4, <3>2
      <4> QED
        BY <2>1, <2>4, <4>1
    <3> QED
      BY <3>1, <3>2
  <2>6. r = w
    <3> HIDE DEF r
    <3> QED
      BY <2>4, <2>5, SeqEqual
  <2> QED
    BY <2>6
<1> QED
  BY <1>2, <1>4, <1>6, <1>7, <1>8, <1>9

\* What waits, when a call is appended or taken.
LEMMA WaitsMove ==
  ASSUME TypeOK
  PROVE  /\ Waits \in Seq(Orders)
         /\ \A c \in Operations : queue' = Append(queue, c) => Waits' = Append(Waits, c.order)
         /\ queue # <<>> =>
              /\ Waits # <<>> /\ Head(Waits) = Head(queue).order
              /\ queue' = Tail(queue) => Waits' = Tail(Waits)
<1>1. queue \in Seq(Operations) /\ Len(queue) \in Nat /\ DOMAIN queue = 1..Len(queue)
  BY LenProperties DEF TypeOK
<1>2. \A i \in 1..Len(queue) : queue[i] \in Operations /\ queue[i].order \in Orders
  <2>1. \A i \in 1..Len(queue) : queue[i] \in Operations
    BY <1>1, ElementOfSeq
  <2> QED
    BY <2>1 DEF Operations
<1>3. Waits \in [1..Len(queue) -> Orders]
  BY <1>1, <1>2 DEF Waits
<1>4. Waits \in Seq(Orders) /\ Len(Waits) = Len(queue)
  BY <1>1, <1>3, SeqDef, LenProperties
<1>5. ASSUME NEW c \in Operations, queue' = Append(queue, c)
      PROVE  Waits' = Append(Waits, c.order)
  <2>1. c.order \in Orders
    BY DEF Operations
  <2>2. /\ queue' \in Seq(Operations) /\ Len(queue') = Len(queue) + 1
        /\ \A i \in 1..Len(queue) : queue'[i] = queue[i]
        /\ queue'[Len(queue) + 1] = c
    BY <1>1, <1>5, AppendProperties
  <2>3. DOMAIN queue' = 1..Len(queue) + 1
    BY <2>2, LenProperties
  <2>4. /\ Append(Waits, c.order) \in Seq(Orders)
        /\ Len(Append(Waits, c.order)) = Len(queue) + 1
        /\ \A i \in 1..Len(queue) : Append(Waits, c.order)[i] = Waits[i]
        /\ Append(Waits, c.order)[Len(queue) + 1] = c.order
    BY <1>4, <2>1, AppendProperties
  <2>5. Waits' = [i \in 1..Len(queue) + 1 |-> queue'[i].order]
    BY <2>3 DEF Waits
  <2>6. \A i \in 1..Len(queue) + 1 : Append(Waits, c.order)[i] = queue'[i].order
    BY <1>1, <1>3, <2>2, <2>4 DEF Waits
  <2>7. DOMAIN Append(Waits, c.order) = 1..Len(queue) + 1
    BY <2>4, LenProperties
  <2> QED
    BY <1>1, <2>4, <2>5, <2>6, <2>7, SeqDef
<1>6. ASSUME queue # <<>>
      PROVE  Waits # <<>> /\ Head(Waits) = Head(queue).order
  <2>1. Len(queue) # 0
    BY <1>1, <1>6, EmptySeq
  <2> QED
    BY <1>1, <1>4, <2>1, EmptySeq DEF Waits
<1>7. ASSUME queue # <<>>, queue' = Tail(queue) PROVE Waits' = Tail(Waits)
  <2>1. /\ queue' \in Seq(Operations) /\ Len(queue') = Len(queue) - 1
        /\ \A i \in 1..Len(queue') : queue'[i] = queue[i + 1]
    BY <1>1, <1>7, HeadTailProperties
  <2>2. /\ Tail(Waits) \in Seq(Orders) /\ Len(Tail(Waits)) = Len(queue) - 1
        /\ \A i \in 1..Len(queue) - 1 : Tail(Waits)[i] = Waits[i + 1]
    BY <1>4, <1>6, <1>7, HeadTailProperties
  <2>3. DOMAIN queue' = 1..Len(queue) - 1 /\ DOMAIN Tail(Waits) = 1..Len(queue) - 1
    BY <2>1, <2>2, LenProperties
  <2>4. Waits' = [i \in 1..Len(queue) - 1 |-> queue'[i].order]
    BY <2>3 DEF Waits
  <2>5. \A i \in 1..Len(queue) - 1 : Tail(Waits)[i] = queue'[i].order
    <3>1. \A i \in 1..Len(queue) - 1 : i + 1 \in DOMAIN queue
      BY <1>1
    <3> QED
      BY <1>1, <2>1, <2>2, <3>1 DEF Waits
  <2>6. Tail(Waits) = [i \in 1..Len(queue) - 1 |-> Tail(Waits)[i]]
    <3> DEFINE t == Tail(Waits)
    <3>1. t \in Seq(Orders) /\ Len(t) = Len(queue) - 1
      BY <2>2
    <3> HIDE DEF t
    <3>2. t \in [1..Len(queue) - 1 -> Orders]
      BY <3>1, LenProperties
    <3>3. t = [i \in 1..Len(queue) - 1 |-> t[i]]
      BY <3>2
    <3> QED
      BY <3>3 DEF t
  <2> QED
    BY <2>4, <2>5, <2>6
<1> QED
  BY <1>4, <1>5, <1>6, <1>7

\* The greatest of the positions up to n.
LEMMA MaxOf ==
  ASSUME NEW n \in Nat, NEW S, S \subseteq 1..n
  PROVE  /\ S # {} => Max(S) \in S
         /\ Max(S \cup {n + 1}) = n + 1
<1>1. ASSUME S # {} PROVE Max(S) \in S
  <2> DEFINE R == {k \in Nat : n - k \in S}
  <2>1. R \subseteq Nat /\ R # {}
    <3>1. PICK x \in S : TRUE
      BY <1>1
    <3>2. n - x \in Nat /\ n - (n - x) = x
      BY <3>1
    <3> QED
      BY <3>1, <3>2
  <2>2. PICK m \in R : \A k \in R : m <= k
    <3> HIDE DEF R
    <3> QED
      BY <2>1, NatLeast
  <2>3. n - m \in S /\ \A y \in S : n - m >= y
    <3>1. ASSUME NEW y \in S PROVE n - m >= y
      <4>1. n - y \in Nat /\ n - (n - y) = y
        OBVIOUS
      <4>2. m <= n - y
        BY <2>2, <4>1
      <4> QED
        BY <4>2
    <3> QED
      BY <2>2, <3>1
  <2> QED
    BY <2>3 DEF Max
<1>2. Max(S \cup {n + 1}) = n + 1
  <2> DEFINE T == S \cup {n + 1}
  <2>1. n + 1 \in T /\ \A y \in T : n + 1 >= y
    OBVIOUS
  <2>2. ASSUME NEW x \in T, \A y \in T : x >= y PROVE x = n + 1
    BY <2>2
  <2> HIDE DEF T
  <2>3. Max(T) = n + 1
    BY <2>1, <2>2 DEF Max
  <2> QED
    BY <2>3 DEF T
<1> QED
  BY <1>1, <1>2

\* The reports posted about an order, and those that tell of its fills.
About(o) == {i \in DOMAIN delivered : delivered[i].order = o}
Telling(o) == {i \in About(o) : Tells(delivered[i])}

\* What was told of one order, in terms of the reports about it.
LEMMA ToldIs ==
  \A o : Told(o) =
    [revision |-> IF About(o) = {} THEN 0 ELSE delivered[Max(About(o))].revision,
     filled |-> IF Telling(o) = {} THEN 0 ELSE delivered[Max(Telling(o))].filled,
     rejected |-> \E i \in About(o) : delivered[i].status = "Rejected"]
BY DEF Told, About, Telling

\* The same of the next state.
LEMMA ToldIsNext ==
  \A o : Told(o)' =
    [revision |-> IF About(o)' = {} THEN 0 ELSE delivered'[Max(About(o)')].revision,
     filled |-> IF Telling(o)' = {} THEN 0 ELSE delivered'[Max(Telling(o)')].filled,
     rejected |-> \E i \in About(o)' : delivered'[i].status = "Rejected"]
BY DEF Told, About, Telling, Max

\* A report that is posted follows what was told of its order, and says nothing
\* of another.
LEMMA ToldFollows ==
  ASSUME Inv, Books, Inv', Books', Deliver, delivered' = Append(delivered, report),
         NEW o \in Orders, o = report.order, NEW n, n = Len(delivered)
  PROVE  /\ Gateway!Follows(Told(o)', Told(o))
         /\ \A p \in Orders : p # o => Told(p)' = Told(p)
<1>1. /\ report # None /\ report \in Reports /\ n \in Nat
      /\ DOMAIN delivered = 1..n /\ DOMAIN delivered' = 1..n + 1
      /\ \A i \in 1..n : delivered'[i] = delivered[i]
      /\ delivered'[n + 1] = report
  BY DeliverAppends
<1>2. o \in Orders /\ report.revision \in Nat /\ report.filled \in Nat
  BY <1>1, GatewayAssumption DEF Reports
<1>3. \A p : About(p) \subseteq 1..n /\ Telling(p) \subseteq 1..n
  BY <1>1 DEF About, Telling
<1>4. /\ About(o)' = About(o) \cup {n + 1}
      /\ \A p : p # o => About(p)' = About(p)
  <2>1. About(o)' = {i \in 1..n + 1 : delivered'[i].order = o}
    BY <1>1 DEF About
  <2>2. \A i \in 1..n + 1 : i \in 1..n \/ i = n + 1
    BY <1>1
  <2>3. 1..n \subseteq 1..n + 1 /\ n + 1 \in 1..n + 1
    BY <1>1
  <2>4. About(o)' = About(o) \cup {n + 1}
    BY <1>1, <2>1, <2>2, <2>3 DEF About
  <2>5. ASSUME NEW p, p # o PROVE About(p)' = About(p)
    <3>1. About(p)' = {i \in 1..n + 1 : delivered'[i].order = p}
      BY <1>1 DEF About
    <3> QED
      BY <1>1, <2>2, <2>3, <2>5, <3>1 DEF About
  <2> QED
    BY <2>4, <2>5
<1>5. /\ \A p : p # o => Telling(p)' = Telling(p)
      /\ Tells(report) => Telling(o)' = Telling(o) \cup {n + 1}
      /\ ~Tells(report) => Telling(o)' = Telling(o)
  <2>1. \A p : Telling(p)' = {i \in About(p)' : Tells(delivered'[i])}
    BY DEF Telling, Tells
  <2>2. \A p : \A i \in About(p) : i # n + 1 /\ delivered'[i] = delivered[i]
    BY <1>1, <1>3
  <2>3. ASSUME NEW p, p # o PROVE Telling(p)' = Telling(p)
    <3>1. About(p)' = About(p)
      BY <1>4, <2>3
    <3>2. \A i \in About(p) : delivered'[i] = delivered[i]
      BY <2>2
    <3> QED
      BY <2>1, <3>1, <3>2 DEF Telling
  <2>4. Telling(o)' = {i \in About(o) \cup {n + 1} : Tells(delivered'[i])}
    BY <1>4, <2>1
  <2>5. \A i \in About(o) : Tells(delivered'[i]) <=> Tells(delivered[i])
    BY <2>2
  <2>6. Tells(delivered'[n + 1]) <=> Tells(report)
    BY <1>1
  <2>7. /\ Tells(report) => Telling(o)' = Telling(o) \cup {n + 1}
        /\ ~Tells(report) => Telling(o)' = Telling(o)
    BY <2>4, <2>5, <2>6, Zenon DEF Telling
  <2> QED
    BY <2>3, <2>7
<1>6. ASSUME NEW p \in Orders, p # o PROVE Told(p)' = Told(p)
  <2>1. About(p)' = About(p) /\ Telling(p)' = Telling(p)
    BY <1>4, <1>5, <1>6
  <2>2. About(p) # {} => Max(About(p)) \in About(p)
    BY <1>1, <1>3, MaxOf
  <2>3. Telling(p) # {} => Max(Telling(p)) \in Telling(p)
    BY <1>1, <1>3, MaxOf
  <2>4. \A i \in About(p) \cup Telling(p) : delivered'[i] = delivered[i]
    BY <1>1, <1>3
  <2> QED
    BY <2>1, <2>2, <2>3, <2>4, ToldIs, ToldIsNext
<1>7. Told(o)'.revision > Told(o).revision
  <2>1. Told(o)'.revision = report.revision
    <3>1. Max(About(o)') = n + 1 /\ About(o)' # {}
      BY <1>1, <1>3, <1>4, MaxOf
    <3> QED
      BY <1>1, <3>1, ToldIsNext
  <2>2. CASE About(o) = {}
    BY <1>1, <1>2, <2>1, <2>2, ToldIs DEF Books, Reporting
  <2>3. CASE About(o) # {}
    <3>1. Max(About(o)) \in About(o)
      BY <1>1, <1>3, <2>3, MaxOf
    <3>2. delivered[Max(About(o))].revision < report.revision
      BY <1>1, <3>1 DEF About, Books, Reporting
    <3>3. delivered[Max(About(o))].revision \in Nat
      BY <3>1, PostedTypes DEF About, Inv
    <3> QED
      BY <1>2, <2>1, <2>3, <3>2, <3>3, ToldIs
  <2> QED
    BY <2>2, <2>3
<1>8. Told(o)'.filled >= Told(o).filled
  <2>1. Telling(o) # {} =>
          /\ Max(Telling(o)) \in Telling(o) /\ Max(Telling(o)) \in About(o)
          /\ Max(Telling(o)) \in DOMAIN delivered
    <3>1. Telling(o) # {} => Max(Telling(o)) \in Telling(o)
      BY <1>1, <1>3, MaxOf
    <3> QED
      BY <3>1 DEF Telling, About
  <2>2. Told(o).filled \in Nat
    <3>1. Telling(o) # {} => delivered[Max(Telling(o))].filled \in Nat
      BY <2>1, PostedTypes DEF Inv
    <3> QED
      BY <3>1, ToldIs
  <2>3. CASE Tells(report)
    <3>1. Max(Telling(o)') = n + 1 /\ Telling(o)' # {}
      BY <1>1, <1>3, <1>5, <2>3, MaxOf
    <3>2. Told(o)'.filled = report.filled
      BY <1>1, <3>1, ToldIsNext
    <3>3. Telling(o) # {} => delivered[Max(Telling(o))].filled <= report.filled
      BY <1>1, <2>1, <2>3 DEF Telling, About, Books, Reporting
    <3>4. Told(o).filled = IF Telling(o) = {} THEN 0 ELSE delivered[Max(Telling(o))].filled
      BY ToldIs
    <3> QED
      BY <1>2, <2>2, <3>2, <3>3, <3>4
  <2>4. CASE ~Tells(report)
    <3>1. Telling(o) # {} => delivered'[Max(Telling(o))] = delivered[Max(Telling(o))]
      BY <1>1, <2>1
    <3>2. Told(o)'.filled = Told(o).filled
      BY <1>5, <2>4, <3>1, ToldIs, ToldIsNext
    <3> QED
      BY <2>2, <3>2
  <2> QED
    BY <2>3, <2>4
<1>9. Told(o).rejected => Told(o)'.rejected
  <2>1. \A i \in About(o) : i \in About(o)' /\ delivered'[i] = delivered[i]
    BY <1>1, <1>3, <1>4
  <2> QED
    BY <2>1, ToldIs, ToldIsNext
<1>10. ASSUME Told(o)'.rejected PROVE Told(o)'.filled = 0
  <2>1. PICK i \in About(o)' : delivered'[i].status = "Rejected"
    BY <1>10, ToldIsNext
  <2>2. i \in DOMAIN delivered' /\ delivered'[i].order = o
    BY <2>1 DEF About
  <2>3. exchange'[o].status \notin {"open", "done"}
    BY <2>1, <2>2 DEF Inv, NeverRejectsPlaced, KnownTo
  <2>4. ASSUME NEW j \in Telling(o)' PROVE FALSE
    <3>1. j \in DOMAIN delivered' /\ delivered'[j].order = o /\ Tells(delivered'[j])
      BY DEF Telling, About, Tells
    <3>2. exchange'[o].status \in {"open", "done"}
      BY <3>1 DEF Books, Posted, KnownTo, Tells
    <3> QED
      BY <2>3, <3>2
  <2>5. Telling(o)' = {}
    BY <2>4
  <2> QED
    BY <2>5, ToldIsNext
<1> QED
  BY <1>6, <1>7, <1>8, <1>9, <1>10 DEF Gateway!Follows

\* What the caller has been told, as the contract has it.
Tellings == [o \in Orders |-> Told(o)]

\* What was told depends on the delivered reports only.
LEMMA TellingsStay == UNCHANGED delivered => UNCHANGED Tellings
BY DEF Tellings, Told

\* The open calls are the running operation followed by those that wait.
LEMMA OpenCallsAre ==
  /\ OpenCalls = (IF operation = None THEN <<>> ELSE <<operation.order>>) \o Waits
  /\ OpenCalls' = (IF operation' = None THEN <<>> ELSE <<operation'.order>>) \o Waits'
BY DEF OpenCalls, Waits

\* The open calls depend on the operation and the queue only.
LEMMA OpenCallsStay == UNCHANGED <<operation, queue>> => UNCHANGED OpenCalls
BY DEF OpenCalls

\* The gateway opens as the contract does: nobody called and nothing was told.
LEMMA RefineInit == Init => Gateway!Init
<1> SUFFICES ASSUME Init PROVE Gateway!Init
  OBVIOUS
<1>1. OpenCalls = <<>>
  <2>1. Waits = <<>> /\ <<>> \in Seq(Orders)
    BY EmptySeq DEF Init, Waits
  <2>2. <<>> \o <<>> = <<>>
    BY <2>1, ConcatEmptySeq
  <2> QED
    BY <2>1, <2>2, OpenCallsAre DEF Init
<1>2. \A o \in Orders : Told(o) = Gateway!Untold
  <2>1. \A o : About(o) = {} /\ Telling(o) = {}
    BY EmptySeq DEF Init, About, Telling
  <2> QED
    BY <2>1, ToldIs DEF Gateway!Untold
<1> QED
  BY <1>1, <1>2 DEF Init, Gateway!Init

\* A call opens one more.
LEMMA RefineCall ==
  ASSUME Inv, NEW o \in Orders, Submit(o) \/ Query(o) \/ Cancel(o)
  PROVE  Gateway!Call(o)
<1>1. PICK kind \in {"submit", "query", "cancel"} :
        queue' = Append(queue, [kind |-> kind, order |-> o])
  BY DEF Submit, Query, Cancel, Enqueue
<1>2. UNCHANGED <<operation, delivered, io>>
  BY DEF Submit, Query, Cancel, Enqueue, workVars, bookVars, lifeVars
<1>3. Waits \in Seq(Orders) /\ Waits' = Append(Waits, o)
  <2>1. [kind |-> kind, order |-> o] \in Operations
    BY DEF Operations
  <2> QED
    BY <1>1, <2>1, WaitsMove DEF Inv
<1>4. OpenCalls' = Append(OpenCalls, o)
  <2>1. CASE operation = None
    BY <1>2, <1>3, <2>1, CallsMove, OpenCallsAre
  <2>2. CASE operation # None
    <3>1. operation.order \in Orders
      BY <2>2 DEF Inv, TypeOK, Operations
    <3> QED
      BY <1>2, <1>3, <2>2, <3>1, CallsMove, OpenCallsAre
  <2> QED
    BY <2>1, <2>2
<1> QED
  BY <1>2, <1>4, TellingsStay DEF Gateway!Call, Tellings

\* Taking a call from the queue leaves it open.
LEMMA RefineTake == ASSUME Inv, Take PROVE UNCHANGED Gateway!vars
<1>1. /\ operation = None /\ queue # <<>> /\ operation' = Head(queue) /\ queue' = Tail(queue)
      /\ UNCHANGED <<delivered, io>>
  BY DEF Take, Inv, Place, bookVars, lifeVars
<1>2. operation' \in Operations /\ operation' # None
  <2>1. queue \in Seq(Operations)
    BY DEF Inv, TypeOK
  <2>2. Head(queue) \in Operations
    BY <1>1, <2>1, HeadTailProperties
  <2> QED
    BY <1>1, <2>2, NoneAssumption
<1>3. /\ Waits \in Seq(Orders) /\ Waits # <<>> /\ Head(Waits) = operation'.order
      /\ Waits' = Tail(Waits)
  BY <1>1, WaitsMove DEF Inv
<1>4. operation'.order \in Orders
  BY <1>2 DEF Operations
<1>5. <<operation'.order>> \o Waits' = Waits /\ <<>> \o Waits = Waits
  BY <1>3, <1>4, CallsMove
<1>6. OpenCalls' = OpenCalls
  BY <1>1, <1>2, <1>5, OpenCallsAre
<1> QED
  BY <1>1, <1>6, TellingsStay DEF Gateway!vars, Tellings

\* Delivering answers the call that has been open longest; without an
\* io_context the answer may get lost.
LEMMA RefineDeliver ==
  ASSUME Inv, Books, Inv', Books', Deliver
  PROVE  Gateway!Answer \/ Gateway!Lose
<1>1. /\ report # None /\ operation # None /\ operation' = None
      /\ UNCHANGED <<queue, io>>
  BY DEF Deliver, callVars, Inv, Place
<1>2. operation.order = report.order /\ operation.order \in Orders
  BY <1>1 DEF Books, Reporting, Inv, TypeOK, Operations
<1> DEFINE w == Waits
<1>3. w \in Seq(Orders) /\ Waits' = w
  BY <1>1, WaitsMove DEF Inv, Waits
<1>4. /\ OpenCalls # <<>> /\ Head(OpenCalls) = operation.order /\ Tail(OpenCalls) = w
      /\ OpenCalls' = w
  <2>1. OpenCalls = <<operation.order>> \o w /\ OpenCalls' = <<>> \o w
    BY <1>1, <1>3, OpenCallsAre
  <2> HIDE DEF w
  <2> QED
    BY <1>2, <1>3, <2>1, CallsMove
<1>5. CASE delivered' = delivered /\ ~io
  <2>1. UNCHANGED Tellings
    BY <1>5, TellingsStay
  <2> QED
    BY <1>1, <1>4, <1>5, <2>1 DEF Gateway!Lose, Tellings
<1>6. CASE delivered' = Append(delivered, report)
  <2>1. PICK o \in Orders : o = report.order
    BY <1>2
  <2>2. /\ Gateway!Follows(Told(o)', Told(o))
        /\ \A p \in Orders : p # o => Told(p)' = Told(p)
    BY <1>6, <2>1, ToldFollows
  <2>3. Head(OpenCalls) = o
    BY <1>2, <1>4, <2>1
  <2>4. Tellings' = [p \in Orders |-> Told(p)'] /\ Tellings = [p \in Orders |-> Told(p)]
    BY DEF Tellings
  <2>5. Gateway!Follows(Tellings'[Head(OpenCalls)], Tellings[Head(OpenCalls)])
    BY <2>2, <2>3, <2>4
  <2>6. Tellings' = [Tellings EXCEPT ![Head(OpenCalls)] = Tellings'[Head(OpenCalls)]]
    BY <2>2, <2>3, <2>4
  <2> QED
    BY <1>1, <1>4, <2>5, <2>6 DEF Gateway!Answer, Tellings
<1> QED
  BY <1>5, <1>6 DEF Deliver

\* Every step is one of the contract's or none of its business.
LEMMA RefineNext ==
  ASSUME Inv, Books, Inv', Books', [Next]_vars
  PROVE  [Gateway!Next]_(Gateway!vars)
<1>1. ASSUME UNCHANGED <<operation, queue, delivered, io>> PROVE UNCHANGED Gateway!vars
  BY <1>1, OpenCallsStay, TellingsStay DEF Gateway!vars, Tellings
<1>2. CASE \E o \in Orders : Submit(o) \/ Query(o) \/ Cancel(o)
  BY <1>2, RefineCall DEF Gateway!Next
<1>3. CASE Take
  BY <1>3, RefineTake
<1>4. CASE Prepare \/ Connect \/ Write \/ TransportFails
  BY <1>1, <1>4 DEF Prepare, Connect, Write, TransportFails, Fail, callVars, bookVars, lifeVars
<1>5. CASE AnswerInDoubt \/ AnswerRefused \/ AnswerPosted
  BY <1>1, <1>5 DEF AnswerInDoubt, AnswerRefused, AnswerPosted, Respond, Fail, callVars, lifeVars
<1>6. CASE AnswerCanceled \/ AnswerOrder \/ AnswerTrades \/ Account
  BY <1>1, <1>6 DEF AnswerCanceled, AnswerOrder, AnswerTrades, Account, Respond, callVars,
     bookVars, lifeVars
<1>7. CASE Deliver
  BY <1>7, RefineDeliver DEF Gateway!Next
<1>8. CASE Release
  BY <1>1, <1>8 DEF Release, callVars, workVars, bookVars
<1>9. CASE DestroyIo
  <2>1. UNCHANGED <<operation, queue, delivered>> /\ io = TRUE /\ io' = FALSE
    BY <1>9 DEF DestroyIo, callVars, workVars, bookVars, Inv, TypeOK
  <2>2. Gateway!Close
    BY <2>1, OpenCallsStay, TellingsStay DEF Gateway!Close, Tellings
  <2> QED
    BY <2>2 DEF Gateway!Next
<1>10. CASE \E o \in Orders : Arrive(o) \/ Lose(o) \/ Execute(o)
  BY <1>1, <1>10 DEF Arrive, Lose, Execute, callVars, workVars, bookVars, lifeVars
<1>11. CASE Gone \/ UNCHANGED vars
  BY <1>1, <1>11 DEF Gone, vars, callVars, workVars, bookVars, lifeVars
<1> QED
  BY <1>2, <1>3, <1>4, <1>5, <1>6, <1>7, <1>8, <1>9, <1>10, <1>11 DEF Next, Worker

\* The live gateway keeps what every gateway promises: each call is answered
\* once and in order, and what is told of an order only grows, whatever is lost,
\* refused or unreadable on the way.
THEOREM GatewayIsKept == Spec => ImplementsGateway
BY RefineInit, RefineNext, Invariant, BooksKept, PTL DEF Spec, ImplementsGateway, Gateway!Spec

=============================================================================

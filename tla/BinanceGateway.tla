---------------------------- MODULE BinanceGateway ----------------------------
(***************************************************************************)
(* The live gateway of src/execution/binance_gateway.cpp: calls are queued *)
(* for one worker thread, which does one HTTPS request after another over  *)
(* a connection it keeps, accounts the result in the wallet cache and      *)
(* posts the report to the executor's io_context.                          *)
(*                                                                         *)
(* The exchange is external: a request that was written may reach it, be   *)
(* lost or arrive after the client gave up, and whatever it answers may be *)
(* lost or unreadable.  Orders have one market; a unit costs two quote     *)
(* units and one unit of commission.                                       *)
(***************************************************************************)
EXTENDS Integers, Sequences, FiniteSets, FiniteSetsExt

CONSTANTS
  Orders,      \* client order ids, each submitted at most once
  Buys,        \* the orders that buy the base asset
  Size,        \* quantity of each order
  CallBound,   \* bound: submit(), query() and cancel() calls in one behaviour
  None

ASSUME GatewayAssumption ==
  /\ IsFiniteSet(Orders) /\ Buys \subseteq Orders /\ None \notin Orders
  /\ Size \in Nat \ {0} /\ CallBound \in Nat

VARIABLES
  queue,        \* operations waiting for the worker
  operation,    \* the operation the worker runs, or None
  request,      \* "none", or the request of the operation being made
  stage,        \* where the worker is in it
  connection,   \* the HTTPS connection: "none" or "open"
  fetched,      \* query_now(): what GET /order answered, or None
  report,       \* the report being made, or None
  wallet,       \* the cached balances, as changes since construction
  accounted,    \* accounted_reports, by order
  revisions,    \* revisions, by order
  delivered,    \* history: reports posted to callback_io, in order
  submitted,    \* orders submitted so far
  calls,        \* calls made so far
  transit,      \* external: POSTs written and not yet at the exchange
  exchange,     \* external: what the exchange knows, by order
  owned,        \* main still holds the gateway
  io,           \* callback_io still exists
  destroyed_by  \* the thread ~Impl ran on, or None

callVars == <<queue, submitted, calls>>
workVars == <<operation, request, stage, connection, fetched, report>>
bookVars == <<wallet, accounted, revisions, delivered>>
exchangeVars == <<transit, exchange>>
lifeVars == <<owned, io, destroyed_by>>
vars == <<callVars, workVars, bookVars, exchangeVars, lifeVars>>

Operations == [kind : {"submit", "query", "cancel"}, order : Orders]
Accounts == [filled : 0..Size, charged : 0..Size]
ExchangeOrders == [status : {"unknown", "refused", "open", "done"}, filled : 0..Size]
Statuses == {"Open", "Filled", "Expired", "Rejected", "Unknown"}
Reports ==
  [order : Orders, revision : Nat, status : Statuses, filled : 0..Size,
   charged : 0..Size, complete : BOOLEAN]

ASSUME NoneAssumption == None \notin Operations \cup ExchangeOrders \cup Reports

Nothing == [filled |-> 0, charged |-> 0]

Init ==
  /\ queue = <<>> /\ operation = None /\ request = "none" /\ stage = "idle"
  /\ connection = "open"      \* left open by refresh_balances()
  /\ fetched = None /\ report = None
  /\ wallet = [base |-> 0, quote |-> 0, fee |-> 0]
  /\ accounted = [o \in Orders |-> Nothing]
  /\ revisions = [o \in Orders |-> 0]
  /\ delivered = <<>> /\ submitted = {} /\ calls = 0
  /\ transit = {}
  /\ exchange = [o \in Orders |-> [status |-> "unknown", filled |-> 0]]
  /\ owned = TRUE /\ io = TRUE /\ destroyed_by = None

-----------------------------------------------------------------------------
(***************************************************************************)
(* submit(), query() and cancel(), called on the io_context thread.        *)
(***************************************************************************)
Enqueue(kind, o) ==
  /\ owned /\ calls < CallBound
  /\ queue' = Append(queue, [kind |-> kind, order |-> o])
  /\ calls' = calls + 1
  /\ UNCHANGED <<workVars, bookVars, exchangeVars, lifeVars>>

Submit(o) ==
  /\ o \notin submitted /\ submitted' = submitted \cup {o}
  /\ Enqueue("submit", o)
Query(o) == o \in submitted /\ UNCHANGED submitted /\ Enqueue("query", o)
Cancel(o) == o \in submitted /\ UNCHANGED submitted /\ Enqueue("cancel", o)

-----------------------------------------------------------------------------
(***************************************************************************)
(* The worker.                                                             *)
(***************************************************************************)
FirstRequest(kind) ==
  CASE kind = "submit" -> "POST" [] kind = "query" -> "GET order" [] kind = "cancel" -> "DELETE"

Take ==
  /\ stage = "idle" /\ queue # <<>>
  /\ operation' = Head(queue) /\ queue' = Tail(queue)
  /\ request' = FirstRequest(Head(queue).kind)
  /\ stage' = "prepare"
  /\ UNCHANGED <<submitted, calls, connection, fetched, report, bookVars, exchangeVars, lifeVars>>

\* failure_report() and the catch blocks: revisions counts every report.
RevisionOfLast(o) == revisions[o]
RevisionOfNext(o) == revisions[o] + 1

MakeReport(status, filled, charged, complete) ==
  LET o == operation.order IN
  /\ revisions' = [revisions EXCEPT ![o] = RevisionOfNext(o)]
  /\ report' = [order |-> o, revision |-> revisions'[o], status |-> status,
                filled |-> filled, charged |-> charged, complete |-> complete]

SwallowsFailure == "idle"
ReportsFailure == "deliver"

\* A submission fails as Unknown or Rejected; query and cancel always as Unknown.
Fail(uncertain) ==
  /\ MakeReport(IF operation.kind = "submit" /\ ~uncertain THEN "Rejected" ELSE "Unknown",
                0, 0, TRUE)
  /\ stage' = ReportsFailure /\ request' = "none" /\ fetched' = None
  /\ UNCHANGED <<operation, wallet, accounted, delivered>>

\* Parameters and signature: an error here is local and certain.
Prepare ==
  /\ stage = "prepare"
  /\ UNCHANGED <<callVars, connection, exchangeVars, lifeVars>>
  /\ \/ stage' = "connect" /\ UNCHANGED <<operation, request, fetched, report, bookVars>>
     \/ Fail(FALSE)

Connect ==
  /\ stage = "connect"
  /\ UNCHANGED <<callVars, exchangeVars, lifeVars>>
  /\ \/ /\ connection' = "open" /\ stage' = "write"
        /\ UNCHANGED <<operation, request, fetched, report, bookVars>>
     \/ /\ connection = "none" /\ connection' = "none"
        /\ Fail(FALSE)

\* request(): once the write began nobody knows whether a POST was taken.
CertainAlways == FALSE
Uncertain == request = "POST"

Written == transit' = IF request = "POST" THEN transit \cup {operation.order} ELSE transit

Write ==
  /\ stage = "write"
  /\ Written
  /\ stage' = "read"
  /\ UNCHANGED <<callVars, operation, request, connection, fetched, report, bookVars,
                 exchange, lifeVars>>

\* The write or the read throws; the request may still have been sent whole.
TransportFails ==
  /\ stage \in {"write", "read"}
  /\ \/ UNCHANGED transit
     \/ stage = "write" /\ Written
  /\ connection' = "none"
  /\ Fail(Uncertain)
  /\ UNCHANGED <<callVars, exchange, lifeVars>>

\* A response was read; the server may close after it.
Respond ==
  /\ connection' \in {"open", "none"}
  /\ UNCHANGED <<callVars, exchangeVars, lifeVars>>

\* checked(): a 5xx, -1006 or -1007 answer, or a 2xx body that is not JSON,
\* leaves a submission in doubt.  So does a JSON body that parse_order()
\* cannot read.
AnswerInDoubt ==
  /\ stage = "read"
  /\ Respond
  /\ Fail(Uncertain)

KnownTo(o) == exchange[o].status \in {"open", "done"}

\* Any other error answer: the exchange says that it did not do it.
AnswerRefused ==
  LET o == operation.order IN
  /\ stage = "read"
  /\ \/ request = "POST" /\ exchange[o].status = "refused"
     \/ request = "DELETE" /\ exchange[o].status # "open"
     \/ request = "GET order" /\ ~KnownTo(o)
  /\ Respond
  /\ Fail(FALSE)

StatusOf(order) ==
  IF order.status = "open" THEN "Open"
  ELSE IF order.filled = Size THEN "Filled" ELSE "Expired"

\* The FULL response of a POST carries every fill with its commission.
AnswerPosted ==
  LET order == exchange[operation.order] IN
  /\ stage = "read" /\ request = "POST" /\ KnownTo(operation.order)
  /\ Respond
  /\ MakeReport(StatusOf(order), order.filled, order.filled, TRUE)
  /\ stage' = "account" /\ request' = "none"
  /\ UNCHANGED <<operation, fetched, wallet, accounted, delivered>>

\* cancel_order(): once the exchange took the DELETE, query_now() follows.
AnswerCanceled ==
  LET o == operation.order IN
  /\ stage = "read" /\ request = "DELETE" /\ exchange[o].status = "open"
  /\ connection' \in {"open", "none"}
  /\ exchange' = [exchange EXCEPT ![o].status = "done"]
  /\ request' = "GET order" /\ stage' = "connect"
  /\ UNCHANGED <<callVars, operation, fetched, report, bookVars, transit, lifeVars>>

AnswerOrder ==
  LET order == exchange[operation.order] IN
  /\ stage = "read" /\ request = "GET order" /\ KnownTo(operation.order)
  /\ Respond
  /\ UNCHANGED <<operation, wallet, accounted, delivered>>
  /\ \/ /\ order.filled > 0
        /\ fetched' = order /\ request' = "GET trades" /\ stage' = "connect"
        /\ UNCHANGED <<report, revisions>>
     \/ /\ order.filled = 0
        /\ MakeReport(StatusOf(order), 0, 0, TRUE)
        /\ stage' = "account" /\ request' = "none" /\ UNCHANGED fetched

\* The trades the exchange lists may lag behind the order's executedQty.
AnswerTrades ==
  /\ stage = "read" /\ request = "GET trades"
  /\ Respond
  /\ \E listed \in 0..exchange[operation.order].filled :
       MakeReport(StatusOf(fetched), fetched.filled, listed, listed = fetched.filled)
  /\ stage' = "account" /\ request' = "none" /\ fetched' = None
  /\ UNCHANGED <<operation, wallet, accounted, delivered>>

\* apply_report(): deltas of the cumulative values.  A report without trades
\* lists no commission, and then none is adjusted.
FilledSinceStart(o) == report.filled
FilledSince(o) == report.filled - accounted[o].filled

Account ==
  LET o == report.order
      units == FilledSince(o)
      side == IF o \in Buys THEN units ELSE -units
  IN
  /\ stage = "account" /\ stage' = "deliver"
  /\ UNCHANGED <<callVars, operation, request, connection, fetched, report, revisions,
                 delivered, exchangeVars, lifeVars>>
  /\ \/ /\ report.filled < accounted[o].filled
        /\ UNCHANGED <<wallet, accounted>>
     \/ /\ report.filled >= accounted[o].filled
        /\ wallet' = [base |-> wallet.base + side, quote |-> wallet.quote - 2 * side,
                      fee |-> IF report.charged = 0 THEN wallet.fee
                              ELSE wallet.fee - (report.charged - accounted[o].charged)]
        /\ accounted' = [accounted EXCEPT ![o] = [filled |-> report.filled,
                                                  charged |-> report.charged]]

Holders == Len(queue) + (IF operation = None THEN 0 ELSE 1)

\* The report is posted and the operation destroyed; when nobody else holds
\* the gateway any more, ~Impl runs here.  Posting to an io_context that is
\* gone is undefined: the report may or may not get anywhere.
Deliver ==
  /\ stage = "deliver"
  /\ \/ delivered' = Append(delivered, report)
     \/ ~io /\ UNCHANGED delivered
  /\ report' = None /\ operation' = None
  /\ stage' = "idle"
  /\ destroyed_by' = IF ~owned /\ queue = <<>> THEN "worker" ELSE destroyed_by
  /\ UNCHANGED <<callVars, request, connection, fetched, wallet, accounted, revisions,
                 exchangeVars, owned, io>>

Worker ==
  \/ Take \/ Prepare \/ Connect \/ Write \/ TransportFails
  \/ AnswerInDoubt \/ AnswerRefused \/ AnswerPosted \/ AnswerCanceled
  \/ AnswerOrder \/ AnswerTrades \/ Account \/ Deliver

-----------------------------------------------------------------------------
(***************************************************************************)
(* The end of main(): the gateway is released, then the io_context goes.   *)
(* Every queued or running operation keeps the gateway alive.              *)
(***************************************************************************)
Release ==
  /\ owned /\ owned' = FALSE
  /\ destroyed_by' = IF Holders = 0 THEN "main" ELSE destroyed_by
  /\ UNCHANGED <<callVars, workVars, bookVars, exchangeVars, io>>

DestroyIo ==
  /\ ~owned /\ io
  /\ io' = FALSE
  /\ UNCHANGED <<callVars, workVars, bookVars, exchangeVars, owned, destroyed_by>>

(***************************************************************************)
(* The exchange.                                                           *)
(***************************************************************************)
Arrive(o) ==
  /\ o \in transit /\ transit' = transit \ {o}
  /\ exchange' \in {[exchange EXCEPT ![o] = [status |-> s, filled |-> f]] :
                      s \in {"open", "done"}, f \in 0..Size}
                   \cup {[exchange EXCEPT ![o].status = "refused"]}
  /\ UNCHANGED <<callVars, workVars, bookVars, lifeVars>>

Lose(o) ==
  /\ o \in transit /\ transit' = transit \ {o}
  /\ UNCHANGED <<callVars, workVars, bookVars, exchange, lifeVars>>

Execute(o) ==
  /\ exchange[o].status = "open"
  /\ exchange' \in {[exchange EXCEPT ![o] = [status |-> s, filled |-> f]] :
                      s \in {"open", "done"}, f \in exchange[o].filled..Size}
  /\ exchange' # exchange
  /\ UNCHANGED <<callVars, workVars, bookVars, transit, lifeVars>>

Gone == ~io /\ stage = "idle" /\ queue = <<>> /\ UNCHANGED vars

Next ==
  \/ \E o \in Orders : Submit(o) \/ Query(o) \/ Cancel(o)
  \/ Worker \/ Release \/ DestroyIo
  \/ \E o \in Orders : Arrive(o) \/ Lose(o) \/ Execute(o)
  \/ Gone

Spec == Init /\ [][Next]_vars

-----------------------------------------------------------------------------
TypeOK ==
  /\ queue \in Seq(Operations) /\ operation \in Operations \cup {None}
  /\ request \in {"none", "POST", "DELETE", "GET order", "GET trades"}
  /\ stage \in {"idle", "prepare", "connect", "write", "read", "account", "deliver"}
  /\ connection \in {"none", "open"}
  /\ fetched \in ExchangeOrders \cup {None} /\ report \in Reports \cup {None}
  /\ wallet \in [base : Int, quote : Int, fee : Int]
  /\ accounted \in [Orders -> Accounts] /\ revisions \in [Orders -> Nat]
  /\ delivered \in Seq(Reports) /\ submitted \in SUBSET Orders /\ calls \in Nat
  /\ transit \in SUBSET Orders /\ exchange \in [Orders -> ExchangeOrders]
  /\ owned \in BOOLEAN /\ io \in BOOLEAN /\ destroyed_by \in {None, "main", "worker"}

\* "An uncertain submission is Unknown, never Rejected" (execution.hpp): the
\* exchange never holds, nor will ever see, an order reported as rejected.
NeverRejectsPlaced ==
  \A i \in DOMAIN delivered :
    delivered[i].status = "Rejected" =>
      ~KnownTo(delivered[i].order) /\ delivered[i].order \notin transit

Tells(r) == r.status \in {"Open", "Filled", "Expired"}

\* The balance cache is what it was plus every fill once, and it already holds
\* the fills of each report when the report is posted: the next cycle checks
\* its budget against it.
WalletHoldsReports ==
  LET bought == MapThenSumSet(LAMBDA o : accounted[o].filled, Buys)
      sold == MapThenSumSet(LAMBDA o : accounted[o].filled, Orders \ Buys)
  IN
  /\ wallet.base = bought - sold /\ wallet.quote = 2 * (sold - bought)
  /\ \A i \in DOMAIN delivered :
       delivered[i].filled <= accounted[delivered[i].order].filled

\* "All methods/callbacks run on the SAME single io_context thread"
\* (execution.hpp): so does the destructor, which joins the worker.
EndsOnIoThread == destroyed_by # "worker"

(***************************************************************************)
(* The gateway's contract: the operations still held are the open calls,   *)
(* and an Unknown report tells nothing of the fills.                       *)
(***************************************************************************)
OpenCalls ==
  (IF operation = None THEN <<>> ELSE <<operation.order>>)
    \o [i \in DOMAIN queue |-> queue[i].order]

Told(o) ==
  LET about == {i \in DOMAIN delivered : delivered[i].order = o}
      telling == {i \in about : Tells(delivered[i])}
  IN [revision |-> IF about = {} THEN 0 ELSE delivered[Max(about)].revision,
      filled |-> IF telling = {} THEN 0 ELSE delivered[Max(telling)].filled,
      rejected |-> \E i \in about : delivered[i].status = "Rejected"]

Gateway ==
  INSTANCE OrderGateway WITH
    calls <- OpenCalls, told <- [o \in Orders |-> Told(o)], alive <- io

\* Calls are answered once and in order, and reports reach the executor in the
\* order it can use: revisions grow, fills never shrink and a rejected order
\* never turns up, whatever queries and cancels are mixed with the submissions.
ImplementsGateway == Gateway!Spec

\* Liveness: no network call of the worker blocks for ever.
FairSpec == Spec /\ WF_vars(Worker)

\* Every call is answered by a callback of its own, failures included, as long
\* as there is an io_context to post it to: calls are bounded, so in the end
\* there are as many reports as calls.
EveryCallAnswered == <>[](io => Len(delivered) = calls)
=============================================================================

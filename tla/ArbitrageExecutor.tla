-------------------------- MODULE ArbitrageExecutor --------------------------
(***************************************************************************)
(* The execution state machine of src/execution/execution.cpp together     *)
(* with the single-threaded loop of src/main.cpp that drives it.           *)
(*                                                                         *)
(* The main thread alternates io.poll(), which runs every queued handler   *)
(* in FIFO order, and receiver.process(), which may call try_start().      *)
(* Timers only enter the queue while poll() runs the reactor; REST results *)
(* are posted by the gateway's worker at any moment.                       *)
(*                                                                         *)
(* Prices, sizes and fees are small integers, every fill is at the limit   *)
(* price, balance, preflight and exchange-filter verdicts are free.  The   *)
(* seven order statuses are kept as the four classes the executor can tell *)
(* apart: Open (with PartiallyFilled), Filled, Canceled (with Expired and  *)
(* Rejected) and Unknown.                                                  *)
(***************************************************************************)
EXTENDS Integers, Sequences, FiniteSets

CONSTANTS
  Assets,           \* every asset name, "USDT" and "BNB" among them
  Path,             \* the legs of the accepted opportunity, in order
  ExitLegs,         \* the legs startup clearing may use, by asset
  Budget,           \* opportunity.input_usdt
  InitialBalances,  \* gateway.balances() when startup clearing begins
  MaxCycles,        \* options.max_cycles, 0 for unlimited
  MaxClearOrders,   \* options.max_initial_clear_orders
  FirstLegStop,     \* TRUE: the temporary stop after leg 0 is compiled in
  UserStream,       \* TRUE: somebody calls the public on_report()
  Startup,          \* TRUE: somebody calls start_initial_cleanup()
  CycleBound,       \* bound: cycles accepted in one behaviour
  ReplyBound,       \* bound: reports the gateway makes about one order
  None

Legs == [base : Assets, quote : Assets, buy : BOOLEAN, price : Nat \ {0}]
Orders == [id : Nat \X Nat, clear : BOOLEAN, leg : Legs, quantity : Nat]

Received(leg) == IF leg.buy THEN leg.base ELSE leg.quote
Spent(leg) == IF leg.buy THEN leg.quote ELSE leg.base

ASSUME AssetsAssumption == IsFiniteSet(Assets) /\ {"USDT", "BNB"} \subseteq Assets
ASSUME PathAssumption ==
  /\ Path \in Seq(Legs) /\ Path # <<>>
  /\ \A i \in DOMAIN Path : Path[i].base # Path[i].quote
ASSUME ExitAssumption ==
  /\ DOMAIN ExitLegs \subseteq Assets \ {"USDT", "BNB"}
  /\ \A a \in DOMAIN ExitLegs :
       /\ ExitLegs[a] \in Legs /\ ExitLegs[a].base # ExitLegs[a].quote
       /\ Spent(ExitLegs[a]) = a
ASSUME BoundAssumption ==
  /\ Budget \in Nat /\ MaxCycles \in Nat /\ MaxClearOrders \in Nat
  /\ CycleBound \in Nat /\ ReplyBound \in Nat
  /\ InitialBalances \in [Assets -> Nat]
ASSUME SwitchAssumption ==
  FirstLegStop \in BOOLEAN /\ UserStream \in BOOLEAN /\ Startup \in BOOLEAN
ASSUME NoneAssumption == None \notin Orders /\ None \notin [cycle : Nat, clears : Nat]

VARIABLES
  state, pending, accounted, holdings,
  carried,            \* history: holdings when the pending order was sent
  gateway_busy, waiting_gateway, failed, cycle_submitted,
  leg_number, order_number,
  accepted, submitted_cycles, completed, failures,
  timeout,            \* None, or the tag of the order or cycle it was armed for
  cleanup_wait,       \* the 50 ms timer is armed
  cleanup_started, cleanup_done, cleanup_processed, clear_orders,
  deadline_passed,    \* cleanup_deadline_ns is in the past
  stopping,
  phase,              \* where the main loop is: "poll", "process", "exited"
  ready,              \* the io_context's queue of runnable handlers
  signalled,          \* SIGINT has been delivered to the signal_set
  live                \* orders the gateway may still report about

dataVars == <<accounted, holdings, carried>>
submitVars == <<cycle_submitted, submitted_cycles, live>>
outcomeVars == <<state, pending, gateway_busy, waiting_gateway, failed,
                 completed, failures, timeout, cleanup_wait>>
cleanupVars == <<cleanup_started, cleanup_done, cleanup_processed,
                 clear_orders, deadline_passed>>
slotVars == <<outcomeVars, dataVars, submitVars, leg_number, order_number>>
vars == <<slotVars, cleanupVars, accepted, stopping, phase, ready, signalled>>

States == {"IDLE", "VALIDATING", "LEG_PENDING", "CLEARING", "HALTED"}
Statuses == {"Open", "Filled", "Canceled", "Unknown"}
Reports == [revision : Nat, status : Statuses, filled : Nat,
            commission : [Assets -> Nat], complete : BOOLEAN]
Accounts == [revision : Nat, filled : Nat, commission : [Assets -> Nat]]
Tags == [cycle : Nat, clears : Nat]
Handlers ==
  [kind : {"begin", "wait", "stop"}]
    \cup [kind : {"timeout"}, tag : Tags]
    \cup [kind : {"report", "stream"}, id : Nat \X Nat]
LiveOrders == [id : Nat \X Nat, replies : Nat, running : BOOLEAN]

Terminal(status) == status \in {"Filled", "Canceled"}
NoFee == [a \in Assets |-> 0]
Empty == [a \in Assets |-> 0]
NoReport == [revision |-> 0, filled |-> 0, commission |-> NoFee]

(***************************************************************************)
(* What a cumulative report means for one asset's holdings.                *)
(***************************************************************************)
Traded(leg, account, a) ==
  (IF a # leg.base THEN 0 ELSE IF leg.buy THEN account.filled ELSE -account.filled)
  + (IF a # leg.quote THEN 0
     ELSE IF leg.buy THEN -(leg.price * account.filled) ELSE leg.price * account.filled)

Effect(leg, account, a) == Traded(leg, account, a) - account.commission[a]

\* The deltas report() applies: the new cumulative values less the accounted
\* ones.  An asset the report does not list is one with commission zero.
SettleWhole(v) ==
  [a \in Assets |-> holdings[a] + Effect(pending.leg, v, a)]
Settle(v) ==
  [a \in Assets |->
    holdings[a] + Traded(pending.leg, v, a) - Traded(pending.leg, accounted, a)
    - (IF v.commission[a] = 0 THEN 0 ELSE v.commission[a] - accounted.commission[a])]
AccountOf(v) ==
  [revision |-> v.revision, filled |-> v.filled, commission |-> v.commission]

\* prepare_fast(): spend the whole amount, rounded down to the step (one unit).
Quantity(leg, amount) == IF leg.buy THEN amount \div leg.price ELSE amount

-----------------------------------------------------------------------------
Init ==
  /\ state = "IDLE" /\ pending = None
  /\ accounted = NoReport /\ holdings = Empty /\ carried = Empty
  /\ gateway_busy = FALSE /\ waiting_gateway = FALSE
  /\ failed = FALSE /\ cycle_submitted = FALSE
  /\ leg_number = 0 /\ order_number = 0
  /\ accepted = 0 /\ submitted_cycles = 0 /\ completed = 0 /\ failures = 0
  /\ timeout = None /\ cleanup_wait = FALSE
  /\ cleanup_started = FALSE /\ cleanup_done = FALSE /\ cleanup_processed = {}
  /\ clear_orders = 0 /\ deadline_passed = FALSE
  /\ stopping = FALSE /\ phase = "process" /\ ready = <<>> /\ signalled = FALSE
  /\ live = {}

(***************************************************************************)
(* Outcomes.  busy and order are the values gateway_busy and pending have  *)
(* when the code reaches the call.                                         *)
(***************************************************************************)
Halt(busy, order) ==
  /\ timeout' = None /\ cleanup_wait' = FALSE
  /\ state' = "HALTED" /\ failures' = failures + 1
  /\ gateway_busy' = busy /\ pending' = order
  /\ UNCHANGED <<waiting_gateway, failed, completed>>

\* A failed cycle keeps its slot while its REST task runs.
KeepsNothing(busy) == FALSE
KeepsForEver(busy) == TRUE
KeepsSlot(busy) == busy

\* A cycle that already failed is not counted again by its late answer.
CountsEveryTime == TRUE
CountsFailure == ~waiting_gateway

FailCycle(busy, order) ==
  /\ timeout' = None /\ cleanup_wait' = FALSE
  /\ failed' = TRUE
  /\ failures' = IF CountsFailure THEN failures + 1 ELSE failures
  /\ gateway_busy' = busy /\ waiting_gateway' = KeepsSlot(busy)
  /\ state' = IF KeepsSlot(busy) THEN state ELSE "IDLE"
  /\ pending' = IF KeepsSlot(busy) THEN order ELSE None
  /\ UNCHANGED completed

Finish(fails, leg, busy) ==
  /\ timeout' = None /\ pending' = None /\ state' = "IDLE"
  /\ failed' = fails /\ gateway_busy' = busy
  /\ failures' = IF fails THEN failures + 1 ELSE failures
  /\ completed' = IF ~fails /\ leg = Len(Path) THEN completed + 1 ELSE completed
  /\ UNCHANGED <<waiting_gateway, cleanup_wait>>

\* fail_cycle for an arbitrage order, halt for a clearing order.
Abandon(busy, order) ==
  \/ order.clear /\ Halt(busy, order)
  \/ ~order.clear /\ FailCycle(busy, order)

(***************************************************************************)
(* send(): the order is numbered and becomes pending, then the gateway     *)
(* takes it or throws.  amounts is holdings when the call is made, timer   *)
(* the value timeout has then.                                             *)
(***************************************************************************)
Send(clear, leg, quantity, amounts, timer) ==
  LET order == [id |-> <<accepted, order_number + 1>>, clear |-> clear,
                leg |-> leg, quantity |-> quantity]
  IN
  /\ order_number' = order_number + 1
  /\ accounted' = NoReport /\ holdings' = amounts /\ carried' = amounts
  /\ \/ /\ state' = IF clear THEN "CLEARING" ELSE "LEG_PENDING"
        /\ pending' = order /\ gateway_busy' = TRUE /\ timeout' = timer
        /\ live' = live \cup {[id |-> order.id, replies |-> 0, running |-> TRUE]}
        /\ cycle_submitted' = (cycle_submitted \/ ~clear)
        /\ submitted_cycles' = IF ~clear /\ ~cycle_submitted
                               THEN submitted_cycles + 1 ELSE submitted_cycles
        /\ UNCHANGED <<waiting_gateway, failed, completed, failures, cleanup_wait>>
     \/ /\ Abandon(FALSE, order)
        /\ UNCHANGED submitVars

\* next_leg(): all legs done, the leg cannot be sized, or its order is sent.
NextLeg(leg, amounts, account, busy) ==
  /\ leg_number' = leg
  /\ \/ /\ leg = Len(Path)
        /\ Finish(failed, leg, busy)
        /\ accounted' = account /\ holdings' = amounts
        /\ UNCHANGED <<carried, order_number, submitVars>>
     \/ /\ leg < Len(Path)
        /\ Finish(TRUE, leg, busy)
        /\ accounted' = account /\ holdings' = amounts
        /\ UNCHANGED <<carried, order_number, submitVars>>
     \/ /\ leg < Len(Path)
        /\ LET l == Path[leg + 1]
               q == Quantity(l, amounts[Spent(l)])
           IN q > 0 /\ Send(FALSE, l, q, amounts, timeout)

(***************************************************************************)
(* clear_initial_position(): one pass over the initial assets.  The pass   *)
(* ends at the first asset it can sell; otherwise it waits for books that  *)
(* are still missing, or is over.  The std::map order of the assets is     *)
(* abstracted: any unprocessed asset may be the first that can be sold,    *)
(* any subset may have been skipped before it.                             *)
(***************************************************************************)
Unprocessed(amounts) == {a \in Assets : amounts[a] > 0} \ cleanup_processed

ClearsOneTooMany == clear_orders <= MaxClearOrders
MayClear == clear_orders < MaxClearOrders

WaitsForEver == TRUE
MayWait == ~deadline_passed

ClearInitialPosition(amounts, account, st, timer, busy) ==
  LET left == Unprocessed(amounts)
      sellable == left \cap DOMAIN ExitLegs
  IN
  /\ UNCHANGED <<leg_number, deadline_passed>>
  /\ \/ \E a \in sellable, skipped \in SUBSET left :
          LET leg == ExitLegs[a]
          IN
          /\ a \notin skipped
          /\ MayClear
          /\ cleanup_processed' = cleanup_processed \cup skipped \cup {a}
          /\ clear_orders' = clear_orders + 1
          /\ \E q \in 1..Quantity(leg, amounts[a]) :
               Send(TRUE, leg, q, amounts, [cycle |-> accepted, clears |-> clear_orders + 1])
          /\ UNCHANGED cleanup_done
     \/ \E waiting \in SUBSET sellable \ {{}} :
          /\ MayWait
          /\ cleanup_processed' = cleanup_processed \cup (left \ waiting)
          /\ cleanup_wait' = TRUE /\ state' = st /\ timeout' = timer
          /\ pending' = None /\ gateway_busy' = busy
          /\ accounted' = account /\ holdings' = amounts
          /\ UNCHANGED <<carried, order_number, submitVars, waiting_gateway, failed,
                         completed, failures, clear_orders, cleanup_done>>
     \/ /\ cleanup_processed' = cleanup_processed \cup left
        /\ cleanup_wait' = FALSE /\ timeout' = None /\ cleanup_done' = TRUE
        /\ state' = "IDLE" /\ pending' = None /\ gateway_busy' = busy
        /\ accounted' = account /\ holdings' = Empty
        /\ UNCHANGED <<carried, order_number, submitVars, waiting_gateway, failed,
                       completed, failures, clear_orders>>

-----------------------------------------------------------------------------
(***************************************************************************)
(* Calls made by the main thread outside io.poll().                        *)
(***************************************************************************)
CapOneTooMany == MaxCycles = 0 \/ submitted_cycles <= MaxCycles
CapAllows == MaxCycles = 0 \/ submitted_cycles < MaxCycles

TryStart ==
  /\ phase = "process" /\ accepted < CycleBound
  /\ state = "IDLE" /\ ~stopping
  /\ CapAllows
  /\ state' = "VALIDATING" /\ pending' = None /\ holdings' = Empty
  /\ failed' = FALSE /\ cycle_submitted' = FALSE
  /\ leg_number' = 0 /\ order_number' = 0
  /\ accepted' = accepted + 1
  /\ timeout' = [cycle |-> accepted + 1, clears |-> clear_orders]
  /\ ready' = Append(ready, [kind |-> "begin"])
  /\ UNCHANGED <<accounted, carried, gateway_busy, waiting_gateway, submitted_cycles,
                 completed, failures, cleanup_wait, cleanupVars, stopping, phase,
                 signalled, live>>

\* Called once, at program startup, before any cycle.
StartInitialCleanup ==
  /\ Startup /\ phase = "process" /\ accepted = 0
  /\ ~cleanup_started /\ ~stopping /\ state = "IDLE"
  /\ cleanup_started' = TRUE
  /\ ClearInitialPosition(InitialBalances, accounted, "CLEARING", timeout, gateway_busy)
  /\ UNCHANGED <<accepted, stopping, phase, ready, signalled>>

ProcessReturn ==
  /\ phase = "process" /\ phase' = "poll"
  /\ UNCHANGED <<slotVars, cleanupVars, accepted, stopping, ready, signalled>>

-----------------------------------------------------------------------------
(***************************************************************************)
(* Handlers, run by io.poll() one at a time in FIFO order.                 *)
(***************************************************************************)
Run(kind) ==
  /\ phase = "poll" /\ ready # <<>>
  /\ Head(ready).kind = kind
  /\ ready' = Tail(ready)
  /\ UNCHANGED <<phase, signalled, accepted>>

\* begin(), start_arbitrage(), preflight()
RunBegin ==
  /\ Run("begin")
  /\ UNCHANGED <<cleanupVars, stopping>>
  /\ \/ /\ state # "VALIDATING" \/ stopping
        /\ UNCHANGED slotVars
     \/ /\ state = "VALIDATING" /\ ~stopping
        /\ Finish(TRUE, leg_number, gateway_busy)
        /\ holdings' \in {holdings, [Empty EXCEPT !["USDT"] = Budget]}
        /\ UNCHANGED <<accounted, carried, submitVars, leg_number, order_number>>
     \/ /\ state = "VALIDATING" /\ ~stopping
        /\ NextLeg(0, [Empty EXCEPT !["USDT"] = Budget], accounted, gateway_busy)

\* The execution timeout's handler; a cancelled one that was queued still runs.
RunTimeout ==
  /\ Run("timeout")
  /\ UNCHANGED <<cleanupVars, dataVars, submitVars, leg_number, order_number, stopping>>
  /\ \/ state \in {"IDLE", "HALTED"} /\ UNCHANGED outcomeVars
     \/ /\ state \notin {"IDLE", "HALTED"}
        /\ pending # None
        /\ Abandon(gateway_busy, pending)
     \/ /\ state \notin {"IDLE", "HALTED"}
        /\ pending = None
        /\ FailCycle(gateway_busy, None)

ClearingBlocked == stopping \/ state = "HALTED" \/ cleanup_done \/ pending # None

RunWait ==
  /\ Run("wait")
  /\ UNCHANGED <<stopping, cleanup_started>>
  /\ \/ /\ ClearingBlocked
        /\ UNCHANGED <<slotVars, cleanupVars>>
     \/ /\ ~ClearingBlocked
        /\ ClearInitialPosition(holdings, accounted, state, timeout, gateway_busy)

RunStop ==
  /\ Run("stop")
  /\ stopping' = TRUE
  /\ UNCHANGED <<cleanupVars, dataVars, submitVars, leg_number, order_number>>
  /\ \/ /\ state \in {"IDLE", "HALTED"}
        /\ cleanup_wait' = FALSE
        /\ UNCHANGED <<state, pending, gateway_busy, waiting_gateway, failed,
                       completed, failures, timeout>>
     \/ /\ state \notin {"IDLE", "HALTED"}
        /\ Halt(gateway_busy, pending)

-----------------------------------------------------------------------------
(***************************************************************************)
(* report(): one disjunct per way out of the function.                     *)
(***************************************************************************)
FreshAfterHalt(v) == v.revision > accounted.revision
Fresh(v) == state # "HALTED" /\ v.revision > accounted.revision

ValidFill(v) == v.filled >= accounted.filled /\ v.filled <= pending.quantity

FilledByStatus(v) == v.status = "Filled"
WhollyFilled(v) == v.status = "Filled" /\ v.filled = pending.quantity

ReportIgnored(v, busy) ==
  /\ ~Fresh(v)
  /\ gateway_busy' = busy
  /\ UNCHANGED <<state, pending, waiting_gateway, failed, completed, failures, timeout,
                 cleanup_wait, dataVars, submitVars, leg_number, order_number, cleanupVars>>

ReportUnusable(v, busy) ==
  /\ Fresh(v)
  /\ v.status = "Unknown" \/ ~ValidFill(v)
  /\ Abandon(busy, pending)
  /\ UNCHANGED <<dataVars, submitVars, leg_number, order_number, cleanupVars>>

Accepts(v) ==
  /\ Fresh(v) /\ v.status # "Unknown" /\ ValidFill(v)

Book(v) == accounted' = AccountOf(v) /\ holdings' = Settle(v) /\ UNCHANGED carried

\* The late answer of a cycle that already failed: the slot is released.
ReportReleases(v, busy) ==
  /\ Accepts(v) /\ waiting_gateway
  /\ Book(v)
  /\ waiting_gateway' = FALSE /\ pending' = None /\ state' = "IDLE"
  /\ gateway_busy' = busy
  /\ UNCHANGED <<failed, completed, failures, timeout, cleanup_wait, submitVars,
                 leg_number, order_number, cleanupVars>>

ReportProgress(v, busy) ==
  /\ Accepts(v) /\ ~waiting_gateway /\ ~Terminal(v.status)
  /\ Book(v)
  /\ gateway_busy' = busy
  /\ UNCHANGED <<state, pending, waiting_gateway, failed, completed, failures, timeout,
                 cleanup_wait, submitVars, leg_number, order_number, cleanupVars>>

ReportIncomplete(v, busy) ==
  /\ Accepts(v) /\ ~waiting_gateway /\ Terminal(v.status) /\ ~v.complete
  /\ Book(v)
  /\ Abandon(busy, pending)
  /\ UNCHANGED <<submitVars, leg_number, order_number, cleanupVars>>

FinalThoughFailed(v) == Accepts(v) /\ Terminal(v.status) /\ v.complete
ReportFinal(v) ==
  Accepts(v) /\ ~waiting_gateway /\ Terminal(v.status) /\ v.complete

ReportCleared(v, busy) ==
  /\ ReportFinal(v) /\ pending.clear
  /\ ClearInitialPosition(Settle(v), AccountOf(v), state, None, busy)
  /\ UNCHANGED cleanup_started

ReportUnfilled(v, busy) ==
  /\ ReportFinal(v) /\ ~pending.clear /\ ~WhollyFilled(v)
  /\ Book(v)
  /\ Finish(TRUE, leg_number, busy)
  /\ UNCHANGED <<submitVars, leg_number, order_number, cleanupVars>>

ReportFirstLegStop(v, busy) ==
  /\ ReportFinal(v) /\ ~pending.clear /\ WhollyFilled(v)
  /\ FirstLegStop /\ leg_number = 0
  /\ Book(v)
  /\ FailCycle(busy, None)
  /\ UNCHANGED <<submitVars, leg_number, order_number, cleanupVars>>

ReportAdvances(v, busy) ==
  /\ ReportFinal(v) /\ ~pending.clear /\ WhollyFilled(v)
  /\ ~(FirstLegStop /\ leg_number = 0)
  /\ NextLeg(leg_number + 1, Settle(v), AccountOf(v), busy)
  /\ UNCHANGED cleanupVars

Report(v, busy) ==
  \/ ReportIgnored(v, busy)
  \/ ReportUnusable(v, busy)
  \/ ReportReleases(v, busy)
  \/ ReportProgress(v, busy)
  \/ ReportIncomplete(v, busy)
  \/ ReportCleared(v, busy)
  \/ ReportUnfilled(v, busy)
  \/ ReportFirstLegStop(v, busy)
  \/ ReportAdvances(v, busy)

ForPending(id) == pending # None /\ id = pending.id

\* Commissions are cumulative per asset and never exceed what was received.
Commissions(order, filled) ==
  LET charged == accounted.commission
  IN {charged} \cup
       {[charged EXCEPT ![x] = @ + 1] :
          x \in {y \in {Received(order.leg), "BNB"} : charged[y] < filled}}

\* What the gateway may have said of the pending order: any report of the
\* right form, repeated, overfilled and regressing ones included.  Nobody
\* reads a report before its handler does, so its content is chosen there.
ReportsOn(order) ==
  LET Said(r, s, f, c, k) == [revision |-> r, status |-> s, filled |-> f,
                              commission |-> c, complete |-> k]
      revisions == {accounted.revision, accounted.revision + 1} \ {0}
  IN {Said(r, "Unknown", 0, NoFee, TRUE) : r \in revisions}
       \cup UNION {{Said(r, s, f, c, k) : c \in Commissions(order, f)} :
                     r \in revisions, s \in {"Open", "Filled", "Canceled"},
                     f \in 0..order.quantity + 1, k \in BOOLEAN}

\* The gateway's callback: the REST task is over, whatever the report says.
RunReport ==
  /\ Run("report")
  /\ UNCHANGED stopping
  /\ \/ ~ForPending(Head(ready).id) /\ UNCHANGED <<slotVars, cleanupVars>>
     \/ /\ ForPending(Head(ready).id)
        /\ \E v \in ReportsOn(pending) : Report(v, FALSE)

\* on_report(): the same report() without the callback's bookkeeping.
RunStream ==
  /\ Run("stream")
  /\ UNCHANGED stopping
  /\ \/ ~ForPending(Head(ready).id) /\ UNCHANGED <<slotVars, cleanupVars>>
     \/ /\ ForPending(Head(ready).id)
        /\ \E v \in ReportsOn(pending) : Report(v, gateway_busy)

-----------------------------------------------------------------------------
(***************************************************************************)
(* What runs beside the handlers: time, the signal, the gateway's worker.  *)
(***************************************************************************)
Others == <<accepted, stopping, phase>>

TimeoutExpires ==
  /\ phase = "poll" /\ timeout # None
  /\ timeout' = None
  /\ ready' = Append(ready, [kind |-> "timeout", tag |-> timeout])
  /\ UNCHANGED <<state, pending, gateway_busy, waiting_gateway, failed, completed, failures,
                 cleanup_wait, dataVars, submitVars, leg_number, order_number, cleanupVars,
                 signalled, Others>>

WaitExpires ==
  /\ phase = "poll" /\ cleanup_wait
  /\ cleanup_wait' = FALSE
  /\ ready' = Append(ready, [kind |-> "wait"])
  /\ UNCHANGED <<state, pending, gateway_busy, waiting_gateway, failed, completed, failures,
                 timeout, dataVars, submitVars, leg_number, order_number, cleanupVars,
                 signalled, Others>>

DeadlinePasses ==
  /\ cleanup_started /\ ~deadline_passed
  /\ deadline_passed' = TRUE
  /\ UNCHANGED <<slotVars, cleanup_started, cleanup_done, cleanup_processed, clear_orders,
                 ready, signalled, Others>>

Signal ==
  /\ phase = "poll" /\ ~signalled
  /\ signalled' = TRUE
  /\ ready' = Append(ready, [kind |-> "stop"])
  /\ UNCHANGED <<slotVars, cleanupVars, Others>>

\* poll() returns when its queue is empty; the io_context is stopped once no
\* timer and no signal wait is left, and the main loop ends.
PolledOne == TRUE
PollDrained == ready = <<>>

NoWorkOnceIdle == stopping /\ state = "IDLE"
NoWorkLeft == stopping /\ timeout = None /\ ~cleanup_wait

PollReturn ==
  /\ phase = "poll" /\ PollDrained
  /\ phase' = IF NoWorkLeft THEN "exited" ELSE "process"
  /\ UNCHANGED <<slotVars, cleanupVars, accepted, stopping, ready, signalled>>

\* The order stays live while the gateway may say more about it.
Reported(g, running) ==
  (live \ {g}) \cup
    IF running \/ g.replies + 1 < ReplyBound
    THEN {[g EXCEPT !.replies = @ + 1, !.running = running]}
    ELSE {}

\* The worker posts the callback: its REST task is over.
Answer(g) ==
  /\ phase # "exited" /\ g.replies < ReplyBound
  /\ ready' = Append(ready, [kind |-> "report", id |-> g.id])
  /\ live' = Reported(g, FALSE)
  /\ UNCHANGED <<outcomeVars, dataVars, cycle_submitted, submitted_cycles, leg_number,
                 order_number, cleanupVars, signalled, Others>>

StreamReport(g) ==
  /\ UserStream /\ phase = "poll" /\ g.replies + 1 < ReplyBound
  /\ ready' = Append(ready, [kind |-> "stream", id |-> g.id])
  /\ live' = Reported(g, g.running)
  /\ UNCHANGED <<outcomeVars, dataVars, cycle_submitted, submitted_cycles, leg_number,
                 order_number, cleanupVars, signalled, Others>>

Exited == phase = "exited" /\ UNCHANGED vars

Next ==
  \/ TryStart \/ StartInitialCleanup \/ ProcessReturn
  \/ RunBegin \/ RunTimeout \/ RunWait \/ RunStop \/ RunReport \/ RunStream
  \/ TimeoutExpires \/ WaitExpires \/ DeadlinePasses \/ Signal \/ PollReturn
  \/ \E g \in live : Answer(g)
  \/ \E g \in live : StreamReport(g)
  \/ Exited

Spec == Init /\ [][Next]_vars

-----------------------------------------------------------------------------
Running == {g \in live : g.running}
InCycle == state \in {"VALIDATING", "LEG_PENDING"}

TypeOK ==
  /\ state \in States
  /\ pending \in Orders \cup {None}
  /\ accounted \in Accounts
  /\ holdings \in [Assets -> Int] /\ carried \in [Assets -> Int]
  /\ gateway_busy \in BOOLEAN /\ waiting_gateway \in BOOLEAN
  /\ failed \in BOOLEAN /\ cycle_submitted \in BOOLEAN
  /\ leg_number \in Nat /\ order_number \in Nat
  /\ accepted \in Nat /\ submitted_cycles \in Nat
  /\ completed \in Nat /\ failures \in Nat
  /\ timeout \in Tags \cup {None} /\ cleanup_wait \in BOOLEAN
  /\ cleanup_started \in BOOLEAN /\ cleanup_done \in BOOLEAN
  /\ cleanup_processed \in SUBSET Assets /\ clear_orders \in Nat
  /\ deadline_passed \in BOOLEAN /\ stopping \in BOOLEAN
  /\ phase \in {"poll", "process", "exited"}
  /\ ready \in Seq(Handlers) /\ signalled \in BOOLEAN
  /\ live \in SUBSET LiveOrders

(***************************************************************************)
(* Safety.                                                                 *)
(***************************************************************************)
\* "A failed cycle cannot release its slot while its REST task is still
\* running" (execution.cpp, above fail_cycle): an idle executor has no REST
\* task outstanding and is waiting for none, so the next cycle never shares
\* the gateway with the last one.
SlotHeld == state = "IDLE" => ~gateway_busy /\ ~waiting_gateway /\ Running = {}

\* No more cycles reach the gateway than max_cycles allows, and a cycle that
\* is between acceptance and its first order still has room under the cap.
CycleCap ==
  MaxCycles > 0 =>
    /\ submitted_cycles <= MaxCycles
    /\ InCycle /\ ~cycle_submitted /\ ~waiting_gateway => submitted_cycles < MaxCycles

\* Every accepted cycle ends in exactly one of the two counters, whatever
\* order its timeout, its late answer and its duplicates come in.
Ledger ==
  state # "HALTED" =>
    accepted = completed + failures + IF InCycle /\ ~waiting_gateway THEN 1 ELSE 0

\* The same for a process that was stopped: the counters together never say
\* more than the cycles that were accepted.
OneOutcomePerCycle == completed + failures <= accepted

\* A timeout handler that asio had already queued when it was cancelled still
\* runs; by then no later cycle holds the slot, so it can fail only its own.
TimeoutHitsItsOwnCycle ==
  \A i \in DOMAIN ready :
    ready[i].kind = "timeout" /\ InCycle => ready[i].tag.cycle = accepted

\* Cumulative reports, repeated or out of date ones included, are accounted
\* exactly once: holdings are what the order started from plus what the last
\* accounted report says of it.  So no order spends more than the cycle holds;
\* only a BNB commission may be owed to the wallet outside the cycle.
HoldingsMatchFills ==
  pending # None =>
    /\ \A a \in Assets : holdings[a] = carried[a] + Effect(pending.leg, accounted, a)
    /\ \A a \in Assets \ {"BNB"} : holdings[a] >= 0

\* One submission attempt per initial asset, never more than the limit, and
\* none of the protected assets.
ClearingBounded ==
  /\ clear_orders <= MaxClearOrders
  /\ clear_orders <= Cardinality(cleanup_processed \cap DOMAIN ExitLegs)

\* "Startup position clearing [...] runs separately from ordinary cycles"
\* (execution_plan.md): it never ends through the cycle failure path.
ClearingIsNotACycle == accepted = 0 => ~failed

(***************************************************************************)
(* Action properties.                                                      *)
(***************************************************************************)
\* A leg's order is sent only for a cycle that has neither failed nor been
\* stopped, while no REST task is outstanding, and within its own path.
LegsOnlyFromHealthyCycles ==
  [][order_number' > order_number /\ InCycle =>
       /\ ~stopping /\ ~failed /\ ~waiting_gateway /\ Running = {}
       /\ order_number = leg_number' /\ order_number < Len(Path)]_vars

\* completed grows only when every leg of the path was sent and wholly filled.
CompletedMeansRoundTrip ==
  [][completed' > completed =>
       /\ order_number = Len(Path) /\ pending # None
       /\ accounted'.filled = pending.quantity /\ ~failed]_vars

\* Nothing brings the executor back from HALTED, and nothing is sent there.
HaltIsFinal ==
  [][state = "HALTED" => state' = "HALTED" /\ order_number' = order_number
                         /\ holdings' = holdings]_vars

(***************************************************************************)
(* Liveness, for a loop that keeps polling, timers that expire and a       *)
(* gateway that answers every order it took.                               *)
(***************************************************************************)
Handler == RunBegin \/ RunTimeout \/ RunWait \/ RunStop \/ RunReport \/ RunStream
SomeAnswer == \E g \in Running : Answer(g)

Fairness ==
  /\ WF_vars(Handler) /\ WF_vars(PollReturn) /\ WF_vars(ProcessReturn)
  /\ SF_vars(TimeoutExpires) /\ SF_vars(WaitExpires)
  /\ WF_vars(DeadlinePasses) /\ WF_vars(SomeAnswer)

FairSpec == Spec /\ Fairness

\* An accepted cycle gives its slot back (or halts): no lost answer, timeout
\* or late report leaves the executor occupied for ever.
SlotIsReleased == InCycle ~> state \in {"IDLE", "HALTED"}

\* Startup clearing ends although books may be missing and orders may fail.
ClearingEnds == state = "CLEARING" ~> state # "CLEARING"

\* After a signal the main loop ends, whatever was in flight.
StopEndsTheLoop == signalled ~> phase = "exited"
=============================================================================

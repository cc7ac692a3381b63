----------------------- MODULE ArbitrageExecutor_proofs -----------------------
(***************************************************************************)
(* Theorems about the executor for every path, budget, cap and set of      *)
(* assets: its types, the cap on submitted cycles, the slot that a failed  *)
(* cycle keeps while its REST task runs, and that HALTED is final; then    *)
(* its books: reports are accounted exactly once and no order spends more  *)
(* than its cycle holds, every cycle ends in exactly one counter, timeouts *)
(* belong to the cycle that is running, and clearing is bounded.           *)
(***************************************************************************)
EXTENDS ArbitrageExecutor, SequenceTheorems, FiniteSetTheorems, TLAPS

(***************************************************************************)
(* The type invariant, in the groups the actions leave unchanged.          *)
(***************************************************************************)
OutcomeType ==
  /\ state \in States
  /\ pending \in Orders \cup {None}
  /\ gateway_busy \in BOOLEAN /\ waiting_gateway \in BOOLEAN
  /\ failed \in BOOLEAN
  /\ completed \in Nat /\ failures \in Nat
  /\ timeout \in Tags \cup {None} /\ cleanup_wait \in BOOLEAN
DataType ==
  /\ accounted \in Accounts
  /\ holdings \in [Assets -> Int] /\ carried \in [Assets -> Int]
SubmitType ==
  /\ cycle_submitted \in BOOLEAN /\ submitted_cycles \in Nat
  /\ live \in SUBSET LiveOrders
NumberType == leg_number \in Nat /\ order_number \in Nat
SlotType == OutcomeType /\ DataType /\ SubmitType /\ NumberType
CleanupType ==
  /\ cleanup_started \in BOOLEAN /\ cleanup_done \in BOOLEAN
  /\ cleanup_processed \in SUBSET Assets /\ clear_orders \in Nat
  /\ deadline_passed \in BOOLEAN
LoopType ==
  /\ accepted \in Nat /\ stopping \in BOOLEAN
  /\ phase \in {"poll", "process", "exited"}
  /\ ready \in Seq(Handlers) /\ signalled \in BOOLEAN

\* The groups together are the type invariant.
LEMMA TypeGroups == TypeOK <=> SlotType /\ CleanupType /\ LoopType
  BY DEF TypeOK, SlotType, OutcomeType, DataType, SubmitType, NumberType, CleanupType,
         LoopType

\* Steps that leave a whole group alone keep its types.
LEMMA SlotTypeUnchanged == SlotType /\ UNCHANGED slotVars => SlotType'
<1> SUFFICES ASSUME SlotType, UNCHANGED slotVars PROVE SlotType'
  OBVIOUS
<1>1. UNCHANGED outcomeVars /\ UNCHANGED dataVars /\ UNCHANGED submitVars
      /\ UNCHANGED <<leg_number, order_number>>
  BY DEF slotVars
<1>2. OutcomeType'
  BY <1>1 DEF SlotType, OutcomeType, outcomeVars
<1>3. DataType' /\ SubmitType' /\ NumberType'
  BY <1>1 DEF SlotType, DataType, SubmitType, NumberType, dataVars, submitVars
<1> QED
  BY <1>2, <1>3 DEF SlotType

\* Steps that leave startup clearing alone keep its types.
LEMMA CleanupTypeUnchanged == CleanupType /\ UNCHANGED cleanupVars => CleanupType'
  BY DEF CleanupType, cleanupVars

\* The handler at the head of the queue is taken off it.
LEMMA RunType == ASSUME NEW kind, LoopType, Run(kind), UNCHANGED stopping
                 PROVE  LoopType' /\ Head(ready) \in Handlers
<1>1. ready \in Seq(Handlers) /\ ready # << >> /\ ready' = Tail(ready)
  BY DEF LoopType, Run
<1>2. Head(ready) \in Handlers /\ Tail(ready) \in Seq(Handlers)
  BY <1>1, HeadTailProperties
<1> QED
  BY <1>1, <1>2 DEF LoopType, Run

\* One more handler in the queue.
LEMMA PostType ==
  ASSUME LoopType, NEW h \in Handlers, ready' = Append(ready, h)
  PROVE  ready' \in Seq(Handlers)
  BY AppendProperties DEF LoopType

(***************************************************************************)
(* Types of the values the handlers compute.                               *)
(***************************************************************************)
\* No holdings, no fees and no report are well formed.
LEMMA EmptyType == Empty \in [Assets -> Int] /\ NoFee \in [Assets -> Nat]
                   /\ NoReport \in Accounts
  BY DEF Empty, NoFee, NoReport, Accounts

\* What was traded is an integer for every leg and account.
LEMMA TradedType ==
  ASSUME NEW leg \in Legs, NEW account, account.filled \in Nat, NEW a \in Assets
  PROVE  Traded(leg, account, a) \in Int
<1>1. leg.price \in Nat /\ leg.price * account.filled \in Int
      /\ -(leg.price * account.filled) \in Int /\ -account.filled \in Int
      /\ account.filled \in Int
  BY DEF Legs
<1>2. (IF a # leg.base THEN 0 ELSE IF leg.buy THEN account.filled ELSE -account.filled) \in Int
  BY <1>1
<1>3. (IF a # leg.quote THEN 0
       ELSE IF leg.buy THEN -(leg.price * account.filled) ELSE leg.price * account.filled) \in Int
  BY <1>1
<1> QED
  BY <1>2, <1>3 DEF Traded

\* A booked report leaves integer holdings and a well-formed account.
LEMMA SettleType ==
  ASSUME SlotType, pending \in Orders, NEW v \in Reports
  PROVE  Settle(v) \in [Assets -> Int] /\ AccountOf(v) \in Accounts
<1>1. /\ pending.leg \in Legs
      /\ v.filled \in Nat /\ v.revision \in Nat /\ v.commission \in [Assets -> Nat]
      /\ accounted.filled \in Nat /\ accounted.commission \in [Assets -> Nat]
      /\ holdings \in [Assets -> Int]
  BY DEF SlotType, DataType, Orders, Reports, Accounts
<1>2. AccountOf(v) \in Accounts
  BY <1>1 DEF AccountOf, Accounts
<1>3. ASSUME NEW a \in Assets
      PROVE holdings[a] + Traded(pending.leg, v, a) - Traded(pending.leg, accounted, a)
            - (IF v.commission[a] = 0 THEN 0 ELSE v.commission[a] - accounted.commission[a])
            \in Int
  <2>1. Traded(pending.leg, v, a) \in Int /\ Traded(pending.leg, accounted, a) \in Int
    BY <1>1, TradedType
  <2>2. v.commission[a] \in Int /\ accounted.commission[a] \in Int /\ holdings[a] \in Int
    BY <1>1
  <2> QED
    BY <2>1, <2>2
<1> QED
  BY <1>2, <1>3 DEF Settle

\* Sizing an order gives an integer.
LEMMA QuantityType ==
  ASSUME NEW leg \in Legs, NEW amount \in Int
  PROVE  Quantity(leg, amount) \in Int
  BY DEF Legs, Quantity

\* Everything the gateway may say of an order is a report.
LEMMA ReportsType ==
  ASSUME SlotType, NEW order \in Orders
  PROVE  ReportsOn(order) \subseteq Reports
<1>1. /\ accounted.revision \in Nat /\ accounted.commission \in [Assets -> Nat]
      /\ order.quantity \in Nat
  BY DEF SlotType, DataType, Accounts, Orders
<1>2. \A f \in 0..order.quantity + 1 : Commissions(order, f) \subseteq [Assets -> Nat]
  BY <1>1 DEF Commissions
<1> SUFFICES ASSUME NEW v \in ReportsOn(order) PROVE v \in Reports
  OBVIOUS
<1>3. \A r \in {accounted.revision, accounted.revision + 1} \ {0} : r \in Nat
  BY <1>1
<1>4. CASE \E r \in {accounted.revision, accounted.revision + 1} \ {0} :
             v = [revision |-> r, status |-> "Unknown", filled |-> 0,
                  commission |-> NoFee, complete |-> TRUE]
  BY <1>3, <1>4, EmptyType DEF Reports, Statuses
<1>5. CASE \E r \in {accounted.revision, accounted.revision + 1} \ {0},
              s \in {"Open", "Filled", "Canceled"},
              f \in 0..order.quantity + 1, k \in BOOLEAN :
             \E c \in Commissions(order, f) :
               v = [revision |-> r, status |-> s, filled |-> f,
                    commission |-> c, complete |-> k]
  <2>1. PICK r \in {accounted.revision, accounted.revision + 1} \ {0},
             s \in {"Open", "Filled", "Canceled"},
             f \in 0..order.quantity + 1, k \in BOOLEAN :
               \E c \in Commissions(order, f) :
                 v = [revision |-> r, status |-> s, filled |-> f,
                      commission |-> c, complete |-> k]
    BY <1>5
  <2>2. PICK c \in Commissions(order, f) :
          v = [revision |-> r, status |-> s, filled |-> f, commission |-> c, complete |-> k]
    BY <2>1
  <2>3. r \in Nat /\ f \in Nat /\ c \in [Assets -> Nat] /\ s \in Statuses
    BY <1>1, <1>2, <1>3 DEF Statuses
  <2> QED
    BY <2>2, <2>3 DEF Reports
<1> QED
  BY <1>4, <1>5 DEF ReportsOn

(***************************************************************************)
(* Types after each outcome.                                               *)
(***************************************************************************)
\* Every outcome leaves well-typed outcome variables.
LEMMA OutcomeTypes ==
  ASSUME OutcomeType, NEW busy \in BOOLEAN, NEW order \in Orders \cup {None},
         Halt(busy, order) \/ FailCycle(busy, order)
         \/ \E fails \in BOOLEAN, leg \in Nat : Finish(fails, leg, busy)
  PROVE  OutcomeType'
<1>1. CASE Halt(busy, order)
  <2>1. state' \in States /\ failures' \in Nat /\ completed' \in Nat
    BY <1>1 DEF OutcomeType, Halt, States
  <2>2. pending' \in Orders \cup {None} /\ timeout' \in Tags \cup {None}
    BY <1>1 DEF Halt
  <2>3. gateway_busy' \in BOOLEAN /\ waiting_gateway' \in BOOLEAN /\ failed' \in BOOLEAN
        /\ cleanup_wait' \in BOOLEAN
    BY <1>1 DEF OutcomeType, Halt
  <2> QED
    BY <2>1, <2>2, <2>3 DEF OutcomeType
<1>2. CASE FailCycle(busy, order)
  <2>1. state' \in States
    BY <1>2 DEF OutcomeType, FailCycle, KeepsSlot, States
  <2>2. failures' \in Nat /\ completed' \in Nat
    BY <1>2 DEF OutcomeType, FailCycle
  <2>3. pending' \in Orders \cup {None} /\ timeout' \in Tags \cup {None}
    BY <1>2 DEF FailCycle, KeepsSlot
  <2>4. gateway_busy' \in BOOLEAN /\ waiting_gateway' \in BOOLEAN /\ failed' \in BOOLEAN
        /\ cleanup_wait' \in BOOLEAN
    BY <1>2 DEF FailCycle, KeepsSlot
  <2> QED
    BY <2>1, <2>2, <2>3, <2>4 DEF OutcomeType
<1>3. CASE \E fails \in BOOLEAN, leg \in Nat : Finish(fails, leg, busy)
  BY <1>3 DEF OutcomeType, Finish, States
<1> QED
  BY <1>1, <1>2, <1>3

\* send() keeps the types, whether the gateway takes the order or throws.
LEMMA SendType ==
  ASSUME SlotType, accepted \in Nat,
         NEW clear \in BOOLEAN, NEW leg \in Legs, NEW quantity \in Nat,
         NEW amounts \in [Assets -> Int], NEW timer \in Tags \cup {None},
         Send(clear, leg, quantity, amounts, timer)
  PROVE  OutcomeType' /\ DataType' /\ SubmitType' /\ order_number' \in Nat
<1> DEFINE order == [id |-> <<accepted, order_number + 1>>, clear |-> clear,
                     leg |-> leg, quantity |-> quantity]
<1>1. OutcomeType /\ DataType /\ SubmitType /\ order_number \in Nat
  BY DEF SlotType, NumberType
<1>2. order \in Orders
  BY <1>1 DEF Orders
<1>3. DataType' /\ order_number' \in Nat
  BY <1>1, EmptyType DEF Send, DataType
<1> HIDE DEF order
<1>4. CASE /\ state' = IF clear THEN "CLEARING" ELSE "LEG_PENDING"
           /\ pending' = order /\ gateway_busy' = TRUE /\ timeout' = timer
           /\ live' = live \cup {[id |-> order.id, replies |-> 0, running |-> TRUE]}
           /\ cycle_submitted' = (cycle_submitted \/ ~clear)
           /\ submitted_cycles' = IF ~clear /\ ~cycle_submitted
                                  THEN submitted_cycles + 1 ELSE submitted_cycles
           /\ UNCHANGED <<waiting_gateway, failed, completed, failures, cleanup_wait>>
  <2>1. OutcomeType'
    BY <1>1, <1>2, <1>4 DEF OutcomeType, States
  <2>2. order.id \in Nat \X Nat
    BY <1>2 DEF Orders
  <2>3. [id |-> order.id, replies |-> 0, running |-> TRUE] \in LiveOrders
    BY <2>2 DEF LiveOrders
  <2>4. cycle_submitted' \in BOOLEAN /\ submitted_cycles' \in Nat
    BY <1>1, <1>4 DEF SubmitType
  <2>5. live' \in SUBSET LiveOrders
    BY <1>1, <1>4, <2>3 DEF SubmitType
  <2> QED
    BY <1>3, <2>1, <2>4, <2>5 DEF SubmitType
<1>5. CASE Abandon(FALSE, order) /\ UNCHANGED submitVars
  <2>1. OutcomeType'
    BY <1>1, <1>2, <1>5, OutcomeTypes DEF Abandon
  <2>2. SubmitType'
    BY <1>1, <1>5 DEF SubmitType, submitVars
  <2> QED
    BY <1>3, <2>1, <2>2
<1> QED
  BY <1>4, <1>5 DEF Send, order

\* next_leg() keeps the types, by way of each of its ends.
LEMMA NextLegType ==
  ASSUME SlotType, accepted \in Nat, NEW leg \in Nat, NEW amounts \in [Assets -> Int],
         NEW account \in Accounts, NEW busy \in BOOLEAN,
         NextLeg(leg, amounts, account, busy)
  PROVE  SlotType'
<1>1. OutcomeType /\ SubmitType /\ NumberType /\ DataType /\ failed \in BOOLEAN
  BY DEF SlotType, OutcomeType
<1>2. leg_number' \in Nat
  BY DEF NextLeg
<1>3. CASE /\ Finish(failed, leg, busy) \/ Finish(TRUE, leg, busy)
           /\ accounted' = account /\ holdings' = amounts
           /\ UNCHANGED <<carried, order_number, submitVars>>
  <2>1. OutcomeType'
    BY <1>1, <1>3, OutcomeTypes
  <2>2. DataType' /\ SubmitType' /\ NumberType'
    BY <1>1, <1>2, <1>3 DEF DataType, SubmitType, NumberType, submitVars
  <2> QED
    BY <2>1, <2>2 DEF SlotType
<1>4. CASE leg < Len(Path)
           /\ LET l == Path[leg + 1]
                  q == Quantity(l, amounts[Spent(l)])
              IN q > 0 /\ Send(FALSE, l, q, amounts, timeout)
  <2> DEFINE l == Path[leg + 1]
             q == Quantity(l, amounts[Spent(l)])
  <2>1. l \in Legs
    <3>1. Path \in Seq(Legs) /\ Len(Path) \in Nat /\ leg + 1 \in 1..Len(Path)
      BY <1>4, PathAssumption, LenProperties
    <3> QED
      BY <3>1, ElementOfSeq
  <2>2. q \in Nat
    <3>1. Spent(l) \in Assets
      BY <2>1 DEF Spent, Legs
    <3>2. q \in Int
      BY <2>1, <3>1, QuantityType
    <3> QED
      BY <1>4, <3>2
  <2>3. Send(FALSE, l, q, amounts, timeout) /\ timeout \in Tags \cup {None}
    BY <1>1, <1>4 DEF OutcomeType
  <2> HIDE DEF l, q
  <2>4. OutcomeType' /\ DataType' /\ SubmitType' /\ order_number' \in Nat
    BY <2>1, <2>2, <2>3, SendType
  <2> QED
    BY <1>2, <2>4 DEF SlotType, NumberType
<1> QED
  BY <1>3, <1>4 DEF NextLeg

\* A clearing pass keeps the types, whether it sells, waits or is over.
LEMMA ClearType ==
  ASSUME SlotType, CleanupType, accepted \in Nat, NEW amounts \in [Assets -> Int],
         NEW account \in Accounts, NEW st \in States, NEW timer \in Tags \cup {None},
         NEW busy \in BOOLEAN, cleanup_started' \in BOOLEAN,
         ClearInitialPosition(amounts, account, st, timer, busy)
  PROVE  SlotType' /\ CleanupType'
<1> DEFINE left == Unprocessed(amounts)
           sellable == left \cap DOMAIN ExitLegs
<1>1. /\ OutcomeType /\ SubmitType /\ DataType /\ NumberType
      /\ left \subseteq Assets /\ sellable \subseteq left
      /\ cleanup_processed \subseteq Assets /\ clear_orders \in Nat
      /\ cleanup_done \in BOOLEAN
  BY DEF SlotType, CleanupType, Unprocessed
<1>2. leg_number' \in Nat /\ deadline_passed' \in BOOLEAN
  BY DEF ClearInitialPosition, SlotType, NumberType, CleanupType
<1>3. ASSUME NEW a \in sellable, NEW skipped \in SUBSET left,
             cleanup_processed' = cleanup_processed \cup skipped \cup {a},
             clear_orders' = clear_orders + 1,
             \E q \in 1..Quantity(ExitLegs[a], amounts[a]) :
               Send(TRUE, ExitLegs[a], q, amounts,
                    [cycle |-> accepted, clears |-> clear_orders + 1]),
             UNCHANGED cleanup_done
      PROVE  SlotType' /\ CleanupType'
  <2>1. ExitLegs[a] \in Legs /\ a \in Assets
    BY <1>1, ExitAssumption
  <2>2. Quantity(ExitLegs[a], amounts[a]) \in Int
    BY <2>1, QuantityType
  <2>3. PICK q \in 1..Quantity(ExitLegs[a], amounts[a]) :
          Send(TRUE, ExitLegs[a], q, amounts,
               [cycle |-> accepted, clears |-> clear_orders + 1])
    BY <1>3
  <2>4. q \in Nat
    BY <2>2
  <2>5. [cycle |-> accepted, clears |-> clear_orders + 1] \in Tags
    BY <1>1 DEF Tags
  <2>6. OutcomeType' /\ DataType' /\ SubmitType' /\ order_number' \in Nat
    BY <2>1, <2>3, <2>4, <2>5, SendType
  <2>7. CleanupType'
    BY <1>1, <1>2, <1>3, <2>1 DEF CleanupType
  <2> QED
    BY <1>2, <2>6, <2>7 DEF SlotType, NumberType
<1>4. ASSUME NEW waiting \in SUBSET sellable,
             cleanup_processed' = cleanup_processed \cup (left \ waiting),
             cleanup_wait' = TRUE, state' = st, timeout' = timer,
             pending' = None, gateway_busy' = busy,
             accounted' = account, holdings' = amounts,
             UNCHANGED <<carried, order_number, submitVars, waiting_gateway, failed,
                         completed, failures, clear_orders, cleanup_done>>
      PROVE  SlotType' /\ CleanupType'
  <2>1. OutcomeType'
    BY <1>1, <1>4 DEF OutcomeType
  <2>2. DataType' /\ SubmitType' /\ NumberType'
    BY <1>1, <1>2, <1>4 DEF DataType, SubmitType, NumberType, submitVars
  <2>3. CleanupType'
    BY <1>1, <1>2, <1>4 DEF CleanupType
  <2> QED
    BY <2>1, <2>2, <2>3 DEF SlotType
<1>5. ASSUME cleanup_processed' = cleanup_processed \cup left,
             cleanup_wait' = FALSE, timeout' = None, cleanup_done' = TRUE,
             state' = "IDLE", pending' = None, gateway_busy' = busy,
             accounted' = account, holdings' = Empty,
             UNCHANGED <<carried, order_number, submitVars, waiting_gateway, failed,
                         completed, failures, clear_orders>>
      PROVE  SlotType' /\ CleanupType'
  <2>1. OutcomeType'
    BY <1>1, <1>5 DEF OutcomeType, States
  <2>2. DataType' /\ SubmitType' /\ NumberType'
    BY <1>1, <1>2, <1>5, EmptyType DEF DataType, SubmitType, NumberType, submitVars
  <2>3. CleanupType'
    BY <1>1, <1>2, <1>5 DEF CleanupType
  <2> QED
    BY <2>1, <2>2, <2>3 DEF SlotType
<1> QED
  BY <1>3, <1>4, <1>5 DEF ClearInitialPosition

\* Giving up an order leaves well-typed outcome variables.
LEMMA AbandonType ==
  ASSUME SlotType, NEW busy \in BOOLEAN, NEW order \in Orders, Abandon(busy, order)
  PROVE  OutcomeType'
  BY OutcomeTypes DEF SlotType, Abandon

\* Booking a report that is otherwise of no consequence.
LEMMA BookType ==
  ASSUME SlotType, pending \in Orders, NEW v \in Reports, Book(v)
  PROVE  DataType'
  BY SettleType DEF SlotType, DataType, Book

\* report() keeps the types, by way of each of its ends.
LEMMA ReportType ==
  ASSUME SlotType, CleanupType, accepted \in Nat, pending \in Orders,
         NEW v \in Reports, NEW busy \in BOOLEAN, Report(v, busy)
  PROVE  SlotType' /\ CleanupType'
<1> USE DEF Report
<1>1. OutcomeType /\ DataType /\ SubmitType /\ NumberType
  BY DEF SlotType
<1>2. UNCHANGED submitVars => SubmitType'
  BY <1>1 DEF SubmitType, submitVars
<1>3. UNCHANGED <<leg_number, order_number>> => NumberType'
  BY <1>1 DEF NumberType
<1>4. UNCHANGED dataVars => DataType'
  BY <1>1 DEF DataType, dataVars
<1>5. CASE ReportIgnored(v, busy) \/ ReportProgress(v, busy)
  <2>1. OutcomeType' /\ CleanupType'
    BY <1>1, <1>5, CleanupTypeUnchanged
    DEF OutcomeType, ReportIgnored, ReportProgress
  <2>2. DataType'
    BY <1>4, <1>5, BookType DEF ReportIgnored, ReportProgress
  <2>3. SubmitType' /\ NumberType'
    BY <1>2, <1>3, <1>5 DEF ReportIgnored, ReportProgress
  <2> QED
    BY <2>1, <2>2, <2>3 DEF SlotType
<1>6. CASE ReportUnusable(v, busy) \/ ReportIncomplete(v, busy)
  <2>1. OutcomeType'
    BY <1>6, AbandonType DEF ReportUnusable, ReportIncomplete
  <2>2. DataType'
    BY <1>4, <1>6, BookType DEF ReportUnusable, ReportIncomplete
  <2>3. SubmitType' /\ NumberType' /\ CleanupType'
    BY <1>2, <1>3, <1>6, CleanupTypeUnchanged DEF ReportUnusable, ReportIncomplete
  <2> QED
    BY <2>1, <2>2, <2>3 DEF SlotType
<1>7. CASE ReportReleases(v, busy)
  <2>1. OutcomeType'
    BY <1>1, <1>7 DEF OutcomeType, States, ReportReleases
  <2>2. DataType'
    BY <1>7, BookType DEF ReportReleases
  <2>3. SubmitType' /\ NumberType' /\ CleanupType'
    BY <1>2, <1>3, <1>7, CleanupTypeUnchanged DEF ReportReleases
  <2> QED
    BY <2>1, <2>2, <2>3 DEF SlotType
<1>8. CASE ReportCleared(v, busy)
  <2>1. Settle(v) \in [Assets -> Int] /\ AccountOf(v) \in Accounts
    BY SettleType
  <2>2. state \in States /\ None \in Tags \cup {None}
    BY <1>1 DEF OutcomeType
  <2>3. ClearInitialPosition(Settle(v), AccountOf(v), state, None, busy)
        /\ cleanup_started' \in BOOLEAN
    BY <1>8 DEF ReportCleared, CleanupType
  <2> QED
    BY <2>1, <2>2, <2>3, ClearType
<1>9. CASE ReportUnfilled(v, busy) \/ ReportFirstLegStop(v, busy)
  <2>1. OutcomeType'
    BY <1>1, <1>9, OutcomeTypes DEF NumberType, ReportUnfilled, ReportFirstLegStop
  <2>2. DataType'
    BY <1>9, BookType DEF ReportUnfilled, ReportFirstLegStop
  <2>3. SubmitType' /\ NumberType' /\ CleanupType'
    BY <1>2, <1>3, <1>9, CleanupTypeUnchanged DEF ReportUnfilled, ReportFirstLegStop
  <2> QED
    BY <2>1, <2>2, <2>3 DEF SlotType
<1>10. CASE ReportAdvances(v, busy)
  <2>1. Settle(v) \in [Assets -> Int] /\ AccountOf(v) \in Accounts
    BY SettleType
  <2>2. leg_number + 1 \in Nat
    BY <1>1 DEF NumberType
  <2>3. NextLeg(leg_number + 1, Settle(v), AccountOf(v), busy) /\ UNCHANGED cleanupVars
    BY <1>10 DEF ReportAdvances
  <2> QED
    BY <2>1, <2>2, <2>3, NextLegType, CleanupTypeUnchanged
<1> QED
  BY <1>5, <1>6, <1>7, <1>8, <1>9, <1>10

(***************************************************************************)
(* Type correctness.                                                       *)
(***************************************************************************)
\* The initial state is well typed.
LEMMA InitType == Init => TypeOK
<1> SUFFICES ASSUME Init PROVE TypeOK
  OBVIOUS
<1>1. OutcomeType
  BY DEF Init, OutcomeType, States
<1>2. DataType /\ SubmitType /\ NumberType
  BY EmptyType DEF Init, DataType, SubmitType, NumberType
<1>3. CleanupType
  BY DEF Init, CleanupType
<1>4. LoopType
  BY EmptySeq DEF Init, LoopType
<1> QED
  BY <1>1, <1>2, <1>3, <1>4, TypeGroups DEF SlotType

\* A cycle's starting holdings are integers.
LEMMA BudgetType == [Empty EXCEPT !["USDT"] = Budget] \in [Assets -> Int]
  BY BoundAssumption, AssetsAssumption DEF Empty

\* The calls the main thread makes outside io.poll().
LEMMA CallsType ==
  TypeOK /\ (TryStart \/ StartInitialCleanup \/ ProcessReturn) => TypeOK'
<1> SUFFICES ASSUME TypeOK, TryStart \/ StartInitialCleanup \/ ProcessReturn PROVE TypeOK'
  OBVIOUS
<1>1. SlotType /\ CleanupType /\ LoopType /\ OutcomeType /\ DataType /\ SubmitType
  BY TypeGroups DEF SlotType
<1>2. CASE TryStart
  <2>1. [kind |-> "begin"] \in Handlers
    BY DEF Handlers
  <2>2. ready' \in Seq(Handlers)
    BY <1>1, <1>2, <2>1, PostType DEF TryStart
  <2>3. LoopType'
    BY <1>1, <1>2, <2>2 DEF TryStart, LoopType
  <2>4. CleanupType'
    BY <1>1, <1>2, CleanupTypeUnchanged DEF TryStart
  <2>5. timeout' \in Tags
    BY <1>1, <1>2 DEF TryStart, Tags, LoopType, CleanupType
  <2>6. OutcomeType'
    BY <1>1, <1>2, <2>5 DEF TryStart, OutcomeType, States
  <2>7. DataType' /\ SubmitType' /\ NumberType'
    BY <1>1, <1>2, EmptyType DEF TryStart, DataType, SubmitType, NumberType
  <2> QED
    BY <2>3, <2>4, <2>6, <2>7, TypeGroups DEF TypeOK, SlotType, OutcomeType, DataType,
       SubmitType, NumberType, CleanupType, LoopType
<1>3. CASE StartInitialCleanup
  <2>1. InitialBalances \in [Assets -> Int]
    BY BoundAssumption
  <2>2. /\ accounted \in Accounts /\ timeout \in Tags \cup {None} /\ gateway_busy \in BOOLEAN
        /\ accepted \in Nat /\ "CLEARING" \in States
    BY <1>1 DEF OutcomeType, DataType, LoopType, States
  <2>3. /\ ClearInitialPosition(InitialBalances, accounted, "CLEARING", timeout, gateway_busy)
        /\ cleanup_started' \in BOOLEAN
    BY <1>3 DEF StartInitialCleanup
  <2>4. SlotType' /\ CleanupType'
    BY <1>1, <2>1, <2>2, <2>3, ClearType
  <2>5. LoopType'
    BY <1>1, <1>3 DEF StartInitialCleanup, LoopType
  <2> QED
    BY <2>4, <2>5 DEF TypeOK, SlotType, OutcomeType, DataType, SubmitType, NumberType,
                      CleanupType, LoopType
<1>4. CASE ProcessReturn
  <2>1. SlotType' /\ CleanupType'
    BY <1>1, <1>4, SlotTypeUnchanged, CleanupTypeUnchanged DEF ProcessReturn
  <2>2. LoopType'
    BY <1>1, <1>4 DEF ProcessReturn, LoopType
  <2> QED
    BY <2>1, <2>2 DEF TypeOK, SlotType, OutcomeType, DataType, SubmitType, NumberType,
                      CleanupType, LoopType
<1> QED
  BY <1>2, <1>3, <1>4

\* The handlers io.poll() runs.
LEMMA HandlersType ==
  TypeOK /\ (RunBegin \/ RunTimeout \/ RunWait \/ RunStop \/ RunReport \/ RunStream)
    => TypeOK'
<1> SUFFICES ASSUME TypeOK,
                    RunBegin \/ RunTimeout \/ RunWait \/ RunStop \/ RunReport \/ RunStream
             PROVE  SlotType' /\ CleanupType' /\ LoopType'
  BY DEF TypeOK, SlotType, OutcomeType, DataType, SubmitType, NumberType, CleanupType,
         LoopType
<1>1. /\ SlotType /\ CleanupType /\ LoopType /\ OutcomeType /\ DataType /\ SubmitType
      /\ NumberType /\ accepted \in Nat
  BY TypeGroups DEF SlotType, LoopType
<1>2. /\ gateway_busy \in BOOLEAN /\ timeout \in Tags \cup {None} /\ state \in States
      /\ accounted \in Accounts /\ holdings \in [Assets -> Int] /\ leg_number \in Nat
      /\ pending \in Orders \cup {None}
  BY <1>1 DEF OutcomeType, DataType, NumberType
<1>3. UNCHANGED submitVars => SubmitType'
  BY <1>1 DEF SubmitType, submitVars
<1>4. UNCHANGED <<leg_number, order_number>> => NumberType'
  BY <1>1 DEF NumberType
<1>5. UNCHANGED dataVars => DataType'
  BY <1>1 DEF DataType, dataVars
<1>6. CASE RunBegin
  <2>1. CleanupType' /\ LoopType'
    BY <1>1, <1>6, CleanupTypeUnchanged, RunType DEF RunBegin
  <2>2. CASE UNCHANGED slotVars
    BY <1>1, <2>1, <2>2, SlotTypeUnchanged
  <2>3. CASE /\ Finish(TRUE, leg_number, gateway_busy)
             /\ holdings' \in {holdings, [Empty EXCEPT !["USDT"] = Budget]}
             /\ UNCHANGED <<accounted, carried, submitVars, leg_number, order_number>>
    <3>1. OutcomeType'
      BY <1>1, <1>2, <2>3, OutcomeTypes
    <3>2. DataType' /\ SubmitType' /\ NumberType'
      BY <1>1, <1>2, <1>3, <1>4, <2>3, BudgetType DEF DataType
    <3> QED
      BY <2>1, <3>1, <3>2 DEF SlotType
  <2>4. CASE NextLeg(0, [Empty EXCEPT !["USDT"] = Budget], accounted, gateway_busy)
    BY <1>1, <1>2, <2>1, <2>4, BudgetType, NextLegType
  <2> QED
    BY <1>6, <2>2, <2>3, <2>4 DEF RunBegin
<1>7. CASE RunTimeout
  <2>1. CleanupType' /\ LoopType' /\ DataType' /\ SubmitType' /\ NumberType'
    BY <1>1, <1>3, <1>4, <1>5, <1>7, CleanupTypeUnchanged, RunType DEF RunTimeout
  <2>2. OutcomeType'
    <3>1. CASE UNCHANGED outcomeVars
      BY <1>1, <3>1 DEF OutcomeType, outcomeVars
    <3>2. CASE pending # None /\ Abandon(gateway_busy, pending)
      BY <1>1, <1>2, <3>2, AbandonType
    <3>3. CASE FailCycle(gateway_busy, None)
      BY <1>1, <1>2, <3>3, OutcomeTypes
    <3> QED
      BY <1>7, <3>1, <3>2, <3>3 DEF RunTimeout
  <2> QED
    BY <2>1, <2>2 DEF SlotType
<1>8. CASE RunWait
  <2>1. LoopType'
    BY <1>1, <1>8, RunType DEF RunWait
  <2>2. CASE UNCHANGED <<slotVars, cleanupVars>>
    BY <1>1, <2>1, <2>2, SlotTypeUnchanged, CleanupTypeUnchanged
  <2>3. CASE ClearInitialPosition(holdings, accounted, state, timeout, gateway_busy)
    <3>1. cleanup_started' \in BOOLEAN
      BY <1>1, <1>8 DEF RunWait, CleanupType
    <3> QED
      BY <1>1, <1>2, <2>1, <2>3, <3>1, ClearType
  <2> QED
    BY <1>8, <2>2, <2>3 DEF RunWait
<1>9. CASE RunStop
  <2>1. CleanupType' /\ DataType' /\ SubmitType' /\ NumberType'
    BY <1>1, <1>3, <1>4, <1>5, <1>9, CleanupTypeUnchanged DEF RunStop
  <2>2. LoopType'
    <3>1. ready \in Seq(Handlers) /\ ready # << >> /\ ready' = Tail(ready)
      BY <1>1, <1>9 DEF RunStop, Run, LoopType
    <3>2. ready' \in Seq(Handlers)
      BY <3>1, HeadTailProperties
    <3> QED
      BY <1>1, <1>9, <3>2 DEF RunStop, Run, LoopType
  <2>3. OutcomeType'
    <3>1. CASE Halt(gateway_busy, pending)
      BY <1>1, <1>2, <3>1, OutcomeTypes
    <3>2. CASE /\ cleanup_wait' = FALSE
               /\ UNCHANGED <<state, pending, gateway_busy, waiting_gateway, failed,
                              completed, failures, timeout>>
      BY <1>1, <3>2 DEF OutcomeType
    <3> QED
      BY <1>9, <3>1, <3>2 DEF RunStop
  <2> QED
    BY <2>1, <2>2, <2>3 DEF SlotType
<1>10. CASE RunReport \/ RunStream
  <2>1. LoopType'
    BY <1>1, <1>10, RunType DEF RunReport, RunStream
  <2>2. CASE UNCHANGED <<slotVars, cleanupVars>>
    BY <1>1, <2>1, <2>2, SlotTypeUnchanged, CleanupTypeUnchanged
  <2>3. CASE \E busy \in BOOLEAN :
               /\ ForPending(Head(ready).id)
               /\ \E v \in ReportsOn(pending) : Report(v, busy)
    <3>1. PICK busy \in BOOLEAN :
            /\ ForPending(Head(ready).id)
            /\ \E v \in ReportsOn(pending) : Report(v, busy)
      BY <2>3
    <3>2. pending \in Orders
      BY <1>2, <3>1 DEF ForPending
    <3>3. PICK v \in Reports : Report(v, busy)
      BY <1>1, <3>1, <3>2, ReportsType
    <3> QED
      BY <1>1, <2>1, <3>2, <3>3, ReportType
  <2> QED
    BY <1>2, <1>10, <2>2, <2>3 DEF RunReport, RunStream
<1> QED
  BY <1>6, <1>7, <1>8, <1>9, <1>10

\* Time, the signal, the end of poll() and the gateway's worker.
LEMMA WorldType ==
  TypeOK /\ (\/ TimeoutExpires \/ WaitExpires \/ DeadlinePasses \/ Signal \/ PollReturn
             \/ \E g \in live : Answer(g) \/ StreamReport(g)
             \/ UNCHANGED vars) => TypeOK'
<1> SUFFICES ASSUME TypeOK,
                    \/ TimeoutExpires \/ WaitExpires \/ DeadlinePasses \/ Signal
                    \/ PollReturn
                    \/ \E g \in live : Answer(g) \/ StreamReport(g)
                    \/ UNCHANGED vars
             PROVE  SlotType' /\ CleanupType' /\ LoopType'
  BY DEF TypeOK, SlotType, OutcomeType, DataType, SubmitType, NumberType, CleanupType,
         LoopType
<1>1. /\ SlotType /\ CleanupType /\ LoopType /\ OutcomeType /\ DataType /\ SubmitType
      /\ NumberType
  BY TypeGroups DEF SlotType
<1>2. UNCHANGED <<leg_number, order_number>> => NumberType'
  BY <1>1 DEF NumberType
<1>3. UNCHANGED dataVars => DataType'
  BY <1>1 DEF DataType, dataVars
<1>4. UNCHANGED outcomeVars => OutcomeType'
  BY <1>1 DEF OutcomeType, outcomeVars
<1>5. CASE TimeoutExpires
  <2>1. timeout \in Tags
    BY <1>1, <1>5 DEF OutcomeType, TimeoutExpires
  <2>2. [kind |-> "timeout", tag |-> timeout] \in Handlers
    BY <2>1 DEF Handlers
  <2>3. LoopType'
    BY <1>1, <1>5, <2>2, PostType DEF TimeoutExpires, Others, LoopType
  <2>4. OutcomeType'
    BY <1>1, <1>5 DEF OutcomeType, TimeoutExpires
  <2>5. SubmitType'
    BY <1>1, <1>5 DEF SubmitType, TimeoutExpires, submitVars
  <2> QED
    BY <1>1, <1>2, <1>3, <1>5, <2>3, <2>4, <2>5, CleanupTypeUnchanged
    DEF SlotType, TimeoutExpires
<1>6. CASE WaitExpires
  <2>1. [kind |-> "wait"] \in Handlers
    BY DEF Handlers
  <2>2. LoopType'
    BY <1>1, <1>6, <2>1, PostType DEF WaitExpires, Others, LoopType
  <2>3. OutcomeType'
    BY <1>1, <1>6 DEF OutcomeType, WaitExpires
  <2>4. SubmitType'
    BY <1>1, <1>6 DEF SubmitType, WaitExpires, submitVars
  <2> QED
    BY <1>1, <1>2, <1>3, <1>6, <2>2, <2>3, <2>4, CleanupTypeUnchanged
    DEF SlotType, WaitExpires
<1>7. CASE DeadlinePasses
  BY <1>1, <1>7, SlotTypeUnchanged DEF DeadlinePasses, Others, CleanupType, LoopType
<1>8. CASE Signal
  <2>1. [kind |-> "stop"] \in Handlers
    BY DEF Handlers
  <2>2. LoopType'
    BY <1>1, <1>8, <2>1, PostType DEF Signal, Others, LoopType
  <2> QED
    BY <1>1, <1>8, <2>2, SlotTypeUnchanged, CleanupTypeUnchanged DEF Signal
<1>9. CASE PollReturn
  BY <1>1, <1>9, SlotTypeUnchanged, CleanupTypeUnchanged DEF PollReturn, LoopType
<1>10. CASE \E g \in live : Answer(g) \/ StreamReport(g)
  <2>1. PICK g \in live : Answer(g) \/ StreamReport(g)
    BY <1>10
  <2>2. g \in LiveOrders /\ g.id \in Nat \X Nat /\ g.replies \in Nat /\ g.running \in BOOLEAN
    BY <1>1 DEF SubmitType, LiveOrders
  <2>3. [kind |-> "report", id |-> g.id] \in Handlers
        /\ [kind |-> "stream", id |-> g.id] \in Handlers
    BY <2>2 DEF Handlers
  <2>4. LoopType'
    BY <1>1, <2>1, <2>3, PostType DEF Answer, StreamReport, Others, LoopType
  <2>5. \A running \in BOOLEAN : [g EXCEPT !.replies = @ + 1, !.running = running] \in LiveOrders
    <3> SUFFICES ASSUME NEW running \in BOOLEAN
                 PROVE  [g EXCEPT !.replies = @ + 1, !.running = running] \in LiveOrders
      OBVIOUS
    <3> DEFINE once == [g EXCEPT !.replies = g.replies + 1]
    <3>1. g.replies + 1 \in Nat
      BY <2>2
    <3>2. once \in LiveOrders
      BY <2>2, <3>1 DEF LiveOrders
    <3>3. [once EXCEPT !.running = running] \in LiveOrders
      BY <3>2 DEF LiveOrders
    <3> QED
      BY <3>3
  <2>6. \A running \in BOOLEAN : Reported(g, running) \in SUBSET LiveOrders
    BY <1>1, <2>5 DEF SubmitType, Reported
  <2>7. SubmitType'
    BY <1>1, <2>1, <2>2, <2>6 DEF SubmitType, Answer, StreamReport
  <2> QED
    BY <1>1, <1>2, <1>3, <1>4, <2>1, <2>4, <2>7, CleanupTypeUnchanged
    DEF SlotType, Answer, StreamReport
<1>11. CASE UNCHANGED vars
  BY <1>1, <1>11, SlotTypeUnchanged, CleanupTypeUnchanged DEF vars, LoopType
<1> QED
  BY <1>5, <1>6, <1>7, <1>8, <1>9, <1>10, <1>11

\* Every step keeps the types.
LEMMA TypeNext == TypeOK /\ [Next]_vars => TypeOK'
  BY CallsType, HandlersType, WorldType DEF Next, Exited

\* Every state of every behaviour is well typed.
THEOREM TypeCorrect == Spec => []TypeOK
  BY InitType, TypeNext, PTL DEF Spec

(***************************************************************************)
(* HALTED is final.                                                        *)
(***************************************************************************)
\* A halted executor stays halted, sends nothing and books nothing, whatever
\* handlers are still queued for it.
THEOREM HaltedForGood == Spec => HaltIsFinal
<1>1. [Next]_vars /\ state = "HALTED" =>
        state' = "HALTED" /\ order_number' = order_number /\ holdings' = holdings
  <2> SUFFICES ASSUME Next \/ UNCHANGED vars, state = "HALTED"
               PROVE  UNCHANGED <<state, order_number, holdings>>
    OBVIOUS
  <2>1. CASE TryStart \/ StartInitialCleanup \/ ProcessReturn
    BY <2>1 DEF TryStart, StartInitialCleanup, ProcessReturn, slotVars, outcomeVars, dataVars
  <2>2. CASE RunBegin \/ RunTimeout \/ RunWait \/ RunStop
    BY <2>2 DEF RunBegin, RunTimeout, RunWait, RunStop, ClearingBlocked, slotVars,
                outcomeVars, dataVars
  <2>3. CASE RunReport \/ RunStream
    <3>1. \A v, busy : Report(v, busy) => UNCHANGED <<state, order_number, holdings>>
      BY DEF Report, ReportIgnored, ReportUnusable, ReportReleases, ReportProgress,
             ReportIncomplete, ReportCleared, ReportUnfilled, ReportFirstLegStop,
             ReportAdvances, ReportFinal, Accepts, Fresh, dataVars
    <3> QED
      BY <2>3, <3>1 DEF RunReport, RunStream, slotVars, outcomeVars, dataVars
  <2>4. CASE \/ TimeoutExpires \/ WaitExpires \/ DeadlinePasses \/ Signal \/ PollReturn
             \/ \E g \in live : Answer(g) \/ StreamReport(g)
             \/ UNCHANGED vars
    BY <2>4 DEF TimeoutExpires, WaitExpires, DeadlinePasses, Signal, PollReturn, Answer,
                StreamReport, vars, slotVars, outcomeVars, dataVars
  <2> QED
    BY <2>1, <2>2, <2>3, <2>4 DEF Next, Exited
<1>2. [Next]_vars =>
        [state = "HALTED" => /\ state' = "HALTED" /\ order_number' = order_number
                             /\ holdings' = holdings]_vars
  BY <1>1
<1> QED
  BY <1>2, PTL DEF Spec, HaltIsFinal

(***************************************************************************)
(* The slot.  Without a user stream the callback is the only source of     *)
(* reports, one REST task runs at a time and gateway_busy says so.         *)
(***************************************************************************)
\* Identifiers handed out so far.
Known(id) == id[1] < accepted \/ (id[1] = accepted /\ id[2] <= order_number)

\* What has been posted and not run.
Posted == Range(ready)

\* Live orders have their own identifiers, none from the future, and a report
\* is posted only once the REST task of its order is over.
Identified ==
  /\ \A g \in live : Known(g.id)
  /\ \A g, h \in live : g.id = h.id => g = h
  /\ \A r \in Posted : r.kind # "stream"
  /\ \A r \in Posted : r.kind = "report" =>
       /\ Known(r.id)
       /\ \A g \in live : g.running => g.id # r.id

\* The running task is the one gateway_busy and pending speak of.
Occupied ==
  state # "HALTED" =>
    /\ pending = None => ~gateway_busy /\ ~waiting_gateway
    /\ state \in {"IDLE", "VALIDATING"} => pending = None
    /\ \A g \in live : g.running => gateway_busy /\ pending # None /\ pending.id = g.id

SlotInv == TypeOK /\ Identified /\ Occupied

\* At start nothing runs and nothing is posted.
LEMMA InitSlot == Init => SlotInv
<1> SUFFICES ASSUME Init PROVE SlotInv
  OBVIOUS
<1>1. Posted = {}
  BY EmptySeq, LenProperties DEF Init, Posted, Range
<1> QED
  BY <1>1, InitType DEF Init, SlotInv, Identified, Occupied

\* What Append and Tail do to the set of posted handlers.
LEMMA PostedAppend ==
  ASSUME TypeOK, NEW h \in Handlers, ready' = Append(ready, h)
  PROVE  Posted' \subseteq Posted \cup {h}
<1>1. ready \in Seq(Handlers) /\ Len(ready) \in Nat /\ DOMAIN ready = 1..Len(ready)
  BY LenProperties DEF TypeOK
<1>2. /\ ready' \in Seq(Handlers) /\ Len(ready') = Len(ready) + 1
      /\ \A i \in 1..Len(ready) : ready'[i] = ready[i]
      /\ ready'[Len(ready) + 1] = h
  BY <1>1, AppendProperties
<1>3. DOMAIN ready' = 1..Len(ready) + 1
  BY <1>1, <1>2, LenProperties
<1> SUFFICES ASSUME NEW i \in 1..Len(ready) + 1 PROVE ready'[i] \in Posted \cup {h}
  BY <1>3 DEF Posted, Range
<1>4. CASE i \in 1..Len(ready)
  BY <1>1, <1>2, <1>4 DEF Posted, Range
<1>5. CASE i = Len(ready) + 1
  BY <1>2, <1>5
<1> QED
  BY <1>1, <1>4, <1>5

\* Running a handler takes it from the posted ones and adds none.
LEMMA PostedTail ==
  ASSUME TypeOK, ready # << >>, ready' = Tail(ready)
  PROVE  Posted' \subseteq Posted /\ Head(ready) \in Posted
<1>1. ready \in Seq(Handlers) /\ Len(ready) \in Nat \ {0} /\ DOMAIN ready = 1..Len(ready)
  BY LenProperties, EmptySeq DEF TypeOK
<1>2. /\ ready' \in Seq(Handlers) /\ Len(ready') = Len(ready) - 1
      /\ \A i \in 1..Len(ready') : ready'[i] = ready[i + 1]
  BY <1>1, HeadTailProperties
<1>3. DOMAIN ready' = 1..Len(ready) - 1
  BY <1>1, <1>2, LenProperties
<1>4. Posted' \subseteq Posted
  <2> SUFFICES ASSUME NEW i \in 1..Len(ready) - 1 PROVE ready'[i] \in Posted
    BY <1>3 DEF Posted, Range
  <2> QED
    BY <1>1, <1>2 DEF Posted, Range
<1>5. Head(ready) = ready[1] /\ 1 \in DOMAIN ready
  BY <1>1
<1> QED
  BY <1>4, <1>5 DEF Posted, Range

\* Live orders and posted reports carry identifiers.
LEMMA IdTypes ==
  ASSUME TypeOK
  PROVE  /\ \A g \in live : g.id \in Nat \X Nat
         /\ \A r \in Posted : r.kind = "report" => r.id \in Nat \X Nat
<1>1. ready \in Seq(Handlers) /\ DOMAIN ready = 1..Len(ready)
  BY LenProperties DEF TypeOK
<1>2. \A i \in 1..Len(ready) : ready[i] \in Handlers
  BY <1>1, ElementOfSeq
<1> QED
  BY <1>1, <1>2 DEF Posted, Range, Handlers, TypeOK, LiveOrders

\* Steps that send nothing and post no report keep identifiers apart.
LEMMA IdentifiedKept ==
  ASSUME TypeOK, Identified, accepted' = accepted, order_number' \in Nat,
         order_number' >= order_number, live' = live,
         \A r \in Posted' : r \in Posted \/ r.kind \notin {"report", "stream"}
  PROVE  Identified'
<1>1. accepted \in Nat /\ order_number \in Nat /\ live \subseteq LiveOrders
  BY DEF TypeOK
<1>2. \A id \in Nat \X Nat : Known(id) => Known(id)'
  BY <1>1 DEF Known
<1>3. /\ \A g \in live : g.id \in Nat \X Nat
      /\ \A r \in Posted : r.kind = "report" => r.id \in Nat \X Nat
  BY IdTypes
<1> QED
  BY <1>2, <1>3 DEF Identified

\* A new order gets an identifier nobody has.
LEMMA IdentifiedSent ==
  ASSUME TypeOK, Identified, accepted' = accepted, order_number' = order_number + 1,
         live' = live \cup {[id |-> <<accepted, order_number + 1>>, replies |-> 0,
                             running |-> TRUE]},
         Posted' \subseteq Posted
  PROVE  Identified'
<1>1. accepted \in Nat /\ order_number \in Nat /\ live \subseteq LiveOrders
  BY DEF TypeOK
<1>2. \A id \in Nat \X Nat : Known(id) => Known(id)'
  BY <1>1 DEF Known
<1>3. /\ \A g \in live : g.id \in Nat \X Nat
      /\ \A r \in Posted : r.kind = "report" => r.id \in Nat \X Nat
  BY IdTypes
<1>4. PICK new : new = [id |-> <<accepted, order_number + 1>>, replies |-> 0,
                        running |-> TRUE]
  OBVIOUS
<1>5. ~Known(new.id) /\ Known(new.id)' /\ new.id \in Nat \X Nat
  BY <1>1, <1>4 DEF Known
<1>6. live' = live \cup {new}
  BY <1>4
<1>7. \A g \in live' : Known(g.id)'
  BY <1>2, <1>3, <1>5, <1>6 DEF Identified
<1>8. \A g, h \in live' : g.id = h.id => g = h
  BY <1>5, <1>6 DEF Identified
<1>9. \A r \in Posted' : r.kind # "stream"
  BY DEF Identified
<1>10. \A r \in Posted' : r.kind = "report" =>
         /\ Known(r.id)'
         /\ \A g \in live' : g.running => g.id # r.id
  BY <1>2, <1>3, <1>5, <1>6 DEF Identified
<1> QED
  BY <1>7, <1>8, <1>9, <1>10 DEF Identified

\* The new numbering of an accepted cycle.
LEMMA IdentifiedStart ==
  ASSUME TypeOK, Identified, accepted' = accepted + 1, order_number' = 0, live' = live,
         \A r \in Posted' : r \in Posted \/ r.kind \notin {"report", "stream"}
  PROVE  Identified'
<1>1. accepted \in Nat /\ order_number \in Nat /\ live \subseteq LiveOrders
  BY DEF TypeOK
<1>2. \A id \in Nat \X Nat : Known(id) => Known(id)'
  BY <1>1 DEF Known
<1>3. /\ \A g \in live : g.id \in Nat \X Nat
      /\ \A r \in Posted : r.kind = "report" => r.id \in Nat \X Nat
  BY IdTypes
<1> QED
  BY <1>2, <1>3 DEF Identified

\* The gateway's answer ends the REST task as it posts its report.
LEMMA IdentifiedAnswered ==
  ASSUME TypeOK, Identified, NEW g \in live, Answer(g)
  PROVE  Identified' /\ \A h \in live' : h.running => h \in live
<1>1. /\ g.id \in Nat \X Nat /\ g \in LiveOrders /\ Known(g.id)
  BY DEF TypeOK, LiveOrders, Identified
<1>2. [kind |-> "report", id |-> g.id] \in Handlers
  BY <1>1 DEF Handlers
<1>3. Posted' \subseteq Posted \cup {[kind |-> "report", id |-> g.id]}
  BY <1>2, PostedAppend DEF Answer
<1>4. UNCHANGED <<accepted, order_number>>
  BY DEF Answer, Others
<1> DEFINE told == [g EXCEPT !.replies = @ + 1, !.running = FALSE]
<1>5. told.id = g.id /\ told.running = FALSE
  BY <1>1 DEF LiveOrders
<1> HIDE DEF told
<1>6. live' \subseteq (live \ {g}) \cup {told}
  BY DEF Answer, Reported, told
<1>7. \A h \in live' : Known(h.id)'
  BY <1>1, <1>4, <1>5, <1>6 DEF Identified, Known
<1>8. \A h, k \in live' : h.id = k.id => h = k
  BY <1>5, <1>6 DEF Identified
<1>9. \A r \in Posted' : r.kind # "stream"
  BY <1>3 DEF Identified
<1>10. \A r \in Posted' : r.kind = "report" =>
         /\ Known(r.id)'
         /\ \A h \in live' : h.running => h.id # r.id
  BY <1>1, <1>3, <1>4, <1>5, <1>6 DEF Identified, Known
<1> QED
  BY <1>5, <1>6, <1>7, <1>8, <1>9, <1>10 DEF Identified

(***************************************************************************)
(* The slot after each outcome, when no REST task is running any more.     *)
(***************************************************************************)
NoTask == \A g \in live : ~g.running

\* Only handlers that are no reports were posted, at most.
Quiet == \A r \in Posted' : r \in Posted \/ r.kind \notin {"report", "stream"}

\* Nothing was sent.
SentNothing ==
  /\ live' = live /\ accepted' = accepted
  /\ order_number' \in Nat /\ order_number' >= order_number /\ Quiet

\* An outcome reached with no task running leaves the slot consistent.
LEMMA EndedSlot ==
  ASSUME SlotInv, NoTask, SentNothing, NEW order,
         \/ Halt(FALSE, order)
         \/ FailCycle(FALSE, order)
         \/ ~waiting_gateway /\ \E fails, leg : Finish(fails, leg, FALSE)
  PROVE  Identified' /\ Occupied'
<1>1. Identified'
  BY IdentifiedKept DEF SlotInv, SentNothing, Quiet
<1>2. Occupied'
  BY DEF NoTask, SentNothing, Occupied, Halt, FailCycle, Finish, KeepsSlot
<1> QED
  BY <1>1, <1>2

\* A new order is the one running task and occupies the slot.
LEMMA SendSlot ==
  ASSUME SlotInv, NoTask, NEW clear \in BOOLEAN, NEW leg \in Legs, NEW quantity \in Nat,
         NEW amounts, NEW timer, Send(clear, leg, quantity, amounts, timer),
         accepted' = accepted, Posted' \subseteq Posted
  PROVE  Identified' /\ Occupied'
<1>1. PICK order : order = [id |-> <<accepted, order_number + 1>>, clear |-> clear,
                            leg |-> leg, quantity |-> quantity]
  OBVIOUS
<1>2. TypeOK /\ accepted \in Nat /\ order_number \in Nat
  BY DEF SlotInv, TypeOK
<1>3. order \in Orders /\ order # None /\ order.id = <<accepted, order_number + 1>>
  BY <1>1, <1>2, NoneAssumption DEF Orders
<1>4. order_number' = order_number + 1
  BY DEF Send
<1>5. CASE /\ state' = (IF clear THEN "CLEARING" ELSE "LEG_PENDING")
           /\ pending' = order /\ gateway_busy' = TRUE
           /\ live' = live \cup {[id |-> order.id, replies |-> 0, running |-> TRUE]}
  <2>1. Identified'
    BY <1>2, <1>3, <1>4, <1>5, IdentifiedSent DEF SlotInv
  <2>2. Occupied'
    BY <1>3, <1>5 DEF NoTask, Occupied
  <2> QED
    BY <2>1, <2>2
<1>6. CASE Abandon(FALSE, order) /\ UNCHANGED submitVars
  <2>1. SentNothing
    BY <1>2, <1>4, <1>6 DEF SentNothing, Quiet, submitVars
  <2> QED
    BY <1>6, <2>1, EndedSlot DEF Abandon
<1> QED
  BY <1>1, <1>5, <1>6 DEF Send

\* The next leg is reached with no task running; it occupies or frees the slot.
LEMMA NextLegSlot ==
  ASSUME SlotInv, NoTask, ~waiting_gateway, NEW leg \in Nat,
         NEW amounts \in [Assets -> Int], NEW account, NextLeg(leg, amounts, account, FALSE),
         accepted' = accepted, Posted' \subseteq Posted
  PROVE  Identified' /\ Occupied'
<1>1. CASE /\ Finish(failed, leg, FALSE) \/ Finish(TRUE, leg, FALSE)
           /\ UNCHANGED <<carried, order_number, submitVars>>
  <2>1. SentNothing
    BY <1>1 DEF SentNothing, Quiet, submitVars, SlotInv, TypeOK
  <2> QED
    BY <1>1, <2>1, EndedSlot
<1>2. CASE leg < Len(Path)
           /\ LET l == Path[leg + 1]
                  q == Quantity(l, amounts[Spent(l)])
              IN q > 0 /\ Send(FALSE, l, q, amounts, timeout)
  <2> DEFINE l == Path[leg + 1]
             q == Quantity(l, amounts[Spent(l)])
  <2>1. l \in Legs
    <3>1. Path \in Seq(Legs) /\ Len(Path) \in Nat /\ leg + 1 \in 1..Len(Path)
      BY <1>2, PathAssumption, LenProperties
    <3> QED
      BY <3>1, ElementOfSeq
  <2>2. q \in Nat
    <3>1. Spent(l) \in Assets
      BY <2>1 DEF Spent, Legs
    <3>2. q \in Int
      BY <2>1, <3>1, QuantityType
    <3> QED
      BY <1>2, <3>2
  <2>3. Send(FALSE, l, q, amounts, timeout)
    BY <1>2
  <2> HIDE DEF l, q
  <2> QED
    BY <2>1, <2>2, <2>3, SendSlot
<1> QED
  BY <1>1, <1>2 DEF NextLeg

\* A clearing pass starts at most one task, for the order it makes pending.
LEMMA ClearSlot ==
  ASSUME SlotInv, NoTask, ~waiting_gateway, NEW amounts \in [Assets -> Int],
         NEW account, NEW st, NEW timer,
         ClearInitialPosition(amounts, account, st, timer, FALSE),
         accepted' = accepted, Posted' \subseteq Posted
  PROVE  Identified' /\ Occupied'
<1> DEFINE left == Unprocessed(amounts)
           sellable == left \cap DOMAIN ExitLegs
<1>1. ASSUME NEW a \in sellable,
             \E q \in 1..Quantity(ExitLegs[a], amounts[a]) :
               Send(TRUE, ExitLegs[a], q, amounts,
                    [cycle |-> accepted, clears |-> clear_orders + 1])
      PROVE  Identified' /\ Occupied'
  <2>1. ExitLegs[a] \in Legs /\ a \in Assets
    BY ExitAssumption DEF Unprocessed
  <2>2. Quantity(ExitLegs[a], amounts[a]) \in Int
    BY <2>1, QuantityType
  <2>3. PICK q \in 1..Quantity(ExitLegs[a], amounts[a]) :
          Send(TRUE, ExitLegs[a], q, amounts,
               [cycle |-> accepted, clears |-> clear_orders + 1])
    BY <1>1
  <2>4. q \in Nat
    BY <2>2
  <2> QED
    BY <2>1, <2>3, <2>4, SendSlot
<1>2. ASSUME pending' = None, gateway_busy' = FALSE,
             UNCHANGED <<carried, order_number, submitVars, waiting_gateway, failed,
                         completed, failures>>
      PROVE  Identified' /\ Occupied'
  <2>1. SentNothing
    BY <1>2 DEF SentNothing, Quiet, submitVars, SlotInv, TypeOK
  <2>2. Identified'
    BY <2>1, IdentifiedKept DEF SlotInv, SentNothing, Quiet
  <2>3. Occupied'
    BY <1>2, <2>1 DEF NoTask, SentNothing, Occupied
  <2> QED
    BY <2>2, <2>3
<1> QED
  BY <1>1, <1>2 DEF ClearInitialPosition

\* The callback's report, by way out of report().
LEMMA ReportSlot ==
  ASSUME SlotInv, NoTask, pending \in Orders, NEW v \in Reports, Report(v, FALSE),
         accepted' = accepted, Posted' \subseteq Posted
  PROVE  Identified' /\ Occupied'
<1>1. /\ TypeOK /\ SlotType /\ order_number \in Nat /\ leg_number \in Nat
      /\ pending # None
  BY TypeGroups, NoneAssumption DEF SlotInv, TypeOK
<1>2. /\ UNCHANGED <<submitVars, order_number>> => SentNothing
      /\ UNCHANGED <<submitVars, leg_number, order_number>> => SentNothing
  BY <1>1 DEF SentNothing, Quiet, submitVars
<1>3. Settle(v) \in [Assets -> Int] /\ AccountOf(v) \in Accounts
  BY <1>1, SettleType
<1>4. CASE ReportIgnored(v, FALSE) \/ ReportProgress(v, FALSE)
  <2>1. SentNothing
    BY <1>2, <1>4 DEF ReportIgnored, ReportProgress, submitVars
  <2>2. Identified'
    BY <1>1, <2>1, IdentifiedKept DEF SlotInv, SentNothing, Quiet
  <2>3. Occupied'
    BY <1>1, <1>4, <2>1 DEF SlotInv, NoTask, SentNothing, Occupied, ReportIgnored,
                            ReportProgress
  <2> QED
    BY <2>2, <2>3
<1>5. CASE ReportUnusable(v, FALSE) \/ ReportIncomplete(v, FALSE)
  <2>1. SentNothing /\ Abandon(FALSE, pending)
    BY <1>2, <1>5 DEF ReportUnusable, ReportIncomplete, submitVars
  <2> QED
    BY <2>1, EndedSlot DEF Abandon
<1>6. CASE ReportReleases(v, FALSE)
  <2>1. SentNothing
    BY <1>2, <1>6 DEF ReportReleases, submitVars
  <2>2. Identified'
    BY <1>1, <2>1, IdentifiedKept DEF SlotInv, SentNothing, Quiet
  <2>3. Occupied'
    BY <1>6, <2>1 DEF NoTask, SentNothing, Occupied, ReportReleases
  <2> QED
    BY <2>2, <2>3
<1>7. CASE ReportCleared(v, FALSE)
  <2>1. ClearInitialPosition(Settle(v), AccountOf(v), state, None, FALSE) /\ ~waiting_gateway
    BY <1>7 DEF ReportCleared, ReportFinal
  <2> QED
    BY <1>3, <2>1, ClearSlot
<1>8. CASE ReportUnfilled(v, FALSE)
  <2>1. SentNothing /\ Finish(TRUE, leg_number, FALSE) /\ ~waiting_gateway
    BY <1>2, <1>8 DEF ReportUnfilled, ReportFinal, submitVars
  <2> QED
    BY <2>1, EndedSlot
<1>9. CASE ReportFirstLegStop(v, FALSE)
  <2>1. SentNothing /\ FailCycle(FALSE, None)
    BY <1>2, <1>9 DEF ReportFirstLegStop, submitVars
  <2> QED
    BY <2>1, EndedSlot
<1>10. CASE ReportAdvances(v, FALSE)
  <2>1. NextLeg(leg_number + 1, Settle(v), AccountOf(v), FALSE) /\ ~waiting_gateway
    BY <1>10 DEF ReportAdvances, ReportFinal
  <2>2. leg_number + 1 \in Nat
    BY <1>1
  <2> QED
    BY <1>3, <2>1, <2>2, NextLegSlot
<1> QED
  BY <1>4, <1>5, <1>6, <1>7, <1>8, <1>9, <1>10 DEF Report

\* With no order pending and the executor not halted, no REST task runs.
LEMMA NoOrderNoTask ==
  ASSUME SlotInv, state # "HALTED", pending = None \/ ~gateway_busy
  PROVE  NoTask /\ (pending = None => gateway_busy = FALSE /\ ~waiting_gateway)
  BY DEF SlotInv, Occupied, NoTask, TypeOK

\* A step that changes neither the slot nor its numbers.
LEMMA SameSlot ==
  ASSUME SlotInv, Quiet,
         UNCHANGED <<state, pending, gateway_busy, waiting_gateway, live, accepted,
                     order_number>>
  PROVE  Identified' /\ Occupied'
<1>1. Identified'
  BY IdentifiedKept DEF SlotInv, Quiet, TypeOK
<1>2. Occupied'
  BY DEF SlotInv, Occupied
<1> QED
  BY <1>1, <1>2

\* The calls outside io.poll().
LEMMA CallsSlot ==
  ASSUME SlotInv, TryStart \/ StartInitialCleanup \/ ProcessReturn
  PROVE  Identified' /\ Occupied'
<1>1. TypeOK
  BY DEF SlotInv
<1>2. CASE TryStart
  <2>1. [kind |-> "begin"] \in Handlers
    BY DEF Handlers
  <2>2. Posted' \subseteq Posted \cup {[kind |-> "begin"]}
    BY <1>1, <1>2, <2>1, PostedAppend DEF TryStart
  <2>3. Identified'
    BY <1>1, <1>2, <2>2, IdentifiedStart DEF SlotInv, TryStart
  <2>4. Occupied'
    BY <1>2 DEF SlotInv, Occupied, TryStart
  <2> QED
    BY <2>3, <2>4
<1>3. CASE StartInitialCleanup
  <2>1. NoTask /\ ~waiting_gateway /\ gateway_busy = FALSE
    BY <1>3, NoOrderNoTask DEF StartInitialCleanup, SlotInv, Occupied
  <2>2. /\ ClearInitialPosition(InitialBalances, accounted, "CLEARING", timeout, FALSE)
        /\ accepted' = accepted /\ Posted' = Posted
    BY <1>3, <2>1 DEF StartInitialCleanup, Posted
  <2>3. InitialBalances \in [Assets -> Int]
    BY BoundAssumption
  <2> QED
    BY <2>1, <2>2, <2>3, ClearSlot
<1>4. CASE ProcessReturn
  BY <1>4, SameSlot DEF ProcessReturn, slotVars, outcomeVars, submitVars, Quiet, Posted
<1> QED
  BY <1>2, <1>3, <1>4

\* The handlers.
LEMMA HandlersSlot ==
  ASSUME SlotInv, RunBegin \/ RunTimeout \/ RunWait \/ RunStop \/ RunReport \/ RunStream
  PROVE  Identified' /\ Occupied'
<1>1. /\ TypeOK /\ SlotType /\ accounted \in Accounts /\ holdings \in [Assets -> Int]
      /\ order_number \in Nat /\ gateway_busy \in BOOLEAN /\ pending \in Orders \cup {None}
  BY TypeGroups DEF SlotInv, TypeOK
<1>2. /\ ready # << >> /\ ready' = Tail(ready) /\ accepted' = accepted
  BY DEF RunBegin, RunTimeout, RunWait, RunStop, RunReport, RunStream, Run
<1>3. Posted' \subseteq Posted /\ Head(ready) \in Posted /\ Quiet
  BY <1>1, <1>2, PostedTail DEF Quiet
<1>4. UNCHANGED <<submitVars, order_number>> => SentNothing
  BY <1>1, <1>2, <1>3 DEF SentNothing, submitVars
<1>5. UNCHANGED slotVars => Identified' /\ Occupied'
  BY <1>2, <1>3, SameSlot DEF slotVars, outcomeVars, submitVars
<1>6. CASE RunBegin
  <2>1. CASE state = "VALIDATING"
    <3>1. NoTask /\ gateway_busy = FALSE /\ ~waiting_gateway
      BY <2>1, NoOrderNoTask DEF SlotInv, Occupied
    <3>2. CASE /\ Finish(TRUE, leg_number, gateway_busy)
               /\ UNCHANGED <<accounted, carried, submitVars, leg_number, order_number>>
      <4>1. SentNothing
        BY <1>4, <3>2 DEF submitVars
      <4> QED
        BY <3>1, <3>2, <4>1, EndedSlot
    <3>3. CASE NextLeg(0, [Empty EXCEPT !["USDT"] = Budget], accounted, gateway_busy)
      BY <1>2, <1>3, <3>1, <3>3, BudgetType, NextLegSlot
    <3> QED
      BY <1>5, <1>6, <3>2, <3>3 DEF RunBegin
  <2> QED
    BY <1>5, <1>6, <2>1 DEF RunBegin
<1>7. CASE RunTimeout
  <2>1. SentNothing
    BY <1>4, <1>7 DEF RunTimeout
  <2>2. CASE UNCHANGED outcomeVars
    BY <1>2, <1>3, <1>7, <2>2, SameSlot DEF RunTimeout, outcomeVars, submitVars
  <2>3. CASE state # "HALTED" /\ pending # None /\ Abandon(gateway_busy, pending)
    <3>1. CASE gateway_busy = FALSE
      BY <2>1, <2>3, <3>1, NoOrderNoTask, EndedSlot DEF Abandon
    <3>2. CASE gateway_busy = TRUE
      <4>1. Identified'
        BY <1>1, <2>1, IdentifiedKept DEF SlotInv, SentNothing, Quiet
      <4>2. Occupied'
        BY <2>1, <2>3, <3>2 DEF SlotInv, SentNothing, Occupied, Abandon, Halt, FailCycle,
                                KeepsSlot
      <4> QED
        BY <4>1, <4>2
    <3> QED
      BY <1>1, <3>1, <3>2
  <2>4. CASE state # "HALTED" /\ pending = None /\ FailCycle(gateway_busy, None)
    BY <2>1, <2>4, NoOrderNoTask, EndedSlot
  <2> QED
    BY <1>7, <2>2, <2>3, <2>4 DEF RunTimeout
<1>8. CASE RunWait
  <2>1. CASE /\ ~ClearingBlocked
             /\ ClearInitialPosition(holdings, accounted, state, timeout, gateway_busy)
    <3>1. NoTask /\ gateway_busy = FALSE /\ ~waiting_gateway
      BY <2>1, NoOrderNoTask DEF ClearingBlocked
    <3> QED
      BY <1>1, <1>2, <1>3, <2>1, <3>1, ClearSlot
  <2> QED
    BY <1>5, <1>8, <2>1 DEF RunWait
<1>9. CASE RunStop
  <2>1. SentNothing
    BY <1>4, <1>9 DEF RunStop
  <2>2. CASE UNCHANGED <<state, pending, gateway_busy, waiting_gateway>>
    BY <1>2, <1>3, <1>9, <2>2, SameSlot DEF RunStop, submitVars
  <2>3. CASE Halt(gateway_busy, pending)
    <3>1. Identified'
      BY <1>1, <2>1, IdentifiedKept DEF SlotInv, SentNothing, Quiet
    <3> QED
      BY <2>3, <3>1 DEF Halt, Occupied
  <2> QED
    BY <1>9, <2>2, <2>3 DEF RunStop
<1>10. CASE RunReport
  <2>1. CASE /\ ForPending(Head(ready).id)
             /\ \E v \in ReportsOn(pending) : Report(v, FALSE)
    <3>1. pending \in Orders /\ Head(ready).id = pending.id
      BY <1>1, <2>1 DEF ForPending
    <3>2. PICK v \in Reports : Report(v, FALSE)
      BY <1>1, <2>1, <3>1, ReportsType
    <3>3. CASE state = "HALTED"
      <4>1. ReportIgnored(v, FALSE)
        BY <3>2, <3>3 DEF Report, ReportUnusable, ReportReleases, ReportProgress,
           ReportIncomplete, ReportCleared, ReportUnfilled, ReportFirstLegStop,
           ReportAdvances, ReportFinal, Accepts, Fresh
      <4>2. SentNothing /\ state' = "HALTED"
        BY <1>4, <3>3, <4>1 DEF ReportIgnored, submitVars
      <4>3. Identified'
        BY <1>1, <4>2, IdentifiedKept DEF SlotInv, SentNothing, Quiet
      <4> QED
        BY <4>2, <4>3 DEF Occupied
    <3>4. CASE state # "HALTED"
      <4>1. NoTask
        <5>1. Head(ready).kind = "report"
          BY <1>10 DEF RunReport, Run
        <5>2. \A g \in live : g.running => g.id # pending.id
          BY <1>3, <3>1, <5>1 DEF SlotInv, Identified
        <5> QED
          BY <3>4, <5>2 DEF SlotInv, Occupied, NoTask
      <4> QED
        BY <1>2, <1>3, <3>1, <3>2, <4>1, ReportSlot
    <3> QED
      BY <3>3, <3>4
  <2> QED
    BY <1>5, <1>10, <2>1 DEF RunReport
<1>11. CASE RunStream
  <2>1. Head(ready).kind = "stream"
    BY <1>11 DEF RunStream, Run
  <2> QED
    BY <1>3, <2>1 DEF SlotInv, Identified
<1> QED
  BY <1>6, <1>7, <1>8, <1>9, <1>10, <1>11

\* What runs beside the handlers.
LEMMA WorldSlot ==
  ASSUME UserStream = FALSE, SlotInv,
         \/ TimeoutExpires \/ WaitExpires \/ DeadlinePasses \/ Signal \/ PollReturn
         \/ \E g \in live : Answer(g) \/ StreamReport(g)
         \/ UNCHANGED vars
  PROVE  Identified' /\ Occupied'
<1>1. TypeOK
  BY DEF SlotInv
<1>2. CASE TimeoutExpires
  <2>1. [kind |-> "timeout", tag |-> timeout] \in Handlers
    BY <1>1, <1>2 DEF TypeOK, TimeoutExpires, Handlers
  <2>2. Posted' \subseteq Posted \cup {[kind |-> "timeout", tag |-> timeout]}
    BY <1>1, <1>2, <2>1, PostedAppend DEF TimeoutExpires
  <2> QED
    BY <1>2, <2>2, SameSlot DEF TimeoutExpires, Others, submitVars, Quiet
<1>3. CASE WaitExpires
  <2>1. [kind |-> "wait"] \in Handlers
    BY DEF Handlers
  <2>2. Posted' \subseteq Posted \cup {[kind |-> "wait"]}
    BY <1>1, <1>3, <2>1, PostedAppend DEF WaitExpires
  <2> QED
    BY <1>3, <2>2, SameSlot DEF WaitExpires, Others, submitVars, Quiet
<1>4. CASE Signal
  <2>1. [kind |-> "stop"] \in Handlers
    BY DEF Handlers
  <2>2. Posted' \subseteq Posted \cup {[kind |-> "stop"]}
    BY <1>1, <1>4, <2>1, PostedAppend DEF Signal
  <2> QED
    BY <1>4, <2>2, SameSlot
    DEF Signal, Others, slotVars, outcomeVars, submitVars, Quiet
<1>5. CASE DeadlinePasses \/ PollReturn \/ UNCHANGED vars
  <2>1. Posted' = Posted /\ UNCHANGED slotVars /\ accepted' = accepted
    BY <1>5 DEF DeadlinePasses, PollReturn, vars, Others, Posted
  <2> QED
    BY <2>1, SameSlot DEF slotVars, outcomeVars, submitVars, Quiet
<1>6. ASSUME NEW g \in live, Answer(g) PROVE Identified' /\ Occupied'
  <2>1. Identified' /\ \A h \in live' : h.running => h \in live
    BY <1>1, <1>6, IdentifiedAnswered DEF SlotInv
  <2>2. Occupied'
    BY <1>6, <2>1 DEF SlotInv, Occupied, Answer, outcomeVars
  <2> QED
    BY <2>1, <2>2
<1> QED
  BY <1>2, <1>3, <1>4, <1>5, <1>6 DEF StreamReport

\* Every step keeps the slot consistent, as long as only the gateway reports.
LEMMA SlotNext == UserStream = FALSE /\ SlotInv /\ [Next]_vars => SlotInv'
<1>1. SlotInv /\ [Next]_vars => TypeOK'
  BY TypeNext DEF SlotInv
<1>2. UserStream = FALSE /\ SlotInv /\ [Next]_vars => Identified' /\ Occupied'
  BY CallsSlot, HandlersSlot, WorldSlot DEF Next, Exited
<1> QED
  BY <1>1, <1>2 DEF SlotInv

\* A failed cycle cannot give up its slot while its REST task is running: an
\* idle executor has no task outstanding, for every path and any interleaving
\* of timeouts, answers and stops, as long as only the gateway reports.
THEOREM SlotStaysHeld == ASSUME UserStream = FALSE PROVE Spec => []SlotHeld
<1>1. SlotInv /\ [Next]_vars => SlotInv'
  BY SlotNext
<1>2. SlotInv => SlotHeld
  BY DEF SlotInv, Occupied, SlotHeld, Running
<1> QED
  BY <1>1, <1>2, InitSlot, PTL DEF Spec

(***************************************************************************)
(* The cap on submitted cycles.                                            *)
(***************************************************************************)
\* A pending arbitrage order has been counted as its cycle's submission.
LegSubmitted ==
  state # "HALTED" /\ pending # None /\ ~pending.clear => cycle_submitted

Capped == LegSubmitted /\ CycleCap

\* Nothing is submitted at start.
LEMMA InitCap == Init => Capped
  BY BoundAssumption DEF Init, Capped, LegSubmitted, CycleCap, InCycle

\* An outcome leaves no cycle open.
LEMMA EndedCap ==
  ASSUME Capped, UNCHANGED submitVars, NEW order,
         \/ Halt(FALSE, order)
         \/ FailCycle(FALSE, order)
         \/ \E fails, leg : Finish(fails, leg, FALSE)
  PROVE  Capped'
  BY DEF Capped, LegSubmitted, CycleCap, InCycle, submitVars, Halt, FailCycle, Finish,
         KeepsSlot

\* A cycle's first order takes the room that was kept for it.
LEMMA SendCap ==
  ASSUME Capped, submitted_cycles \in Nat, ~waiting_gateway, NEW clear \in BOOLEAN,
         clear \/ cycle_submitted \/ InCycle,
         NEW leg, NEW quantity, NEW amounts, NEW timer,
         Send(clear, leg, quantity, amounts, timer)
  PROVE  Capped'
<1>1. PICK order : order = [id |-> <<accepted, order_number + 1>>, clear |-> clear,
                            leg |-> leg, quantity |-> quantity]
  OBVIOUS
<1>2. CASE /\ state' = IF clear THEN "CLEARING" ELSE "LEG_PENDING"
           /\ pending' = order
           /\ cycle_submitted' = (cycle_submitted \/ ~clear)
           /\ submitted_cycles' = IF ~clear /\ ~cycle_submitted
                                  THEN submitted_cycles + 1 ELSE submitted_cycles
           /\ UNCHANGED <<waiting_gateway, failed, completed, failures, cleanup_wait>>
  <2>1. LegSubmitted'
    BY <1>1, <1>2 DEF LegSubmitted
  <2>2. CycleCap'
    <3>1. CASE clear
      BY <1>2, <3>1 DEF Capped, CycleCap, InCycle
    <3>2. CASE ~clear
      <4>1. cycle_submitted' = TRUE /\ MaxCycles \in Nat
        BY <1>2, <3>2, BoundAssumption
      <4>2. CASE cycle_submitted
        BY <1>2, <3>2, <4>1, <4>2 DEF Capped, CycleCap
      <4>3. CASE ~cycle_submitted
        <5>1. MaxCycles > 0 => submitted_cycles < MaxCycles
          BY <3>2, <4>3 DEF Capped, CycleCap
        <5>2. submitted_cycles' = submitted_cycles + 1
          BY <1>2, <3>2, <4>3
        <5> QED
          BY <4>1, <5>1, <5>2 DEF CycleCap
      <4> QED
        BY <4>2, <4>3
    <3> QED
      BY <3>1, <3>2
  <2> QED
    BY <2>1, <2>2 DEF Capped
<1>3. CASE Abandon(FALSE, order) /\ UNCHANGED submitVars
  BY <1>3, EndedCap DEF Abandon
<1> QED
  BY <1>1, <1>2, <1>3 DEF Send

\* The next leg is within the submission its cycle was counted for.
LEMMA NextLegCap ==
  ASSUME Capped, submitted_cycles \in Nat, ~waiting_gateway, cycle_submitted \/ InCycle,
         NEW leg, NEW amounts, NEW account, NextLeg(leg, amounts, account, FALSE)
  PROVE  Capped'
<1>1. CASE UNCHANGED submitVars /\ \E fails, l : Finish(fails, l, FALSE)
  BY <1>1, EndedCap
<1>2. CASE \E l, q : Send(FALSE, l, q, amounts, timeout)
  BY <1>2, SendCap
<1> QED
  BY <1>1, <1>2 DEF NextLeg

\* A clearing order is no submission of a cycle.
LEMMA ClearCap ==
  ASSUME Capped, submitted_cycles \in Nat, ~waiting_gateway, NEW amounts, NEW account,
         NEW st \in {state, "CLEARING"}, NEW timer,
         ClearInitialPosition(amounts, account, st, timer, FALSE)
  PROVE  Capped'
<1>1. CASE \E l, q, t : Send(TRUE, l, q, amounts, t)
  BY <1>1, SendCap
<1>2. CASE /\ state' \in {st, "IDLE"} /\ pending' = None
           /\ UNCHANGED submitVars /\ UNCHANGED waiting_gateway
  BY <1>2 DEF Capped, LegSubmitted, CycleCap, InCycle, submitVars
<1> QED
  BY <1>1, <1>2 DEF ClearInitialPosition

\* The callback's report.
LEMMA ReportCap ==
  ASSUME Capped, SlotInv, state # "HALTED", pending \in Orders, NEW v, Report(v, FALSE)
  PROVE  Capped'
<1>1. submitted_cycles \in Nat /\ pending # None
  BY NoneAssumption DEF SlotInv, TypeOK
<1>2. CASE ReportIgnored(v, FALSE) \/ ReportProgress(v, FALSE)
  BY <1>2 DEF ReportIgnored, ReportProgress, Capped, LegSubmitted, CycleCap, InCycle,
              submitVars
<1>3. CASE ReportUnusable(v, FALSE) \/ ReportIncomplete(v, FALSE)
  BY <1>3, EndedCap DEF ReportUnusable, ReportIncomplete, Abandon, submitVars
<1>4. CASE ReportReleases(v, FALSE)
  BY <1>4 DEF ReportReleases, Capped, LegSubmitted, CycleCap, InCycle, submitVars
<1>5. CASE ReportCleared(v, FALSE)
  BY <1>1, <1>5, ClearCap DEF ReportCleared, ReportFinal
<1>6. CASE ReportUnfilled(v, FALSE) \/ ReportFirstLegStop(v, FALSE)
  BY <1>6, EndedCap DEF ReportUnfilled, ReportFirstLegStop, submitVars
<1>7. CASE ReportAdvances(v, FALSE)
  <2>1. cycle_submitted /\ ~waiting_gateway
    BY <1>1, <1>7 DEF Capped, LegSubmitted, ReportAdvances, ReportFinal
  <2> QED
    BY <1>1, <1>7, <2>1, NextLegCap DEF ReportAdvances
<1> QED
  BY <1>2, <1>3, <1>4, <1>5, <1>6, <1>7 DEF Report

\* A step that changes nothing the cap speaks of.
LEMMA SameCap ==
  Capped /\ UNCHANGED <<state, pending, waiting_gateway, cycle_submitted, submitted_cycles>>
    => Capped'
  BY DEF Capped, LegSubmitted, CycleCap, InCycle

\* Every step keeps the cap.
LEMMA NextCap == UserStream = FALSE /\ Capped /\ SlotInv /\ [Next]_vars => Capped'
<1> SUFFICES ASSUME UserStream = FALSE, Capped, SlotInv, Next \/ UNCHANGED vars
             PROVE  Capped'
  OBVIOUS
<1>1. /\ submitted_cycles \in Nat /\ gateway_busy \in BOOLEAN /\ SlotType
      /\ pending \in Orders \cup {None}
  BY TypeGroups DEF SlotInv, TypeOK
<1>2. UNCHANGED slotVars => Capped'
  BY SameCap DEF slotVars, outcomeVars, submitVars
<1>3. CASE TryStart
  BY <1>1, <1>3, BoundAssumption
  DEF TryStart, CapAllows, Capped, LegSubmitted, CycleCap, InCycle
<1>4. CASE StartInitialCleanup
  <2>1. gateway_busy = FALSE /\ ~waiting_gateway
    BY <1>4, NoOrderNoTask DEF StartInitialCleanup, SlotInv, Occupied
  <2> QED
    BY <1>1, <1>4, <2>1, ClearCap DEF StartInitialCleanup
<1>5. CASE ProcessReturn
  BY <1>2, <1>5 DEF ProcessReturn
<1>6. CASE RunBegin
  <2>1. CASE state = "VALIDATING"
    <3>1. gateway_busy = FALSE /\ ~waiting_gateway /\ InCycle
      BY <2>1, NoOrderNoTask DEF SlotInv, Occupied, InCycle
    <3>2. CASE /\ Finish(TRUE, leg_number, gateway_busy)
               /\ UNCHANGED <<accounted, carried, submitVars, leg_number, order_number>>
      BY <3>1, <3>2, EndedCap DEF submitVars
    <3>3. CASE NextLeg(0, [Empty EXCEPT !["USDT"] = Budget], accounted, gateway_busy)
      BY <1>1, <3>1, <3>3, NextLegCap
    <3> QED
      BY <1>2, <1>6, <3>2, <3>3 DEF RunBegin
  <2> QED
    BY <1>2, <1>6, <2>1 DEF RunBegin
<1>7. CASE RunTimeout
  <2>1. CASE UNCHANGED outcomeVars
    BY <1>7, <2>1, SameCap DEF RunTimeout, outcomeVars, submitVars
  <2>2. CASE gateway_busy = FALSE
    BY <1>7, <2>1, <2>2, EndedCap DEF RunTimeout, Abandon
  <2>3. CASE gateway_busy = TRUE /\ state # "HALTED" /\ pending # None
             /\ Abandon(gateway_busy, pending)
    BY <1>7, <2>3 DEF RunTimeout, Abandon, Halt, FailCycle, KeepsSlot, Capped, LegSubmitted,
                      CycleCap, InCycle, submitVars
  <2>4. CASE state # "HALTED" /\ pending = None
    BY <2>2, <2>4, NoOrderNoTask
  <2> QED
    BY <1>1, <1>7, <2>1, <2>2, <2>3, <2>4 DEF RunTimeout
<1>8. CASE RunWait
  <2>1. CASE /\ ~ClearingBlocked
             /\ ClearInitialPosition(holdings, accounted, state, timeout, gateway_busy)
    <3>1. gateway_busy = FALSE /\ ~waiting_gateway
      BY <2>1, NoOrderNoTask DEF ClearingBlocked
    <3> QED
      BY <1>1, <2>1, <3>1, ClearCap
  <2> QED
    BY <1>2, <1>8, <2>1 DEF RunWait
<1>9. CASE RunStop
  BY <1>9 DEF RunStop, Halt, Capped, LegSubmitted, CycleCap, InCycle, submitVars
<1>10. CASE RunReport
  <2>1. ASSUME ForPending(Head(ready).id), NEW v \in ReportsOn(pending), Report(v, FALSE)
        PROVE  Capped'
    <3>1. pending \in Orders
      BY <1>1, <2>1 DEF ForPending
    <3>2. CASE state = "HALTED"
      <4>1. ReportIgnored(v, FALSE)
        BY <2>1, <3>2 DEF Report, ReportUnusable, ReportReleases, ReportProgress,
           ReportIncomplete, ReportCleared, ReportUnfilled, ReportFirstLegStop,
           ReportAdvances, ReportFinal, Accepts, Fresh
      <4> QED
        BY <4>1, SameCap DEF ReportIgnored, submitVars
    <3>3. CASE state # "HALTED"
      BY <2>1, <3>1, <3>3, ReportCap
    <3> QED
      BY <3>2, <3>3
  <2> QED
    BY <1>2, <1>10, <2>1 DEF RunReport
<1>11. CASE RunStream
  <2>1. Head(ready) \in Posted /\ Head(ready).kind = "stream"
    BY <1>11, PostedTail DEF RunStream, Run, SlotInv
  <2> QED
    BY <2>1 DEF SlotInv, Identified
<1>12. CASE \/ TimeoutExpires \/ WaitExpires \/ DeadlinePasses \/ Signal \/ PollReturn
            \/ \E g \in live : Answer(g) \/ StreamReport(g)
            \/ UNCHANGED vars
  BY <1>2, <1>12, SameCap
  DEF TimeoutExpires, WaitExpires, DeadlinePasses, Signal, PollReturn, Answer, StreamReport,
      vars, slotVars, outcomeVars, submitVars
<1> QED
  BY <1>3, <1>4, <1>5, <1>6, <1>7, <1>8, <1>9, <1>10, <1>11, <1>12 DEF Next, Exited

\* No behaviour submits more cycles than max_cycles, although submissions are
\* counted later than candidates are accepted.
THEOREM CapRespected == ASSUME UserStream = FALSE PROVE Spec => []CycleCap
<1>1. SlotInv /\ [Next]_vars => SlotInv'
  BY SlotNext
<1>2. Capped /\ SlotInv /\ [Next]_vars => Capped'
  BY NextCap
<1>3. Capped => CycleCap
  BY DEF Capped
<1> QED
  BY <1>1, <1>2, <1>3, InitSlot, InitCap, PTL DEF Spec

(***************************************************************************)
(* Amounts.                                                                *)
(***************************************************************************)
\* Only BNB, charged for commissions, may be owed.
Solvent(amounts) == \A a \in Assets \ {"BNB"} : amounts[a] >= 0

Cost(leg, quantity) == IF leg.buy THEN leg.price * quantity ELSE quantity

\* An account is within its order: no more is filled than was ordered, and no
\* more is charged than was filled, in the asset received or in BNB.
Within(order, account) ==
  /\ account.filled <= order.quantity
  /\ \A a \in Assets :
       account.commission[a] <=
         IF a \in {Received(order.leg), "BNB"} THEN account.filled ELSE 0

\* What the order started with pays for all of it.
Funded(order, amounts) ==
  /\ order.leg.base # order.leg.quote
  /\ Cost(order.leg, order.quantity) <= amounts[Spent(order.leg)]
  /\ Solvent(amounts)

Booked ==
  pending # None =>
    /\ Funded(pending, carried) /\ Within(pending, accounted)
    /\ \A a \in Assets : holdings[a] = carried[a] + Effect(pending.leg, accounted, a)

FundsInv == Booked /\ Solvent(holdings)

\* A product grows with its second factor.
LEMMA ProductGrows ==
  ASSUME NEW p \in Nat, NEW x \in Nat, NEW y \in Nat, x <= y
  PROVE  p * x <= p * y
<1>1. PICK d \in Nat : y = x + d
  <2>1. y - x \in Nat /\ y = x + (y - x)
    OBVIOUS
  <2> QED
    BY <2>1
<1>2. p * y = p * x + p * d /\ p * d \in Nat /\ p * x \in Nat
  BY <1>1
<1> QED
  BY <1>2

\* A product with a positive price is at least the quantity.
LEMMA ProductCovers ==
  ASSUME NEW p \in Nat \ {0}, NEW x \in Nat
  PROVE  p * x >= x
<1>1. PICK d \in Nat : p = d + 1
  <2>1. p - 1 \in Nat /\ p = (p - 1) + 1
    OBVIOUS
  <2> QED
    BY <2>1
<1>2. p * x = d * x + x /\ d * x \in Nat
  BY <1>1
<1> QED
  BY <1>2

\* Rounding down to whole units never buys more than the amount pays for.
LEMMA QuotientFits ==
  ASSUME NEW amount \in Int, NEW p \in Nat \ {0}
  PROVE  p * (amount \div p) <= amount
  OBVIOUS

\* A sized order costs at most the amount it was sized with.
LEMMA QuantityFits ==
  ASSUME NEW leg \in Legs, NEW amount \in Int
  PROVE  Cost(leg, Quantity(leg, amount)) <= amount
<1>1. leg.price \in Nat \ {0} /\ leg.buy \in BOOLEAN
  BY DEF Legs
<1> QED
  BY <1>1, QuotientFits DEF Cost, Quantity

\* An account within a funded order leaves no asset but BNB negative.
LEMMA WithinIsSolvent ==
  ASSUME NEW order \in Orders, NEW amounts \in [Assets -> Int], Funded(order, amounts),
         NEW account \in Accounts, Within(order, account),
         NEW a \in Assets \ {"BNB"}
  PROVE  amounts[a] + Effect(order.leg, account, a) >= 0
<1>1. /\ order.leg \in Legs /\ order.quantity \in Nat /\ account.filled \in Nat
      /\ order.leg.price \in Nat \ {0} /\ order.leg.buy \in BOOLEAN
      /\ account.commission \in [Assets -> Nat] /\ amounts[a] \in Int
      /\ amounts[a] >= 0 /\ order.leg.base # order.leg.quote
  BY DEF Orders, Legs, Accounts, Funded, Solvent
<1> DEFINE p == order.leg.price
           f == account.filled
           q == order.quantity
<1>2. p * f <= p * q /\ p * f >= f /\ p * f \in Nat /\ p * q \in Nat /\ f <= q
  BY <1>1, ProductGrows, ProductCovers DEF Within
<1>3. account.commission[a] \in Nat
      /\ account.commission[a] <= (IF a = Received(order.leg) THEN f ELSE 0)
  BY <1>1 DEF Within
<1>4. a = Spent(order.leg) => (IF order.leg.buy THEN p * q ELSE q) <= amounts[a]
  BY DEF Funded, Cost
<1> HIDE DEF p, f, q
<1>5. Traded(order.leg, account, a) =
        IF a = order.leg.base THEN IF order.leg.buy THEN f ELSE -f
        ELSE IF a = order.leg.quote THEN IF order.leg.buy THEN -(p * f) ELSE p * f
        ELSE 0
  BY <1>1, <1>2 DEF Traded, p, f
<1> QED
  BY <1>1, <1>2, <1>3, <1>4, <1>5 DEF Effect, Spent, Received, p, f, q

\* What the executor accepts of its order keeps within it, and takes no
\* commission back.
LEMMA AcceptedIsWithin ==
  ASSUME TypeOK, Booked, pending \in Orders, NEW v \in ReportsOn(pending), Accepts(v)
  PROVE  /\ v \in Reports /\ AccountOf(v) \in Accounts
         /\ Within(pending, AccountOf(v))
         /\ \A a \in Assets : v.commission[a] >= accounted.commission[a]
<1>1. SlotType /\ pending # None
  BY TypeGroups, NoneAssumption
<1>2. v \in Reports /\ AccountOf(v) \in Accounts
  BY <1>1, ReportsType, SettleType
<1>3. /\ accounted.commission \in [Assets -> Nat] /\ accounted.filled \in Nat
      /\ pending.quantity \in Nat /\ v.filled \in Nat /\ Within(pending, accounted)
  BY <1>1, <1>2 DEF TypeOK, Accounts, Orders, Reports, Booked
<1>4. v.filled >= accounted.filled /\ v.filled <= pending.quantity /\ v.status # "Unknown"
  BY DEF Accepts, ValidFill
<1>5. v.commission \in Commissions(pending, v.filled)
  <2>1. \E r, s, k : \E f \in 0..pending.quantity + 1 : \E c \in Commissions(pending, f) :
           v = [revision |-> r, status |-> s, filled |-> f, commission |-> c, complete |-> k]
    BY <1>4 DEF ReportsOn
  <2> QED
    BY <2>1
<1> DEFINE charged == accounted.commission
<1>6. CASE v.commission = charged
  BY <1>2, <1>3, <1>4, <1>6 DEF Within, AccountOf
<1>7. ASSUME NEW x \in {Received(pending.leg), "BNB"}, charged[x] < v.filled,
             v.commission = [charged EXCEPT ![x] = @ + 1]
      PROVE  /\ Within(pending, AccountOf(v))
             /\ \A a \in Assets : v.commission[a] >= accounted.commission[a]
  <2>1. \A a \in Assets : v.commission[a] = IF a = x THEN charged[a] + 1 ELSE charged[a]
    BY <1>3, <1>7
  <2>2. \A a \in Assets : charged[a] \in Nat
    BY <1>3
  <2> QED
    BY <1>3, <1>4, <1>7, <2>1, <2>2 DEF Within, AccountOf
<1> QED
  BY <1>2, <1>5, <1>6, <1>7 DEF Commissions

\* Settling a report by its deltas gives what the whole report means.
LEMMA SettleIsEffect ==
  ASSUME TypeOK, Booked, pending \in Orders, NEW v \in ReportsOn(pending), Accepts(v)
  PROVE  /\ \A a \in Assets :
              Settle(v)[a] = carried[a] + Effect(pending.leg, AccountOf(v), a)
         /\ Solvent(Settle(v))
<1>1. SlotType /\ pending # None
  BY TypeGroups, NoneAssumption
<1>2. /\ v \in Reports /\ AccountOf(v) \in Accounts
      /\ Within(pending, AccountOf(v))
      /\ \A a \in Assets : v.commission[a] >= accounted.commission[a]
  BY AcceptedIsWithin
<1>3. ASSUME NEW a \in Assets
      PROVE  Settle(v)[a] = carried[a] + Effect(pending.leg, AccountOf(v), a)
  <2>1. /\ Traded(pending.leg, v, a) \in Int /\ Traded(pending.leg, accounted, a) \in Int
        /\ Traded(pending.leg, AccountOf(v), a) = Traded(pending.leg, v, a)
    <3>1. /\ pending.leg \in Legs /\ v.filled \in Nat /\ accounted.filled \in Nat
      BY <1>2 DEF Orders, Reports, TypeOK, Accounts
    <3>2. AccountOf(v).filled = v.filled
      BY DEF AccountOf
    <3> QED
      BY <3>1, <3>2, TradedType DEF Traded
  <2>2. /\ v.commission[a] \in Nat /\ accounted.commission[a] \in Nat
        /\ AccountOf(v).commission[a] = v.commission[a]
        /\ v.commission[a] >= accounted.commission[a]
    BY <1>2 DEF Reports, TypeOK, Accounts, AccountOf
  <2>3. holdings[a] \in Int /\ carried[a] \in Int
    BY DEF TypeOK
  <2>4. holdings[a] = carried[a] + Effect(pending.leg, accounted, a)
    BY <1>1 DEF Booked
  <2>5. Settle(v)[a] =
          holdings[a] + Traded(pending.leg, v, a) - Traded(pending.leg, accounted, a)
          - (IF v.commission[a] = 0 THEN 0 ELSE v.commission[a] - accounted.commission[a])
    BY DEF Settle
  <2> QED
    BY <2>1, <2>2, <2>3, <2>4, <2>5 DEF Effect
<1>4. Solvent(Settle(v))
  <2>1. carried \in [Assets -> Int] /\ Funded(pending, carried)
    BY <1>1 DEF TypeOK, Booked
  <2>2. \A a \in Assets \ {"BNB"} : carried[a] + Effect(pending.leg, AccountOf(v), a) >= 0
    BY <1>2, <2>1, WithinIsSolvent
  <2> QED
    BY <1>3, <2>2 DEF Solvent
<1> QED
  BY <1>3, <1>4

(***************************************************************************)
(* The books after each outcome.                                           *)
(***************************************************************************)
\* A step that books nothing and at most gives the order up.
LEMMA KeptFunds ==
  ASSUME FundsInv, UNCHANGED dataVars, pending' \in {pending, None}
  PROVE  FundsInv'
  BY DEF FundsInv, Booked, Solvent, dataVars

\* An ended order leaves the amounts the code computed.
LEMMA EndedFunds ==
  ASSUME pending' = None, Solvent(holdings')
  PROVE  FundsInv'
  BY DEF FundsInv, Booked, Solvent

\* No holdings are solvent holdings.
LEMMA EmptySolvent == Solvent(Empty)
  BY DEF Solvent, Empty

\* A booked report.
LEMMA BookedFunds ==
  ASSUME TypeOK, FundsInv, pending \in Orders, NEW v \in ReportsOn(pending), Accepts(v),
         Book(v), pending' \in {pending, None}
  PROVE  FundsInv'
<1>1. /\ \A a \in Assets : Settle(v)[a] = carried[a] + Effect(pending.leg, AccountOf(v), a)
      /\ Solvent(Settle(v))
  BY SettleIsEffect DEF FundsInv
<1>2. Within(pending, AccountOf(v)) /\ pending # None
  BY AcceptedIsWithin, NoneAssumption DEF FundsInv
<1>3. accounted' = AccountOf(v) /\ holdings' = Settle(v) /\ carried' = carried
  BY DEF Book
<1>4. Solvent(holdings')
  BY <1>1, <1>3
<1>5. CASE pending' = pending
  <2>1. Funded(pending, carried)' /\ Within(pending, accounted)'
    BY <1>2, <1>3, <1>5 DEF FundsInv, Booked, Funded, Within, Solvent
  <2> QED
    BY <1>1, <1>3, <1>4, <1>5, <2>1 DEF FundsInv, Booked, Solvent
<1>6. CASE pending' = None
  BY <1>4, <1>6, EndedFunds
<1> QED
  BY <1>5, <1>6

\* An outcome that books nothing.
LEMMA OutcomeFunds ==
  ASSUME NEW busy, NEW order,
         \/ Halt(busy, order)
         \/ FailCycle(busy, order)
         \/ \E fails, leg : Finish(fails, leg, busy)
  PROVE  pending' \in {order, None}
  BY DEF Halt, FailCycle, Finish, KeepsSlot

\* An order is sent for no more than the amounts it is sized with.
LEMMA SendFunds ==
  ASSUME TypeOK, NEW clear \in BOOLEAN, NEW leg \in Legs, leg.base # leg.quote,
         NEW quantity \in Nat, NEW amounts \in [Assets -> Int], Solvent(amounts),
         Cost(leg, quantity) <= amounts[Spent(leg)],
         NEW timer, Send(clear, leg, quantity, amounts, timer)
  PROVE  FundsInv'
<1>1. PICK order : order = [id |-> <<accepted, order_number + 1>>, clear |-> clear,
                            leg |-> leg, quantity |-> quantity]
  OBVIOUS
<1>2. order.leg = leg /\ order.quantity = quantity
  BY <1>1
<1>3. pending' \in {order, None}
  BY <1>1, OutcomeFunds DEF Send, Abandon
<1>4. accounted' = NoReport /\ holdings' = amounts /\ carried' = amounts
  BY DEF Send
<1>5. Solvent(holdings')
  BY <1>4
<1>6. CASE pending' = order
  <2>1. \A a \in Assets : Effect(leg, NoReport, a) = 0
    <3>1. leg.price \in Nat
      BY DEF Legs
    <3> QED
      BY <3>1 DEF Effect, Traded, NoReport, NoFee
  <2>2. \A a \in Assets : amounts[a] = amounts[a] + Effect(leg, NoReport, a)
    BY <2>1
  <2>3. Within(order, NoReport)
    BY <1>2 DEF Within, NoReport, NoFee
  <2>4. Funded(order, amounts)
    BY <1>2 DEF Funded
  <2>5. Booked'
    BY <1>2, <1>4, <1>6, <2>2, <2>3, <2>4 DEF Booked, Funded, Within, Solvent
  <2> QED
    BY <1>5, <2>5 DEF FundsInv, Solvent
<1>7. CASE pending' = None
  BY <1>5, <1>7, EndedFunds
<1> QED
  BY <1>3, <1>6, <1>7

\* next_leg() continues with the amounts it is given.
LEMMA NextLegFunds ==
  ASSUME TypeOK, NEW leg \in Nat, NEW amounts \in [Assets -> Int], Solvent(amounts),
         NEW account, NEW busy, NextLeg(leg, amounts, account, busy)
  PROVE  FundsInv'
<1>1. CASE /\ \E fails, l : Finish(fails, l, busy)
           /\ holdings' = amounts
  BY <1>1, EndedFunds DEF Finish
<1>2. CASE leg < Len(Path)
           /\ LET l == Path[leg + 1]
                  q == Quantity(l, amounts[Spent(l)])
              IN q > 0 /\ Send(FALSE, l, q, amounts, timeout)
  <2> DEFINE l == Path[leg + 1]
             q == Quantity(l, amounts[Spent(l)])
  <2>1. l \in Legs /\ l.base # l.quote
    <3>1. Path \in Seq(Legs) /\ Len(Path) \in Nat /\ leg + 1 \in 1..Len(Path)
          /\ DOMAIN Path = 1..Len(Path)
      BY <1>2, PathAssumption, LenProperties
    <3> QED
      BY <3>1, ElementOfSeq, PathAssumption
  <2>2. amounts[Spent(l)] \in Int
    BY <2>1 DEF Spent, Legs
  <2>3. q \in Nat /\ Cost(l, q) <= amounts[Spent(l)]
    <3> DEFINE amount == amounts[Spent(l)]
    <3>1. q > 0 /\ amount \in Int /\ q = Quantity(l, amount)
      BY <1>2, <2>2
    <3> HIDE DEF l, q, amount
    <3>2. Quantity(l, amount) \in Int /\ Cost(l, Quantity(l, amount)) <= amount
      BY <2>1, <3>1, QuantityType, QuantityFits
    <3>3. q \in Nat /\ Cost(l, q) <= amount
      BY <3>1, <3>2
    <3> QED
      BY <3>3 DEF amount
  <2>4. Send(FALSE, l, q, amounts, timeout)
    BY <1>2
  <2> HIDE DEF l, q
  <2> QED
    BY <2>1, <2>3, <2>4, SendFunds
<1> QED
  BY <1>1, <1>2 DEF NextLeg

\* A clearing pass sells no more of an asset than there is.
LEMMA ClearFunds ==
  ASSUME TypeOK, NEW amounts \in [Assets -> Int], Solvent(amounts),
         NEW account, NEW st, NEW timer, NEW busy,
         ClearInitialPosition(amounts, account, st, timer, busy)
  PROVE  FundsInv'
<1> DEFINE left == Unprocessed(amounts)
           sellable == left \cap DOMAIN ExitLegs
<1>1. ASSUME NEW a \in sellable,
             \E q \in 1..Quantity(ExitLegs[a], amounts[a]) :
               Send(TRUE, ExitLegs[a], q, amounts,
                    [cycle |-> accepted, clears |-> clear_orders + 1])
      PROVE  FundsInv'
  <2> DEFINE leg == ExitLegs[a]
  <2>1. leg \in Legs /\ leg.base # leg.quote /\ Spent(leg) = a /\ a \in Assets
    BY ExitAssumption DEF Unprocessed
  <2>2. /\ amounts[a] \in Int /\ Quantity(leg, amounts[a]) \in Int
        /\ Cost(leg, Quantity(leg, amounts[a])) <= amounts[a]
    BY <2>1, QuantityType, QuantityFits
  <2>3. PICK q \in 1..Quantity(leg, amounts[a]) :
          Send(TRUE, leg, q, amounts, [cycle |-> accepted, clears |-> clear_orders + 1])
    BY <1>1
  <2> HIDE DEF leg
  <2>4. q \in Nat /\ q <= Quantity(leg, amounts[a]) /\ Quantity(leg, amounts[a]) \in Nat
    BY <2>2
  <2>5. Cost(leg, q) <= Cost(leg, Quantity(leg, amounts[a]))
    BY <2>1, <2>4, ProductGrows DEF Cost, Legs
  <2>6. Cost(leg, q) \in Int /\ Cost(leg, Quantity(leg, amounts[a])) \in Int
    BY <2>1, <2>4 DEF Cost, Legs
  <2>7. Cost(leg, q) <= amounts[Spent(leg)]
    BY <2>1, <2>2, <2>5, <2>6
  <2> QED
    BY <2>1, <2>3, <2>4, <2>7, SendFunds
<1>2. CASE pending' = None /\ holdings' \in {amounts, Empty}
  BY <1>2, EmptySolvent, EndedFunds
<1> QED
  BY <1>1, <1>2 DEF ClearInitialPosition

\* The budget of a cycle.
LEMMA BudgetSolvent == Solvent([Empty EXCEPT !["USDT"] = Budget])
  BY BoundAssumption, AssetsAssumption DEF Solvent, Empty

\* report(), by way out of the function.
LEMMA ReportFunds ==
  ASSUME TypeOK, FundsInv, pending \in Orders, NEW v \in ReportsOn(pending),
         NEW busy, Report(v, busy)
  PROVE  FundsInv'
<1>1. SlotType /\ leg_number \in Nat /\ leg_number + 1 \in Nat
  BY TypeGroups DEF TypeOK
<1>2. CASE ReportIgnored(v, busy) \/ ReportUnusable(v, busy)
  BY <1>2, KeptFunds, OutcomeFunds DEF ReportIgnored, ReportUnusable, Abandon
<1>3. CASE ReportReleases(v, busy) \/ ReportProgress(v, busy)
  BY <1>3, BookedFunds DEF ReportReleases, ReportProgress
<1>4. CASE ReportIncomplete(v, busy)
  BY <1>4, BookedFunds, OutcomeFunds DEF ReportIncomplete, Abandon
<1>5. CASE ReportUnfilled(v, busy) \/ ReportFirstLegStop(v, busy)
  <2>1. pending' = None
    BY <1>5 DEF ReportUnfilled, ReportFirstLegStop, Finish, FailCycle, KeepsSlot
  <2> QED
    BY <1>5, <2>1, BookedFunds DEF ReportUnfilled, ReportFirstLegStop, ReportFinal
<1>6. CASE ReportCleared(v, busy) \/ ReportAdvances(v, busy)
  <2>1. Accepts(v)
    BY <1>6 DEF ReportCleared, ReportAdvances, ReportFinal
  <2>2. Solvent(Settle(v)) /\ Settle(v) \in [Assets -> Int]
    <3>1. v \in Reports
      BY <1>1, ReportsType
    <3> QED
      BY <1>1, <2>1, <3>1, SettleType, SettleIsEffect DEF FundsInv
  <2>3. \/ ClearInitialPosition(Settle(v), AccountOf(v), state, None, busy)
        \/ NextLeg(leg_number + 1, Settle(v), AccountOf(v), busy)
    BY <1>6 DEF ReportCleared, ReportAdvances
  <2> QED
    BY <1>1, <2>2, <2>3, ClearFunds, NextLegFunds
<1> QED
  BY <1>2, <1>3, <1>4, <1>5, <1>6 DEF Report

\* At start there is nothing.
LEMMA InitFunds == Init => FundsInv
  BY EmptySolvent DEF Init, FundsInv, Booked

\* Every step keeps the books.
LEMMA FundsNext == TypeOK /\ FundsInv /\ [Next]_vars => FundsInv'
<1> SUFFICES ASSUME TypeOK, FundsInv, Next \/ UNCHANGED vars PROVE FundsInv'
  OBVIOUS
<1>1. /\ holdings \in [Assets -> Int] /\ Solvent(holdings)
      /\ pending \in Orders \cup {None}
  BY DEF TypeOK, FundsInv
<1>2. UNCHANGED slotVars => FundsInv'
  BY KeptFunds DEF slotVars, outcomeVars
<1>3. CASE TryStart
  BY <1>3, EmptySolvent, EndedFunds DEF TryStart
<1>4. CASE StartInitialCleanup
  <2>1. InitialBalances \in [Assets -> Int] /\ Solvent(InitialBalances)
    BY BoundAssumption DEF Solvent
  <2> QED
    BY <1>4, <2>1, ClearFunds DEF StartInitialCleanup
<1>5. CASE RunBegin
  <2>1. CASE /\ Finish(TRUE, leg_number, gateway_busy)
             /\ holdings' \in {holdings, [Empty EXCEPT !["USDT"] = Budget]}
    BY <1>1, <2>1, BudgetSolvent, EndedFunds DEF Finish
  <2>2. CASE NextLeg(0, [Empty EXCEPT !["USDT"] = Budget], accounted, gateway_busy)
    BY <2>2, BudgetType, BudgetSolvent, NextLegFunds
  <2> QED
    BY <1>2, <1>5, <2>1, <2>2 DEF RunBegin
<1>6. CASE RunTimeout
  <2>1. pending' \in {pending, None}
    BY <1>6, OutcomeFunds DEF RunTimeout, Abandon, outcomeVars
  <2> QED
    BY <1>6, <2>1, KeptFunds DEF RunTimeout
<1>7. CASE RunWait
  BY <1>1, <1>2, <1>7, ClearFunds DEF RunWait
<1>8. CASE RunStop
  BY <1>8, KeptFunds, OutcomeFunds DEF RunStop
<1>9. CASE RunReport \/ RunStream
  <2>1. ASSUME ForPending(Head(ready).id), NEW busy, NEW v \in ReportsOn(pending),
               Report(v, busy)
        PROVE  FundsInv'
    BY <1>1, <2>1, ReportFunds DEF ForPending
  <2> QED
    BY <1>2, <1>9, <2>1 DEF RunReport, RunStream
<1>10. CASE \/ ProcessReturn \/ DeadlinePasses \/ Signal \/ PollReturn \/ UNCHANGED vars
  BY <1>2, <1>10 DEF ProcessReturn, DeadlinePasses, Signal, PollReturn, vars
<1>11. CASE \/ TimeoutExpires \/ WaitExpires
            \/ \E g \in live : Answer(g) \/ StreamReport(g)
  BY <1>11, KeptFunds
  DEF TimeoutExpires, WaitExpires, Answer, StreamReport, outcomeVars
<1> QED
  BY <1>3, <1>4, <1>5, <1>6, <1>7, <1>8, <1>9, <1>10, <1>11 DEF Next, Exited

\* The books of the executor are right in every state: the holdings are what
\* the pending order started from plus what its last accounted report says,
\* however often and in whatever order reports come, and nothing but a BNB
\* commission is ever owed.
THEOREM BooksAreRight == Spec => []HoldingsMatchFills
<1>1. FundsInv => HoldingsMatchFills
  BY DEF FundsInv, Booked, Solvent, HoldingsMatchFills
<1> QED
  BY <1>1, InitType, TypeNext, InitFunds, FundsNext, PTL DEF Spec

(***************************************************************************)
(* Timeouts.  While process() runs the queue holds nothing but the cycles' *)
(* begin() and the gateway's answers, so a cycle is accepted only when no  *)
(* older timeout is left to run.                                           *)
(***************************************************************************)
TimeoutsCurrent ==
  /\ timeout # None => timeout.cycle = accepted
  /\ \A r \in Posted : r.kind = "timeout" => r.tag.cycle = accepted
  /\ phase = "process" => \A r \in Posted : r.kind \in {"begin", "report"}

\* The timer is left alone, cancelled, or armed for the current cycle.
TimerSound ==
  /\ accepted' = accepted
  /\ timeout' = timeout \/ (timeout' # None => timeout'.cycle = accepted)

\* Steps that post nothing keep the timeouts current.
LEMMA TimeoutsKept ==
  ASSUME TimeoutsCurrent, TimerSound, Posted' \subseteq Posted,
         phase' = phase
  PROVE  TimeoutsCurrent'
  BY DEF TimeoutsCurrent, TimerSound

\* Steps that post one handler.
LEMMA TimeoutsPosted ==
  ASSUME TypeOK, TimeoutsCurrent, TimerSound, NEW h \in Handlers,
         ready' = Append(ready, h), phase' = phase,
         h.kind = "timeout" => h.tag.cycle = accepted,
         phase = "process" => h.kind \in {"begin", "report"}
  PROVE  TimeoutsCurrent'
<1>1. Posted' \subseteq Posted \cup {h}
  BY PostedAppend
<1> QED
  BY <1>1 DEF TimeoutsCurrent, TimerSound

\* What the shared parts of the handlers do to the timer.
LEMMA OutcomeTimer ==
  ASSUME accepted' = accepted, NEW busy, NEW order,
         \/ Halt(busy, order)
         \/ FailCycle(busy, order)
         \/ \E fails, leg : Finish(fails, leg, busy)
  PROVE  TimerSound
  BY DEF Halt, FailCycle, Finish, TimerSound

\* The order is sent under the timer the caller gives.
LEMMA SendTimer ==
  ASSUME accepted' = accepted, NEW clear, NEW leg, NEW quantity, NEW amounts, NEW timer,
         timer = timeout \/ timer.cycle = accepted,
         Send(clear, leg, quantity, amounts, timer)
  PROVE  TimerSound
<1>1. PICK order : order = [id |-> <<accepted, order_number + 1>>, clear |-> clear,
                            leg |-> leg, quantity |-> quantity]
  OBVIOUS
<1>2. timeout' = timer \/ Abandon(FALSE, order)
  BY <1>1 DEF Send
<1>3. CASE timeout' = timer
  BY <1>3 DEF TimerSound
<1>4. CASE Abandon(FALSE, order)
  BY <1>4, OutcomeTimer DEF Abandon
<1> QED
  BY <1>2, <1>3, <1>4

\* next_leg() keeps the cycle's timer or cancels it.
LEMMA NextLegTimer ==
  ASSUME accepted' = accepted, NEW leg, NEW amounts, NEW account, NEW busy,
         NextLeg(leg, amounts, account, busy)
  PROVE  TimerSound
  BY OutcomeTimer, SendTimer DEF NextLeg

\* A clearing pass arms the timer of its own order.
LEMMA ClearTimer ==
  ASSUME accepted' = accepted, NEW amounts, NEW account, NEW st, NEW timer,
         NEW busy, timer \in {timeout, None},
         ClearInitialPosition(amounts, account, st, timer, busy)
  PROVE  TimerSound
<1> DEFINE tag == [cycle |-> accepted, clears |-> clear_orders + 1]
<1>1. ASSUME NEW a, NEW q, Send(TRUE, ExitLegs[a], q, amounts, tag)
      PROVE  TimerSound
  <2>1. tag.cycle = accepted
    OBVIOUS
  <2> HIDE DEF tag
  <2> QED
    BY <1>1, <2>1, SendTimer
<1>2. CASE timeout' = timer \/ timeout' = None
  BY <1>2 DEF TimerSound
<1> QED
  BY <1>1, <1>2 DEF ClearInitialPosition

\* report() cancels, keeps or arms the timer of the running cycle.
LEMMA ReportTimer ==
  ASSUME accepted' = accepted, NEW v, NEW busy, Report(v, busy)
  PROVE  TimerSound
<1>1. CASE \/ ReportIgnored(v, busy) \/ ReportReleases(v, busy) \/ ReportProgress(v, busy)
  BY <1>1 DEF ReportIgnored, ReportReleases, ReportProgress, TimerSound
<1>2. CASE ReportUnusable(v, busy) \/ ReportIncomplete(v, busy)
  BY <1>2, OutcomeTimer DEF ReportUnusable, ReportIncomplete, Abandon
<1>3. CASE ReportUnfilled(v, busy) \/ ReportFirstLegStop(v, busy)
  BY <1>3, OutcomeTimer DEF ReportUnfilled, ReportFirstLegStop
<1>4. CASE ReportCleared(v, busy)
  BY <1>4, ClearTimer DEF ReportCleared
<1>5. CASE ReportAdvances(v, busy)
  BY <1>5, NextLegTimer DEF ReportAdvances
<1> QED
  BY <1>1, <1>2, <1>3, <1>4, <1>5 DEF Report

\* Every step keeps the timeouts current.
LEMMA TimeoutsNext == TypeOK /\ TimeoutsCurrent /\ [Next]_vars => TimeoutsCurrent'
<1> SUFFICES ASSUME TypeOK, TimeoutsCurrent, Next \/ UNCHANGED vars PROVE TimeoutsCurrent'
  OBVIOUS
<1>1. ready' = ready => Posted' = Posted
  BY DEF Posted
<1>2. ready # <<>> /\ ready' = Tail(ready) => Posted' \subseteq Posted
  BY PostedTail
<1>3. CASE TryStart
  <2>1. [kind |-> "begin"] \in Handlers /\ phase = "process"
    BY <1>3 DEF Handlers, TryStart
  <2>2. Posted' \subseteq Posted \cup {[kind |-> "begin"]}
    BY <1>3, <2>1, PostedAppend DEF TryStart
  <2>3. \A r \in Posted' : r.kind \in {"begin", "report"}
    BY <2>1, <2>2 DEF TimeoutsCurrent
  <2>4. timeout'.cycle = accepted'
    BY <1>3 DEF TryStart
  <2> QED
    BY <2>3, <2>4 DEF TimeoutsCurrent
<1>4. CASE StartInitialCleanup
  <2>1. accepted' = accepted /\ ready' = ready /\ phase' = phase
        /\ ClearInitialPosition(InitialBalances, accounted, "CLEARING", timeout, gateway_busy)
    BY <1>4 DEF StartInitialCleanup
  <2>2. TimerSound
    BY <2>1, ClearTimer
  <2> QED
    BY <1>1, <2>1, <2>2, TimeoutsKept
<1>5. CASE RunBegin \/ RunTimeout \/ RunWait \/ RunStop \/ RunReport \/ RunStream
  <2>1. /\ ready # <<>> /\ ready' = Tail(ready) /\ phase' = phase /\ accepted' = accepted
    BY <1>5 DEF RunBegin, RunTimeout, RunWait, RunStop, RunReport, RunStream, Run
  <2>2. UNCHANGED timeout => TimerSound
    BY <2>1 DEF TimerSound
  <2>3. RunBegin => TimerSound
    BY <2>1, <2>2, OutcomeTimer, NextLegTimer DEF RunBegin, slotVars, outcomeVars
  <2>4. RunTimeout => TimerSound
    BY <2>1, <2>2, OutcomeTimer DEF RunTimeout, Abandon, outcomeVars
  <2>5. RunWait => TimerSound
    BY <2>1, <2>2, ClearTimer DEF RunWait, slotVars, outcomeVars
  <2>6. RunStop => TimerSound
    BY <2>1, <2>2, OutcomeTimer DEF RunStop
  <2>7. RunReport \/ RunStream => TimerSound
    BY <2>1, <2>2, ReportTimer DEF RunReport, RunStream, slotVars, outcomeVars
  <2>8. TimerSound
    BY <1>5, <2>3, <2>4, <2>5, <2>6, <2>7
  <2> QED
    BY <1>2, <2>1, <2>8, TimeoutsKept
<1>6. CASE TimeoutExpires
  <2> DEFINE h == [kind |-> "timeout", tag |-> timeout]
  <2>1. timeout \in Tags /\ h \in Handlers /\ h.kind = "timeout" /\ h.tag = timeout
    BY <1>6 DEF TimeoutExpires, TypeOK, Handlers
  <2>2. /\ ready' = Append(ready, h) /\ phase' = phase /\ phase = "poll" /\ TimerSound
        /\ h.tag.cycle = accepted
    BY <1>6, <2>1 DEF TimeoutExpires, Others, TimerSound, TimeoutsCurrent
  <2> HIDE DEF h
  <2> QED
    BY <2>1, <2>2, TimeoutsPosted
<1>7. CASE WaitExpires \/ Signal
  <2>1. PICK h \in {[kind |-> "wait"], [kind |-> "stop"]} : ready' = Append(ready, h)
    BY <1>7 DEF WaitExpires, Signal
  <2>2. h \in Handlers /\ h.kind # "timeout"
    BY DEF Handlers
  <2>3. phase' = phase /\ phase = "poll" /\ TimerSound
    BY <1>7 DEF WaitExpires, Signal, Others, TimerSound, slotVars, outcomeVars
  <2> QED
    BY <2>1, <2>2, <2>3, TimeoutsPosted
<1>8. CASE \E g \in live : Answer(g) \/ StreamReport(g)
  <2>1. PICK g \in live : Answer(g) \/ StreamReport(g)
    BY <1>8
  <2>2. PICK h \in {[kind |-> "report", id |-> g.id], [kind |-> "stream", id |-> g.id]} :
          ready' = Append(ready, h) /\ (phase = "process" => h.kind = "report")
    BY <2>1 DEF Answer, StreamReport
  <2>3. h \in Handlers /\ h.kind # "timeout"
    BY DEF Handlers, TypeOK, LiveOrders
  <2>4. phase' = phase /\ TimerSound
    BY <2>1 DEF Answer, StreamReport, Others, TimerSound, outcomeVars
  <2> QED
    BY <2>2, <2>3, <2>4, TimeoutsPosted
<1>9. CASE ProcessReturn
  <2>1. phase' = "poll" /\ ready' = ready /\ TimerSound
    BY <1>9 DEF ProcessReturn, TimerSound, slotVars, outcomeVars
  <2> QED
    BY <1>1, <2>1 DEF TimeoutsCurrent, TimerSound
<1>10. CASE PollReturn
  <2>1. ready = <<>> /\ ready' = ready /\ TimerSound
    BY <1>10 DEF PollReturn, PollDrained, TimerSound, slotVars, outcomeVars
  <2>2. Posted' = {}
    BY <2>1, EmptySeq, LenProperties DEF Posted, Range
  <2> QED
    BY <2>1, <2>2 DEF TimeoutsCurrent, TimerSound
<1>11. CASE DeadlinePasses \/ UNCHANGED vars
  <2>1. phase' = phase /\ ready' = ready /\ TimerSound
    BY <1>11 DEF DeadlinePasses, Others, TimerSound, slotVars, outcomeVars, vars
  <2> QED
    BY <1>1, <2>1, TimeoutsKept
<1> QED
  BY <1>3, <1>4, <1>5, <1>6, <1>7, <1>8, <1>9, <1>10, <1>11 DEF Next, Exited

\* A timeout that asio had queued before it was cancelled can fail only the
\* cycle it was armed for: no later cycle is running when its handler runs.
THEOREM TimeoutsAreTheirOwn == Spec => []TimeoutHitsItsOwnCycle
<1>1. Init => TimeoutsCurrent
  <2>1. Init => Posted = {}
    BY EmptySeq, LenProperties DEF Init, Posted, Range
  <2> QED
    BY <2>1 DEF Init, TimeoutsCurrent
<1>2. TimeoutsCurrent => TimeoutHitsItsOwnCycle
  BY DEF TimeoutsCurrent, TimeoutHitsItsOwnCycle, Posted, Range
<1> QED
  BY <1>1, <1>2, InitType, TypeNext, TimeoutsNext, PTL DEF Spec

(***************************************************************************)
(* Cycles, when startup clearing is never called (main.cpp does not call   *)
(* it).  A cycle is undecided until it fails, completes or is halted.      *)
(***************************************************************************)
Undecided == InCycle /\ ~waiting_gateway

CycleInv ==
  /\ ~cleanup_wait /\ state # "CLEARING" /\ (pending # None => ~pending.clear)
  /\ state = "LEG_PENDING" => order_number = leg_number + 1
  /\ state = "VALIDATING" => pending = None /\ order_number = 0 /\ leg_number = 0
  /\ state = "IDLE" => pending = None
  /\ waiting_gateway => state \in {"LEG_PENDING", "HALTED"}
  /\ Undecided => ~failed
  /\ stopping => state \in {"IDLE", "HALTED"}
  /\ Ledger

\* No timeout, signal or user report waits before a cycle's begin(), and a
\* cycle in validation still has its begin() to come.
QueueInv ==
  /\ \A r \in Posted : r.kind # "wait"
  /\ \A i, j \in DOMAIN ready :
       ready[j].kind = "begin" /\ i < j => ready[i].kind \in {"begin", "report"}
  /\ state = "VALIDATING" => \E r \in Posted : r.kind = "begin"

\* completed grows as CompletedMeansRoundTrip says, and an order is sent only
\* as LegsOnlyFromHealthyCycles says.
RoundTrip ==
  completed' > completed =>
    /\ order_number = Len(Path) /\ pending # None
    /\ accounted'.filled = pending.quantity /\ ~failed
HealthyLeg ==
  order_number' > order_number /\ InCycle =>
    /\ ~stopping /\ Undecided /\ ~failed
    /\ order_number = leg_number' /\ order_number < Len(Path)

\* A step changes neither counter's meaning: it completes nothing, sends nothing.
NothingDone == completed' = completed /\ order_number' = order_number

\* What a step does for a cycle.
CycleStep == CycleInv' /\ RoundTrip /\ HealthyLeg

\* A step that neither completes nor sends does both soundly.
LEMMA NothingDoneSound ==
  ASSUME TypeOK, NothingDone
  PROVE  RoundTrip /\ HealthyLeg
  BY DEF TypeOK, NothingDone, RoundTrip, HealthyLeg

\* halt(): the ledger is closed.
LEMMA HaltedCycle ==
  ASSUME TypeOK, CycleInv, accepted' = accepted, NEW busy, NEW order,
         order # None => ~order.clear, Halt(busy, order)
  PROVE  CycleInv' /\ completed' = completed
  BY DEF CycleInv, Undecided, InCycle, Ledger, Halt

\* fail_cycle(): the cycle is counted as failed once, whether or not its REST
\* task is over.
LEMMA FailedCycle ==
  ASSUME TypeOK, CycleInv, accepted' = accepted, stopping' = stopping, InCycle,
         NEW busy \in BOOLEAN, NEW order, order # None => ~order.clear,
         busy => state = "LEG_PENDING" /\ UNCHANGED <<leg_number, order_number>>,
         FailCycle(busy, order)
  PROVE  CycleInv' /\ completed' = completed
<1>1. CASE busy
  BY <1>1 DEF CycleInv, Undecided, InCycle, Ledger, FailCycle, KeepsSlot, CountsFailure, TypeOK
<1>2. CASE ~busy
  BY <1>2 DEF CycleInv, Undecided, InCycle, Ledger, FailCycle, KeepsSlot, CountsFailure, TypeOK
<1> QED
  BY <1>1, <1>2

\* finish(true): the cycle is counted as failed, once.
LEMMA FailsFinish ==
  ASSUME TypeOK, CycleInv, accepted' = accepted, stopping' = stopping, Undecided,
         NEW leg, NEW busy, Finish(TRUE, leg, busy), order_number' = order_number
  PROVE  CycleInv' /\ NothingDone
  BY DEF CycleInv, Undecided, InCycle, Ledger, Finish, TypeOK, NothingDone

\* finish() after the last leg: the cycle is counted as completed, once.
LEMMA EndsFinish ==
  ASSUME TypeOK, CycleInv, accepted' = accepted, stopping' = stopping, Undecided,
         NEW leg, leg = Len(Path), NEW busy, Finish(failed, leg, busy)
  PROVE  CycleInv'
  BY DEF CycleInv, Undecided, InCycle, Ledger, Finish, TypeOK

\* send() of an undecided cycle's next leg.
LEMMA SentCycle ==
  ASSUME TypeOK, CycleInv, accepted' = accepted, stopping' = stopping, Undecided,
         NEW leg, NEW quantity, NEW amounts, NEW timer,
         Send(FALSE, leg, quantity, amounts, timer), leg_number' = order_number
  PROVE  CycleInv' /\ completed' = completed
<1>1. PICK order : order = [id |-> <<accepted, order_number + 1>>, clear |-> FALSE,
                            leg |-> leg, quantity |-> quantity]
  OBVIOUS
<1>2. order.clear = FALSE
  BY <1>1
<1>3. CASE /\ state' = "LEG_PENDING" /\ pending' = order
           /\ order_number' = order_number + 1
           /\ UNCHANGED <<waiting_gateway, failed, completed, failures, cleanup_wait>>
  BY <1>2, <1>3 DEF CycleInv, Undecided, InCycle, Ledger, TypeOK
<1>4. CASE FailCycle(FALSE, order)
  BY <1>2, <1>4, FailedCycle DEF Undecided
<1> QED
  BY <1>1, <1>2, <1>3, <1>4 DEF Send, Abandon

\* next_leg(): the next order, or the end of the cycle.
LEMMA NextLegCycle ==
  ASSUME TypeOK, CycleInv, accepted' = accepted, stopping' = stopping, Undecided,
         NEW leg, NEW amounts, NEW account, NEW busy,
         leg = order_number, NextLeg(leg, amounts, account, busy),
         leg = Len(Path) => /\ pending # None
                            /\ account.filled = pending.quantity
  PROVE  CycleStep
<1>1. /\ order_number \in Nat /\ leg_number' = leg /\ leg_number' = order_number
      /\ failed \in BOOLEAN /\ ~failed /\ ~stopping /\ completed \in Nat
  BY DEF NextLeg, TypeOK, CycleInv, Undecided, InCycle
<1>2. CASE leg = Len(Path) /\ Finish(failed, leg, busy) /\ accounted' = account
           /\ UNCHANGED order_number
  <2>1. CycleInv'
    BY <1>2, EndsFinish
  <2> QED
    BY <1>1, <1>2, <2>1 DEF CycleStep, RoundTrip, HealthyLeg
<1>3. CASE leg < Len(Path) /\ Finish(TRUE, leg, busy) /\ UNCHANGED order_number
  <2>1. CycleInv' /\ NothingDone
    BY <1>3, FailsFinish
  <2> QED
    BY <2>1, NothingDoneSound DEF CycleStep
<1>4. ASSUME leg < Len(Path), NEW l, NEW q, Send(FALSE, l, q, amounts, timeout)
      PROVE  CycleStep
  <2>1. CycleInv' /\ completed' = completed
    BY <1>1, <1>4, SentCycle
  <2> QED
    BY <1>1, <1>4, <2>1 DEF CycleStep, RoundTrip, HealthyLeg
<1> QED
  BY <1>2, <1>3, <1>4 DEF NextLeg, submitVars

\* A step that leaves the cycle as it is.
LEMMA SameCycle ==
  ASSUME TypeOK, CycleInv,
         UNCHANGED <<state, pending, waiting_gateway, failed, completed, failures,
                     leg_number, order_number, accepted, stopping>>,
         ~cleanup_wait'
  PROVE  CycleStep
<1>1. CycleInv'
  BY DEF CycleInv, Undecided, InCycle, Ledger
<1> QED
  BY <1>1, NothingDoneSound DEF CycleStep, NothingDone

\* report(), by way out of the function.
LEMMA ReportCycle ==
  ASSUME TypeOK, CycleInv, accepted' = accepted, stopping' = stopping, pending # None,
         NEW v, NEW busy \in BOOLEAN, Report(v, busy)
  PROVE  CycleStep
<1>1. /\ ~pending.clear /\ state \in {"LEG_PENDING", "HALTED"} /\ ~cleanup_wait
      /\ leg_number \in Nat
  BY DEF CycleInv, TypeOK, States
<1>2. Fresh(v) => state = "LEG_PENDING" /\ InCycle
  BY <1>1 DEF Fresh, InCycle
<1>3. CASE ReportIgnored(v, busy) \/ ReportProgress(v, busy)
  BY <1>1, <1>3, SameCycle DEF ReportIgnored, ReportProgress
<1>4. CASE ReportUnusable(v, busy) \/ ReportIncomplete(v, busy)
  <2>1. /\ FailCycle(busy, pending) /\ InCycle /\ state = "LEG_PENDING"
        /\ UNCHANGED <<leg_number, order_number>>
    BY <1>1, <1>2, <1>4 DEF ReportUnusable, ReportIncomplete, Abandon, Accepts
  <2>2. CycleInv' /\ NothingDone
    BY <1>1, <2>1, FailedCycle DEF NothingDone
  <2> QED
    BY <2>2, NothingDoneSound DEF CycleStep
<1>5. CASE ReportReleases(v, busy)
  <2>1. CycleInv'
    BY <1>1, <1>2, <1>5
    DEF ReportReleases, Accepts, CycleInv, Undecided, InCycle, Ledger
  <2> QED
    BY <1>5, <2>1, NothingDoneSound DEF ReportReleases, CycleStep, NothingDone
<1>6. CASE ReportUnfilled(v, busy)
  <2>1. /\ Finish(TRUE, leg_number, busy) /\ Undecided /\ UNCHANGED order_number
    BY <1>2, <1>6 DEF ReportUnfilled, ReportFinal, Accepts, Undecided
  <2>2. CycleInv' /\ NothingDone
    BY <2>1, FailsFinish
  <2> QED
    BY <2>2, NothingDoneSound DEF CycleStep
<1>7. CASE ReportFirstLegStop(v, busy)
  <2>1. /\ FailCycle(busy, None) /\ InCycle /\ state = "LEG_PENDING"
        /\ UNCHANGED <<leg_number, order_number>>
    BY <1>2, <1>7 DEF ReportFirstLegStop, ReportFinal, Accepts
  <2>2. CycleInv' /\ NothingDone
    BY <2>1, FailedCycle DEF NothingDone
  <2> QED
    BY <2>2, NothingDoneSound DEF CycleStep
<1>8. CASE ReportAdvances(v, busy)
  <2>1. /\ NextLeg(leg_number + 1, Settle(v), AccountOf(v), busy) /\ Undecided
        /\ leg_number + 1 = order_number /\ v.filled = pending.quantity
    BY <1>2, <1>8
    DEF ReportAdvances, ReportFinal, Accepts, Undecided, CycleInv, WhollyFilled
  <2>2. AccountOf(v).filled = pending.quantity
    BY <2>1 DEF AccountOf
  <2> QED
    BY <2>1, <2>2, NextLegCycle
<1>9. ~ReportCleared(v, busy)
  BY <1>1 DEF ReportCleared
<1> QED
  BY <1>3, <1>4, <1>5, <1>6, <1>7, <1>8, <1>9 DEF Report

\* The queue and its positions.
LEMMA ReadySeq ==
  ASSUME TypeOK
  PROVE  /\ ready \in Seq(Handlers) /\ Len(ready) \in Nat /\ DOMAIN ready = 1..Len(ready)
         /\ \A i \in DOMAIN ready : ready[i] \in Posted
         /\ \A r \in Posted : \E i \in DOMAIN ready : r = ready[i]
  BY LenProperties DEF TypeOK, Posted, Range

\* The queue kept as it is.
LEMMA QueueSame ==
  ASSUME QueueInv, ready' = ready, state' \in {state, "IDLE", "LEG_PENDING", "HALTED"}
  PROVE  QueueInv'
  BY DEF QueueInv, Posted

\* The head taken off the queue; it is the begin() of no cycle that goes on
\* being validated.
LEMMA QueueTail ==
  ASSUME TypeOK, QueueInv, ready # <<>>, ready' = Tail(ready),
         state' = "VALIDATING" => state = "VALIDATING" /\ Head(ready).kind # "begin"
  PROVE  QueueInv'
<1>1. /\ Len(ready) \in Nat \ {0} /\ DOMAIN ready = 1..Len(ready) /\ ready' \in Seq(Handlers)
      /\ Len(ready') = Len(ready) - 1 /\ DOMAIN ready' = 1..Len(ready')
      /\ \A i \in DOMAIN ready' : i \in Nat /\ i + 1 \in DOMAIN ready /\ ready'[i] = ready[i + 1]
  BY LenProperties, EmptySeq, HeadTailProperties DEF TypeOK
<1>2. Posted' \subseteq Posted
  BY PostedTail
<1>3. \A i, j \in DOMAIN ready' :
        ready'[j].kind = "begin" /\ i < j => ready'[i].kind \in {"begin", "report"}
  <2> SUFFICES ASSUME NEW i \in DOMAIN ready', NEW j \in DOMAIN ready',
                      ready'[j].kind = "begin", i < j
               PROVE  ready'[i].kind \in {"begin", "report"}
    OBVIOUS
  <2>1. /\ i + 1 \in DOMAIN ready /\ j + 1 \in DOMAIN ready /\ i + 1 < j + 1
        /\ ready'[i] = ready[i + 1] /\ ready'[j] = ready[j + 1]
    BY <1>1
  <2> QED
    BY <2>1 DEF QueueInv
<1>4. state' = "VALIDATING" => \E r \in Posted' : r.kind = "begin"
  <2> SUFFICES ASSUME state' = "VALIDATING" PROVE \E r \in Posted' : r.kind = "begin"
    OBVIOUS
  <2>1. PICK i \in DOMAIN ready : ready[i].kind = "begin"
    BY ReadySeq DEF QueueInv
  <2>2. i # 1
    BY <2>1, <1>1
  <2>3. i - 1 \in DOMAIN ready' /\ ready'[i - 1] = ready[i]
    BY <1>1, <2>2
  <2>4. ready'[i - 1] \in Posted'
    BY <2>3 DEF Posted, Range
  <2> QED
    BY <2>1, <2>3, <2>4
<1> QED
  BY <1>2, <1>3, <1>4 DEF QueueInv

\* A handler appended to the queue.
LEMMA QueueAppend ==
  ASSUME TypeOK, QueueInv, NEW h \in Handlers, ready' = Append(ready, h), h.kind # "wait",
         \/ h.kind # "begin" /\ state' = state
         \/ h.kind = "begin" /\ \A r \in Posted : r.kind \in {"begin", "report"}
  PROVE  QueueInv'
<1>1. /\ Len(ready) \in Nat /\ DOMAIN ready = 1..Len(ready)
      /\ Len(ready') = Len(ready) + 1 /\ DOMAIN ready' = 1..Len(ready) + 1
      /\ ready'[Len(ready) + 1] = h
      /\ \A i \in DOMAIN ready : i \in DOMAIN ready' /\ ready'[i] = ready[i]
  BY LenProperties, AppendProperties DEF TypeOK
<1>2. Posted' \subseteq Posted \cup {h}
  BY PostedAppend
<1>3. \A i, j \in DOMAIN ready' :
        ready'[j].kind = "begin" /\ i < j => ready'[i].kind \in {"begin", "report"}
  <2> SUFFICES ASSUME NEW i \in DOMAIN ready', NEW j \in DOMAIN ready',
                      ready'[j].kind = "begin", i < j
               PROVE  ready'[i].kind \in {"begin", "report"}
    OBVIOUS
  <2>1. i \in DOMAIN ready /\ ready'[i] = ready[i]
    BY <1>1
  <2>2. CASE j \in DOMAIN ready
    BY <1>1, <2>1, <2>2 DEF QueueInv
  <2>3. CASE j = Len(ready) + 1
    BY <1>1, <2>1, <2>3, ReadySeq
  <2> QED
    BY <1>1, <2>2, <2>3
<1>4. \A r \in Posted : r \in Posted'
  <2> SUFFICES ASSUME NEW i \in DOMAIN ready PROVE ready[i] \in Posted'
    BY ReadySeq
  <2> QED
    BY <1>1 DEF Posted, Range
<1>5. h \in Posted'
  <2>1. Len(ready) + 1 \in DOMAIN ready'
    BY <1>1
  <2> QED
    BY <1>1, <2>1 DEF Posted, Range
<1> QED
  BY <1>2, <1>3, <1>4, <1>5 DEF QueueInv

\* A handler at the head of a queue with a begin() is a begin() or an answer.
LEMMA HeadBeforeBegin ==
  ASSUME TypeOK, QueueInv, state = "VALIDATING", ready # <<>>
  PROVE  Head(ready).kind \in {"begin", "report"}
<1>1. PICK j \in DOMAIN ready : ready[j].kind = "begin"
  BY ReadySeq DEF QueueInv
<1>2. /\ Head(ready) = ready[1] /\ 1 \in DOMAIN ready /\ j \in Nat
      /\ (j # 1 => 1 < j)
  BY <1>1, LenProperties, EmptySeq DEF TypeOK
<1> QED
  BY <1>1, <1>2 DEF QueueInv

CyclesInv == TimeoutsCurrent /\ CycleInv /\ QueueInv

\* The handlers.
LEMMA HandlersCycle ==
  ASSUME TypeOK, CyclesInv,
         RunBegin \/ RunTimeout \/ RunWait \/ RunStop \/ RunReport \/ RunStream
  PROVE  CycleStep /\ QueueInv'
<1>1. /\ ready # <<>> /\ ready' = Tail(ready) /\ accepted' = accepted
      /\ CycleInv /\ QueueInv
  BY DEF RunBegin, RunTimeout, RunWait, RunStop, RunReport, RunStream, Run, CyclesInv
<1>2. /\ gateway_busy \in BOOLEAN /\ waiting_gateway \in BOOLEAN /\ state \in States
      /\ Len(Path) \in Nat \ {0} /\ ~cleanup_wait /\ state # "CLEARING"
  BY <1>1, PathAssumption, LenProperties, EmptySeq DEF TypeOK, CycleInv
<1>3. UNCHANGED <<slotVars, stopping>> => CycleStep /\ state' = state /\ pending' = pending
  BY <1>1, <1>2, SameCycle DEF slotVars, outcomeVars
<1>4. CASE RunBegin
  <2>1. CASE UNCHANGED slotVars /\ (state # "VALIDATING" \/ stopping)
    <3>1. state # "VALIDATING"
      BY <1>1, <2>1 DEF CycleInv
    <3> QED
      BY <1>1, <1>3, <1>4, <2>1, <3>1, QueueTail DEF RunBegin
  <2>2. CASE state = "VALIDATING" /\ ~stopping
    <3>1. /\ Undecided /\ order_number = 0 /\ pending = None /\ stopping' = stopping
      BY <1>1, <1>4, <2>2 DEF CycleInv, Undecided, InCycle, RunBegin
    <3>2. CASE Finish(TRUE, leg_number, gateway_busy) /\ UNCHANGED order_number
      <4>1. CycleInv' /\ NothingDone /\ state' = "IDLE"
        BY <1>1, <3>1, <3>2, FailsFinish DEF Finish
      <4> QED
        BY <1>1, <4>1, NothingDoneSound, QueueTail DEF CycleStep
    <3>3. CASE NextLeg(0, [Empty EXCEPT !["USDT"] = Budget], accounted, gateway_busy)
      <4>1. CycleStep
        BY <1>1, <1>2, <3>1, <3>3, NextLegCycle
      <4>2. state' # "VALIDATING"
        BY <3>3 DEF NextLeg, Finish, Send, Abandon, Halt, FailCycle, KeepsSlot
      <4> QED
        BY <1>1, <4>1, <4>2, QueueTail
    <3> QED
      BY <1>4, <2>2, <3>2, <3>3 DEF RunBegin
  <2> QED
    BY <1>4, <2>1, <2>2 DEF RunBegin
<1>5. CASE RunTimeout
  <2>1. state # "VALIDATING" /\ stopping' = stopping
    BY <1>1, <1>5, HeadBeforeBegin DEF RunTimeout, Run
  <2>2. CASE UNCHANGED outcomeVars
    <3>1. UNCHANGED slotVars
      BY <1>5, <2>2 DEF RunTimeout, slotVars
    <3> QED
      BY <1>1, <1>3, <2>1, <3>1, QueueTail
  <2>3. CASE state \notin {"IDLE", "HALTED"} /\ ~UNCHANGED outcomeVars
    <3>1. PICK order \in {pending, None} : FailCycle(gateway_busy, order)
      BY <1>1, <1>5, <2>3 DEF RunTimeout, Abandon, CycleInv
    <3>2. InCycle /\ state = "LEG_PENDING" /\ (order # None => ~order.clear)
          /\ UNCHANGED <<leg_number, order_number>>
      BY <1>1, <1>2, <1>5, <2>1, <2>3 DEF States, InCycle, RunTimeout, CycleInv
    <3>3. CycleInv' /\ NothingDone /\ state' # "VALIDATING"
      BY <1>1, <1>2, <2>1, <3>1, <3>2, FailedCycle DEF NothingDone, FailCycle
    <3> QED
      BY <1>1, <3>3, NothingDoneSound, QueueTail DEF CycleStep
  <2> QED
    BY <1>5, <2>2, <2>3 DEF RunTimeout
<1>6. ~RunWait
  BY <1>1, PostedTail DEF RunWait, Run, QueueInv
<1>7. CASE RunStop
  <2>1. state # "VALIDATING"
    BY <1>1, <1>7, HeadBeforeBegin DEF RunStop, Run
  <2>2. CASE state \in {"IDLE", "HALTED"}
             /\ UNCHANGED <<state, pending, waiting_gateway, failed, completed, failures,
                            leg_number, order_number>>
             /\ cleanup_wait' = FALSE
    <3>1. CycleInv' /\ NothingDone
      BY <1>1, <2>2 DEF CycleInv, Undecided, InCycle, Ledger, NothingDone
    <3> QED
      BY <1>1, <2>1, <2>2, <3>1, NothingDoneSound, QueueTail DEF CycleStep
  <2>3. CASE Halt(gateway_busy, pending)
    <3>1. CycleInv' /\ NothingDone /\ state' = "HALTED"
      BY <1>1, <1>7, <2>3, HaltedCycle DEF NothingDone, RunStop, Halt, CycleInv
    <3> QED
      BY <1>1, <3>1, NothingDoneSound, QueueTail DEF CycleStep
  <2> QED
    BY <1>7, <2>2, <2>3 DEF RunStop
<1>8. CASE RunReport \/ RunStream
  <2>1. Head(ready).kind # "begin" /\ stopping' = stopping
    BY <1>8 DEF RunReport, RunStream, Run
  <2>2. CASE UNCHANGED slotVars
    BY <1>1, <1>3, <2>1, <2>2, QueueTail
  <2>3. CASE ForPending(Head(ready).id) /\ \E v, busy : busy \in BOOLEAN /\ Report(v, busy)
    <3>1. pending # None /\ state # "VALIDATING"
      BY <1>1, <2>3 DEF ForPending, CycleInv
    <3>2. CycleStep
      BY <1>1, <2>1, <2>3, <3>1, ReportCycle
    <3>3. state' # "VALIDATING"
      <4>1. CycleInv'
        BY <3>2 DEF CycleStep
      <4>2. PICK v, busy : Report(v, busy)
        BY <2>3
      <4>3. ~ReportCleared(v, busy)
        BY <1>1, <3>1 DEF ReportCleared, CycleInv
      <4> QED
        BY <3>1, <4>2, <4>3
        DEF Report, ReportIgnored, ReportUnusable, ReportReleases, ReportProgress,
            ReportIncomplete, ReportUnfilled, ReportFirstLegStop, ReportAdvances, NextLeg,
            Finish, Send, Abandon, Halt, FailCycle
    <3> QED
      BY <1>1, <3>2, <3>3, QueueTail
  <2> QED
    BY <1>2, <1>8, <2>2, <2>3 DEF RunReport, RunStream
<1> QED
  BY <1>4, <1>5, <1>6, <1>7, <1>8

\* Everything else.
LEMMA WorldCycle ==
  ASSUME Startup = FALSE, TypeOK, CyclesInv,
         \/ TryStart \/ StartInitialCleanup \/ ProcessReturn
         \/ TimeoutExpires \/ WaitExpires \/ DeadlinePasses \/ Signal \/ PollReturn
         \/ \E g \in live : Answer(g) \/ StreamReport(g)
         \/ UNCHANGED vars
  PROVE  CycleStep /\ QueueInv'
<1>1. CycleInv /\ QueueInv /\ TimeoutsCurrent /\ ~cleanup_wait
  BY DEF CyclesInv, CycleInv
<1>2. CASE TryStart
  <2>1. [kind |-> "begin"] \in Handlers /\ [kind |-> "begin"].kind = "begin"
    BY DEF Handlers
  <2>2. QueueInv'
    BY <1>1, <1>2, <2>1, QueueAppend DEF TryStart, TimeoutsCurrent
  <2>3. CycleInv'
    BY <1>1, <1>2 DEF TryStart, CycleInv, Undecided, InCycle, Ledger, TypeOK
  <2>4. RoundTrip /\ HealthyLeg
    BY <1>2 DEF TryStart, RoundTrip, HealthyLeg, InCycle, TypeOK
  <2> QED
    BY <2>2, <2>3, <2>4 DEF CycleStep
<1>3. ~StartInitialCleanup /\ ~WaitExpires
  BY <1>1 DEF StartInitialCleanup, WaitExpires
<1>4. CASE \/ ProcessReturn \/ TimeoutExpires \/ DeadlinePasses \/ Signal \/ PollReturn
           \/ \E g \in live : Answer(g) \/ StreamReport(g)
           \/ UNCHANGED vars
  <2>1. UNCHANGED <<state, pending, waiting_gateway, failed, completed, failures,
                    leg_number, order_number, accepted, stopping, cleanup_wait>>
    BY <1>4
    DEF ProcessReturn, TimeoutExpires, DeadlinePasses, Signal, PollReturn, Answer,
        StreamReport, vars, slotVars, outcomeVars, Others
  <2>2. CycleStep
    BY <1>1, <2>1, SameCycle
  <2>3. ready' = ready => QueueInv'
    BY <1>1, <2>1, QueueSame
  <2>4. ASSUME TimeoutExpires \/ Signal \/ \E g \in live : Answer(g) \/ StreamReport(g)
        PROVE  QueueInv'
    <3>1. PICK h \in Handlers : ready' = Append(ready, h) /\ h.kind \notin {"wait", "begin"}
      <4>1. CASE TimeoutExpires
        <5>1. timeout \in Tags
          BY <4>1 DEF TimeoutExpires, TypeOK
        <5>2. [kind |-> "timeout", tag |-> timeout] \in Handlers
          BY <5>1 DEF Handlers
        <5> QED
          BY <4>1, <5>2 DEF TimeoutExpires
      <4>2. CASE Signal
        BY <4>2 DEF Signal, Handlers
      <4>3. ASSUME NEW g \in live, Answer(g) \/ StreamReport(g)
            PROVE  \E h \in Handlers :
                     ready' = Append(ready, h) /\ h.kind \notin {"wait", "begin"}
        <5>1. g.id \in Nat \X Nat
          BY DEF TypeOK, LiveOrders
        <5>2. /\ [kind |-> "report", id |-> g.id] \in Handlers
              /\ [kind |-> "stream", id |-> g.id] \in Handlers
          BY <5>1 DEF Handlers
        <5> QED
          BY <4>3, <5>2 DEF Answer, StreamReport
      <4> QED
        BY <2>4, <4>1, <4>2, <4>3
    <3> QED
      BY <1>1, <2>1, <3>1, QueueAppend
  <2>5. ready' = ready \/ TimeoutExpires \/ Signal \/ \E g \in live : Answer(g) \/ StreamReport(g)
    BY <1>4 DEF ProcessReturn, DeadlinePasses, PollReturn, vars
  <2> QED
    BY <2>2, <2>3, <2>4, <2>5
<1> QED
  BY <1>2, <1>3, <1>4

\* Every step.
LEMMA CyclesNext ==
  ASSUME Startup = FALSE, TypeOK, CyclesInv, [Next]_vars
  PROVE  CycleStep /\ CyclesInv'
<1>1. CycleStep /\ QueueInv'
  BY HandlersCycle, WorldCycle DEF Next, Exited
<1>2. TimeoutsCurrent'
  BY TimeoutsNext DEF CyclesInv
<1> QED
  BY <1>1, <1>2 DEF CycleStep, CyclesInv

\* At start no cycle was accepted.
LEMMA InitCycles == Init => CyclesInv
<1> SUFFICES ASSUME Init PROVE CyclesInv
  OBVIOUS
<1>1. Posted = {} /\ DOMAIN ready = {}
  BY EmptySeq, LenProperties DEF Init, Posted, Range
<1> QED
  BY <1>1 DEF Init, CyclesInv, TimeoutsCurrent, CycleInv, QueueInv, Undecided, InCycle, Ledger

\* Every accepted cycle ends in exactly one of the two counters, whatever order
\* its timeout, its late answer and user reports come in.
THEOREM CyclesAreCountedOnce == ASSUME Startup = FALSE PROVE Spec => []Ledger
<1>1. TypeOK /\ CyclesInv /\ [Next]_vars => CyclesInv'
  BY CyclesNext
<1>2. CyclesInv => Ledger
  BY DEF CyclesInv, CycleInv
<1> QED
  BY <1>1, <1>2, InitType, TypeNext, InitCycles, PTL DEF Spec

\* A cycle counts as completed only after an order for every leg of the path
\* was sent and the last one wholly filled.
THEOREM CompletionIsEarned ==
  ASSUME Startup = FALSE PROVE Spec => CompletedMeansRoundTrip
<1>1. TypeOK /\ CyclesInv /\ [Next]_vars => CyclesInv'
  BY CyclesNext
<1>2. TypeOK /\ CyclesInv /\ [Next]_vars
        => [completed' > completed =>
              /\ order_number = Len(Path) /\ pending # None
              /\ accounted'.filled = pending.quantity /\ ~failed]_vars
  BY CyclesNext DEF CycleStep, RoundTrip
<1> QED
  BY <1>1, <1>2, InitType, TypeNext, InitCycles, PTL DEF Spec, CompletedMeansRoundTrip

\* Whoever sends a leg's order does it with no REST task running.
LEMMA SentAlone ==
  ASSUME Startup = FALSE, UserStream = FALSE, CyclesInv, SlotInv, Next,
         order_number' > order_number, InCycle
  PROVE  Running = {}
<1>1. /\ TypeOK /\ CycleInv /\ QueueInv /\ order_number \in Nat /\ state # "HALTED"
      /\ ~cleanup_wait /\ pending \in Orders \cup {None}
  BY DEF CyclesInv, CycleInv, SlotInv, TypeOK, InCycle
<1>2. order_number' # order_number
  BY <1>1
<1>3. NoTask => Running = {}
  BY DEF NoTask, Running
<1>4. CASE RunBegin
  <2>1. state = "VALIDATING"
    BY <1>1, <1>2, <1>4 DEF RunBegin, slotVars, CycleInv, InCycle
  <2>2. pending = None
    BY <1>1, <2>1 DEF CycleInv
  <2> QED
    BY <1>1, <1>3, <2>2, NoOrderNoTask
<1>5. CASE RunReport
  <2>1. /\ Head(ready) \in Posted /\ Head(ready).kind = "report"
        /\ ForPending(Head(ready).id)
    BY <1>1, <1>2, <1>5, PostedTail DEF RunReport, Run, slotVars
  <2>2. \A g \in live : g.running => g.id # pending.id
    BY <2>1 DEF SlotInv, Identified, ForPending
  <2> QED
    BY <1>1, <1>3, <2>2 DEF SlotInv, Occupied, NoTask
<1>6. ~RunStream /\ ~RunWait
  BY <1>1, PostedTail DEF RunStream, RunWait, Run, SlotInv, Identified, QueueInv
<1>7. ~TryStart /\ ~StartInitialCleanup
  BY DEF TryStart, StartInitialCleanup, InCycle
<1>8. ~RunTimeout /\ ~RunStop /\ ~ProcessReturn /\ ~TimeoutExpires /\ ~WaitExpires
      /\ ~DeadlinePasses /\ ~Signal /\ ~PollReturn /\ ~Exited
  BY <1>2
  DEF RunTimeout, RunStop, ProcessReturn, TimeoutExpires, WaitExpires, DeadlinePasses, Signal,
      PollReturn, Exited, vars, slotVars
<1>9. ~\E g \in live : Answer(g) \/ StreamReport(g)
  BY <1>2 DEF Answer, StreamReport
<1> QED
  BY <1>4, <1>5, <1>6, <1>7, <1>8, <1>9 DEF Next

\* The gateway of the shipped program gets an order for a leg only from the one
\* undecided cycle, in path order, and with no REST task of another order
\* outstanding.
THEOREM LegsAreHealthy ==
  ASSUME Startup = FALSE, UserStream = FALSE PROVE Spec => LegsOnlyFromHealthyCycles
<1>1. TypeOK /\ CyclesInv /\ [Next]_vars => CyclesInv'
  BY CyclesNext
<1>2. SlotInv /\ [Next]_vars => SlotInv'
  BY SlotNext
<1>3. TypeOK /\ CyclesInv /\ SlotInv /\ [Next]_vars
        => [order_number' > order_number /\ InCycle =>
              /\ ~stopping /\ ~failed /\ ~waiting_gateway /\ Running = {}
              /\ order_number = leg_number' /\ order_number < Len(Path)]_vars
  <2> SUFFICES ASSUME TypeOK, CyclesInv, SlotInv, Next,
                      order_number' > order_number, InCycle
               PROVE  /\ ~stopping /\ ~failed /\ ~waiting_gateway /\ Running = {}
                      /\ order_number = leg_number' /\ order_number < Len(Path)
    OBVIOUS
  <2>1. HealthyLeg
    BY CyclesNext DEF CycleStep
  <2> QED
    BY <2>1, SentAlone DEF HealthyLeg, Undecided
<1> QED
  BY <1>1, <1>2, <1>3, InitType, TypeNext, InitCycles, InitSlot, PTL
  DEF Spec, LegsOnlyFromHealthyCycles

(***************************************************************************)
(* Startup clearing.                                                       *)
(***************************************************************************)
ClearInv == TypeOK /\ ClearingBounded

\* Steps of everything but a clearing pass leave its counters alone.
LEMMA ClearingKept ==
  ASSUME ClearInv, UNCHANGED <<cleanup_processed, clear_orders>>
  PROVE  ClearingBounded'
  BY DEF ClearInv, ClearingBounded

\* A larger set of processed assets still accounts for every clearing order.
LEMMA ProcessedGrows ==
  ASSUME NEW old \in SUBSET Assets, NEW new \in SUBSET Assets, old \subseteq new
  PROVE  /\ Cardinality(old \cap DOMAIN ExitLegs) \in Nat
         /\ Cardinality(new \cap DOMAIN ExitLegs) \in Nat
         /\ Cardinality(old \cap DOMAIN ExitLegs) <= Cardinality(new \cap DOMAIN ExitLegs)
<1>1. IsFiniteSet(new \cap DOMAIN ExitLegs) /\ IsFiniteSet(old \cap DOMAIN ExitLegs)
  BY AssetsAssumption, FS_Subset
<1>2. old \cap DOMAIN ExitLegs \subseteq new \cap DOMAIN ExitLegs
  OBVIOUS
<1> QED
  BY <1>1, <1>2, FS_CardinalityType, FS_Subset

\* A clearing pass spends one unprocessed asset for its one order.
LEMMA PassBounded ==
  ASSUME ClearInv, NEW amounts, NEW account, NEW st, NEW timer, NEW busy,
         ClearInitialPosition(amounts, account, st, timer, busy)
  PROVE  ClearingBounded'
<1> DEFINE left == Unprocessed(amounts)
           done == cleanup_processed \cap DOMAIN ExitLegs
<1>1. /\ cleanup_processed \in SUBSET Assets /\ left \subseteq Assets \ cleanup_processed
      /\ clear_orders \in Nat /\ MaxClearOrders \in Nat
      /\ clear_orders <= MaxClearOrders /\ clear_orders <= Cardinality(done)
  BY BoundAssumption DEF ClearInv, TypeOK, ClearingBounded, Unprocessed
<1>2. IsFiniteSet(done) /\ Cardinality(done) \in Nat
  BY <1>1, AssetsAssumption, FS_Subset, FS_CardinalityType
<1>3. ASSUME NEW a \in left \cap DOMAIN ExitLegs, NEW skipped \in SUBSET left,
             clear_orders < MaxClearOrders,
             cleanup_processed' = cleanup_processed \cup skipped \cup {a},
             clear_orders' = clear_orders + 1
      PROVE  ClearingBounded'
  <2>1. a \notin done /\ a \in Assets
    BY <1>1
  <2>2. Cardinality(done \cup {a}) = Cardinality(done) + 1
    BY <1>2, <2>1, FS_AddElement
  <2>3. (cleanup_processed \cup {a}) \cap DOMAIN ExitLegs = done \cup {a}
    OBVIOUS
  <2>4. /\ Cardinality(cleanup_processed' \cap DOMAIN ExitLegs) \in Nat
        /\ Cardinality(done \cup {a}) <= Cardinality(cleanup_processed' \cap DOMAIN ExitLegs)
    <3>1. /\ cleanup_processed \cup {a} \in SUBSET Assets /\ cleanup_processed' \in SUBSET Assets
          /\ cleanup_processed \cup {a} \subseteq cleanup_processed'
      BY <1>1, <1>3, <2>1
    <3> QED
      BY <2>3, <3>1, ProcessedGrows
  <2> QED
    BY <1>1, <1>2, <1>3, <2>2, <2>4 DEF ClearingBounded
<1>4. ASSUME NEW more \in SUBSET left, cleanup_processed' = cleanup_processed \cup more,
             clear_orders' = clear_orders
      PROVE  ClearingBounded'
  <2>1. /\ Cardinality(cleanup_processed' \cap DOMAIN ExitLegs) \in Nat
        /\ Cardinality(done) <= Cardinality(cleanup_processed' \cap DOMAIN ExitLegs)
    <3>1. cleanup_processed' \in SUBSET Assets /\ cleanup_processed \subseteq cleanup_processed'
      BY <1>1, <1>4
    <3> QED
      BY <1>1, <3>1, ProcessedGrows
  <2> QED
    BY <1>1, <1>2, <1>4, <2>1 DEF ClearingBounded
<1> QED
  BY <1>3, <1>4 DEF ClearInitialPosition, MayClear

\* Startup clearing sends at most max_initial_clear_orders orders, and at most
\* one for each asset it may sell.
THEOREM ClearingIsBounded == Spec => []ClearingBounded
<1>1. Init => ClearingBounded
  <2>1. Cardinality({}) = 0 /\ {} \cap DOMAIN ExitLegs = {}
    BY FS_EmptySet
  <2> QED
    BY <2>1, BoundAssumption DEF Init, ClearingBounded
<1>2. ClearInv /\ [Next]_vars => ClearingBounded'
  <2> SUFFICES ASSUME ClearInv, Next \/ UNCHANGED vars PROVE ClearingBounded'
    OBVIOUS
  <2>1. UNCHANGED cleanupVars => ClearingBounded'
    BY ClearingKept DEF cleanupVars
  <2>2. CASE StartInitialCleanup \/ RunWait
    BY <2>1, <2>2, PassBounded DEF StartInitialCleanup, RunWait
  <2>3. CASE RunReport \/ RunStream
    <3>1. ASSUME NEW v, NEW busy, Report(v, busy) PROVE ClearingBounded'
      <4>1. CASE ReportCleared(v, busy)
        BY <4>1, PassBounded DEF ReportCleared
      <4>2. CASE ~ReportCleared(v, busy)
        BY <2>1, <3>1, <4>2
        DEF Report, ReportIgnored, ReportUnusable, ReportReleases, ReportProgress,
            ReportIncomplete, ReportUnfilled, ReportFirstLegStop, ReportAdvances
      <4> QED
        BY <4>1, <4>2
    <3> QED
      BY <2>1, <2>3, <3>1 DEF RunReport, RunStream
  <2>4. CASE TryStart \/ RunBegin \/ RunTimeout \/ RunStop \/ ProcessReturn
    BY <2>1, <2>4 DEF TryStart, RunBegin, RunTimeout, RunStop, ProcessReturn
  <2>5. CASE \/ TimeoutExpires \/ WaitExpires \/ DeadlinePasses \/ Signal \/ PollReturn
             \/ \E g \in live : Answer(g) \/ StreamReport(g)
             \/ UNCHANGED vars
    BY <2>1, <2>5, ClearingKept
    DEF TimeoutExpires, WaitExpires, DeadlinePasses, Signal, PollReturn, Answer, StreamReport,
        vars
  <2> QED
    BY <2>2, <2>3, <2>4, <2>5 DEF Next, Exited
<1> QED
  BY <1>1, <1>2, InitType, TypeNext, PTL DEF Spec, ClearInv
=============================================================================

----------------------------- MODULE OrderGateway -----------------------------
(***************************************************************************)
(* What every execution::Gateway of include/triangular/execution/          *)
(* execution.hpp promises its caller: callbacks are asynchronous, one for  *)
(* each call and in the order of the calls, and what they say of an order  *)
(* only grows: "Monotonic per order", "Reports combine query/stream fills  *)
(* with cumulative fees", "An uncertain submission is Unknown, never       *)
(* Rejected".                                                              *)
(***************************************************************************)
EXTENDS Naturals, Sequences

CONSTANT Orders   \* client order ids

VARIABLES
  calls,   \* the orders of the calls not answered yet
  told,    \* what the caller was last told of each order
  alive    \* the caller's io_context exists

vars == <<calls, told, alive>>

Untold == [revision |-> 0, filled |-> 0, rejected |-> FALSE]

Init == calls = <<>> /\ told = [o \in Orders |-> Untold] /\ alive = TRUE

Call(o) == calls' = Append(calls, o) /\ UNCHANGED <<told, alive>>

\* The same report again, or a newer one that takes nothing back; an order
\* that was rejected never shows a fill.
Follows(new, old) ==
  \/ new = old
  \/ /\ new.revision > old.revision
     /\ new.filled >= old.filled
     /\ old.rejected => new.rejected
     /\ new.rejected => new.filled = 0

\* The caller may make its next call from the callback.
Answer ==
  /\ calls # <<>>
  /\ \/ calls' = Tail(calls)
     \/ \E o \in Orders : calls' = Append(Tail(calls), o)
  /\ Follows(told'[Head(calls)], told[Head(calls)])
  /\ told' = [told EXCEPT ![Head(calls)] = told'[Head(calls)]]
  /\ UNCHANGED alive

Close == alive /\ alive' = FALSE /\ UNCHANGED <<calls, told>>

\* Once the caller is gone an answer may get lost.
Lose == ~alive /\ calls # <<>> /\ calls' = Tail(calls) /\ UNCHANGED <<told, alive>>

Next == (\E o \in Orders : Call(o)) \/ Answer \/ Close \/ Lose

Spec == Init /\ [][Next]_vars
=============================================================================

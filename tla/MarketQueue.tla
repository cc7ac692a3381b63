----------------------------- MODULE MarketQueue -----------------------------
(***************************************************************************)
(* What the raw message queue of src/receiver.cpp promises: complete       *)
(* messages leave it in the order the network thread received them, each   *)
(* once.  One that finds the queue full, as far as the network thread has  *)
(* noticed what was taken, or that is larger than a slot is counted and    *)
(* lost.  Messages are their wire sequence numbers.                        *)
(***************************************************************************)
EXTENDS Integers, Sequences

CONSTANT Capacity

VARIABLES
  queue,      \* sequence numbers waiting to be processed, oldest first
  unnoticed,  \* messages taken that the network thread has not noticed yet
  received,   \* the last wire sequence number
  lost,       \* messages counted as queue_full or oversized
  taken       \* messages the main thread is done with

queueVars == <<queue, unnoticed, received, lost, taken>>

Init ==
  /\ queue = <<>> /\ unnoticed = 0
  /\ received = 0 /\ lost = 0 /\ taken = 0

Full == Len(queue) + unnoticed = Capacity

Notice ==
  /\ unnoticed' \in 0..unnoticed
  /\ UNCHANGED <<queue, received, lost, taken>>

Put ==
  /\ ~Full
  /\ received' = received + 1
  /\ queue' = Append(queue, received')
  /\ UNCHANGED <<unnoticed, lost, taken>>

\* A full queue is noticed as such, whatever has been taken since.
Drop ==
  /\ unnoticed' \in 0..unnoticed
  /\ Full'
  /\ received' = received + 1 /\ lost' = lost + 1
  /\ UNCHANGED <<queue, taken>>

Discard ==
  /\ received' = received + 1 /\ lost' = lost + 1
  /\ UNCHANGED <<queue, unnoticed, taken>>

Take ==
  /\ queue # <<>>
  /\ queue' = Tail(queue)
  /\ unnoticed' = unnoticed + 1 /\ taken' = taken + 1
  /\ UNCHANGED <<received, lost>>

Next == Notice \/ Put \/ Drop \/ Discard \/ Take

Spec == Init /\ [][Next]_queueVars
=============================================================================

----------------------------- MODULE AsyncLogger -----------------------------
(***************************************************************************)
(* The asynchronous log of src/logger.cpp: producers append to a bounded   *)
(* vector under a mutex, one writer thread swaps the vector out and does   *)
(* the file I/O, any write or serialization may throw.                     *)
(*                                                                         *)
(* A record is its log_sequence.  A step is one critical section or one    *)
(* piece of I/O of the writer.  wait_for() may always return on its        *)
(* interval, so the threshold and the notifications only change timing     *)
(* and are left out.  file holds the records only: the writer's own        *)
(* diagnostic rows between batches are not records.                        *)
(***************************************************************************)
EXTENDS Integers, Sequences

CONSTANTS
  Capacity,      \* options.capacity
  SubmitBound    \* bound: calls of log() in one behaviour

ASSUME LoggerAssumption == Capacity \in Nat \ {0} /\ SubmitBound \in Nat

VARIABLES
  pending, batch, file,
  submitted, accepted, dropped, written, write_lost, in_flight, high_water,
  failed, stopping,
  writer,      \* where the writer thread is
  joined       \* stop() has returned

producerVars == <<submitted, accepted, dropped, high_water>>
vars == <<pending, batch, file, producerVars, written, write_lost, in_flight, failed,
          stopping, writer, joined>>

Init ==
  /\ pending = <<>> /\ batch = <<>> /\ file = <<>>
  /\ submitted = 0 /\ accepted = 0 /\ dropped = 0 /\ written = 0 /\ write_lost = 0
  /\ in_flight = 0 /\ high_water = 0
  /\ failed = FALSE /\ stopping = FALSE
  /\ writer = "waiting" /\ joined = FALSE

-----------------------------------------------------------------------------
(***************************************************************************)
(* log() and stop(), from any thread.                                      *)
(***************************************************************************)
RefusesWhenFull == Len(pending) >= Capacity
RefusesOverCapacity == stopping \/ failed \/ Len(pending) > Capacity
Refuses == stopping \/ failed \/ Len(pending) >= Capacity

LogDropped ==
  /\ submitted < SubmitBound
  /\ Refuses
  /\ submitted' = submitted + 1 /\ dropped' = dropped + 1
  /\ UNCHANGED <<pending, batch, file, accepted, high_water, written, write_lost,
                 in_flight, failed, stopping, writer, joined>>

LogAccepted ==
  /\ submitted < SubmitBound
  /\ ~Refuses
  /\ submitted' = submitted + 1 /\ accepted' = accepted + 1
  /\ pending' = Append(pending, accepted + 1)
  /\ high_water' = IF Len(pending') > high_water THEN Len(pending') ELSE high_water
  /\ UNCHANGED <<batch, file, dropped, written, write_lost, in_flight, failed, stopping,
                 writer, joined>>

Stop ==
  /\ ~stopping
  /\ stopping' = TRUE
  /\ UNCHANGED <<pending, batch, file, producerVars, written, write_lost, in_flight,
                 failed, writer, joined>>

Join ==
  /\ stopping /\ writer = "ended" /\ ~joined
  /\ joined' = TRUE
  /\ UNCHANGED <<pending, batch, file, producerVars, written, write_lost, in_flight,
                 failed, stopping, writer>>

-----------------------------------------------------------------------------
(***************************************************************************)
(* run(), the writer thread.                                               *)
(***************************************************************************)
LeavesNever == FALSE
LeavesOnStop == stopping
LeavesLoop == stopping /\ pending = <<>>

\* batch is empty here: it was cleared at the end of the last turn.
Swap ==
  /\ writer = "waiting"
  /\ batch' = pending /\ pending' = batch
  /\ in_flight' = Len(pending)
  /\ writer' = IF LeavesLoop THEN "final" ELSE IF pending = <<>> THEN "diagnostic" ELSE "write"
  /\ UNCHANGED <<file, producerVars, written, write_lost, failed, stopping, joined>>

WriteBatch ==
  /\ writer = "write"
  /\ file' = file \o batch
  /\ writer' = "record"
  /\ UNCHANGED <<pending, batch, producerVars, written, write_lost, in_flight, failed,
                 stopping, joined>>

\* Serialization fails, or the write after some of the batch got through.
WriteFails ==
  /\ writer = "write"
  /\ \E n \in 0..Len(batch) : file' = file \o SubSeq(batch, 1, n)
  /\ writer' = "catch"
  /\ UNCHANGED <<pending, batch, producerVars, written, write_lost, in_flight, failed,
                 stopping, joined>>

InFlightKept == in_flight
InFlightAfterRecord == 0

Record ==
  /\ writer = "record"
  /\ written' = written + Len(batch) /\ in_flight' = InFlightAfterRecord
  /\ writer' = "diagnostic"
  /\ UNCHANGED <<pending, batch, file, producerVars, write_lost, failed, stopping, joined>>

BatchKept == batch
BatchCleared == <<>>

Diagnostic ==
  /\ writer = "diagnostic"
  /\ batch' = BatchCleared /\ writer' = "waiting"
  /\ UNCHANGED <<pending, file, producerVars, written, write_lost, in_flight, failed,
                 stopping, joined>>

Final ==
  /\ writer = "final"
  /\ writer' = "ended"
  /\ UNCHANGED <<pending, batch, file, producerVars, written, write_lost, in_flight,
                 failed, stopping, joined>>

OwnWriteFails ==
  /\ writer \in {"diagnostic", "final"}
  /\ writer' = "catch"
  /\ UNCHANGED <<pending, batch, file, producerVars, written, write_lost, in_flight,
                 failed, stopping, joined>>

LostInFlightOnly == in_flight
Lost == in_flight + Len(pending)

Catch ==
  /\ writer = "catch"
  /\ failed' = TRUE
  /\ write_lost' = write_lost + Lost
  /\ in_flight' = 0 /\ pending' = <<>>
  /\ writer' = "ended"
  /\ UNCHANGED <<batch, file, producerVars, written, stopping, joined>>

Writer ==
  \/ Swap \/ WriteBatch \/ WriteFails \/ Record \/ Diagnostic \/ Final
  \/ OwnWriteFails \/ Catch

Joined == joined /\ submitted = SubmitBound /\ UNCHANGED vars

Next == LogDropped \/ LogAccepted \/ Stop \/ Join \/ Writer \/ Joined

Spec == Init /\ [][Next]_vars
FairSpec == Spec /\ WF_vars(Writer) /\ WF_vars(Join)

-----------------------------------------------------------------------------
TypeOK ==
  /\ pending \in Seq(Nat) /\ batch \in Seq(Nat) /\ file \in Seq(Nat)
  /\ submitted \in Nat /\ accepted \in Nat /\ dropped \in Nat
  /\ written \in Nat /\ write_lost \in Nat /\ in_flight \in Nat /\ high_water \in Nat
  /\ failed \in BOOLEAN /\ stopping \in BOOLEAN /\ joined \in BOOLEAN
  /\ writer \in {"waiting", "write", "record", "diagnostic", "final", "catch", "ended"}

\* stats() read at any moment accounts for every call of log(): dropped, or
\* accepted and then queued, in flight, written or lost, and nothing twice.
EveryRecordAccounted ==
  /\ submitted = accepted + dropped
  /\ accepted = written + write_lost + in_flight + Len(pending)

\* The file holds the accepted records from the first one on, in order and
\* without a gap, and at least those counted as written.
FileIsAPrefix ==
  /\ \A i \in DOMAIN file : file[i] = i
  /\ written <= Len(file)

\* The queue never outgrows the vector reserved for it, and the high-water
\* mark bounds what was ever queued.
QueueBounded == Len(pending) <= high_water /\ high_water <= Capacity

\* Once the writer thread has ended nothing is queued, and nothing can be
\* queued any more, that nobody will write or count as lost.
NothingStranded == writer = "ended" => pending = <<>> /\ in_flight = 0

\* "Drain all accepted records, then join": without an I/O failure stop()
\* returns with every accepted record in the file.
StopDrains ==
  joined /\ ~failed => written = accepted /\ Len(file) = accepted /\ write_lost = 0

\* Every accepted record is in the end written or counted as lost.
RecordsSettle ==
  \A n \in 1..SubmitBound : accepted >= n ~> written + write_lost >= n

\* stop() returns, whether or not the file can be written.
StopReturns == stopping ~> joined
=============================================================================

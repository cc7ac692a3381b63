----------------------------- MODULE MarketRing ------------------------------
(***************************************************************************)
(* The single-producer single-consumer ring between the network thread and *)
(* the main thread of src/receiver.cpp, with the shutdown that drains it.  *)
(*                                                                         *)
(* Every access to an atomic, and the begin and the end of every access to *)
(* a slot, is a step of its own.  An atomic load may return any value      *)
(* between the last one its thread saw and the current one, as the C++     *)
(* memory model allows, except after a join.  A message is its wire        *)
(* sequence number; whether it fits a slot is free.  The indices count     *)
(* messages and are kept unbounded: 2^64 messages are out of reach.        *)
(***************************************************************************)
EXTENDS Integers, Sequences

CONSTANTS
  Capacity,      \* queue_capacity
  Batch,         \* main's receiver.process(Batch)
  MessageBound   \* bound: messages received in one behaviour

ASSUME RingAssumption ==
  /\ Capacity \in Nat \ {0} /\ Batch \in Nat \ {0}
  /\ MessageBound \in Nat

VARIABLES
  slots,           \* slot -> sequence number of the message it holds
  writing,         \* the slot the producer is filling, or NoSlot
  reading,         \* the slot the consumer is using, or NoSlot
  write_index, read_index,
  wire_received, queue_full, oversized, high_water,
  producer,        \* where the network thread is in the read handler
  seen_read,       \* the value it last loaded from read_index
  consumer,        \* where the main thread is in process()
  seen_write,      \* the value it last loaded from write_index
  count, max_batch,\* process()'s loop counter and argument
  stopped,         \* the network thread has run the posted stop and ended
  stop_called      \* the main thread is in Receiver::stop()

producerVars == <<slots, writing, write_index, wire_received, queue_full, oversized,
                  high_water, producer, seen_read>>
consumerVars == <<reading, read_index, consumer, seen_write, count, max_batch>>
stopVars == <<stopped, stop_called>>
vars == <<producerVars, consumerVars, stopVars>>

Slots == 0..Capacity - 1
NoSlot == -1
SlotOf(index) == index % Capacity

Init ==
  /\ slots = [i \in Slots |-> 0]
  /\ writing = NoSlot /\ reading = NoSlot
  /\ write_index = 0 /\ read_index = 0
  /\ wire_received = 0 /\ queue_full = 0 /\ oversized = 0 /\ high_water = 0
  /\ producer = "idle" /\ seen_read = 0
  /\ consumer = "away" /\ seen_write = 0 /\ count = 0 /\ max_batch = Batch
  /\ stopped = FALSE /\ stop_called = FALSE

-----------------------------------------------------------------------------
(***************************************************************************)
(* The network thread: the completion handler of Session::read().          *)
(***************************************************************************)
Receive ==
  /\ producer = "idle" /\ ~stopped
  /\ wire_received < MessageBound
  /\ wire_received' = wire_received + 1
  /\ producer' = "counted"
  /\ UNCHANGED <<slots, writing, write_index, queue_full, oversized, high_water, seen_read,
                 consumerVars, stopVars>>

LoadReadIndex ==
  /\ producer = "counted"
  /\ seen_read' \in seen_read..read_index
  /\ producer' = "loaded"
  /\ UNCHANGED <<slots, writing, write_index, wire_received, queue_full, oversized,
                 high_water, consumerVars, stopVars>>

FullOnceOverfull == write_index - seen_read > Capacity
Full == write_index - seen_read = Capacity

CountedNever(losses) == losses
Counted(losses) == losses + 1

Oversized ==
  /\ producer = "loaded"
  /\ oversized' = Counted(oversized) /\ producer' = "idle"
  /\ UNCHANGED <<slots, writing, write_index, wire_received, queue_full, high_water,
                 seen_read, consumerVars, stopVars>>

QueueFull ==
  /\ producer = "loaded" /\ Full
  /\ queue_full' = Counted(queue_full) /\ producer' = "idle"
  /\ UNCHANGED <<slots, writing, write_index, wire_received, oversized, high_water,
                 seen_read, consumerVars, stopVars>>

BeginWrite ==
  /\ producer = "loaded" /\ ~Full
  /\ writing' = SlotOf(write_index) /\ producer' = "writing"
  /\ UNCHANGED <<slots, write_index, wire_received, queue_full, oversized, high_water,
                 seen_read, consumerVars, stopVars>>

EndWrite ==
  /\ producer = "writing"
  /\ slots' = [slots EXCEPT ![writing] = wire_received]
  /\ writing' = NoSlot /\ producer' = "written"
  /\ UNCHANGED <<write_index, wire_received, queue_full, oversized, high_water, seen_read,
                 consumerVars, stopVars>>

Publish ==
  /\ producer = "written"
  /\ write_index' = write_index + 1 /\ producer' = "published"
  /\ UNCHANGED <<slots, writing, wire_received, queue_full, oversized, high_water,
                 seen_read, consumerVars, stopVars>>

\* The code's "write + 1 - read": write_index has already moved here.
Depth == write_index - seen_read

RecordHighWater ==
  /\ producer = "published"
  /\ high_water' = IF Depth > high_water THEN Depth ELSE high_water
  /\ producer' = "idle"
  /\ UNCHANGED <<slots, writing, write_index, wire_received, queue_full, oversized,
                 seen_read, consumerVars, stopVars>>

\* The posted stop runs between two handlers; the thread then has no work left.
NetworkStops ==
  /\ stop_called /\ ~stopped /\ producer = "idle"
  /\ stopped' = TRUE
  /\ UNCHANGED <<producerVars, consumerVars, stop_called>>

-----------------------------------------------------------------------------
(***************************************************************************)
(* The main thread: process(), and stop() between two calls of it.         *)
(***************************************************************************)
Process ==
  /\ consumer = "away" /\ ~stop_called
  /\ consumer' = "checking" /\ count' = 0 /\ max_batch' = Batch
  /\ UNCHANGED <<producerVars, reading, read_index, seen_write, stopVars>>

ReturnToLoop == "away"
Return == IF stop_called THEN "done" ELSE "away"

BatchEnds ==
  /\ consumer = "checking" /\ count = max_batch
  /\ consumer' = Return
  /\ UNCHANGED <<producerVars, reading, read_index, seen_write, count, max_batch,
                 stopVars>>

LoadWriteIndex ==
  /\ consumer = "checking" /\ count < max_batch
  /\ seen_write' \in (IF stopped THEN write_index ELSE seen_write)..write_index
  /\ consumer' = "loaded"
  /\ UNCHANGED <<producerVars, reading, read_index, count, max_batch, stopVars>>

FoundEmpty ==
  /\ consumer = "loaded" /\ read_index = seen_write
  /\ consumer' = Return
  /\ UNCHANGED <<producerVars, reading, read_index, seen_write, count, max_batch,
                 stopVars>>

BeginRead ==
  /\ consumer = "loaded" /\ read_index # seen_write
  /\ reading' = SlotOf(read_index) 
  /\ consumer' = "using"
  /\ UNCHANGED <<producerVars, read_index, seen_write, count, max_batch, stopVars>>

\* The slot is in use until slot.source.reset(), just before the index moves.
EndRead ==
  /\ consumer = "using"
  /\ reading' = NoSlot /\ consumer' = "used"
  /\ UNCHANGED <<producerVars, read_index, seen_write, count, max_batch, stopVars>>

Advance ==
  /\ consumer = "used"
  /\ read_index' = read_index + 1
  /\ count' = count + 1 /\ consumer' = "checking"
  /\ UNCHANGED <<producerVars, reading, seen_write, max_batch, stopVars>>

Stop ==
  /\ consumer = "away" /\ ~stop_called
  /\ stop_called' = TRUE
  /\ UNCHANGED <<producerVars, consumerVars, stopped>>

\* After the join: process(queue_capacity).
OrdinaryBatch == Batch
DrainBatch == Capacity

Drain ==
  /\ stop_called /\ stopped /\ consumer = "away"
  /\ consumer' = "checking" /\ count' = 0 /\ max_batch' = DrainBatch
  /\ UNCHANGED <<producerVars, reading, read_index, seen_write, stopVars>>

Stopped == consumer = "done" /\ UNCHANGED vars

Producer ==
  \/ Receive \/ LoadReadIndex \/ Oversized \/ QueueFull
  \/ BeginWrite \/ EndWrite \/ Publish \/ RecordHighWater \/ NetworkStops
Consumer ==
  \/ Process \/ BatchEnds \/ LoadWriteIndex \/ FoundEmpty
  \/ BeginRead \/ EndRead \/ Advance \/ Stop \/ Drain
Next == Producer \/ Consumer \/ Stopped

Spec == Init /\ [][Next]_vars

-----------------------------------------------------------------------------
TypeOK ==
  /\ slots \in [Slots -> Nat]
  /\ writing \in Slots \cup {NoSlot} /\ reading \in Slots \cup {NoSlot}
  /\ write_index \in Nat /\ read_index \in Nat
  /\ wire_received \in Nat /\ queue_full \in Nat /\ oversized \in Nat
  /\ high_water \in Nat
  /\ producer \in {"idle", "counted", "loaded", "writing", "written", "published"}
  /\ seen_read \in Nat
  /\ consumer \in {"away", "checking", "loaded", "using", "used", "done"}
  /\ seen_write \in Nat /\ count \in Nat /\ max_batch \in {Batch, Capacity}
  /\ stopped \in BOOLEAN /\ stop_called \in BOOLEAN

\* The two threads never touch one slot at the same time, however old the
\* index values are that they work with.
NoSlotRace == writing # NoSlot => writing # reading

\* Every received message is published, counted as lost, or in the producer's
\* hands: the counters of stats() account for the whole stream.
InHand == IF producer \in {"counted", "loaded", "writing", "written"} THEN 1 ELSE 0
EveryMessageAccounted == wire_received = write_index + queue_full + oversized + InHand

\* queue_high_watermark is never below the real depth of the queue nor above
\* its capacity, although it is computed from an old read_index.
HighWaterIsSound ==
  /\ high_water <= Capacity
  /\ producer = "idle" => write_index - read_index <= high_water

\* stop() leaves nothing behind: what was published before the network thread
\* ended has been processed.
StopDrains == consumer = "done" => read_index = write_index

(***************************************************************************)
(* The ring implements the queue.  A message counts as received by the     *)
(* queue once its fate is decided.                                         *)
(***************************************************************************)
Undecided ==
  \/ producer \in {"counted", "writing", "written"}
  \/ producer = "loaded" /\ ~Full

Contents == [i \in 1..(write_index - read_index) |-> slots[SlotOf(read_index + i - 1)]]
Unnoticed == read_index - seen_read
Decided == wire_received - (IF Undecided THEN 1 ELSE 0)
Losses == queue_full + oversized + (IF producer = "loaded" /\ Full THEN 1 ELSE 0)

Queue == INSTANCE MarketQueue WITH
  queue <- Contents,
  unnoticed <- Unnoticed,
  received <- Decided,
  lost <- Losses,
  taken <- read_index

\* Messages are processed in wire order, each once; a loss is a counted one.
ImplementsQueue == Queue!Spec

(***************************************************************************)
(* Liveness: both threads keep running.                                    *)
(***************************************************************************)
FairSpec == Spec /\ WF_vars(Producer) /\ WF_vars(Consumer)

\* Receiver::stop() returns: neither the join nor the drain can hang.
StopReturns == stop_called ~> consumer = "done"
=============================================================================

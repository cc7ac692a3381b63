-------------------------- MODULE MarketRing_proofs ---------------------------
(***************************************************************************)
(* Safety of the ring for every capacity, batch size and number of         *)
(* messages.  The strengthening relates the two indices to the possibly    *)
(* old copies the threads work with, and says what the drain after the     *)
(* join has still to do.                                                   *)
(***************************************************************************)
EXTENDS MarketRing, SequenceTheorems, TLAPS

(***************************************************************************)
(* Arithmetic.                                                             *)
(***************************************************************************)
\* A slot number is a slot.
LEMMA SlotOfType == ASSUME NEW index \in Nat PROVE SlotOf(index) \in Slots
  BY RingAssumption DEF SlotOf, Slots

\* Two messages less than a ring apart have different slots.
LEMMA SlotsDiffer ==
  ASSUME NEW a \in Nat, NEW b \in Nat, a < b, b - a < Capacity
  PROVE  SlotOf(a) # SlotOf(b)
<1> DEFINE k == b \div Capacity - a \div Capacity
<1>1. Capacity \in Nat /\ Capacity > 0
  BY RingAssumption
<1>2. /\ a \div Capacity \in Int /\ b \div Capacity \in Int
      /\ a = Capacity * (a \div Capacity) + (a % Capacity)
      /\ b = Capacity * (b \div Capacity) + (b % Capacity)
  BY <1>1
<1>3. SUFFICES ASSUME a % Capacity = b % Capacity PROVE FALSE
  BY DEF SlotOf
<1>4. k \in Int /\ b - a = Capacity * k
  <2>1. b - a = Capacity * (b \div Capacity) - Capacity * (a \div Capacity)
    BY <1>1, <1>2, <1>3
  <2>2. Capacity * (b \div Capacity) - Capacity * (a \div Capacity) = Capacity * k
    BY <1>1, <1>2
  <2> QED
    BY <1>2, <2>1, <2>2
<1> HIDE DEF k
<1>5. CASE k <= 0
  <2>1. Capacity * k <= 0
    BY <1>1, <1>4, <1>5
  <2> QED
    BY <1>4, <2>1
<1>6. CASE k >= 1
  <2>1. Capacity * k >= Capacity
    BY <1>1, <1>4, <1>6
  <2> QED
    BY <1>1, <1>4, <2>1
<1> QED
  BY <1>4, <1>5, <1>6

(***************************************************************************)
(* The strengthening.                                                      *)
(***************************************************************************)
\* Copies are never ahead of the index they were loaded from, and the window
\* between the oldest slot that may be read and the next to write fits.
Window ==
  /\ seen_read <= read_index /\ read_index <= seen_write /\ seen_write <= write_index
  /\ consumer \in {"using", "used"} => read_index < seen_write
  /\ write_index - seen_read <= Capacity
  /\ producer \in {"writing", "written"} => write_index - seen_read < Capacity

\* A slot is held exactly where the program counters say so.
Held ==
  /\ writing = IF producer = "writing" THEN SlotOf(write_index) ELSE NoSlot
  /\ reading = IF consumer = "using" THEN SlotOf(read_index) ELSE NoSlot

\* Until the mark of a published message is recorded, it is behind by one.
MarkIsDue ==
  /\ high_water <= Capacity
  /\ producer # "published" => write_index - read_index <= high_water

\* From the post to the drain.
Draining ==
  /\ stopped => stop_called /\ producer = "idle"
  /\ consumer = "done" => stopped /\ read_index = write_index
  /\ stop_called /\ consumer \notin {"away", "done"} =>
       /\ stopped /\ max_batch = Capacity
       /\ count + (write_index - read_index) <= Capacity
       /\ consumer # "checking" => seen_write = write_index

Inv == TypeOK /\ Window /\ Held /\ MarkIsDue /\ Draining /\ EveryMessageAccounted

\* The empty ring.
LEMMA InitInv == Init => Inv
<1> SUFFICES ASSUME Init PROVE Inv
  OBVIOUS
<1>1. TypeOK
  BY RingAssumption DEF Init, TypeOK
<1>2. Window /\ Held /\ MarkIsDue
  BY RingAssumption DEF Init, Window, Held, MarkIsDue
<1>3. Draining /\ EveryMessageAccounted
  BY DEF Init, Draining, EveryMessageAccounted, InHand
<1> QED
  BY <1>1, <1>2, <1>3 DEF Inv

\* A step of the network thread.
LEMMA ProducerInv == Inv /\ Producer => Inv'
<1> SUFFICES ASSUME Inv, Producer PROVE Inv'
  OBVIOUS
<1> USE RingAssumption DEF Producer, Inv
<1>1. SlotOf(write_index) \in Slots
  BY SlotOfType DEF TypeOK
<1>2. TypeOK'
  <2>1. CASE EndWrite
    <3>1. slots' \in [Slots -> Nat]
      BY <2>1 DEF TypeOK, EndWrite
    <3> QED
      BY <2>1, <3>1 DEF TypeOK, EndWrite, consumerVars, stopVars
  <2>2. CASE BeginWrite
    BY <1>1, <2>2 DEF TypeOK, BeginWrite, consumerVars, stopVars
  <2>3. CASE Receive \/ LoadReadIndex \/ Oversized \/ QueueFull
    BY <2>3 DEF TypeOK, Receive, LoadReadIndex, Oversized, QueueFull, Counted,
                consumerVars, stopVars
  <2>4. CASE Publish \/ RecordHighWater
    BY <2>4 DEF TypeOK, Window, Publish, RecordHighWater, Depth, consumerVars, stopVars
  <2>5. CASE NetworkStops
    BY <2>5 DEF TypeOK, NetworkStops, consumerVars, producerVars
  <2> QED
    BY <2>1, <2>2, <2>3, <2>4, <2>5
<1>3. Window'
  BY DEF TypeOK, Window, Receive, LoadReadIndex, Oversized, QueueFull, BeginWrite, EndWrite,
     Publish, RecordHighWater, NetworkStops, Full, consumerVars, stopVars, producerVars
<1>4. Held'
  BY DEF Held, Receive, LoadReadIndex, Oversized, QueueFull, BeginWrite, EndWrite,
     Publish, RecordHighWater, NetworkStops, consumerVars, stopVars, producerVars
<1>5. MarkIsDue'
  BY DEF TypeOK, MarkIsDue, Window, Receive, LoadReadIndex, Oversized, QueueFull, BeginWrite,
     EndWrite, Publish, RecordHighWater, NetworkStops, Depth, consumerVars, stopVars,
     producerVars
<1>6. Draining'
  BY DEF Draining, Receive, LoadReadIndex, Oversized, QueueFull, BeginWrite, EndWrite,
     Publish, RecordHighWater, NetworkStops, consumerVars, stopVars, producerVars
<1>7. EveryMessageAccounted'
  BY DEF TypeOK, EveryMessageAccounted, InHand, Receive, LoadReadIndex, Oversized, QueueFull,
     BeginWrite, EndWrite, Publish, RecordHighWater, NetworkStops, Counted, consumerVars,
     stopVars, producerVars
<1> QED
  BY <1>2, <1>3, <1>4, <1>5, <1>6, <1>7

\* A step of the main thread.
LEMMA ConsumerInv == Inv /\ Consumer => Inv'
<1> SUFFICES ASSUME Inv, Consumer PROVE Inv'
  OBVIOUS
<1> USE RingAssumption DEF Consumer, Inv
<1>1. SlotOf(read_index) \in Slots
  BY SlotOfType DEF TypeOK
<1>2. TypeOK'
  <2>1. CASE Process \/ Drain
    BY <2>1 DEF TypeOK, Process, Drain, DrainBatch, producerVars, stopVars
  <2>2. CASE BatchEnds \/ LoadWriteIndex \/ FoundEmpty
    BY <2>2 DEF TypeOK, Window, BatchEnds, LoadWriteIndex, FoundEmpty, Return, producerVars,
                stopVars
  <2>3. CASE BeginRead
    BY <1>1, <2>3 DEF TypeOK, BeginRead, producerVars, stopVars
  <2>4. CASE EndRead \/ Advance
    BY <2>4 DEF TypeOK, EndRead, Advance, producerVars, stopVars
  <2>5. CASE Stop
    BY <2>5 DEF TypeOK, Stop, producerVars, consumerVars
  <2> QED
    BY <2>1, <2>2, <2>3, <2>4, <2>5
<1>3. Window'
  BY DEF TypeOK, Window, Process, BatchEnds, LoadWriteIndex, FoundEmpty, BeginRead, EndRead,
     Advance, Stop, Drain, Return, consumerVars, stopVars, producerVars
<1>4. Held'
  BY DEF Held, Process, BatchEnds, LoadWriteIndex, FoundEmpty, BeginRead, EndRead,
     Advance, Stop, Drain, Return, consumerVars, stopVars, producerVars
<1>5. MarkIsDue'
  BY DEF TypeOK, MarkIsDue, Process, BatchEnds, LoadWriteIndex, FoundEmpty, BeginRead,
     EndRead, Advance, Stop, Drain, consumerVars, stopVars, producerVars
<1>6. Draining'
  BY DEF TypeOK, Window, Draining, Process, BatchEnds, LoadWriteIndex, FoundEmpty, BeginRead,
     EndRead, Advance, Stop, Drain, Return, DrainBatch, consumerVars, stopVars, producerVars
<1>7. EveryMessageAccounted'
  BY DEF EveryMessageAccounted, InHand, Process, BatchEnds, LoadWriteIndex, FoundEmpty,
     BeginRead, EndRead, Advance, Stop, Drain, consumerVars, stopVars, producerVars
<1> QED
  BY <1>2, <1>3, <1>4, <1>5, <1>6, <1>7

\* A step of either thread, or none.
LEMMA NextInv == Inv /\ [Next]_vars => Inv'
<1>1. Inv /\ UNCHANGED vars => Inv'
  BY DEF Inv, TypeOK, Window, Held, MarkIsDue, Draining, EveryMessageAccounted, InHand,
         vars, producerVars, consumerVars, stopVars
<1> QED
  BY <1>1, ProducerInv, ConsumerInv DEF Next, Stopped

\* The strengthening holds in every state.
THEOREM Invariant == Spec => []Inv
  BY InitInv, NextInv, PTL DEF Spec

\* The network thread never fills the slot the main thread is using, for any
\* capacity and however old the index values are that either works with.
THEOREM NoRace == Spec => []NoSlotRace
<1>1. Inv => NoSlotRace
  <2> SUFFICES ASSUME Inv, writing # NoSlot PROVE writing # reading
    BY DEF NoSlotRace
  <2>1. producer = "writing" /\ writing = SlotOf(write_index)
    BY DEF Inv, Held
  <2>2. CASE consumer = "using"
    <3>1. /\ read_index \in Nat /\ write_index \in Nat
          /\ read_index < write_index /\ write_index - read_index < Capacity
      BY <2>1, <2>2, RingAssumption DEF Inv, TypeOK, Window
    <3>2. SlotOf(read_index) # SlotOf(write_index)
      BY <3>1, SlotsDiffer
    <3> QED
      BY <2>1, <2>2, <3>2 DEF Inv, Held
  <2>3. CASE consumer # "using"
    BY <2>3 DEF Inv, Held
  <2> QED
    BY <2>2, <2>3
<1> QED
  BY <1>1, Invariant, PTL

\* No received message is lost without being counted.
THEOREM AccountsForEveryMessage == Spec => []EveryMessageAccounted
<1>1. Inv => EveryMessageAccounted
  BY DEF Inv
<1> QED
  BY <1>1, Invariant, PTL

\* The high-water mark covers the real depth although it is computed from an
\* old read index.
THEOREM HighWaterSound == Spec => []HighWaterIsSound
<1>1. Inv => HighWaterIsSound
  BY DEF Inv, MarkIsDue, HighWaterIsSound
<1> QED
  BY <1>1, Invariant, PTL

\* One batch of queue_capacity after the join empties the ring.
THEOREM StopDrainsAll == Spec => []StopDrains
<1>1. Inv => StopDrains
  BY DEF Inv, Draining, StopDrains
<1> QED
  BY <1>1, Invariant, PTL

(***************************************************************************)
(* The ring implements the queue.                                          *)
(***************************************************************************)
\* A slot that was written and not yet published holds the last message.
Written == producer = "written" => slots[SlotOf(write_index)] = wire_received

\* Only EndWrite fills the slot, and only Publish moves the index past it.
LEMMA WrittenNext == Inv /\ Written /\ [Next]_vars => Written'
<1> SUFFICES ASSUME Inv, Written, Next \/ UNCHANGED vars PROVE Written'
  OBVIOUS
<1>1. CASE EndWrite
  <2>1. writing = SlotOf(write_index) /\ writing \in Slots /\ slots \in [Slots -> Nat]
    BY <1>1, SlotOfType DEF Inv, Held, TypeOK, EndWrite
  <2>2. slots'[writing] = wire_received
    BY <1>1, <2>1 DEF EndWrite
  <2>3. SlotOf(write_index)' = SlotOf(write_index) /\ wire_received' = wire_received
    BY <1>1 DEF EndWrite, SlotOf
  <2> QED
    BY <2>1, <2>2, <2>3 DEF Written
<1>2. CASE Producer /\ ~EndWrite
  BY <1>2 DEF Written, Producer, Receive, LoadReadIndex, Oversized, QueueFull, BeginWrite,
     Publish, RecordHighWater, NetworkStops, producerVars
<1>3. CASE Consumer \/ UNCHANGED vars
  BY <1>3 DEF Written, Consumer, Process, BatchEnds, LoadWriteIndex, FoundEmpty, BeginRead,
     EndRead, Advance, Stop, Drain, vars, producerVars, SlotOf
<1> QED
  BY <1>1, <1>2, <1>3 DEF Next, Stopped

\* The messages from index r up to index w, in the slots s.
Messages(s, r, w) == [i \in 1..(w - r) |-> s[SlotOf(r + i - 1)]]

\* It is a sequence of w - r messages.
LEMMA RingSeq ==
  ASSUME NEW s \in [Slots -> Nat], NEW r \in Nat, NEW w \in Nat, r <= w
  PROVE  /\ Messages(s, r, w) \in Seq(Nat) /\ Len(Messages(s, r, w)) = w - r
         /\ \A i \in 1..(w - r) : Messages(s, r, w)[i] = s[SlotOf(r + i - 1)]
<1>1. w - r \in Nat
  OBVIOUS
<1>2. \A i \in 1..(w - r) : s[SlotOf(r + i - 1)] \in Nat
  <2> SUFFICES ASSUME NEW i \in 1..(w - r) PROVE s[SlotOf(r + i - 1)] \in Nat
    OBVIOUS
  <2>1. r + i - 1 \in Nat
    BY <1>1
  <2> QED
    BY <2>1, SlotOfType
<1>3. Messages(s, r, w) \in [1..(w - r) -> Nat]
  BY <1>2 DEF Messages
<1>4. Messages(s, r, w) \in Seq(Nat)
  BY <1>1, <1>3, SeqDef
<1>5. Len(Messages(s, r, w)) = w - r
  BY <1>1, <1>3, <1>4, LenProperties
<1> QED
  BY <1>4, <1>5 DEF Messages

\* Sequences of messages with the same elements are equal.
LEMMA SameMessages ==
  ASSUME NEW a \in Seq(Nat), NEW b \in Seq(Nat), Len(a) = Len(b),
         \A i \in 1..Len(a) : a[i] = b[i]
  PROVE  a = b
<1>1. a \in [1..Len(a) -> Nat] /\ b \in [1..Len(a) -> Nat]
  BY LenProperties
<1> QED
  BY <1>1

\* Slots that agree on the window hold the same messages.
LEMMA RingSame ==
  ASSUME NEW s \in [Slots -> Nat], NEW t \in [Slots -> Nat],
         NEW r \in Nat, NEW w \in Nat, r <= w,
         \A j \in Nat : r <= j /\ j < w => t[SlotOf(j)] = s[SlotOf(j)]
  PROVE  Messages(t, r, w) = Messages(s, r, w)
<1>1. \A i \in 1..(w - r) : Messages(t, r, w)[i] = Messages(s, r, w)[i]
  <2> SUFFICES ASSUME NEW i \in 1..(w - r)
               PROVE  Messages(t, r, w)[i] = Messages(s, r, w)[i]
    OBVIOUS
  <2>1. r + i - 1 \in Nat /\ r <= r + i - 1 /\ r + i - 1 < w
    OBVIOUS
  <2>2. t[SlotOf(r + i - 1)] = s[SlotOf(r + i - 1)]
    BY <2>1
  <2> QED
    BY <2>2, RingSeq
<1>2. /\ Messages(s, r, w) \in Seq(Nat) /\ Len(Messages(s, r, w)) = w - r
      /\ Messages(t, r, w) \in Seq(Nat) /\ Len(Messages(t, r, w)) = w - r
  BY RingSeq
<1> QED
  BY <1>1, <1>2, SameMessages

\* Publishing appends the message in the slot of w.
LEMMA RingAppend ==
  ASSUME NEW s \in [Slots -> Nat], NEW r \in Nat, NEW w \in Nat, r <= w
  PROVE  Messages(s, r, w + 1) = Append(Messages(s, r, w), s[SlotOf(w)])
<1> DEFINE old == Messages(s, r, w)
           new == Messages(s, r, w + 1)
           msg == s[SlotOf(w)]
<1>1. msg \in Nat
  BY SlotOfType
<1>2. /\ old \in Seq(Nat) /\ Len(old) = w - r
      /\ \A i \in 1..(w - r) : old[i] = s[SlotOf(r + i - 1)]
  BY RingSeq
<1>3. /\ new \in Seq(Nat) /\ Len(new) = w + 1 - r
      /\ \A i \in 1..(w + 1 - r) : new[i] = s[SlotOf(r + i - 1)]
  <2>1. \A v \in Nat : r <= v =>
          /\ Messages(s, r, v) \in Seq(Nat) /\ Len(Messages(s, r, v)) = v - r
          /\ \A i \in 1..(v - r) : Messages(s, r, v)[i] = s[SlotOf(r + i - 1)]
    BY RingSeq
  <2> HIDE DEF msg
  <2> QED
    BY <2>1, w + 1 \in Nat, r <= w + 1
<1>4. r + (w + 1 - r) - 1 = w /\ w + 1 - r \in 1..(w + 1 - r)
  OBVIOUS
<1>5. new[w + 1 - r] = msg
  BY <1>3, <1>4
<1> HIDE DEF old, new, msg
<1>6. /\ Append(old, msg) \in Seq(Nat) /\ Len(Append(old, msg)) = Len(old) + 1
      /\ \A i \in 1..Len(old) : Append(old, msg)[i] = old[i]
      /\ Append(old, msg)[Len(old) + 1] = msg
  BY <1>1, <1>2, AppendProperties
<1>7. \A i \in 1..Len(new) : new[i] = Append(old, msg)[i]
  <2> SUFFICES ASSUME NEW i \in 1..Len(new) PROVE new[i] = Append(old, msg)[i]
    OBVIOUS
  <2>1. CASE i = w + 1 - r
    BY <1>2, <1>5, <1>6, <2>1
  <2>2. CASE i # w + 1 - r
    BY <1>2, <1>3, <1>6, <2>2
  <2> QED
    BY <2>1, <2>2
<1>8. new = Append(old, msg)
  <2>1. Len(new) = Len(Append(old, msg))
    BY <1>2, <1>3, <1>6
  <2> DEFINE app == Append(old, msg)
  <2>2. app \in Seq(Nat) /\ Len(new) = Len(app) /\ \A i \in 1..Len(new) : new[i] = app[i]
    BY <1>6, <1>7, <2>1
  <2> HIDE DEF app
  <2>3. new = app
    BY <1>3, <2>2, SameMessages
  <2> QED
    BY <2>3 DEF app
<1> QED
  BY <1>8 DEF old, new, msg

\* Moving the read index takes the first message.
LEMMA RingTail ==
  ASSUME NEW s \in [Slots -> Nat], NEW r \in Nat, NEW w \in Nat, r < w
  PROVE  Messages(s, r, w) # <<>> /\ Messages(s, r + 1, w) = Tail(Messages(s, r, w))
<1> DEFINE old == Messages(s, r, w)
           new == Messages(s, r + 1, w)
<1>1. /\ old \in Seq(Nat) /\ Len(old) = w - r
      /\ \A i \in 1..(w - r) : old[i] = s[SlotOf(r + i - 1)]
  BY RingSeq, r <= w
<1>2. /\ new \in Seq(Nat) /\ Len(new) = w - (r + 1)
      /\ \A i \in 1..(w - (r + 1)) : new[i] = s[SlotOf(r + 1 + i - 1)]
  BY RingSeq, r + 1 \in Nat, r + 1 <= w
<1> HIDE DEF old, new
<1>3. old # <<>>
  BY <1>1, EmptySeq
<1>4. /\ Tail(old) \in Seq(Nat) /\ Len(Tail(old)) = Len(old) - 1
      /\ \A i \in 1..Len(Tail(old)) : Tail(old)[i] = old[i + 1]
  BY <1>1, <1>3, HeadTailProperties
<1>5. \A i \in 1..Len(new) : new[i] = Tail(old)[i]
  <2> SUFFICES ASSUME NEW i \in 1..Len(new) PROVE new[i] = Tail(old)[i]
    OBVIOUS
  <2>1. r + 1 + i - 1 = r + (i + 1) - 1 /\ i + 1 \in 1..(w - r)
    BY <1>2
  <2>2. new[i] = s[SlotOf(r + (i + 1) - 1)] /\ old[i + 1] = s[SlotOf(r + (i + 1) - 1)]
    BY <1>1, <1>2, <2>1
  <2> QED
    BY <1>1, <1>2, <1>4, <2>2
<1>6. new = Tail(old)
  <2>1. Len(new) = Len(Tail(old))
    BY <1>1, <1>2, <1>4
  <2> DEFINE rest == Tail(old)
  <2>2. rest \in Seq(Nat) /\ Len(new) = Len(rest) /\ \A i \in 1..Len(new) : new[i] = rest[i]
    BY <1>4, <1>5, <2>1
  <2> HIDE DEF rest
  <2>3. new = rest
    BY <1>2, <2>2, SameMessages
  <2> QED
    BY <2>3 DEF rest
<1> QED
  BY <1>3, <1>6 DEF old, new

\* The empty ring is the empty queue.
LEMMA RefineInit == Init => Queue!Init
<1> SUFFICES ASSUME Init PROVE Queue!Init
  OBVIOUS
<1>1. Contents \in Seq(Nat) /\ Len(Contents) = 0
  <2>1. slots \in [Slots -> Nat]
    BY DEF Init
  <2> QED
    BY <2>1, RingSeq DEF Init, Contents, Messages
<1>2. Contents = <<>>
  BY <1>1, EmptySeq
<1> QED
  <2>1. Unnoticed = 0 /\ Decided = 0 /\ Losses = 0 /\ read_index = 0
    <3>1. ~Undecided /\ ~(producer = "loaded" /\ Full)
      BY DEF Init, Undecided
    <3>2. Decided = wire_received - 0 /\ Losses = queue_full + oversized + 0
      BY <3>1 DEF Decided, Losses
    <3> QED
      BY <3>2 DEF Init, Unnoticed
  <2> QED
    BY <1>2, <2>1 DEF Queue!Init

\* What is queued and what is unnoticed add up to the producer's view.
LEMMA SlackSum ==
  ASSUME NEW w \in Nat, NEW r \in Nat, NEW n \in Nat
  PROVE  (w - r) + (r - n) = w - n
  OBVIOUS

\* Every step of the network thread decides a message's fate, notices what was
\* taken, or is none of the queue's business.
LEMMA RefineProducer == Inv /\ Written /\ Producer => [Queue!Next]_(Queue!queueVars)
<1> SUFFICES ASSUME Inv, Written, Producer
             PROVE  Queue!Next \/ UNCHANGED Queue!queueVars
  OBVIOUS
<1>1. /\ slots \in [Slots -> Nat] /\ write_index \in Nat /\ read_index \in Nat
      /\ seen_read \in Nat /\ wire_received \in Nat /\ queue_full \in Nat
      /\ oversized \in Nat /\ Capacity \in Nat \ {0}
      /\ seen_read <= read_index /\ read_index <= write_index
  BY RingAssumption DEF Inv, TypeOK, Window
<1>2. Contents = Messages(slots, read_index, write_index)
  BY DEF Contents, Messages
<1>3. Contents' = Messages(slots', read_index', write_index')
  BY DEF Contents, Messages, SlotOf
<1>4. Len(Contents) = write_index - read_index
  BY <1>1, <1>2, RingSeq
<1>5. CASE Receive
  BY <1>1, <1>2, <1>3, <1>5 DEF Receive, consumerVars, Queue!queueVars, Unnoticed, Decided,
     Undecided, Losses
<1>6. CASE LoadReadIndex
  <2>1. Contents' = Contents /\ read_index' = read_index /\ write_index' = write_index
    BY <1>2, <1>3, <1>6 DEF LoadReadIndex, consumerVars
  <2>2. seen_read' \in Nat /\ Unnoticed' \in 0..Unnoticed
    <3>1. seen_read' \in seen_read..read_index
      BY <1>6 DEF LoadReadIndex
    <3>2. Unnoticed' = read_index - seen_read'
      BY <2>1 DEF Unnoticed
    <3> QED
      BY <1>1, <3>1, <3>2 DEF Unnoticed
  <2>3. CASE Full'
    <3>1. Queue!Full'
      <4>1. Len(Contents') = write_index - read_index
        BY <1>4, <2>1
      <4>2. Unnoticed' = read_index - seen_read'
        BY <2>1 DEF Unnoticed
      <4>3. write_index - seen_read' = Capacity
        BY <2>1, <2>3 DEF Full
      <4>4. Len(Contents') + Unnoticed' = Capacity
        <5>1. write_index \in Nat /\ read_index \in Nat /\ seen_read' \in Nat
          BY <1>1, <2>2
        <5>2. (write_index - read_index) + (read_index - seen_read')
                 = write_index - seen_read'
          BY <5>1, SlackSum
        <5>3. (write_index - read_index) + (read_index - seen_read') = Capacity
          BY <4>3, <5>2
        <5> QED
          BY <4>1, <4>2, <5>3
      <4> QED
        BY <4>4 DEF Queue!Full
    <3>2. Decided' = Decided + 1 /\ Losses' = Losses + 1
      BY <1>1, <1>6, <2>3 DEF LoadReadIndex, Decided, Undecided, Losses
    <3>3. Queue!Drop
      BY <2>1, <2>2, <3>1, <3>2 DEF Queue!Drop
    <3> QED
      BY <3>3 DEF Queue!Next
  <2>4. CASE ~Full'
    <3>1. Decided' = Decided /\ Losses' = Losses
      BY <1>1, <1>6, <2>4 DEF LoadReadIndex, Decided, Undecided, Losses
    <3>2. Queue!Notice
      BY <2>1, <2>2, <3>1 DEF Queue!Notice
    <3> QED
      BY <3>2 DEF Queue!Next
  <2> QED
    BY <2>3, <2>4
<1>7. CASE Oversized
  <2>1. Contents' = Contents /\ Unnoticed' = Unnoticed /\ read_index' = read_index
    BY <1>2, <1>3, <1>7 DEF Oversized, consumerVars, Unnoticed
  <2>2. CASE Full
    <3>1. Decided' = Decided /\ Losses' = Losses
      BY <1>1, <1>7, <2>2 DEF Oversized, Counted, Decided, Undecided, Losses
    <3> QED
      BY <2>1, <3>1 DEF Queue!queueVars
  <2>3. CASE ~Full
    <3>1. Decided' = Decided + 1 /\ Losses' = Losses + 1
      BY <1>1, <1>7, <2>3 DEF Oversized, Counted, Decided, Undecided, Losses
    <3>2. Queue!Discard
      BY <2>1, <3>1 DEF Queue!Discard
    <3> QED
      BY <3>2 DEF Queue!Next
  <2> QED
    BY <2>2, <2>3
<1>8. CASE QueueFull
  BY <1>1, <1>2, <1>3, <1>8 DEF QueueFull, Counted, consumerVars, Queue!queueVars, Unnoticed,
     Decided, Undecided, Losses
<1>9. CASE BeginWrite
  BY <1>1, <1>2, <1>3, <1>9 DEF BeginWrite, consumerVars, Queue!queueVars, Unnoticed,
     Decided, Undecided, Losses
<1>10. CASE EndWrite
  <2>1. slots' \in [Slots -> Nat] /\ writing = SlotOf(write_index)
    BY <1>1, <1>10, SlotOfType DEF EndWrite, Inv, Held
  <2>2. ASSUME NEW j \in Nat, read_index <= j, j < write_index
        PROVE  slots'[SlotOf(j)] = slots[SlotOf(j)]
    <3>1. write_index - j < Capacity
      BY <1>1, <1>10, <2>2 DEF EndWrite, Inv, Window
    <3>2. SlotOf(j) # SlotOf(write_index) /\ SlotOf(j) \in Slots
      BY <1>1, <2>2, <3>1, SlotsDiffer, SlotOfType
    <3> QED
      BY <1>1, <1>10, <2>1, <3>2 DEF EndWrite
  <2>3. read_index' = read_index /\ write_index' = write_index
    BY <1>10 DEF EndWrite, consumerVars
  <2>4. Contents' = Contents
    BY <1>1, <1>2, <1>3, <2>1, <2>2, <2>3, RingSame
  <2> QED
    BY <1>1, <1>10, <2>3, <2>4 DEF EndWrite, Queue!queueVars, Unnoticed, Decided, Undecided,
       Losses
<1>11. CASE Publish
  <2>1. read_index' = read_index /\ write_index' = write_index + 1 /\ slots' = slots
    BY <1>11 DEF Publish, consumerVars
  <2>2. Contents' = Append(Contents, wire_received)
    <3>1. slots[SlotOf(write_index)] = wire_received
      BY <1>11 DEF Publish, Written
    <3> QED
      BY <1>1, <1>2, <1>3, <2>1, <3>1, RingAppend
  <2>3. /\ Decided' = Decided + 1 /\ Decided' = wire_received
        /\ Losses' = Losses /\ Unnoticed' = Unnoticed
    BY <1>1, <1>11 DEF Publish, consumerVars, Decided, Undecided, Losses, Unnoticed
  <2>4. ~Queue!Full
    BY <1>1, <1>4, <1>11 DEF Publish, Inv, Window, Queue!Full, Unnoticed
  <2>5. Queue!Put
    BY <2>1, <2>2, <2>3, <2>4 DEF Queue!Put
  <2> QED
    BY <2>5 DEF Queue!Next
<1>12. CASE RecordHighWater
  BY <1>1, <1>2, <1>3, <1>12 DEF RecordHighWater, consumerVars, Queue!queueVars, Unnoticed,
     Decided, Undecided, Losses
<1>13. CASE NetworkStops
  BY <1>1, <1>2, <1>3, <1>13 DEF NetworkStops, producerVars, consumerVars, Queue!queueVars,
     Unnoticed, Decided, Undecided, Losses, Full
<1> QED
  BY <1>5, <1>6, <1>7, <1>8, <1>9, <1>10, <1>11, <1>12, <1>13 DEF Producer

\* Only the main thread's move of the read index is a step of the queue.
LEMMA RefineConsumer ==
  Inv /\ (Consumer \/ UNCHANGED vars) => [Queue!Next]_(Queue!queueVars)
<1> SUFFICES ASSUME Inv, Consumer \/ UNCHANGED vars
             PROVE  Queue!Next \/ UNCHANGED Queue!queueVars
  OBVIOUS
<1>1. Contents = Messages(slots, read_index, write_index)
  BY DEF Contents, Messages
<1>2. Contents' = Messages(slots', read_index', write_index')
  BY DEF Contents, Messages, SlotOf
<1>3. /\ slots' = slots /\ write_index' = write_index /\ seen_read' = seen_read
      /\ wire_received' = wire_received /\ queue_full' = queue_full
      /\ oversized' = oversized /\ producer' = producer
  BY DEF Consumer, Process, BatchEnds, LoadWriteIndex, FoundEmpty, BeginRead, EndRead,
     Advance, Stop, Drain, vars, producerVars
<1>4. Decided' = Decided /\ Losses' = Losses
  BY <1>3 DEF Decided, Undecided, Losses, Full
<1>5. CASE Advance
  <2>1. /\ slots \in [Slots -> Nat] /\ write_index \in Nat /\ read_index \in Nat
        /\ seen_read \in Nat /\ read_index < write_index
    BY <1>5 DEF Advance, Inv, TypeOK, Window
  <2>2. read_index' = read_index + 1
    BY <1>5 DEF Advance
  <2>3. Contents # <<>> /\ Contents' = Tail(Contents)
    BY <1>1, <1>2, <1>3, <2>1, <2>2, RingTail
  <2>4. Unnoticed' = Unnoticed + 1
    BY <1>3, <2>1, <2>2 DEF Unnoticed
  <2>5. Queue!Take
    BY <1>4, <2>2, <2>3, <2>4 DEF Queue!Take
  <2> QED
    BY <2>5 DEF Queue!Next
<1>6. CASE ~Advance
  <2>1. read_index' = read_index
    BY <1>6 DEF Consumer, Process, BatchEnds, LoadWriteIndex, FoundEmpty, BeginRead, EndRead,
       Stop, Drain, vars, consumerVars
  <2> QED
    BY <1>1, <1>2, <1>3, <1>4, <2>1 DEF Queue!queueVars, Unnoticed
<1> QED
  BY <1>5, <1>6

\* The ring implements the queue: whatever old index values the two threads
\* work with, messages are processed once each in wire order, and only counted
\* ones are lost.
THEOREM RingImplementsQueue == Spec => ImplementsQueue
<1>1. Init => Written
  BY DEF Init, Written
<1>2. Inv /\ Written /\ [Next]_vars => [Queue!Next]_(Queue!queueVars)
  BY RefineProducer, RefineConsumer DEF Next, Stopped
<1>3. Spec => []Written
  BY <1>1, WrittenNext, Invariant, PTL DEF Spec
<1> QED
  BY RefineInit, <1>2, <1>3, Invariant, PTL DEF Spec, ImplementsQueue, Queue!Spec
=============================================================================

-------------------------- MODULE AsyncLogger_proofs --------------------------
(***************************************************************************)
(* Safety of the asynchronous log for every capacity and any number of     *)
(* records.  The strengthening says, for each place the writer thread can  *)
(* be, what batch and in_flight hold there and which records are where.    *)
(***************************************************************************)
EXTENDS AsyncLogger, SequenceTheorems, TLAPS

\* What the writer's program counter says of the queue and the batch.
WriterPlace ==
  /\ writer \in {"waiting", "final"} => batch = <<>>
  /\ writer \in {"write", "record"} => in_flight = Len(batch)
  /\ writer \in {"waiting", "diagnostic", "final", "ended"} => in_flight = 0
  /\ writer \in {"final", "ended"} => pending = <<>> /\ (stopping \/ failed)
  /\ joined => writer = "ended"
  /\ failed => writer = "ended"

\* How far the file is when nothing has failed.
FileLength ==
  /\ ~failed => write_lost = 0
  /\ written <= Len(file)
  /\ writer \in {"waiting", "write", "diagnostic", "final"} => Len(file) = written
  /\ writer = "ended" /\ ~failed => Len(file) = written
  /\ writer = "record" => Len(file) = written + Len(batch)

\* Records are numbered in the order they were accepted, wherever they are.
Numbered ==
  /\ \A i \in 1..Len(pending) : pending[i] = accepted - Len(pending) + i
  /\ \A i \in 1..Len(file) : file[i] = i
  /\ writer = "write" => \A i \in 1..Len(batch) : batch[i] = Len(file) + i

Inv ==
  /\ TypeOK
  /\ QueueBounded
  /\ EveryRecordAccounted
  /\ WriterPlace
  /\ FileLength
  /\ Numbered

\* The counters and the places are right before the first record.
LEMMA InitInv == Init => Inv
<1> SUFFICES ASSUME Init PROVE Inv
  OBVIOUS
<1>1. << >> \in Seq(Nat) /\ Len(<< >>) = 0
  BY EmptySeq
<1>2. TypeOK
  BY <1>1 DEF Init, TypeOK
<1>3. QueueBounded /\ EveryRecordAccounted
  BY <1>1, LoggerAssumption DEF Init, QueueBounded, EveryRecordAccounted
<1>4. WriterPlace /\ FileLength
  BY <1>1 DEF Init, WriterPlace, FileLength
<1>5. Numbered
  BY <1>1 DEF Init, Numbered
<1> QED
  BY <1>2, <1>3, <1>4, <1>5 DEF Inv

\* log() refused: only the two counters of calls move.
LEMMA LogDroppedInv == Inv /\ LogDropped => Inv'
  BY DEF Inv, TypeOK, QueueBounded, EveryRecordAccounted, WriterPlace, FileLength, Numbered,
         LogDropped

\* log() accepted: the record gets the next number and the last place.
LEMMA LogAcceptedInv == Inv /\ LogAccepted => Inv'
<1> SUFFICES ASSUME Inv, LogAccepted PROVE Inv'
  OBVIOUS
<1>1. TypeOK /\ accepted + 1 \in Nat
  BY DEF Inv, TypeOK
<1>2. /\ pending' \in Seq(Nat) /\ Len(pending') = Len(pending) + 1
      /\ \A i \in 1..Len(pending) : pending'[i] = pending[i]
      /\ pending'[Len(pending) + 1] = accepted + 1
  BY <1>1, AppendProperties DEF TypeOK, LogAccepted
<1>3. Len(pending) \in Nat /\ Len(pending) < Capacity
  BY <1>1, LenProperties, LoggerAssumption DEF TypeOK, LogAccepted, Refuses
<1>4. TypeOK'
  BY <1>1, <1>2, <1>3 DEF TypeOK, LogAccepted
<1>5. QueueBounded'
  BY <1>1, <1>2, <1>3, LoggerAssumption DEF Inv, QueueBounded, TypeOK, LogAccepted
<1>6. EveryRecordAccounted'
  BY <1>1, <1>2, <1>3 DEF Inv, EveryRecordAccounted, TypeOK, LogAccepted
<1>7. WriterPlace' /\ FileLength'
  BY DEF Inv, WriterPlace, FileLength, LogAccepted, Refuses
<1>8. Numbered'
  <2>1. \A i \in 1..Len(pending') : pending'[i] = accepted' - Len(pending') + i
    <3> SUFFICES ASSUME NEW i \in 1..Len(pending')
                 PROVE  pending'[i] = accepted' - Len(pending') + i
      OBVIOUS
    <3>1. accepted' - Len(pending') + i = accepted - Len(pending) + i
      BY <1>1, <1>2, <1>3 DEF TypeOK, LogAccepted
    <3>2. CASE i = Len(pending) + 1
      BY <1>1, <1>2, <1>3, <3>1, <3>2 DEF TypeOK
    <3>3. CASE i \in 1..Len(pending)
      BY <1>2, <3>1, <3>3 DEF Inv, Numbered
    <3> QED
      BY <1>2, <1>3, <3>2, <3>3
  <2> QED
    BY <2>1 DEF Inv, Numbered, LogAccepted
<1> QED
  BY <1>4, <1>5, <1>6, <1>7, <1>8 DEF Inv

\* stop() and the return of its join.
LEMMA StopInv == Inv /\ (Stop \/ Join) => Inv'
<1> SUFFICES ASSUME Inv, Stop \/ Join PROVE Inv'
  OBVIOUS
<1>1. TypeOK'
  BY DEF Inv, TypeOK, Stop, Join, producerVars
<1>2. QueueBounded' /\ EveryRecordAccounted'
  BY DEF Inv, QueueBounded, EveryRecordAccounted, Stop, Join, producerVars
<1>3. WriterPlace' /\ FileLength'
  BY DEF Inv, WriterPlace, FileLength, Stop, Join
<1>4. Numbered'
  BY DEF Inv, Numbered, Stop, Join, producerVars
<1> QED
  BY <1>1, <1>2, <1>3, <1>4 DEF Inv

\* The writer takes the whole queue, or finds it empty and goes on or leaves.
LEMMA SwapInv == Inv /\ Swap => Inv'
<1> SUFFICES ASSUME Inv, Swap PROVE Inv'
  OBVIOUS
<1>1. batch = <<>> /\ in_flight = 0 /\ TypeOK /\ writer = "waiting"
  BY DEF Inv, WriterPlace, Swap
<1>2. /\ pending' = <<>> /\ batch' = pending /\ in_flight' = Len(pending)
      /\ Len(pending) \in Nat /\ Len(pending') = 0
      /\ (pending = <<>> <=> Len(pending) = 0)
  BY <1>1, EmptySeq, LenProperties DEF Swap, TypeOK
<1>3. TypeOK'
  BY <1>1, <1>2 DEF TypeOK, Swap, producerVars
<1>4. QueueBounded'
  BY <1>1, <1>2 DEF Inv, TypeOK, QueueBounded, Swap, producerVars
<1>5. EveryRecordAccounted'
  BY <1>1, <1>2 DEF Inv, TypeOK, EveryRecordAccounted, Swap, producerVars
<1>6. WriterPlace'
  BY <1>1, <1>2 DEF Inv, WriterPlace, Swap, LeavesLoop
<1>7. FileLength'
  BY <1>1, <1>2 DEF Inv, FileLength, WriterPlace, Swap
<1>8. Numbered'
  <2>1. Len(file) = accepted - Len(pending)
    BY <1>1, <1>2, LenProperties
    DEF Inv, TypeOK, FileLength, WriterPlace, EveryRecordAccounted, Swap
  <2> QED
    BY <1>1, <1>2, <2>1 DEF Inv, Numbered, Swap, producerVars
<1> QED
  BY <1>3, <1>4, <1>5, <1>6, <1>7, <1>8 DEF Inv

\* What appending a prefix of the batch to the file does: both the write and
\* the write that fails half-way.
LEMMA AppendToFile ==
  ASSUME Inv, writer = "write"
  PROVE  \A part \in Seq(Nat) :
           /\ Len(part) <= Len(batch)
           /\ \A i \in 1..Len(part) : part[i] = batch[i]
           /\ file' = file \o part
           => /\ file' \in Seq(Nat) /\ Len(file') = Len(file) + Len(part)
              /\ \A i \in 1..Len(file') : file'[i] = i
<1> SUFFICES ASSUME NEW part \in Seq(Nat), Len(part) <= Len(batch),
                    \A i \in 1..Len(part) : part[i] = batch[i], file' = file \o part
             PROVE  /\ file' \in Seq(Nat) /\ Len(file') = Len(file) + Len(part)
                    /\ \A i \in 1..Len(file') : file'[i] = i
  OBVIOUS
<1>1. /\ file \in Seq(Nat) /\ Len(file) \in Nat /\ Len(part) \in Nat /\ Len(batch) \in Nat
  BY LenProperties DEF Inv, TypeOK
<1>2. /\ file' \in Seq(Nat) /\ Len(file') = Len(file) + Len(part)
      /\ \A i \in 1..Len(file) + Len(part) :
           file'[i] = IF i <= Len(file) THEN file[i] ELSE part[i - Len(file)]
  BY <1>1, ConcatProperties
<1>3. ASSUME NEW i \in 1..Len(file') PROVE file'[i] = i
  <2>1. CASE i <= Len(file)
    BY <1>1, <1>2, <2>1 DEF Inv, Numbered
  <2>2. CASE i > Len(file)
    <3>1. i - Len(file) \in 1..Len(part) /\ i - Len(file) \in 1..Len(batch)
      BY <1>1, <1>2, <2>2
    <3>2. file'[i] = batch[i - Len(file)]
      BY <1>1, <1>2, <2>2, <3>1
    <3>3. batch[i - Len(file)] = Len(file) + (i - Len(file))
      BY <3>1 DEF Inv, Numbered
    <3> QED
      BY <1>1, <3>2, <3>3
  <2> QED
    BY <1>1, <1>2, <2>1, <2>2
<1> QED
  BY <1>2, <1>3

\* The whole batch is written.
LEMMA WriteBatchInv == Inv /\ WriteBatch => Inv'
<1> SUFFICES ASSUME Inv, WriteBatch PROVE Inv'
  OBVIOUS
<1>1. TypeOK /\ writer = "write" /\ file' = file \o batch
  BY DEF Inv, WriteBatch
<1>2. Len(batch) \in Nat /\ Len(file) \in Nat
  BY <1>1, LenProperties DEF TypeOK
<1>3. /\ file' \in Seq(Nat) /\ Len(file') = Len(file) + Len(batch)
      /\ \A i \in 1..Len(file') : file'[i] = i
  <2>1. batch \in Seq(Nat) /\ Len(batch) <= Len(batch)
    BY <1>1, <1>2 DEF TypeOK
  <2> QED
    BY <1>1, <2>1, AppendToFile
<1>4. TypeOK'
  BY <1>1, <1>3 DEF TypeOK, WriteBatch, producerVars
<1>5. QueueBounded' /\ EveryRecordAccounted'
  BY DEF Inv, QueueBounded, EveryRecordAccounted, WriteBatch, producerVars
<1>6. WriterPlace'
  BY DEF Inv, WriterPlace, WriteBatch
<1>7. FileLength'
  <2>1. Len(file) = written /\ (~failed => write_lost = 0)
    BY <1>1 DEF Inv, FileLength
  <2>2. /\ writer' = "record" /\ written' = written /\ batch' = batch
        /\ failed' = failed /\ write_lost' = write_lost
    BY DEF WriteBatch
  <2> QED
    BY <1>1, <1>2, <1>3, <2>1, <2>2 DEF TypeOK, FileLength
<1>8. Numbered'
  BY <1>1, <1>3 DEF Inv, Numbered, WriteBatch, producerVars
<1> QED
  BY <1>4, <1>5, <1>6, <1>7, <1>8 DEF Inv

\* The write throws after a part of the batch got through.
LEMMA WriteFailsInv == Inv /\ WriteFails => Inv'
<1> SUFFICES ASSUME Inv, WriteFails PROVE Inv'
  OBVIOUS
<1>1. TypeOK /\ writer = "write"
  BY DEF Inv, WriteFails
<1>2. PICK n \in 0..Len(batch) : file' = file \o SubSeq(batch, 1, n)
  BY DEF WriteFails
<1>3. /\ Len(batch) \in Nat /\ Len(file) \in Nat
      /\ \A i \in 1..n : batch[i] \in Nat
  BY <1>1, LenProperties, ElementOfSeq DEF TypeOK
<1>4. /\ SubSeq(batch, 1, n) \in Seq(Nat) /\ Len(SubSeq(batch, 1, n)) = n
      /\ \A i \in 1..n : SubSeq(batch, 1, n)[i] = batch[i]
  <2>1. /\ SubSeq(batch, 1, n) \in Seq(Nat)
        /\ Len(SubSeq(batch, 1, n)) = IF 1 <= n THEN n - 1 + 1 ELSE 0
        /\ \A i \in 1..n - 1 + 1 : SubSeq(batch, 1, n)[i] = batch[1 + i - 1]
    BY <1>3, SubSeqProperties
  <2> QED
    BY <1>3, <2>1
<1>5. /\ file' \in Seq(Nat) /\ Len(file') = Len(file) + n
      /\ \A i \in 1..Len(file') : file'[i] = i
  <2> DEFINE part == SubSeq(batch, 1, n)
  <2>1. /\ part \in Seq(Nat) /\ Len(part) = n /\ file' = file \o part
        /\ \A i \in 1..n : part[i] = batch[i]
    BY <1>2, <1>4
  <2> HIDE DEF part
  <2>2. Len(part) <= Len(batch) /\ \A i \in 1..Len(part) : part[i] = batch[i]
    BY <1>3, <2>1
  <2>3. /\ file' \in Seq(Nat) /\ Len(file') = Len(file) + Len(part)
        /\ \A i \in 1..Len(file') : file'[i] = i
    BY <1>1, <2>1, <2>2, AppendToFile
  <2> QED
    BY <2>1, <2>3
<1>6. TypeOK'
  BY <1>1, <1>5 DEF TypeOK, WriteFails, producerVars
<1>7. QueueBounded' /\ EveryRecordAccounted'
  BY DEF Inv, QueueBounded, EveryRecordAccounted, WriteFails, producerVars
<1>8. WriterPlace'
  BY DEF Inv, WriterPlace, WriteFails
<1>9. FileLength'
  BY <1>1, <1>3, <1>5 DEF Inv, TypeOK, FileLength, WriterPlace, WriteFails
<1>10. Numbered'
  BY <1>1, <1>5 DEF Inv, Numbered, WriteFails, producerVars
<1> QED
  BY <1>6, <1>7, <1>8, <1>9, <1>10 DEF Inv

\* The counters catch up with the file.
LEMMA RecordInv == Inv /\ Record => Inv'
<1> SUFFICES ASSUME Inv, Record PROVE Inv'
  OBVIOUS
<1>1. /\ TypeOK /\ in_flight = Len(batch)
      /\ Len(batch) \in Nat /\ Len(file) \in Nat /\ Len(pending) \in Nat
  BY LenProperties DEF Inv, TypeOK, WriterPlace, Record
<1>2. TypeOK'
  BY <1>1 DEF TypeOK, Record, InFlightAfterRecord, producerVars
<1>3. QueueBounded'
  BY DEF Inv, QueueBounded, Record, producerVars
<1>4. EveryRecordAccounted'
  BY <1>1 DEF Inv, TypeOK, EveryRecordAccounted, Record, InFlightAfterRecord, producerVars
<1>5. WriterPlace'
  BY DEF Inv, WriterPlace, Record, InFlightAfterRecord
<1>6. FileLength'
  BY <1>1 DEF Inv, TypeOK, FileLength, Record
<1>7. Numbered'
  BY DEF Inv, Numbered, Record, producerVars
<1> QED
  BY <1>2, <1>3, <1>4, <1>5, <1>6, <1>7 DEF Inv

\* The batch is cleared, the thread ends, or the writer's own rows fail.
LEMMA TurnInv == Inv /\ (Diagnostic \/ Final \/ OwnWriteFails) => Inv'
<1> SUFFICES ASSUME Inv, Diagnostic \/ Final \/ OwnWriteFails PROVE Inv'
  OBVIOUS
<1>1. << >> \in Seq(Nat)
  BY EmptySeq
<1>2. TypeOK'
  BY <1>1 DEF Inv, TypeOK, Diagnostic, Final, OwnWriteFails, BatchCleared, producerVars
<1>3. QueueBounded' /\ EveryRecordAccounted'
  BY DEF Inv, QueueBounded, EveryRecordAccounted, Diagnostic, Final, OwnWriteFails,
         producerVars
<1>4. WriterPlace'
  BY DEF Inv, WriterPlace, Diagnostic, Final, OwnWriteFails, BatchCleared
<1>5. FileLength'
  BY DEF Inv, FileLength, Diagnostic, Final, OwnWriteFails
<1>6. Numbered'
  BY DEF Inv, Numbered, Diagnostic, Final, OwnWriteFails, producerVars
<1> QED
  BY <1>2, <1>3, <1>4, <1>5, <1>6 DEF Inv

\* The failure path counts the batch and the queue as lost.
LEMMA CatchInv == Inv /\ Catch => Inv'
<1> SUFFICES ASSUME Inv, Catch PROVE Inv'
  OBVIOUS
<1>1. /\ TypeOK /\ << >> \in Seq(Nat) /\ Len(<< >>) = 0
      /\ Len(file) \in Nat /\ Len(pending) \in Nat
  BY EmptySeq, LenProperties DEF Inv, TypeOK
<1>2. TypeOK'
  BY <1>1 DEF TypeOK, Catch, Lost, producerVars
<1>3. QueueBounded' /\ EveryRecordAccounted'
  BY <1>1 DEF Inv, TypeOK, QueueBounded, EveryRecordAccounted, Catch, Lost, producerVars
<1>4. WriterPlace' /\ FileLength'
  BY <1>1 DEF Inv, TypeOK, WriterPlace, FileLength, Catch
<1>5. Numbered'
  BY <1>1 DEF Inv, Numbered, Catch, producerVars
<1> QED
  BY <1>2, <1>3, <1>4, <1>5 DEF Inv

\* No step of a producer, of stop() or of the writer breaks the strengthening.
LEMMA NextInv == Inv /\ [Next]_vars => Inv'
<1>1. Inv /\ UNCHANGED vars => Inv'
  BY DEF Inv, TypeOK, QueueBounded, EveryRecordAccounted, WriterPlace, FileLength, Numbered,
         vars, producerVars
<1> QED
  BY <1>1, LogDroppedInv, LogAcceptedInv, StopInv, SwapInv, WriteBatchInv, WriteFailsInv,
     RecordInv, TurnInv, CatchInv
  DEF Next, Writer, Joined

\* The strengthening holds in every state of every behaviour.
THEOREM Invariant == Spec => []Inv
  BY InitInv, NextInv, PTL DEF Spec

\* stats() accounts for every call of log() at any moment.
THEOREM AccountsForEveryRecord == Spec => []EveryRecordAccounted
<1>1. Inv => EveryRecordAccounted
  BY DEF Inv
<1> QED
  BY <1>1, Invariant, PTL

\* The queue never outgrows its reserved capacity: log() never reallocates.
THEOREM QueueNeverOverflows == Spec => []QueueBounded
<1>1. Inv => QueueBounded
  BY DEF Inv
<1> QED
  BY <1>1, Invariant, PTL

\* The file is a gapless prefix of the accepted records and holds at least
\* what is counted as written.
THEOREM FilePrefix == Spec => []FileIsAPrefix
<1>1. Inv => FileIsAPrefix
  BY DEF Inv, TypeOK, FileLength, Numbered, FileIsAPrefix
<1> QED
  BY <1>1, Invariant, PTL

\* Nothing is queued or in flight once the writer thread has ended.
THEOREM NoneStranded == Spec => []NothingStranded
<1>1. Inv => NothingStranded
  BY DEF Inv, WriterPlace, NothingStranded
<1> QED
  BY <1>1, Invariant, PTL

\* stop() has drained every accepted record unless the I/O failed.
THEOREM StopDrainsAll == Spec => []StopDrains
<1>1. Inv => StopDrains
  BY DEF Inv, TypeOK, EveryRecordAccounted, WriterPlace, FileLength, StopDrains
<1> QED
  BY <1>1, Invariant, PTL
=============================================================================

----------------------- MODULE WebsocketSessions_proofs -----------------------
(***************************************************************************)
(* Safety of the sessions for any number of them: the receiver has one     *)
(* living session or one reconnect under way, and a control error found by *)
(* the main thread ends nobody but its source.                             *)
(***************************************************************************)
EXTENDS WebsocketSessions, Recursion_proofs, SequenceTheorems

\* Nothing is known, outstanding or queued of a session that was not made.
Known ==
  /\ \A s \in Ids : s > created => ~ended[s] /\ ~deadline[s] /\ operation[s] = "none"
  /\ \A i \in DOMAIN ready :
       ready[i].kind \in {"operation", "deadline", "control"} => ready[i].of \in 1..created

\* A living session is at one of its stages.
Staged == \A s \in 1..created : ended[s] \/ stage[s] # "none"

\* Control messages come from sessions that were sent one.
Sourced ==
  /\ told \subseteq 1..created
  /\ \A i \in DOMAIN controls : controls[i] \in told
  /\ \A i \in DOMAIN ready : ready[i].kind = "control" => ready[i].of \in told

\* The three forms of "one session or one reconnect": the session, the armed
\* timer, the queued handler.
OneSession == session # 0 /\ Living = {session} /\ ~retry /\ RetriesQueued = {}
TimerArmed == session = 0 /\ Living = {} /\ retry /\ RetriesQueued = {}
OneQueued == \E k \in RetriesQueued : RetriesQueued = {k}
RetryQueued == session = 0 /\ Living = {} /\ ~retry /\ OneQueued

Alive ==
  /\ thread = "new" => created = 0 /\ ~stopped /\ ~retry /\ ready = <<>>
  /\ thread # "new" =>
       IF stopped THEN Living = {} /\ ~retry /\ session = 0
       ELSE OneSession \/ TimerArmed \/ RetryQueued

Inv == TypeOK /\ Known /\ Staged /\ Sourced /\ ControlEndsItsSource /\ Alive

-----------------------------------------------------------------------------
(***************************************************************************)
(* The handler queue.                                                      *)
(***************************************************************************)
\* A handler put at the end leaves the others where they are.
LEMMA Appended ==
  ASSUME TypeOK, NEW h \in Handlers, ready' = Append(ready, h)
  PROVE  /\ ready' \in Seq(Handlers)
         /\ \A i \in DOMAIN ready' : ready'[i] = h \/ \E j \in DOMAIN ready : ready'[i] = ready[j]
         /\ h.kind # "retry" => RetriesQueued' = RetriesQueued
         /\ h.kind = "retry" /\ RetriesQueued = {} => OneQueued'
<1>1. /\ ready \in Seq(Handlers) /\ Len(ready) \in Nat
      /\ ready' \in Seq(Handlers) /\ Len(ready') = Len(ready) + 1
      /\ \A i \in 1..Len(ready) : ready'[i] = ready[i]
      /\ ready'[Len(ready) + 1] = h
  BY AppendProperties, LenProperties DEF TypeOK
<1>2. DOMAIN ready = 1..Len(ready) /\ DOMAIN ready' = 1..Len(ready')
  BY <1>1, LenProperties
<1>3. h.kind = "retry" /\ RetriesQueued = {} => RetriesQueued' = {Len(ready) + 1}
  BY <1>1, <1>2 DEF RetriesQueued
<1> QED
  BY <1>1, <1>2, <1>3 DEF RetriesQueued, OneQueued

\* The handler that runs leaves the front of the queue.
LEMMA Taken ==
  ASSUME TypeOK, ready # <<>>, ready' = Tail(ready)
  PROVE  /\ ready' \in Seq(Handlers) /\ Head(ready) \in Handlers
         /\ 1 \in DOMAIN ready /\ Head(ready) = ready[1]
         /\ \A i \in DOMAIN ready' : \E j \in DOMAIN ready : ready'[i] = ready[j]
         /\ RetriesQueued = {} => RetriesQueued' = {}
         /\ OneQueued /\ Head(ready).kind = "retry" => RetriesQueued' = {}
         /\ OneQueued /\ Head(ready).kind # "retry" => OneQueued'
<1>1. /\ ready \in Seq(Handlers) /\ Len(ready) \in Nat /\ Len(ready) # 0
      /\ ready' \in Seq(Handlers) /\ Len(ready') = Len(ready) - 1
      /\ \A i \in 1..Len(ready') : ready'[i] = ready[i + 1]
  BY HeadTailProperties, LenProperties, EmptySeq DEF TypeOK
<1>2. DOMAIN ready = 1..Len(ready) /\ DOMAIN ready' = 1..Len(ready')
  BY <1>1, LenProperties
<1>3. Head(ready) = ready[1] /\ ready[1] \in Handlers
  BY <1>1, <1>2, ElementOfSeq
<1>4. RetriesQueued = {} => RetriesQueued' = {}
  BY <1>1, <1>2 DEF RetriesQueued
<1>5. ASSUME OneQueued PROVE IF Head(ready).kind = "retry" THEN RetriesQueued' = {} ELSE OneQueued'
  <2>1. PICK k \in DOMAIN ready : RetriesQueued = {k}
    BY <1>5 DEF OneQueued, RetriesQueued
  <2>2. CASE Head(ready).kind = "retry"
    <3>1. k = 1
      BY <1>1, <1>2, <1>3, <2>1, <2>2 DEF RetriesQueued
    <3>2. RetriesQueued' = {}
      BY <1>1, <1>2, <2>1, <3>1 DEF RetriesQueued
    <3> QED
      BY <2>2, <3>2
  <2>3. CASE Head(ready).kind # "retry"
    <3>1. k # 1 /\ k - 1 \in DOMAIN ready'
      BY <1>1, <1>2, <1>3, <2>1, <2>3 DEF RetriesQueued
    <3>2. RetriesQueued' = {k - 1}
      BY <1>1, <1>2, <2>1, <3>1 DEF RetriesQueued
    <3> QED
      BY <2>3, <3>2 DEF OneQueued
  <2> QED
    BY <2>2, <2>3
<1> QED
  BY <1>1, <1>2, <1>3, <1>4, <1>5

-----------------------------------------------------------------------------
(***************************************************************************)
(* Failing and connecting.                                                 *)
(***************************************************************************)
\* The back-off stays between a second and its cap.
LEMMA DoubledType == ASSUME TypeOK PROVE Doubled(retry_seconds) \in 1..RetryCap
  BY SessionAssumption DEF Doubled, TypeOK

\* What a failure of a known session leaves: nothing, if it had ended; else it
\* was the one the receiver owned, and the timer takes its place.
LEMMA FailOutcome ==
  ASSUME Inv, thread # "new", NEW s \in 1..created, Fail(s), created' = created
  PROVE  /\ ended' \in [Ids -> BOOLEAN] /\ deadline' \in [Ids -> BOOLEAN]
         /\ session' \in 0..created /\ retry' \in BOOLEAN
         /\ retry_seconds' \in 1..RetryCap /\ losses' \in Nat
         /\ \A t \in Ids : t > created => ~ended'[t] /\ ~deadline'[t]
         /\ \A t \in 1..created : ended[t] => ended'[t]
         /\ ended[s] => UNCHANGED <<ended, deadline, session, retryVars>>
         /\ ~ended[s] => /\ ~stopped /\ OneSession /\ session = s
                         /\ session' = 0 /\ retry' /\ Living' = {}
<1>1. s \in Ids /\ created \in 0..SessionBound
  BY SessionAssumption DEF Inv, TypeOK, Ids
<1>2. CASE ended[s]
  BY <1>1, <1>2 DEF Inv, TypeOK, Known, Fail, Ignored, retryVars
<1>3. CASE ~ended[s]
  <2>1. s \in Living
    BY <1>3 DEF Living
  <2>2. ~stopped /\ OneSession /\ session = s
    BY <2>1 DEF Inv, Alive, OneSession, TimerArmed, RetryQueued
  <2>3. /\ ended' = [ended EXCEPT ![s] = TRUE] /\ deadline' = [deadline EXCEPT ![s] = FALSE]
        /\ session' = 0 /\ retry' = TRUE
        /\ retry_seconds' = Doubled(retry_seconds) /\ losses' = losses + 1
    BY <1>3, <2>2 DEF Fail, Ignored, Cancel
  <2>4. Living' = {}
    BY <1>1, <2>2, <2>3 DEF Living, OneSession, Inv, TypeOK, Ids
  <2> QED
    BY <1>1, <1>3, <2>2, <2>3, <2>4, DoubledType DEF Inv, TypeOK, Known
<1> QED
  BY <1>2, <1>3

\* A new session lives, or its refusal arms the timer again.
LEMMA ConnectOutcome ==
  ASSUME TypeOK, Known, ~stopped, session = 0, Living = {}, ~retry, Connect
  PROVE  /\ stage' \in [Ids -> Stages]
         /\ operation' \in [Ids -> {"none", "pending", "queued"}]
         /\ ended' \in [Ids -> BOOLEAN] /\ deadline' \in [Ids -> BOOLEAN]
         /\ created' \in 0..SessionBound /\ created' = created + 1
         /\ session' \in 0..created' /\ retry' \in BOOLEAN
         /\ retry_seconds' \in 1..RetryCap /\ losses' \in Nat
         /\ \A t \in Ids : t > created' => ~ended'[t] /\ ~deadline'[t] /\ operation'[t] = "none"
         /\ Staged => Staged'
         /\ \/ session' # 0 /\ Living' = {session'} /\ ~retry'
            \/ session' = 0 /\ Living' = {} /\ retry'
<1> DEFINE s == created + 1
<1>1. /\ s \in Ids /\ created \in Nat /\ created' = s /\ s \in 0..SessionBound
      /\ ~ended[s] /\ \A t \in 1..created : ended[t]
  <2>1. created < SessionBound /\ created' = s
    BY DEF Connect
  <2>2. s \in Ids /\ created \in Nat /\ s \in 0..SessionBound /\ s > created
    BY <2>1, SessionAssumption DEF TypeOK, Ids
  <2>3. ~ended[s]
    BY <2>2 DEF Known
  <2>4. \A t \in 1..created : ended[t]
    BY DEF Living
  <2> QED
    BY <2>1, <2>2, <2>3, <2>4
<1>2. CASE /\ session' = s /\ stage' = [stage EXCEPT ![s] = "resolve"]
           /\ operation' = [operation EXCEPT ![s] = "pending"]
           /\ deadline' = [deadline EXCEPT ![s] = TRUE]
           /\ UNCHANGED <<ended, retryVars>>
  <2>1. Living' = {s}
    BY <1>1, <1>2 DEF Living
  <2>2. stage' \in [Ids -> Stages] /\ operation' \in [Ids -> {"none", "pending", "queued"}]
    BY <1>1, <1>2 DEF TypeOK, Stages
  <2> QED
    BY <1>1, <1>2, <2>1, <2>2 DEF TypeOK, Known, Staged, Ids, retryVars
<1>3. CASE Fail(s) /\ UNCHANGED <<stage, operation>>
  <2>1. /\ ended' = [ended EXCEPT ![s] = TRUE] /\ deadline' = [deadline EXCEPT ![s] = FALSE]
        /\ session' = 0 /\ retry' = TRUE
        /\ retry_seconds' = Doubled(retry_seconds) /\ losses' = losses + 1
    BY <1>1, <1>3 DEF Fail, Ignored, Cancel
  <2>2. Living' = {}
    BY <1>1, <2>1 DEF Living, TypeOK, Ids
  <2> QED
    BY <1>1, <1>3, <2>1, <2>2, DoubledType DEF TypeOK, Known, Staged, Ids
<1> QED
  BY <1>2, <1>3 DEF Connect

-----------------------------------------------------------------------------
(***************************************************************************)
(* The steps.                                                              *)
(***************************************************************************)
LEMMA InitInv == Init => Inv
<1> SUFFICES ASSUME Init PROVE Inv
  OBVIOUS
<1>1. <<>> \in Seq(Ids) /\ <<>> \in Seq(Handlers) /\ DOMAIN <<>> = {}
  BY EmptySeq
<1>2. TypeOK
  <2>1. stage \in [Ids -> Stages] /\ operation \in [Ids -> {"none", "pending", "queued"}]
    BY DEF Init, Stages
  <2>2. ended \in [Ids -> BOOLEAN] /\ deadline \in [Ids -> BOOLEAN]
    BY DEF Init
  <2>3. created \in 0..SessionBound /\ session \in 0..created /\ retry_seconds \in 1..RetryCap
    BY SessionAssumption DEF Init
  <2> QED
    BY <1>1, <2>1, <2>2, <2>3 DEF Init, TypeOK
<1>3. Known /\ Staged /\ Sourced /\ ControlEndsItsSource
  BY <1>1 DEF Init, Known, Staged, Sourced, ControlEndsItsSource
<1>4. Alive
  BY DEF Init, Alive
<1> QED
  BY <1>2, <1>3, <1>4 DEF Inv

\* The receiver's start connects the first session.
LEMMA StartInv == Inv /\ Start => Inv'
<1> SUFFICES ASSUME Inv, Start PROVE Inv'
  OBVIOUS
<1>1. /\ Staged /\ created = 0 /\ ~stopped /\ ~retry /\ ready = <<>> /\ session = 0 /\ Living = {}
      /\ TypeOK /\ Known /\ Sourced /\ ControlEndsItsSource /\ Connect /\ thread' = "running"
      /\ UNCHANGED <<told, controls, blamed, ready, stopped, stop_posted>>
  BY DEF Inv, Alive, TypeOK, Start, Living, controlVars
<1>2. RetriesQueued' = {}
  BY <1>1 DEF RetriesQueued
<1>3. TypeOK'
  BY <1>1, ConnectOutcome DEF TypeOK
<1>4. Known' /\ Staged' /\ Sourced' /\ ControlEndsItsSource'
  BY <1>1, ConnectOutcome DEF Known, Sourced, Staged, ControlEndsItsSource
<1>5. Alive'
  BY <1>1, <1>2, ConnectOutcome DEF Alive, OneSession, TimerArmed
<1> QED
  BY <1>3, <1>4, <1>5 DEF Inv

\* A step that changes neither the session nor the timer, and no reconnect in
\* the queue, keeps the receiver alive.
LEMMA AliveKept ==
  ASSUME Inv, thread = "running", thread' # "new",
         UNCHANGED <<stopped, session, retry>>, Living' = Living,
         RetriesQueued = {} => RetriesQueued' = {}, OneQueued => OneQueued'
  PROVE  Alive'
BY DEF Inv, Alive, OneSession, TimerArmed, RetryQueued

\* What is known stays known when the queue keeps its handlers and those of
\* made sessions join it.
LEMMA KnownKept ==
  ASSUME Inv, created' = created, UNCHANGED <<told, controls>>,
         \A t \in Ids : t > created => ~ended'[t] /\ ~deadline'[t] /\ operation'[t] = "none",
         \A i \in DOMAIN ready' :
           \/ \E j \in DOMAIN ready : ready'[i] = ready[j]
           \/ /\ ready'[i].kind \in {"operation", "deadline", "control"} =>
                   ready'[i].of \in 1..created
              /\ ready'[i].kind = "control" => ready'[i].of \in told
  PROVE  Known' /\ Sourced'
BY DEF Inv, Known, Sourced

\* An operation completes, a deadline or the reconnect timer expires: a
\* handler is queued.
LEMMA CompletesInv == ASSUME Inv, NEW s \in Ids, Completes(s) PROVE Inv'
<1>1. PICK ok \in BOOLEAN : ready' = Append(ready, [kind |-> "operation", of |-> s, ok |-> ok])
  BY DEF Completes
<1> DEFINE h == [kind |-> "operation", of |-> s, ok |-> ok]
<1>2. h \in Handlers /\ h.kind = "operation" /\ h.of = s /\ ready' = Append(ready, h)
  BY <1>1 DEF Handlers
<1> HIDE DEF h
<1>3. s \in 1..created
  BY DEF Inv, TypeOK, Known, Completes, Ids
<1>4. /\ ready' \in Seq(Handlers) /\ RetriesQueued' = RetriesQueued
      /\ \A i \in DOMAIN ready' : ready'[i] = h \/ \E j \in DOMAIN ready : ready'[i] = ready[j]
  BY <1>2, Appended DEF Inv
<1>5. TypeOK'
  BY <1>4 DEF Inv, TypeOK, Completes, retryVars, controlVars, threadVars
<1>6. Known' /\ Staged' /\ Sourced' /\ ControlEndsItsSource'
  <2>1. \A t \in Ids : t > created => operation'[t] = "none"
    BY <1>3 DEF Inv, TypeOK, Known, Completes
  <2> QED
    BY <1>2, <1>3, <1>4, <2>1, KnownKept
    DEF Inv, Known, Staged, ControlEndsItsSource, Completes, controlVars
<1>7. Alive'
  BY <1>4, AliveKept DEF Living, OneQueued, Completes, retryVars, threadVars
<1> QED
  BY <1>5, <1>6, <1>7 DEF Inv

\* An expired deadline queues its handler, for a session that was made.
LEMMA DeadlineExpiresInv == ASSUME Inv, NEW s \in Ids, DeadlineExpires(s) PROVE Inv'
<1> DEFINE h == [kind |-> "deadline", of |-> s]
<1>2. h \in Handlers /\ h.kind = "deadline" /\ h.of = s /\ ready' = Append(ready, h)
  BY DEF Handlers, DeadlineExpires
<1> HIDE DEF h
<1>3. s \in 1..created
  BY DEF Inv, TypeOK, Known, DeadlineExpires, Ids
<1>4. /\ ready' \in Seq(Handlers) /\ RetriesQueued' = RetriesQueued
      /\ \A i \in DOMAIN ready' : ready'[i] = h \/ \E j \in DOMAIN ready : ready'[i] = ready[j]
  BY <1>2, Appended DEF Inv
<1>5. TypeOK'
  BY <1>4 DEF Inv, TypeOK, DeadlineExpires, retryVars, controlVars, threadVars
<1>6. Known' /\ Staged' /\ Sourced' /\ ControlEndsItsSource'
  <2>1. \A t \in Ids : t > created => ~deadline'[t]
    BY <1>3 DEF Inv, TypeOK, Known, DeadlineExpires
  <2> QED
    BY <1>2, <1>3, <1>4, <2>1, KnownKept
    DEF Inv, Known, Staged, ControlEndsItsSource, DeadlineExpires, controlVars
<1>7. Alive'
  BY <1>4, AliveKept DEF Living, OneQueued, DeadlineExpires, retryVars, threadVars
<1> QED
  BY <1>5, <1>6, <1>7 DEF Inv

\* The timer's place is taken by its handler.
LEMMA RetryExpiresInv == Inv /\ RetryExpires => Inv'
<1> SUFFICES ASSUME Inv, RetryExpires PROVE Inv'
  OBVIOUS
<1> DEFINE h == [kind |-> "retry"]
<1>1. h \in Handlers /\ h.kind = "retry" /\ ready' = Append(ready, h)
  BY DEF Handlers, RetryExpires
<1> HIDE DEF h
<1>2. ~stopped /\ TimerArmed
  BY DEF Inv, Alive, RetryExpires, OneSession, RetryQueued
<1>3. /\ ready' \in Seq(Handlers) /\ OneQueued'
      /\ \A i \in DOMAIN ready' : ready'[i] = h \/ \E j \in DOMAIN ready : ready'[i] = ready[j]
  BY <1>1, <1>2, Appended DEF Inv, TimerArmed
<1>4. TypeOK'
  BY <1>3 DEF Inv, TypeOK, RetryExpires, sessionVars, controlVars, threadVars
<1>5. Known' /\ Staged' /\ Sourced' /\ ControlEndsItsSource'
  BY <1>1, <1>3, KnownKept
  DEF Inv, Known, Staged, ControlEndsItsSource, RetryExpires, sessionVars, controlVars
<1>6. Living' = {} /\ session' = 0 /\ ~retry' /\ ~stopped' /\ thread' = "running"
  BY <1>2 DEF TimerArmed, Living, RetryExpires, sessionVars, threadVars
<1>7. Alive'
  BY <1>3, <1>6 DEF Alive, RetryQueued
<1> QED
  BY <1>4, <1>5, <1>7 DEF Inv

\* The main thread posts the error of a control message, or the stop.
LEMMA PostInv == Inv /\ (PostControl \/ PostStop) => Inv'
<1> SUFFICES ASSUME Inv, PostControl \/ PostStop PROVE Inv'
  OBVIOUS
<1> USE DEF sessionVars, retryVars, threadVars
<1>1. CASE PostControl
  <2> DEFINE h == [kind |-> "control", of |-> Head(controls)]
  <2>1. /\ Head(controls) \in Ids /\ Head(controls) \in told /\ controls' \in Seq(Ids)
        /\ \A i \in DOMAIN controls' : controls'[i] \in told
    <3>1. /\ controls \in Seq(Ids) /\ controls # <<>> /\ controls' = Tail(controls)
          /\ \A i \in DOMAIN controls : controls[i] \in told
      BY <1>1 DEF Inv, TypeOK, Sourced, PostControl
    <3>2. /\ Len(controls) \in Nat /\ Len(controls) # 0 /\ DOMAIN controls = 1..Len(controls)
          /\ controls' \in Seq(Ids) /\ Len(controls') = Len(controls) - 1
          /\ \A i \in 1..Len(controls') : controls'[i] = controls[i + 1]
          /\ Head(controls) = controls[1] /\ DOMAIN controls' = 1..Len(controls')
      BY <3>1, HeadTailProperties, LenProperties, EmptySeq
    <3> QED
      BY <3>1, <3>2, ElementOfSeq
  <2>2. h \in Handlers /\ h.kind = "control" /\ h.of = Head(controls) /\ ready' = Append(ready, h)
    BY <1>1, <2>1 DEF Handlers, PostControl
  <2> HIDE DEF h
  <2>3. /\ ready' \in Seq(Handlers) /\ RetriesQueued' = RetriesQueued
        /\ \A i \in DOMAIN ready' : ready'[i] = h \/ \E j \in DOMAIN ready : ready'[i] = ready[j]
    BY <2>2, Appended DEF Inv
  <2>4. TypeOK'
    BY <1>1, <2>1, <2>3 DEF Inv, TypeOK, PostControl
  <2>5. Known' /\ Staged' /\ Sourced' /\ ControlEndsItsSource'
    BY <1>1, <2>1, <2>2, <2>3 DEF Inv, Known, Sourced, Staged, ControlEndsItsSource, PostControl
  <2>6. Alive'
    BY <1>1, <2>3, AliveKept DEF Living, OneQueued, PostControl
  <2> QED
    BY <2>4, <2>5, <2>6 DEF Inv
<1>2. CASE PostStop
  <2> DEFINE h == [kind |-> "stop"]
  <2>1. h \in Handlers /\ h.kind = "stop" /\ ready' = Append(ready, h)
    BY <1>2 DEF Handlers, PostStop
  <2> HIDE DEF h
  <2>2. /\ ready' \in Seq(Handlers) /\ RetriesQueued' = RetriesQueued
        /\ \A i \in DOMAIN ready' : ready'[i] = h \/ \E j \in DOMAIN ready : ready'[i] = ready[j]
    BY <2>1, Appended DEF Inv
  <2>3. TypeOK'
    BY <1>2, <2>2 DEF Inv, TypeOK, PostStop, controlVars
  <2>4. Known' /\ Staged' /\ Sourced' /\ ControlEndsItsSource'
    BY <1>2, <2>1, <2>2, KnownKept DEF Inv, Known, Staged, ControlEndsItsSource, PostStop, controlVars
  <2>5. Alive'
    BY <1>2, <2>2, AliveKept DEF Living, OneQueued, PostStop
  <2> QED
    BY <2>3, <2>4, <2>5 DEF Inv
<1> QED
  BY <1>1, <1>2

-----------------------------------------------------------------------------
\* What every handler finds: itself at the head of the queue, of a made
\* session, and the rest of the queue behind it.
LEMMA HeadKnown ==
  ASSUME Inv, ready # <<>>, ready' = Tail(ready)
  PROVE  /\ ready' \in Seq(Handlers)
         /\ \A i \in DOMAIN ready' : \E j \in DOMAIN ready : ready'[i] = ready[j]
         /\ RetriesQueued = {} => RetriesQueued' = {}
         /\ Head(ready).kind # "retry" => (OneQueued => OneQueued')
         /\ Head(ready).kind = "retry" => ~OneSession /\ ~TimerArmed
         /\ OneQueued /\ Head(ready).kind = "retry" => RetriesQueued' = {}
         /\ Head(ready).kind \in {"operation", "deadline", "control"} => Head(ready).of \in 1..created
         /\ Head(ready).kind = "control" => Head(ready).of \in told
<1>1. 1 \in DOMAIN ready /\ Head(ready) = ready[1]
  BY Taken DEF Inv
<1>2. Head(ready).kind = "retry" => RetriesQueued # {}
  BY <1>1 DEF RetriesQueued
<1>3. /\ Head(ready).kind \in {"operation", "deadline", "control"} => Head(ready).of \in 1..created
      /\ Head(ready).kind = "control" => Head(ready).of \in told
  BY <1>1 DEF Inv, Known, Sourced
<1> QED
  BY <1>2, <1>3, Taken DEF Inv, OneSession, TimerArmed

\* The sessions made so far are among the identifiers.
LEMMA MadeInIds == Inv => created \in Nat /\ 1..created \subseteq Ids
BY SessionAssumption DEF Inv, TypeOK, Ids

\* The completion of an operation of an ended session is ignored.
LEMMA RunOfEndedInv == Inv /\ RunOfEnded => Inv'
<1> SUFFICES ASSUME Inv, RunOfEnded PROVE Inv'
  OBVIOUS
<1> DEFINE s == Head(ready).of
<1>1. /\ ready # <<>> /\ ready' = Tail(ready) /\ Head(ready).kind = "operation"
      /\ thread = "running" /\ operation' = [operation EXCEPT ![s] = "none"]
      /\ UNCHANGED <<created, stop_posted, thread, stage, ended, deadline, session, retry,
                     retry_seconds, losses, told, controls, blamed, stopped>>
  BY DEF RunOfEnded, Run, AfterEnded, retryVars, controlVars
<1>2. TypeOK'
  BY <1>1, HeadKnown DEF Inv, TypeOK
<1>3. Known' /\ Staged' /\ Sourced' /\ ControlEndsItsSource'
  <2>1. \A t \in Ids : t > created => operation'[t] = "none"
    BY <1>1 DEF Inv, TypeOK, Known
  <2> QED
    BY <1>1, <2>1, HeadKnown, KnownKept DEF Inv, Known, Staged, ControlEndsItsSource
<1>4. Alive'
  BY <1>1, HeadKnown, AliveKept DEF Living
<1> QED
  BY <1>2, <1>3, <1>4 DEF Inv

\* A handler that fails its session leaves the timer in the session's place.
LEMMA FailAlive ==
  ASSUME Inv, thread = "running", UNCHANGED <<thread, stopped, created>>,
         NEW s \in 1..created, Fail(s), RetriesQueued = {} => RetriesQueued' = {},
         OneQueued => OneQueued'
  PROVE  Alive'
<1>1. CASE ended[s]
  BY <1>1, FailOutcome, AliveKept DEF Living, retryVars
<1>2. CASE ~ended[s]
  BY <1>2, FailOutcome DEF Alive, TimerArmed, OneSession
<1> QED
  BY <1>1, <1>2

\* A failed operation ends its session and the receiver arms the reconnect.
LEMMA RunFailureInv == Inv /\ RunFailure => Inv'
<1> SUFFICES ASSUME Inv, RunFailure PROVE Inv'
  OBVIOUS
<1> DEFINE s == Head(ready).of
<1>1. /\ ready # <<>> /\ ready' = Tail(ready) /\ Head(ready).kind = "operation"
      /\ thread = "running" /\ operation' = [operation EXCEPT ![s] = "none"] /\ Fail(s)
      /\ UNCHANGED <<created, stop_posted, thread, stage, told, controls, blamed, stopped>>
  BY DEF RunFailure, Run, controlVars
<1>2. s \in 1..created
  BY <1>1, HeadKnown
<1>3. TypeOK'
  BY <1>1, <1>2, HeadKnown, FailOutcome DEF Inv, TypeOK
<1>4. Known' /\ Staged' /\ Sourced' /\ ControlEndsItsSource'
  <2>1. \A t \in Ids : t > created => operation'[t] = "none"
    BY <1>1 DEF Inv, TypeOK, Known
  <2>2. \A t \in Ids : t > created => ~ended'[t] /\ ~deadline'[t]
    BY <1>1, <1>2, FailOutcome
  <2>3. Staged'
    BY <1>1, <1>2, FailOutcome DEF Inv, Staged
  <2> QED
    BY <1>1, <2>1, <2>2, <2>3, HeadKnown, KnownKept DEF Inv, Staged, ControlEndsItsSource
<1>5. Alive'
  BY <1>1, <1>2, HeadKnown, FailAlive
<1> QED
  BY <1>3, <1>4, <1>5 DEF Inv

\* A completed operation moves its session one stage on.
LEMMA RunProgressInv == Inv /\ RunProgress => Inv'
<1> SUFFICES ASSUME Inv, RunProgress PROVE Inv'
  OBVIOUS
<1> DEFINE s == Head(ready).of
<1>1. /\ ready # <<>> /\ ready' = Tail(ready) /\ Head(ready).kind = "operation"
      /\ thread = "running" /\ operation' = [operation EXCEPT ![s] = "pending"]
      /\ stage' = [stage EXCEPT ![s] = Following(s)]
      /\ deadline' = [deadline EXCEPT ![s] = deadline[s] /\ stage[s] # "handshake"]
      /\ UNCHANGED <<created, stop_posted, thread, ended, session, retry,
                     retry_seconds, losses, told, controls, blamed, stopped>>
  BY DEF RunProgress, Run, retryVars, controlVars
<1>2. s \in 1..created /\ s \in Ids
  BY <1>1, HeadKnown, MadeInIds
<1>3. stage[s] \in {"resolve", "connect", "tls", "handshake"} /\ Following(s) \in Stages \ {"none"}
  <2>1. stage[s] \in Stages /\ stage[s] # "none" /\ stage[s] # "read"
    BY <1>2 DEF RunProgress, Inv, TypeOK, Staged
  <2> QED
    BY <2>1 DEF Stages, Following
<1>4. /\ stage' \in [Ids -> Stages] /\ operation' \in [Ids -> {"none", "pending", "queued"}]
      /\ deadline' \in [Ids -> BOOLEAN]
  BY <1>1, <1>2, <1>3 DEF Inv, TypeOK
<1>5. TypeOK'
  BY <1>1, <1>4, HeadKnown DEF Inv, TypeOK
<1>6. Known' /\ Staged' /\ Sourced' /\ ControlEndsItsSource'
  <2>1. \A t \in Ids : t > created => operation'[t] = "none" /\ ~deadline'[t]
    BY <1>1, <1>2 DEF Inv, TypeOK, Known
  <2>2. Staged'
    BY <1>1, <1>2, <1>3 DEF Inv, TypeOK, Staged, Ids
  <2> QED
    BY <1>1, <2>1, <2>2, HeadKnown, KnownKept DEF Inv, Known, ControlEndsItsSource
<1>7. Alive'
  BY <1>1, HeadKnown, AliveKept DEF Living
<1> QED
  BY <1>5, <1>6, <1>7 DEF Inv

\* A read message leaves its session as it is; a control message goes to the ring.
LEMMA RunMessageInv == Inv /\ RunMessage => Inv'
<1> SUFFICES ASSUME Inv, RunMessage PROVE Inv'
  OBVIOUS
<1> DEFINE s == Head(ready).of
<1>1. /\ ready # <<>> /\ ready' = Tail(ready) /\ Head(ready).kind = "operation"
      /\ thread = "running" /\ operation' = [operation EXCEPT ![s] = "pending"]
      /\ retry_seconds' = 1 /\ losses' = 0
      /\ \/ told' = told /\ controls' = controls
         \/ told' = told \cup {s} /\ controls' = Append(controls, s)
      /\ UNCHANGED <<created, stop_posted, thread, stage, ended, deadline, session, retry,
                     blamed, stopped>>
  BY DEF RunMessage, Run, BackoffAfterMessage, controlVars
<1>2. s \in 1..created /\ s \in Ids
  BY <1>1, HeadKnown, MadeInIds
<1>3. /\ told \subseteq told' /\ told' \subseteq 1..created /\ told' \in SUBSET Ids
      /\ controls' \in Seq(Ids) /\ \A i \in DOMAIN controls' : controls'[i] \in told'
  <2>1. CASE told' = told /\ controls' = controls
    BY <2>1 DEF Inv, TypeOK, Sourced
  <2>2. CASE told' = told \cup {s} /\ controls' = Append(controls, s)
    <3>1. controls \in Seq(Ids) /\ Len(controls) \in Nat /\ DOMAIN controls = 1..Len(controls)
      BY LenProperties DEF Inv, TypeOK
    <3>2. /\ controls' \in Seq(Ids) /\ Len(controls') = Len(controls) + 1
          /\ \A i \in 1..Len(controls) : controls'[i] = controls[i]
          /\ controls'[Len(controls) + 1] = s /\ DOMAIN controls' = 1..Len(controls')
      BY <1>2, <2>2, <3>1, AppendProperties, LenProperties
    <3>3. told \subseteq 1..created /\ \A i \in DOMAIN controls : controls[i] \in told
      BY DEF Inv, Sourced
    <3>4. \A i \in DOMAIN controls' : controls'[i] \in told'
      BY <2>2, <3>1, <3>2, <3>3
    <3> QED
      BY <1>2, <2>2, <3>2, <3>3, <3>4, MadeInIds
  <2> QED
    BY <1>1, <2>1, <2>2
<1>4. TypeOK'
  <2>1. operation' \in [Ids -> {"none", "pending", "queued"}] /\ 1 \in 1..RetryCap
    BY <1>1, <1>2, SessionAssumption DEF Inv, TypeOK
  <2>2. ready' \in Seq(Handlers)
    BY <1>1, HeadKnown
  <2> QED
    BY <1>1, <1>3, <2>1, <2>2 DEF Inv, TypeOK
<1>5. Known' /\ Staged' /\ ControlEndsItsSource'
  <2>1. \A t \in Ids : t > created => operation'[t] = "none"
    BY <1>1, <1>2 DEF Inv, TypeOK, Known
  <2> QED
    BY <1>1, <1>3, <2>1, HeadKnown DEF Inv, Known, Staged, ControlEndsItsSource
<1>6. Sourced'
  BY <1>1, <1>3, HeadKnown DEF Inv, Sourced
<1>7. Alive'
  BY <1>1, HeadKnown, AliveKept DEF Living
<1> QED
  BY <1>4, <1>5, <1>6, <1>7 DEF Inv

\* A deadline handler ends its session, unless that one ended before.
LEMMA RunDeadlineInv == Inv /\ RunDeadline => Inv'
<1> SUFFICES ASSUME Inv, RunDeadline PROVE Inv'
  OBVIOUS
<1> DEFINE s == Head(ready).of
<1>1. /\ ready # <<>> /\ ready' = Tail(ready) /\ Head(ready).kind = "deadline"
      /\ thread = "running" /\ Fail(s)
      /\ UNCHANGED <<created, stop_posted, thread, stage, operation, told, controls, blamed, stopped>>
  BY DEF RunDeadline, Run, controlVars
<1>2. s \in 1..created
  BY <1>1, HeadKnown
<1>3. TypeOK'
  BY <1>1, <1>2, HeadKnown, FailOutcome DEF Inv, TypeOK
<1>4. Known' /\ Staged' /\ Sourced' /\ ControlEndsItsSource'
  <2>1. \A t \in Ids : t > created => ~ended'[t] /\ ~deadline'[t]
    BY <1>1, <1>2, FailOutcome
  <2>2. Staged'
    BY <1>1, <1>2, FailOutcome DEF Inv, Staged
  <2> QED
    BY <1>1, <2>1, <2>2, HeadKnown, KnownKept DEF Inv, Known, ControlEndsItsSource
<1>5. Alive'
  BY <1>1, <1>2, HeadKnown, FailAlive
<1> QED
  BY <1>3, <1>4, <1>5 DEF Inv

\* The posted control error is known to be of a session that was sent one.
LEMMA RunControlInv == Inv /\ RunControl => Inv'
<1> SUFFICES ASSUME Inv, RunControl PROVE Inv'
  OBVIOUS
<1> DEFINE s == Head(ready).of
<1>1. /\ ready # <<>> /\ ready' = Tail(ready) /\ Head(ready).kind = "control"
      /\ thread = "running" /\ Fail(s) /\ blamed' \subseteq blamed \cup {s}
      /\ UNCHANGED <<created, stop_posted, thread, stage, operation, told, controls, stopped>>
  BY DEF RunControl, Run, SourceSession, controlVars
<1>2. s \in 1..created /\ s \in told /\ blamed' \subseteq told
  BY <1>1, HeadKnown DEF Inv, ControlEndsItsSource
<1>3. TypeOK'
  BY <1>1, <1>2, HeadKnown, FailOutcome DEF Inv, TypeOK
<1>4. Known' /\ Staged' /\ Sourced' /\ ControlEndsItsSource'
  <2>1. \A t \in Ids : t > created => ~ended'[t] /\ ~deadline'[t]
    BY <1>1, <1>2, FailOutcome
  <2>2. Staged'
    BY <1>1, <1>2, FailOutcome DEF Inv, Staged
  <2> QED
    BY <1>1, <1>2, <2>1, <2>2, HeadKnown, KnownKept DEF Inv, Known, ControlEndsItsSource
<1>5. Alive'
  BY <1>1, <1>2, HeadKnown, FailAlive
<1> QED
  BY <1>3, <1>4, <1>5 DEF Inv

\* The reconnect that was queued alone connects, or is dropped after the stop.
LEMMA RunRetryInv == Inv /\ RunRetry => Inv'
<1> SUFFICES ASSUME Inv, RunRetry PROVE Inv'
  OBVIOUS
<1>1. /\ ready # <<>> /\ ready' = Tail(ready) /\ Head(ready).kind = "retry"
      /\ thread = "running" /\ TypeOK /\ Known /\ Staged /\ Sourced /\ ControlEndsItsSource
      /\ UNCHANGED <<thread, stopped, stop_posted, told, controls, blamed>>
  BY DEF Inv, RunRetry, controlVars, threadVars
<1>2. CASE stopped
  <2>1. UNCHANGED <<stage, operation, ended, deadline, created, session, retry, retry_seconds, losses>>
    BY <1>2 DEF RunRetry, sessionVars, retryVars
  <2>2. TypeOK'
    BY <1>1, <2>1, HeadKnown DEF TypeOK
  <2>3. Known' /\ Staged' /\ Sourced' /\ ControlEndsItsSource'
    BY <1>1, <2>1, HeadKnown, KnownKept DEF Known, Staged, ControlEndsItsSource
  <2>4. Alive'
    BY <1>1, <1>2, <2>1 DEF Inv, Alive, Living
  <2> QED
    BY <2>2, <2>3, <2>4 DEF Inv
<1>3. CASE ~stopped
  <2>1. RetryQueued /\ RetriesQueued' = {}
    <3>1. OneSession \/ TimerArmed \/ RetryQueued
      BY <1>1, <1>3 DEF Inv, Alive
    <3>2. RetryQueued
      BY <1>1, <3>1, HeadKnown DEF RetryQueued
    <3> QED
      BY <1>1, <3>2, HeadKnown DEF RetryQueued
  <2>2. Connect /\ session = 0 /\ Living = {} /\ ~retry
    BY <1>3, <2>1 DEF RunRetry, RetryQueued
  <2>3. TypeOK'
    BY <1>1, <1>3, <2>2, HeadKnown, ConnectOutcome DEF TypeOK
  <2>4. Known' /\ Staged' /\ Sourced' /\ ControlEndsItsSource'
    <3>1. /\ created' = created + 1 /\ created \in Nat
          /\ \A t \in Ids : t > created' => ~ended'[t] /\ ~deadline'[t] /\ operation'[t] = "none"
      BY <1>1, <1>3, <2>2, ConnectOutcome DEF TypeOK
    <3>2. Staged'
      BY <1>1, <1>3, <2>2, ConnectOutcome
    <3> QED
      BY <1>1, <3>1, <3>2, HeadKnown DEF Known, Sourced, ControlEndsItsSource
  <2>5. Alive'
    BY <1>1, <1>3, <2>1, <2>2, ConnectOutcome DEF Alive, OneSession, TimerArmed
  <2> QED
    BY <2>3, <2>4, <2>5 DEF Inv
<1> QED
  BY <1>2, <1>3

\* The stop ends the session the receiver owns, and there is no other.
LEMMA RunStopInv == Inv /\ RunStop => Inv'
<1> SUFFICES ASSUME Inv, RunStop PROVE Inv'
  OBVIOUS
<1>1. /\ ready # <<>> /\ ready' = Tail(ready) /\ Head(ready).kind = "stop"
      /\ thread = "running" /\ stopped' = TRUE /\ retry' = FALSE /\ session' = 0
      /\ UNCHANGED <<created, stop_posted, thread, stage, operation, retry_seconds, losses,
                     told, controls, blamed>>
  BY DEF RunStop, Run, controlVars
<1>2. /\ ended' \in [Ids -> BOOLEAN] /\ deadline' \in [Ids -> BOOLEAN]
      /\ \A t \in Ids : t > created => ~ended'[t] /\ ~deadline'[t]
      /\ \A t \in 1..created : ended'[t]
  <2>1. CASE session = 0
    <3>1. UNCHANGED <<ended, deadline>> /\ Living = {}
      BY <1>1, <2>1 DEF RunStop, Inv, Alive, OneSession, TimerArmed, RetryQueued
    <3> QED
      BY <3>1 DEF Inv, TypeOK, Known, Living
  <2>2. CASE session # 0
    <3>1. Living = {session}
      BY <1>1, <2>2 DEF Inv, Alive, OneSession, TimerArmed, RetryQueued
    <3>2. /\ session \in 1..created /\ session \in Ids /\ \A t \in 1..created : t \in Ids
          /\ \A t \in 1..created : t # session => ended[t]
      BY <3>1, MadeInIds DEF Living
    <3>3. /\ ended' = [ended EXCEPT ![session] = TRUE]
          /\ deadline' = [deadline EXCEPT ![session] = FALSE]
      BY <2>2 DEF RunStop, Cancel
    <3> QED
      BY <3>2, <3>3 DEF Inv, TypeOK, Known
  <2> QED
    BY <2>1, <2>2
<1>3. TypeOK'
  <2>1. 0 \in 0..created /\ ready' \in Seq(Handlers)
    BY <1>1, HeadKnown, MadeInIds
  <2> QED
    BY <1>1, <1>2, <2>1 DEF Inv, TypeOK
<1>4. Known' /\ Staged' /\ Sourced' /\ ControlEndsItsSource'
  BY <1>1, <1>2, HeadKnown, KnownKept DEF Inv, Known, Staged, ControlEndsItsSource
<1>5. Alive'
  BY <1>1, <1>2 DEF Alive, Living
<1> QED
  BY <1>3, <1>4, <1>5 DEF Inv

\* The end of the thread and stuttering change nothing the invariant reads.
LEMMA ThreadEndsInv == Inv /\ ThreadEnds => Inv'
<1> SUFFICES ASSUME Inv, ThreadEnds PROVE Inv'
  OBVIOUS
<1> USE DEF ThreadEnds, sessionVars, retryVars, controlVars
<1>1. TypeOK'
  BY DEF Inv, TypeOK
<1>2. Known' /\ Staged' /\ Sourced' /\ ControlEndsItsSource'
  BY DEF Inv, Known, Staged, Sourced, ControlEndsItsSource
<1>3. Alive'
  BY AliveKept DEF Living, RetriesQueued, OneQueued
<1> QED
  BY <1>1, <1>2, <1>3 DEF Inv

\* A stuttering step preserves the invariant.
LEMMA StutterInv == Inv /\ UNCHANGED vars => Inv'
<1> SUFFICES ASSUME Inv, UNCHANGED vars PROVE Inv'
  OBVIOUS
<1> USE DEF vars, sessionVars, retryVars, controlVars, threadVars
<1>1. TypeOK'
  BY DEF Inv, TypeOK
<1>2. Known' /\ Staged' /\ Sourced' /\ ControlEndsItsSource'
  BY DEF Inv, Known, Staged, Sourced, ControlEndsItsSource
<1>3. Alive'
  BY DEF Inv, Alive, OneSession, TimerArmed, RetryQueued, Living, RetriesQueued, OneQueued
<1> QED
  BY <1>1, <1>2, <1>3 DEF Inv

-----------------------------------------------------------------------------
\* The inductive invariant holds in every state, for any number of sessions.
THEOREM Invariant == Spec => []Inv
<1>1. Inv /\ [Next]_vars => Inv'
  <2> SUFFICES ASSUME Inv, [Next]_vars PROVE Inv'
    OBVIOUS
  <2>1. CASE Start
    BY <2>1, StartInv
  <2>2. CASE \E s \in Ids : Completes(s) \/ DeadlineExpires(s)
    BY <2>2, CompletesInv, DeadlineExpiresInv
  <2>3. CASE RetryExpires
    BY <2>3, RetryExpiresInv
  <2>4. CASE RunOfEnded \/ RunFailure \/ RunProgress \/ RunMessage
    BY <2>4, RunOfEndedInv, RunFailureInv, RunProgressInv, RunMessageInv
  <2>5. CASE RunDeadline \/ RunRetry \/ RunControl \/ RunStop \/ ThreadEnds
    BY <2>5, RunDeadlineInv, RunRetryInv, RunControlInv, RunStopInv, ThreadEndsInv
  <2>6. CASE PostControl \/ PostStop
    BY <2>6, PostInv
  <2>7. CASE Over \/ UNCHANGED vars
    BY <2>7, StutterInv DEF Over
  <2> QED
    BY <2>1, <2>2, <2>3, <2>4, <2>5, <2>6, <2>7 DEF Next, Handler
<1> QED
  BY InitInv, <1>1, PTL DEF Spec

\* The sessions are well typed.
THEOREM TypeCorrect == Spec => []TypeOK
<1>1. Inv => TypeOK
  BY DEF Inv
<1> QED
  BY Invariant, <1>1, PTL

\* Until it is stopped the receiver has one living session or one reconnect
\* under way, and after the stop neither.
THEOREM AlwaysSupervised == Spec => []Supervised
<1>1. Inv => Supervised
  <2> SUFFICES ASSUME Inv, thread # "new", ~stopped
               PROVE  Cardinality(Living) + (IF retry THEN 1 ELSE 0) + Cardinality(RetriesQueued) = 1
    BY DEF Inv, Alive, Supervised
  <2>1. Cardinality({}) = 0 /\ \A x : Cardinality({x}) = 1
    BY FS_EmptySet, FS_Singleton
  <2>2. CASE OneSession
    BY <2>1, <2>2 DEF OneSession
  <2>3. CASE TimerArmed
    BY <2>1, <2>3 DEF TimerArmed
  <2>4. CASE RetryQueued
    <3>1. PICK k \in RetriesQueued : RetriesQueued = {k}
      BY <2>4 DEF RetryQueued, OneQueued
    <3>2. Cardinality(RetriesQueued) = 1 /\ Cardinality(Living) = 0
      BY <2>1, <2>4, <3>1, Zenon DEF RetryQueued
    <3> QED
      BY <2>4, <3>2 DEF RetryQueued
  <2> QED
    BY <2>2, <2>3, <2>4 DEF Inv, Alive
<1> QED
  BY Invariant, <1>1, PTL

\* A control error ends only a session that was sent a control message.
THEOREM ControlErrorsStayHome == Spec => []ControlEndsItsSource
<1>1. Inv => ControlEndsItsSource
  BY DEF Inv
<1> QED
  BY Invariant, <1>1, PTL

-----------------------------------------------------------------------------
(***************************************************************************)
(* The back-off.                                                           *)
(***************************************************************************)
\* The powers of two by which the back-off is measured.
LEMMA Powers ==
  /\ TwoTo[0] = 1
  /\ \A n \in Nat : TwoTo[n] \in Nat /\ TwoTo[n + 1] = 2 * TwoTo[n]
<1> DEFINE step == [p \in Nat \X Nat |-> 2 * p[2]]
<1>1. PICK f \in [Nat -> Nat] : Follows(f, 1, step, Nat)
  <2>1. 1 \in Nat /\ step \in [Nat \X Nat -> Nat]
    OBVIOUS
  <2> HIDE DEF step
  <2> QED
    BY <2>1, RecursionExists
<1>2. f = [n \in Nat |-> IF n = 0 THEN 1 ELSE 2 * f[n - 1]]
  <2>1. \A n \in Nat : f[n] = IF n = 0 THEN 1 ELSE 2 * f[n - 1]
    <3> SUFFICES ASSUME NEW n \in Nat, n # 0 PROVE f[n] = 2 * f[n - 1]
      BY <1>1 DEF Follows
    <3>1. n - 1 \in Nat /\ f[n - 1] \in Nat /\ f[n] = step[<<n - 1, f[n - 1]>>]
      BY <1>1 DEF Follows
    <3> QED
      BY <3>1
  <2> QED
    BY <1>1, <2>1
<1>3. TwoTo = [n \in Nat |-> IF n = 0 THEN 1 ELSE 2 * TwoTo[n - 1]]
  BY <1>2 DEF TwoTo
<1>4. TwoTo[0] = 1 /\ \A n \in Nat : TwoTo[n + 1] = 2 * TwoTo[n]
  <2>1. \A n \in Nat : n + 1 \in Nat /\ n + 1 # 0 /\ (n + 1) - 1 = n
    OBVIOUS
  <2> QED
    BY <1>3, <2>1
<1>5. \A n \in Nat : TwoTo[n] \in Nat
  <2> DEFINE S == {n \in Nat : TwoTo[n] \in Nat}
  <2>1. 0 \in S /\ \A n \in Nat : n \in S => n + 1 \in S
    BY <1>4
  <2> HIDE DEF S
  <2>2. Nat \subseteq S
    BY <2>1, NatInduct
  <2> QED
    BY <2>2 DEF S
<1> QED
  BY <1>4, <1>5

\* One loss doubles the back-off up to its cap.
LEMMA DoubledFollows ==
  ASSUME TypeOK, BackoffFollowsLosses,
         \/ UNCHANGED retryVars
         \/ UNCHANGED <<retry_seconds, losses>>
         \/ retry_seconds' = Doubled(retry_seconds) /\ losses' = losses + 1
  PROVE  BackoffFollowsLosses'
<1>1. /\ TwoTo[losses] \in Nat /\ TwoTo[losses + 1] = 2 * TwoTo[losses]
      /\ RetryCap \in Nat \ {0}
  BY Powers, SessionAssumption DEF TypeOK
<1> QED
  BY <1>1 DEF BackoffFollowsLosses, Doubled, retryVars

\* A failure reported by several handlers of one session is one loss.
LEMMA FailFollows ==
  ASSUME TypeOK, BackoffFollowsLosses, NEW s, Fail(s)
  PROVE  BackoffFollowsLosses'
  BY DoubledFollows DEF Fail

\* The back-off doubles once for each connection lost since the last message,
\* up to its cap, however often a session's handlers report its end.
THEOREM BackoffIsMeasured == Spec => []BackoffFollowsLosses
<1>1. Init => BackoffFollowsLosses
  BY Powers, SessionAssumption DEF Init, BackoffFollowsLosses
<1>2. TypeOK /\ BackoffFollowsLosses /\ [Next]_vars => BackoffFollowsLosses'
  <2> SUFFICES ASSUME TypeOK, BackoffFollowsLosses, Next \/ UNCHANGED vars
               PROVE  BackoffFollowsLosses'
    OBVIOUS
  <2>1. Connect => BackoffFollowsLosses'
    BY FailFollows, DoubledFollows DEF Connect
  <2>2. CASE Start \/ RunRetry
    BY <2>1, <2>2, DoubledFollows DEF Start, RunRetry
  <2>3. CASE RunFailure \/ RunDeadline \/ RunControl
    BY <2>3, FailFollows DEF RunFailure, RunDeadline, RunControl
  <2>4. CASE RunMessage
    BY <2>4, Powers, SessionAssumption
    DEF RunMessage, BackoffFollowsLosses, BackoffAfterMessage
  <2>5. CASE \/ \E s \in Ids : Completes(s) \/ DeadlineExpires(s)
             \/ RetryExpires \/ RunOfEnded \/ RunProgress \/ RunStop \/ ThreadEnds
             \/ PostControl \/ PostStop \/ UNCHANGED vars
    BY <2>5, DoubledFollows
    DEF Completes, DeadlineExpires, RetryExpires, RunOfEnded, RunProgress, RunStop, ThreadEnds,
        PostControl, PostStop, vars
  <2> QED
    BY <2>2, <2>3, <2>4, <2>5 DEF Next, Handler, Over
<1> QED
  BY <1>1, <1>2, TypeCorrect, PTL DEF Spec
=============================================================================

-------------------------- MODULE WebsocketSessions --------------------------
(***************************************************************************)
(* The websocket connection of src/receiver.cpp: sessions, their deadline, *)
(* reconnecting with back-off, control errors found by the main thread and *)
(* the posted stop.                                                        *)
(*                                                                         *)
(* Everything but the main thread's posts runs on the network thread, one  *)
(* handler of its io_context after another in FIFO order.  A session has   *)
(* one asynchronous operation at a time.  Cancelling a timer or closing a  *)
(* socket does not take back a handler that is already queued; the handler *)
(* of a cancelled timer that was not queued does nothing and is left out.  *)
(* The ring between the threads is reduced to the control messages in it;  *)
(* each session is sent at most one.                                       *)
(***************************************************************************)
EXTENDS Integers, Sequences, FiniteSets

CONSTANTS
  SessionBound,  \* bound: sessions created in one behaviour
  RetryCap       \* the longest back-off, 30 seconds in the code

ASSUME SessionAssumption == SessionBound \in Nat \ {0} /\ RetryCap \in Nat \ {0}

VARIABLES
  stage,          \* session -> what its outstanding operation is for
  operation,      \* session -> "none", "pending" or "queued"
  ended, deadline,
  created,        \* sessions made so far; they are numbered
  session,        \* the session the receiver owns, 0 for none
  retry,          \* the reconnect timer is armed
  retry_seconds,
  losses,         \* history: connections lost since the last message
  told,           \* history: sessions that were sent a control message
  blamed,         \* history: sessions that a control error ended
  controls,       \* control messages the main thread has not processed
  ready, stopped,
  stop_posted,
  thread          \* "new", "running" or "ended"

sessionVars == <<stage, operation, ended, deadline, created, session>>
retryVars == <<retry, retry_seconds, losses>>
controlVars == <<told, controls>>
threadVars == <<stopped, stop_posted, thread>>
vars == <<sessionVars, retryVars, controlVars, blamed, ready, threadVars>>

Ids == 1..SessionBound
Stages == {"none", "resolve", "connect", "tls", "handshake", "read"}
Handlers ==
  [kind : {"operation"}, of : Ids, ok : BOOLEAN]
    \cup [kind : {"deadline", "control"}, of : Ids]
    \cup [kind : {"retry", "stop"}]

Init ==
  /\ stage = [s \in Ids |-> "none"] /\ operation = [s \in Ids |-> "none"]
  /\ ended = [s \in Ids |-> FALSE] /\ deadline = [s \in Ids |-> FALSE]
  /\ created = 0 /\ session = 0
  /\ retry = FALSE /\ retry_seconds = 1 /\ losses = 0
  /\ told = {} /\ blamed = {} /\ controls = <<>> /\ ready = <<>>
  /\ stopped = FALSE /\ stop_posted = FALSE /\ thread = "new"

Doubled(seconds) == IF 2 * seconds < RetryCap THEN 2 * seconds ELSE RetryCap

-----------------------------------------------------------------------------
(***************************************************************************)
(* Session::cancel, Session::fail with Receiver::Impl::disconnected, and   *)
(* connect.                                                                *)
(***************************************************************************)
Cancel(s) ==
  /\ ended' = [ended EXCEPT ![s] = TRUE]
  /\ deadline' = [deadline EXCEPT ![s] = FALSE]

IgnoredNever(s) == FALSE
Ignored(s) == ended[s]

Fail(s) ==
  IF Ignored(s) THEN UNCHANGED <<ended, deadline, session, retryVars>>
  ELSE /\ Cancel(s)
       /\ IF stopped THEN UNCHANGED <<session, retryVars>>
          ELSE /\ session' = 0 /\ retry' = TRUE
               /\ retry_seconds' = Doubled(retry_seconds)
               /\ losses' = losses + 1

\* A session starts to resolve, or fails at once when its SNI is refused.
Connect ==
  LET s == created + 1 IN
  /\ created < SessionBound
  /\ created' = s
  /\ \/ /\ session' = s
        /\ stage' = [stage EXCEPT ![s] = "resolve"]
        /\ operation' = [operation EXCEPT ![s] = "pending"]
        /\ deadline' = [deadline EXCEPT ![s] = TRUE]
        /\ UNCHANGED <<ended, retryVars>>
     \/ Fail(s) /\ UNCHANGED <<stage, operation>>

\* Receiver::start(), on the main thread before the network thread exists.
Start ==
  /\ thread = "new" /\ thread' = "running"
  /\ Connect
  /\ UNCHANGED <<controlVars, blamed, ready, stopped, stop_posted>>

-----------------------------------------------------------------------------
(***************************************************************************)
(* What completes beside the handlers.                                     *)
(***************************************************************************)
Completes(s) ==
  /\ thread = "running" /\ operation[s] = "pending"
  /\ operation' = [operation EXCEPT ![s] = "queued"]
  /\ \E ok \in BOOLEAN :
       ready' = Append(ready, [kind |-> "operation", of |-> s, ok |-> ok])
  /\ UNCHANGED <<stage, ended, deadline, created, session, retryVars, controlVars, blamed,
                 threadVars>>

DeadlineExpires(s) ==
  /\ thread = "running" /\ deadline[s]
  /\ deadline' = [deadline EXCEPT ![s] = FALSE]
  /\ ready' = Append(ready, [kind |-> "deadline", of |-> s])
  /\ UNCHANGED <<stage, operation, ended, created, session, retryVars, controlVars, blamed,
                 threadVars>>

RetryExpires ==
  /\ thread = "running" /\ retry /\ created < SessionBound
  /\ retry' = FALSE
  /\ ready' = Append(ready, [kind |-> "retry"])
  /\ UNCHANGED <<sessionVars, retry_seconds, losses, controlVars, blamed, threadVars>>

-----------------------------------------------------------------------------
(***************************************************************************)
(* The handlers.                                                           *)
(***************************************************************************)
Run(kind) ==
  /\ thread = "running" /\ ready # <<>> /\ Head(ready).kind = kind
  /\ ready' = Tail(ready)
  /\ UNCHANGED <<created, stop_posted, thread>>

Following(s) ==
  CASE stage[s] = "resolve" -> "connect" [] stage[s] = "connect" -> "tls"
    [] stage[s] = "tls" -> "handshake" [] stage[s] \in {"handshake", "read"} -> "read"

\* "if (self->ended) return", in every completion handler.
ContinuesThoughEnded == "pending"
AfterEnded == "none"

RunOfEnded ==
  LET s == Head(ready).of IN
  /\ Run("operation") /\ ended[s]
  /\ operation' = [operation EXCEPT ![s] = AfterEnded]
  /\ UNCHANGED <<stage, ended, deadline, session, retryVars, controlVars, blamed, stopped>>

RunFailure ==
  LET s == Head(ready).of IN
  /\ Run("operation") /\ ~ended[s] /\ ~Head(ready).ok
  /\ operation' = [operation EXCEPT ![s] = "none"]
  /\ Fail(s)
  /\ UNCHANGED <<stage, controlVars, blamed, stopped>>

\* resolve, connect, tls and websocket handshake: the last ends the deadline.
RunProgress ==
  LET s == Head(ready).of IN
  /\ Run("operation") /\ ~ended[s] /\ Head(ready).ok /\ stage[s] # "read"
  /\ stage' = [stage EXCEPT ![s] = Following(s)]
  /\ operation' = [operation EXCEPT ![s] = "pending"]
  /\ deadline' = [deadline EXCEPT ![s] = @ /\ stage[s] # "handshake"]
  /\ UNCHANGED <<ended, session, retryVars, controlVars, blamed, stopped>>

BackoffKept == retry_seconds
BackoffAfterMessage == 1

\* A message, or a control message, reached the ring.  The code's own check of
\* stopped never fires: the stop ends the session.
RunMessage ==
  LET s == Head(ready).of IN
  /\ Run("operation") /\ ~ended[s] /\ Head(ready).ok /\ stage[s] = "read" /\ ~stopped
  /\ operation' = [operation EXCEPT ![s] = "pending"]
  /\ retry_seconds' = BackoffAfterMessage /\ losses' = 0
  /\ \/ UNCHANGED controlVars
     \/ s \notin told /\ told' = told \cup {s} /\ controls' = Append(controls, s)
  /\ UNCHANGED <<stage, ended, deadline, session, retry, blamed, stopped>>

RunDeadline ==
  /\ Run("deadline")
  /\ Fail(Head(ready).of)
  /\ UNCHANGED <<stage, operation, controlVars, blamed, stopped>>

RunRetry ==
  /\ thread = "running" /\ ready # <<>> /\ Head(ready).kind = "retry"
  /\ ready' = Tail(ready)
  /\ IF stopped THEN UNCHANGED <<sessionVars, retryVars>> ELSE Connect
  /\ UNCHANGED <<controlVars, blamed, threadVars>>

\* The posted error is for the session the message came from.
CurrentSession(s) == IF session = 0 THEN s ELSE session
SourceSession(s) == s

RunControl ==
  LET s == SourceSession(Head(ready).of) IN
  /\ Run("control")
  /\ Fail(s)
  /\ blamed' = IF ended[s] THEN blamed ELSE blamed \cup {s}
  /\ UNCHANGED <<stage, operation, controlVars, stopped>>

RunStop ==
  /\ Run("stop")
  /\ stopped' = TRUE
  /\ retry' = FALSE /\ session' = 0
  /\ IF session # 0 THEN Cancel(session) ELSE UNCHANGED <<ended, deadline>>
  /\ UNCHANGED <<stage, operation, retry_seconds, losses, controlVars, blamed>>

\* io.run() returns when nothing is queued, outstanding or armed.
OutOfWork ==
  /\ ready = <<>> /\ ~retry
  /\ \A s \in Ids : operation[s] = "none" /\ ~deadline[s]

ThreadEnds ==
  /\ thread = "running" /\ OutOfWork
  /\ thread' = "ended"
  /\ UNCHANGED <<sessionVars, retryVars, controlVars, blamed, ready, stopped, stop_posted>>

-----------------------------------------------------------------------------
(***************************************************************************)
(* The main thread: a control message processed, and Receiver::stop(),     *)
(* which blocks in join() until the network thread ends.                   *)
(***************************************************************************)
PostControl ==
  /\ thread = "running" /\ ~stop_posted /\ controls # <<>>
  /\ controls' = Tail(controls)
  /\ ready' = Append(ready, [kind |-> "control", of |-> Head(controls)])
  /\ UNCHANGED <<sessionVars, retryVars, told, blamed, threadVars>>

PostStop ==
  /\ thread = "running" /\ ~stop_posted
  /\ stop_posted' = TRUE
  /\ ready' = Append(ready, [kind |-> "stop"])
  /\ UNCHANGED <<sessionVars, retryVars, controlVars, blamed, stopped, thread>>

Over == thread = "ended" /\ UNCHANGED vars

Handler ==
  \/ RunOfEnded \/ RunFailure \/ RunProgress \/ RunMessage
  \/ RunDeadline \/ RunRetry \/ RunControl \/ RunStop \/ ThreadEnds

Next ==
  \/ Start
  \/ \E s \in Ids : Completes(s) \/ DeadlineExpires(s)
  \/ RetryExpires
  \/ Handler
  \/ PostControl \/ PostStop
  \/ Over

Spec == Init /\ [][Next]_vars

-----------------------------------------------------------------------------
Living == {s \in 1..created : ~ended[s]}
RetriesQueued == {i \in DOMAIN ready : ready[i].kind = "retry"}

TypeOK ==
  /\ stage \in [Ids -> Stages] /\ operation \in [Ids -> {"none", "pending", "queued"}]
  /\ ended \in [Ids -> BOOLEAN] /\ deadline \in [Ids -> BOOLEAN]
  /\ created \in 0..SessionBound /\ session \in 0..created
  /\ retry \in BOOLEAN /\ retry_seconds \in 1..RetryCap /\ losses \in Nat
  /\ told \in SUBSET Ids /\ blamed \in SUBSET Ids
  /\ controls \in Seq(Ids) /\ ready \in Seq(Handlers)
  /\ stopped \in BOOLEAN /\ stop_posted \in BOOLEAN
  /\ thread \in {"new", "running", "ended"}

\* Until it is stopped the receiver has one living session, or one reconnect
\* on its way, and never both or two of either: connect() replaces the session
\* without ending the last one, and a network thread without work would be
\* gone for good.  Once stopped nothing lives or is armed, also when a
\* reconnect was already queued behind the stop.
Supervised ==
  thread # "new" =>
    IF stopped THEN Living = {} /\ ~retry /\ session = 0
    ELSE Cardinality(Living) + (IF retry THEN 1 ELSE 0) + Cardinality(RetriesQueued) = 1

TwoTo[n \in Nat] == IF n = 0 THEN 1 ELSE 2 * TwoTo[n - 1]

\* The back-off doubles with each loss since the last message up to its cap,
\* however many handlers of one lost session want to report it.
BackoffFollowsLosses ==
  retry_seconds = IF TwoTo[losses] < RetryCap THEN TwoTo[losses] ELSE RetryCap

\* A control error the main thread found ends the session it came from or
\* nothing: by the time it is handled that session may have been replaced.
ControlEndsItsSource == blamed \subseteq told

\* Fairness: handlers run, and every operation completes (those of a closed
\* socket at once, a resolution when the system resolver gives up, an open
\* read by the 60 second idle timeout).
FairSpec ==
  /\ Spec /\ WF_vars(Handler)
  /\ \A s \in Ids : WF_vars(Completes(s))

\* stop() returns: the network thread runs out of work after the posted stop.
StopReturns == stop_posted ~> thread = "ended"
=============================================================================

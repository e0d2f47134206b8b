--------------------------- MODULE CircuitBreaker ---------------------------
(***************************************************************************)
(* ecat-circuit-breaker: a tower middleware that stops calling a service   *)
(* that fails, and tries it again after a while.  One breaker is shared by *)
(* any number of concurrent calls.  A call runs two critical sections      *)
(* under the breaker's mutex: one decides whether it is let through, one   *)
(* records its result; between the two the call is in flight and anything  *)
(* may happen to the breaker.                                              *)
(*                                                                         *)
(* Instants are modelled by their age in clock ticks, which is all the     *)
(* code looks at (elapsed()); an age stops growing at the limit it is      *)
(* compared with.  The clock does not tick inside a critical section.      *)
(***************************************************************************)
EXTENDS Integers, FiniteSets

CONSTANTS
  Call,            \* call slots: each carries one call at a time
  FailureRatio,    \* failure_ratio, in percent
  Window,          \* window, in ticks
  HalfOpenProbes,  \* half_open_probes
  OpenDuration,    \* open_duration, in ticks
  MinCalls,        \* outcomes needed before the ratio counts (5 in the code)
  ClassifyType,    \* type the classify callback was written for, or "none"
  ResponseType,    \* type of the responses of the wrapped service
  Cancellable,     \* whether a caller may drop the future of its call
  MaxOutcomes      \* bound of the model: outcomes and calls in one window

\* What the builder leaves possible: ratio clamped to [0, 1], probes at
\* least 1.  A window of zero length would forget every outcome at once.
ASSUME BreakerAssumption ==
  /\ FailureRatio \in 0..100
  /\ Window \in Nat \ {0}
  /\ HalfOpenProbes \in Nat \ {0}
  /\ OpenDuration \in Nat
  /\ MinCalls \in Nat \ {0}
  /\ Cancellable \in BOOLEAN
  /\ MaxOutcomes \in Nat

VARIABLES
  state,            \* "Closed", "Open" or "HalfOpen"
  successes,        \* outcomes in the window
  failures,
  windowAge,        \* age of window_start
  openAge,          \* age of opened_at, Unset when it is None
  halfOpenCount,    \* half_open_count
  inFlight,         \* calls let through and not finished
  \* History, read by no action:
  carrierFailures,  \* errors and 5xx responses since the window started
  admitted,         \* calls let through since the breaker last opened
  dropped           \* calls dropped during the latest trial

breaker == <<state, successes, failures, windowAge, openAge, halfOpenCount>>
history == <<carrierFailures, admitted, dropped>>
vars == <<breaker, inFlight, history>>

Unset == -1

\* What the wrapped service can return: a good response, a response that
\* reports a failure of the carrier (code >= 500), or a transport error.
Outcome == {"ok", "bad", "err"}

Init ==
  /\ state = "Closed"
  /\ successes = 0 /\ failures = 0 /\ windowAge = 0
  /\ openAge = Unset
  /\ halfOpenCount = 0
  /\ inFlight = {}
  /\ carrierFailures = 0
  /\ admitted = 0 /\ dropped = 0

-----------------------------------------------------------------------------
(* Letting a call through.                                                 *)

\* SlidingWindow::rotate: counters of a window that is over read as zero.
Rotated(n) == IF windowAge >= Window THEN 0 ELSE n

RoomInModel ==
  Rotated(successes) + Rotated(failures) + Cardinality(inFlight) < MaxOutcomes

\* Mutants: no check of the cool-down, of the number of probes.
NoCoolDown == openAge # Unset
UnboundedProbes == halfOpenCount >= 0

CooledDown == openAge >= OpenDuration

ProbeLeft == halfOpenCount < HalfOpenProbes

LetThrough(c) ==
  /\ c \notin inFlight
  /\ RoomInModel
  /\ inFlight' = inFlight \cup {c}
  /\ UNCHANGED <<successes, failures, windowAge, openAge, carrierFailures, dropped>>

CallClosed(c) ==
  /\ state = "Closed"
  /\ LetThrough(c)
  /\ UNCHANGED <<state, halfOpenCount, admitted>>

\* The first call after the cool-down starts the trial and is part of it;
\* it is not counted in half_open_count.
CallOpen(c) ==
  /\ state = "Open" /\ CooledDown
  /\ LetThrough(c)
  /\ state' = "HalfOpen"
  /\ halfOpenCount' = 0
  /\ admitted' = admitted + 1

CallHalfOpen(c) ==
  /\ state = "HalfOpen" /\ ProbeLeft
  /\ LetThrough(c)
  /\ halfOpenCount' = halfOpenCount + 1
  /\ admitted' = admitted + 1
  /\ UNCHANGED state

\* A call answered with an error without reaching the service; nothing
\* changes.  ("circuit breaker is open", "too many probes".)
Rejects ==
  \/ state = "Open" /\ ~CooledDown
  \/ state = "HalfOpen" /\ ~ProbeLeft

-----------------------------------------------------------------------------
(* Recording a result.                                                     *)

\* The classify callback is kept behind Any: a callback written for another
\* type than the one of the response never sees it, and the response counts
\* as a success.
Classified(o) == o = "bad" /\ ClassifyType = ResponseType

IsFailure(o) == o = "err" \/ Classified(o)

\* The counters once this outcome is recorded (SlidingWindow::record).
One(b) == IF b THEN 1 ELSE 0
NewFailures(o) == Rotated(failures) + One(IsFailure(o))
NewSuccesses(o) == Rotated(successes) + One(~IsFailure(o))

Trips(total, failed) ==
  total >= MinCalls /\ failed * 100 >= FailureRatio * total

Record(o) ==
  /\ successes' = NewSuccesses(o)
  /\ failures' = NewFailures(o)
  /\ carrierFailures' = Rotated(carrierFailures) + One(o # "ok")
  /\ windowAge' = IF windowAge >= Window THEN 0 ELSE windowAge

\* Mutant: the outcome is recorded and nothing is forgotten.
KeepWindow(o) == Record(o)

\* SlidingWindow::clear; the outcome just recorded is forgotten too.
ClearWindow(o) ==
  /\ successes' = 0 /\ failures' = 0 /\ carrierFailures' = 0
  /\ windowAge' = 0

GoOpen ==
  /\ state' = "Open"
  /\ openAge' = 0
  /\ admitted' = 0 /\ dropped' = 0

Done(c) ==
  /\ c \in inFlight
  /\ inFlight' = inFlight \ {c}
  /\ UNCHANGED halfOpenCount

FinishClosed(c, o) ==
  /\ state = "Closed"
  /\ Done(c)
  /\ Record(o)
  /\ IF Trips(NewSuccesses(o) + NewFailures(o), NewFailures(o))
     THEN GoOpen
     ELSE UNCHANGED <<state, openAge, admitted, dropped>>

\* Mutant: a success only counts, the breaker waits for something else.
FinishHalfOpenCounts(c, o) ==
  /\ state = "HalfOpen"
  /\ Done(c)
  /\ Record(o)
  /\ IF o = "err" THEN GoOpen ELSE UNCHANGED <<state, openAge, admitted, dropped>>

\* Any call that returns Ok closes a half-open breaker, whatever its
\* response says, and any Err opens it again: the completion does not know
\* in which state its call was let through.
FinishHalfOpen(c, o) ==
  /\ state = "HalfOpen"
  /\ Done(c)
  /\ \/ /\ o # "err"
        /\ state' = "Closed"
        /\ openAge' = Unset
        /\ ClearWindow(o)
        /\ UNCHANGED <<admitted, dropped>>
     \/ /\ o = "err"
        /\ Record(o)
        /\ GoOpen

\* Mutant: a success heard while open closes the breaker.
FinishOpenCloses(c, o) ==
  /\ state = "Open"
  /\ Done(c)
  /\ IF o = "ok"
     THEN state' = "Closed" /\ openAge' = Unset /\ ClearWindow(o)
     ELSE Record(o) /\ UNCHANGED <<state, openAge>>
  /\ UNCHANGED <<admitted, dropped>>

\* A call let through before the breaker opened returns: it only counts.
FinishOpen(c, o) ==
  /\ state = "Open"
  /\ Done(c)
  /\ Record(o)
  /\ UNCHANGED <<state, openAge, admitted, dropped>>

Finish(c, o) ==
  FinishClosed(c, o) \/ FinishHalfOpen(c, o) \/ FinishOpen(c, o)

-----------------------------------------------------------------------------
(* The environment.                                                        *)

\* The caller drops the future of its call: no result is ever recorded.
Drop(c) ==
  /\ Cancellable
  /\ c \in inFlight
  /\ inFlight' = inFlight \ {c}
  /\ dropped' = IF state = "HalfOpen" THEN dropped + 1 ELSE dropped
  /\ UNCHANGED <<breaker, carrierFailures, admitted>>

Older(age, limit) == IF age < limit THEN age + 1 ELSE age

Tick ==
  /\ windowAge' = Older(windowAge, Window)
  /\ openAge' = IF openAge = Unset THEN Unset ELSE Older(openAge, OpenDuration)
  /\ UNCHANGED <<state, successes, failures, halfOpenCount, inFlight, history>>

Next ==
  \/ Tick
  \/ \E c \in Call :
       \/ CallClosed(c) \/ CallOpen(c) \/ CallHalfOpen(c)
       \/ Drop(c)
       \/ \E o \in Outcome : Finish(c, o)

Spec == Init /\ [][Next]_vars

-----------------------------------------------------------------------------
(* Properties.                                                             *)

\* The types, and the two facts that make sense of opened_at: an open
\* breaker has one (otherwise lib.rs would let every call through), a closed
\* one has none.
TypeOK ==
  /\ state \in {"Closed", "Open", "HalfOpen"}
  /\ successes \in Nat /\ failures \in Nat
  /\ windowAge \in 0..Window
  /\ openAge \in (0..OpenDuration) \cup {Unset}
  /\ halfOpenCount \in 0..HalfOpenProbes
  /\ inFlight \subseteq Call
  /\ carrierFailures \in Nat
  /\ admitted \in Nat /\ dropped \in Nat
  /\ state = "Closed" <=> openAge = Unset

\* While the breaker is closed, what the service returned in the current
\* window is below the tripping condition: errors and 5xx responses are all
\* seen, and closing after a trial forgets the outcomes that opened it.
ClosedMeansHealthy ==
  state = "Closed" => ~Trips(successes + failures, carrierFailures)

\* From one opening of the breaker to the next decision, the service
\* receives at most half_open_probes + 1 calls: the one that started the
\* trial and half_open_probes more.
ProbeBudget ==
  state # "Closed" => admitted <= HalfOpenProbes + 1

\* An open breaker lets nothing through before open_duration has passed,
\* and it is left only for half-open.
CoolDownRespected ==
  [][state = "Open" =>
       /\ inFlight' \subseteq inFlight \/ openAge >= OpenDuration
       /\ state' = "Open" \/ (state' = "HalfOpen" /\ openAge >= OpenDuration)]_vars

\* The breaker implements the gate that it promises to be.
Gate == INSTANCE AdmissionGate WITH
  Caller <- Call,
  Trials <- HalfOpenProbes + 1,
  gate <- CASE state = "Closed" -> "pass"
            [] state = "Open" -> "shut"
            [] OTHER -> "trial",
  budget <- IF state = "HalfOpen" THEN HalfOpenProbes - halfOpenCount ELSE 0,
  inside <- inFlight,
  cooling <- state = "Open" /\ openAge < OpenDuration

ImplementsGate == Gate!Spec

(* Recovery.  A breaker has no timer of its own: it leaves Open only when  *)
(* somebody calls, and HalfOpen only when a probe returns.  So recovery    *)
(* needs callers that keep calling, calls that return unless they are      *)
(* dropped (the gateway gives each a timeout), and, from some time on, a   *)
(* service that is well.                                                   *)

AnyCall(c) == CallClosed(c) \/ CallOpen(c) \/ CallHalfOpen(c)

Returns(c) == \E o \in Outcome : Finish(c, o)

ServiceWell == \A c \in Call : ~Finish(c, "err") /\ ~Finish(c, "bad")

RecoverySpec ==
  /\ Spec
  /\ WF_vars(Tick)
  /\ \A c \in Call : WF_vars(AnyCall(c)) /\ WF_vars(Returns(c))
  /\ <>[][ServiceWell]_vars

\* Every call of the trial was dropped by its caller: their places are not
\* given back, so the breaker rejects every call from now on.
Wedged ==
  /\ state = "HalfOpen" /\ ~ProbeLeft
  /\ inFlight = {}
  /\ dropped >= admitted

\* Once the service is well the breaker closes and stays closed, and only a
\* trial all of whose calls were dropped can keep it from that.  (The gateway drops none: it runs
\* each call in a spawned task.)
Recovers == <>[](state = "Closed" \/ Wedged)
=============================================================================

----------------------- MODULE CircuitBreaker_proofs -----------------------
(***************************************************************************)
(* Theorems about CircuitBreaker for any number of calls and any setting   *)
(* of the builder.                                                         *)
(***************************************************************************)
EXTENDS CircuitBreaker, TLAPS

\* What the counter of probes says about the calls let through since the
\* breaker last opened: none while it is open, and one more than it counts
\* while it is half-open.
ProbesCounted ==
  /\ state = "Open" => admitted = 0
  /\ state = "HalfOpen" => admitted = halfOpenCount + 1

\* One outcome always leaves a counter a natural number.
LEMMA CountersAreNat ==
  ASSUME TypeOK, NEW o \in Outcome
  PROVE  /\ NewSuccesses(o) \in Nat
         /\ NewFailures(o) \in Nat
         /\ Rotated(carrierFailures) + One(o # "ok") \in Nat
  BY DEF TypeOK, NewSuccesses, NewFailures, Rotated, One

\* Ageing keeps an age within its limit.
LEMMA OlderInRange ==
  ASSUME NEW limit \in Nat, NEW age \in 0..limit
  PROVE  Older(age, limit) \in 0..limit
  BY DEF Older

\* Recording an outcome keeps the window well typed.
LEMMA RecordTypes ==
  ASSUME TypeOK, NEW o \in Outcome, Record(o) \/ ClearWindow(o)
  PROVE  /\ successes' \in Nat /\ failures' \in Nat /\ carrierFailures' \in Nat
         /\ windowAge' \in 0..Window
  BY CountersAreNat, BreakerAssumption DEF TypeOK, Record, ClearWindow

-----------------------------------------------------------------------------

\* The invariant that carries every other result: the types and the account
\* of the probes.
BreakerInv == TypeOK /\ ProbesCounted

LEMMA BreakerInvInit == Init => BreakerInv
  BY BreakerAssumption DEF Init, BreakerInv, TypeOK, ProbesCounted, Unset

LEMMA BreakerInvStep == BreakerInv /\ [Next]_vars => BreakerInv'
<1> SUFFICES ASSUME BreakerInv, [Next]_vars PROVE BreakerInv'
  OBVIOUS
<1> USE BreakerAssumption DEF BreakerInv, ProbesCounted, Unset
<1>1. CASE Tick
  <2>1. windowAge' \in 0..Window
    BY <1>1, OlderInRange DEF TypeOK, Tick
  <2>2. openAge' \in (0..OpenDuration) \cup {Unset}
    BY <1>1, OlderInRange DEF TypeOK, Tick
  <2>3. openAge = Unset <=> openAge' = Unset
    BY <1>1, OlderInRange DEF TypeOK, Tick
  <2> QED
    BY <1>1, <2>1, <2>2, <2>3 DEF TypeOK, Tick, history
<1>2. ASSUME NEW c \in Call, CallClosed(c) PROVE BreakerInv'
  BY <1>2 DEF TypeOK, CallClosed, LetThrough
<1>3. ASSUME NEW c \in Call, CallOpen(c) PROVE BreakerInv'
  BY <1>3 DEF TypeOK, CallOpen, LetThrough
<1>4. ASSUME NEW c \in Call, CallHalfOpen(c) PROVE BreakerInv'
  BY <1>4 DEF TypeOK, CallHalfOpen, LetThrough, ProbeLeft
<1>5. ASSUME NEW c \in Call, Drop(c) PROVE BreakerInv'
  BY <1>5 DEF TypeOK, Drop, breaker, history
<1>6. ASSUME NEW c \in Call, NEW o \in Outcome, Finish(c, o) PROVE BreakerInv'
  <2>1. CASE FinishClosed(c, o)
    BY <2>1, RecordTypes DEF TypeOK, FinishClosed, Done, GoOpen
  <2>2. CASE FinishHalfOpen(c, o)
    BY <2>2, RecordTypes DEF TypeOK, FinishHalfOpen, Done, GoOpen
  <2>3. CASE FinishOpen(c, o)
    BY <2>3, RecordTypes DEF TypeOK, FinishOpen, Done
  <2> QED
    BY <1>6, <2>1, <2>2, <2>3 DEF Finish
<1>7. CASE UNCHANGED vars
  BY <1>7 DEF TypeOK, vars, breaker, history
<1> QED
  BY <1>1, <1>2, <1>3, <1>4, <1>5, <1>6, <1>7 DEF Next

\* The breaker is always in a state the code can be in, and knows how many
\* calls it let through since it opened.
THEOREM BreakerInvariant == Spec => []BreakerInv
  BY BreakerInvInit, BreakerInvStep, PTL DEF Spec

\* The state of the breaker and its counters keep their types, whatever order
\* results come back in (ecat-circuit-breaker/src/lib.rs:190-284).
THEOREM TypeCorrect == Spec => []TypeOK
<1>1. BreakerInv => TypeOK
  BY DEF BreakerInv
<1> QED BY <1>1, BreakerInvariant, PTL

\* The service behind the breaker gets at most half_open_probes + 1 calls
\* between an opening and the decision that follows it, however many callers
\* there are.
THEOREM ProbeBudgetHolds == Spec => [](TypeOK /\ ProbeBudget)
<1>1. BreakerInv => TypeOK /\ ProbeBudget
  BY BreakerAssumption DEF BreakerInv, TypeOK, ProbesCounted, ProbeBudget
<1> QED
  BY <1>1, BreakerInvariant, PTL

\* Nothing gets through an open breaker before its time, and no result that
\* comes back late, good or bad, moves it.
THEOREM CoolDownHolds == Spec => CoolDownRespected
<1> DEFINE Kept ==
      state = "Open" =>
        /\ inFlight' \subseteq inFlight \/ openAge >= OpenDuration
        /\ state' = "Open" \/ (state' = "HalfOpen" /\ openAge >= OpenDuration)
<1>1. [Next]_vars => [Kept]_vars
  <2> SUFFICES ASSUME [Next]_vars, state = "Open" PROVE Kept
    OBVIOUS
  <2>1. CASE Tick
    BY <2>1 DEF Tick
  <2>2. ASSUME NEW c \in Call, CallClosed(c) \/ CallOpen(c) \/ CallHalfOpen(c)
        PROVE  Kept
    BY <2>2 DEF CallClosed, CallOpen, CallHalfOpen, CooledDown
  <2>3. ASSUME NEW c \in Call, Drop(c) PROVE Kept
    BY <2>3 DEF Drop, breaker
  <2>4. ASSUME NEW c \in Call, NEW o \in Outcome, Finish(c, o) PROVE Kept
    BY <2>4 DEF Finish, FinishClosed, FinishHalfOpen, FinishOpen, Done
  <2>5. CASE UNCHANGED vars
    BY <2>5 DEF vars, breaker
  <2> QED
    BY <2>1, <2>2, <2>3, <2>4, <2>5 DEF Next
<1> QED
  BY <1>1, PTL DEF Spec, CoolDownRespected

-----------------------------------------------------------------------------
(* Failures are seen, provided the classify callback fits the response.    *)

\* Everything the service got wrong in the window is in the counter of
\* failures, and a closed breaker is below the tripping condition.
WindowTrue ==
  /\ carrierFailures = failures
  /\ state = "Closed" => ~Trips(successes + failures, failures)

LEMMA RecordsAlike ==
  ASSUME ClassifyType = ResponseType, WindowTrue, NEW o \in Outcome,
         Record(o) \/ ClearWindow(o)
  PROVE  carrierFailures' = failures'
  BY DEF WindowTrue, Record, ClearWindow, NewFailures, IsFailure, Classified,
         Outcome

LEMMA WindowTrueStep ==
  ASSUME ClassifyType = ResponseType, BreakerInv, WindowTrue, [Next]_vars
  PROVE  WindowTrue'
<1>1. CASE Tick
  BY <1>1 DEF Tick, history, WindowTrue, Trips
<1>2. ASSUME NEW c \in Call, CallClosed(c) \/ CallOpen(c) \/ CallHalfOpen(c)
      PROVE  WindowTrue'
  BY <1>2 DEF CallClosed, CallOpen, CallHalfOpen, LetThrough, WindowTrue, Trips
<1>3. ASSUME NEW c \in Call, Drop(c) PROVE WindowTrue'
  BY <1>3 DEF Drop, breaker, history, WindowTrue, Trips
<1>4. ASSUME NEW c \in Call, NEW o \in Outcome, Finish(c, o) PROVE WindowTrue'
  <2>1. CASE FinishClosed(c, o)
    <3>1. Record(o) /\ carrierFailures' = failures'
      BY <2>1, RecordsAlike DEF FinishClosed
    <3>2. state' = "Closed" =>
            ~Trips(NewSuccesses(o) + NewFailures(o), NewFailures(o))
      BY <2>1 DEF FinishClosed, GoOpen
    <3> QED
      BY <3>1, <3>2 DEF WindowTrue, Record, Trips
  <2>2. CASE FinishHalfOpen(c, o)
    <3>1. carrierFailures' = failures'
      BY <2>2, RecordsAlike DEF FinishHalfOpen
    <3>2. state' = "Closed" => ~Trips(successes' + failures', failures')
      BY <2>2, BreakerAssumption DEF FinishHalfOpen, GoOpen, ClearWindow, Trips
    <3> QED
      BY <3>1, <3>2 DEF WindowTrue, Trips
  <2>3. CASE FinishOpen(c, o)
    BY <2>3, RecordsAlike DEF FinishOpen, WindowTrue
  <2> QED
    BY <1>4, <2>1, <2>2, <2>3 DEF Finish
<1>5. CASE UNCHANGED vars
  BY <1>5 DEF vars, breaker, history, WindowTrue, Trips
<1> QED
  BY <1>1, <1>2, <1>3, <1>4, <1>5 DEF Next

\* A closed breaker has not been told, in the current window, of failures
\* that should have opened it: 5xx responses count like errors as long as the
\* callback was written for the type the service returns.
THEOREM ClosedMeansHealthyHolds ==
  ASSUME ClassifyType = ResponseType
  PROVE  Spec => []ClosedMeansHealthy
<1>1. Init => WindowTrue
  BY BreakerAssumption DEF Init, WindowTrue, Trips
<1>2. BreakerInv /\ WindowTrue /\ [Next]_vars => WindowTrue'
  BY WindowTrueStep
<1>3. WindowTrue => ClosedMeansHealthy
  BY DEF WindowTrue, ClosedMeansHealthy
<1> QED
  BY <1>1, <1>2, <1>3, BreakerInvariant, PTL DEF Spec

-----------------------------------------------------------------------------
(* The refinement.                                                         *)

LEMMA GateInit == Init => Gate!Init
  BY DEF Init, Gate!Init

LEMMA GateStep ==
  ASSUME BreakerInv, BreakerInv', [Next]_vars
  PROVE  [Gate!Next]_(Gate!gvars)
<1> USE BreakerAssumption DEF BreakerInv, ProbesCounted, Unset
<1>1. CASE Tick
  <2>1. UNCHANGED <<state, halfOpenCount, inFlight>>
    BY <1>1 DEF Tick
  <2>2. CASE state = "Open" /\ openAge < OpenDuration /\ ~(openAge' < OpenDuration)
    BY <2>1, <2>2 DEF Gate!Next, Gate!CoolDown
  <2>3. CASE ~(state = "Open" /\ openAge < OpenDuration /\ ~(openAge' < OpenDuration))
    <3>1. (state = "Open" /\ openAge < OpenDuration)' <=>
            (state = "Open" /\ openAge < OpenDuration)
      BY <1>1, <2>1, <2>3 DEF Tick, Older, TypeOK
    <3> QED
      BY <2>1, <3>1 DEF Gate!gvars
  <2> QED
    BY <2>2, <2>3
<1>2. ASSUME NEW c \in Call, CallClosed(c) PROVE Gate!Admit(c)
  BY <1>2 DEF CallClosed, LetThrough, Gate!Admit
<1>3. ASSUME NEW c \in Call, CallOpen(c) PROVE Gate!Admit(c)
  BY <1>3 DEF CallOpen, LetThrough, CooledDown, Gate!Admit, TypeOK
<1>4. ASSUME NEW c \in Call, CallHalfOpen(c) PROVE Gate!Admit(c)
  BY <1>4 DEF CallHalfOpen, LetThrough, ProbeLeft, Gate!Admit, TypeOK
<1>5. ASSUME NEW c \in Call, Drop(c) PROVE Gate!Leave(c)
  BY <1>5 DEF Drop, breaker, Gate!Leave
<1>6. ASSUME NEW c \in Call, NEW o \in Outcome, Finish(c, o) PROVE Gate!Leave(c)
  <2>1. CASE FinishClosed(c, o)
    BY <2>1 DEF FinishClosed, Done, GoOpen, Gate!Leave
  <2>2. CASE FinishHalfOpen(c, o)
    BY <2>2 DEF FinishHalfOpen, Done, GoOpen, Gate!Leave
  <2>3. CASE FinishOpen(c, o)
    BY <2>3 DEF FinishOpen, Done, Gate!Leave
  <2> QED
    BY <1>6, <2>1, <2>2, <2>3 DEF Finish
<1>7. CASE UNCHANGED vars
  BY <1>7 DEF vars, breaker, Gate!gvars
<1> QED
  BY <1>1, <1>2, <1>3, <1>4, <1>5, <1>6, <1>7 DEF Next, Gate!Next

\* The breaker implements the gate it promises to be: every step of its code
\* is a step of the gate, or none that a caller could notice.
THEOREM BreakerImplementsGate == Spec => ImplementsGate
<1>1. BreakerInv /\ BreakerInv' /\ [Next]_vars => [Gate!Next]_(Gate!gvars)
  BY GateStep
<1> QED
  BY GateInit, <1>1, BreakerInvariant, PTL DEF Spec, Gate!Spec, ImplementsGate
=============================================================================

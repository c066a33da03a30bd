--------------------------- MODULE PredictPathProofs ---------------------------
(***************************************************************************)
(* Proofs about CircuitBreaker, for any number of callers, any thresholds  *)
(* and any timeout, and about PredictPath, for any limits: the path of a   *)
(* request uses the breaker as CircuitBreaker says, so that its theorems   *)
(* hold of the handler, the limiter's count stays within its limit, and    *)
(* the monitor's count of active requests is exact but for dropped ones.   *)
(***************************************************************************)
EXTENDS PredictPath, FiniteSetTheorems, TLAPS

-----------------------------------------------------------------------------
\* The circuit breaker.

\* What a call's steps preserve, and reset's.
LEMMA CallStep ==
  ASSUME IInv, NEW c \in Callers, TryAcquire(c) \/ Report(c)
  PROVE  IInv'
<1> USE BreakerAssumption DEF IInv, TypeOK
<1> USE DEF TripPending, SuccessesPending, SuccessesBounded, Free, Counting
<1>1. CASE TryAcquire(c)
  BY <1>1 DEF TryAcquire
<1>2. CASE Cancel(c)
  BY <1>2 DEF Cancel
<1>3. CASE Success(c)
  <2>1. CASE SuccessClosed
    BY <1>3, <2>1 DEF Success, SuccessClosed
  <2>2. CASE SuccessCounts
    <3>1. success_count < SuccessThreshold
      BY <1>3 DEF Success
    <3>2. QED
      BY <1>3, <2>2, <3>1 DEF Success, SuccessCounts
  <2>3. CASE SuccessIgnored
    BY <1>3, <2>3 DEF Success, SuccessIgnored
  <2>4. QED
    BY <1>3, <2>1, <2>2, <2>3 DEF Success
<1>4. CASE ClearFailures(c)
  BY <1>4 DEF ClearFailures
<1>5. CASE ClearSuccesses(c)
  BY <1>5 DEF ClearSuccesses
<1>6. CASE Fail(c)
  BY <1>6 DEF Fail
<1>7. CASE Stamp(c)
  BY <1>7 DEF Stamp, None
<1>8. CASE CountFailure(c)
  BY <1>8 DEF CountFailure, Saturated
<1>9. CASE Trip(c)
  BY <1>9 DEF Trip
<1>10. QED
  BY <1>1, <1>2, <1>3, <1>4, <1>5, <1>6, <1>7, <1>8, <1>9 DEF Report, Record

LEMMA ResetStep ==
  ASSUME IInv, Reset \/ Tick \/ UNCHANGED vars
  PROVE  IInv'
<1> USE BreakerAssumption DEF IInv, TypeOK
<1> USE DEF TripPending, SuccessesPending, SuccessesBounded, Free, Counting
<1>1. CASE ResetState
  BY <1>1 DEF ResetState
<1>2. CASE ResetFailures
  BY <1>2 DEF ResetFailures
<1>3. CASE ResetSuccesses
  BY <1>3 DEF ResetSuccesses
<1>4. CASE ResetTime
  BY <1>4 DEF ResetTime, None
<1>5. CASE Tick
  BY <1>5 DEF Tick, None
<1>6. CASE UNCHANGED vars
  BY <1>6 DEF vars
<1>7. QED
  BY <1>1, <1>2, <1>3, <1>4, <1>5, <1>6 DEF Reset

LEMMA IInvInvariant ==
  Spec => []IInv
<1>1. Init => IInv
  BY BreakerAssumption DEF Init, IInv, TypeOK, TripPending, SuccessesPending,
     SuccessesBounded, Free, Counting, None
<1>2. IInv /\ [Next]_vars => IInv'
  BY CallStep, ResetStep DEF Next
<1>3. QED
  BY <1>1, <1>2, PTL DEF Spec

-----------------------------------------------------------------------------
\* The variables keep their types; in particular success_count never passes
\* its threshold, although on_failure and reset clear it outside the mutex.
THEOREM TypeCorrect ==
  Spec => []TypeOK
<1>1. IInv => TypeOK
  BY DEF IInv
<1>2. QED
  BY <1>1, IInvInvariant, PTL

\* The threshold is never missed and no half-open period leaves successes
\* behind: the property the comment of on_success is about (101-107).
THEOREM ClosedCorrect ==
  Spec => []ClosedIsClean
<1>1. IInv => ClosedIsClean
  BY BreakerAssumption DEF IInv, TypeOK, TripPending, SuccessesPending, Free, Counting,
     ClosedIsClean
<1>2. QED
  BY <1>1, IInvInvariant, PTL

\* reset() aside, an open circuit has the time of a failure to wait for, so
\* that try_acquire is able to let a call through (71-88, 126-150).
THEOREM OpenIsTimed ==
  ASSUME Resets = FALSE
  PROVE  Spec => []OpenHasFailure
<1>1. Init => FailureStamped
  BY DEF Init, FailureStamped
<1>2. TypeOK /\ FailureStamped /\ [Next]_vars => FailureStamped'
  <2>1. SUFFICES ASSUME TypeOK, FailureStamped, [Next]_vars
                 PROVE  FailureStamped'
    OBVIOUS
  <2> USE BreakerAssumption DEF TypeOK, FailureStamped, None
  <2>2. ASSUME NEW c \in Callers, TryAcquire(c) \/ Cancel(c)
        PROVE  FailureStamped'
    BY <2>1, <2>2 DEF TryAcquire, Cancel
  <2>3. ASSUME NEW c \in Callers, Success(c)
        PROVE  FailureStamped'
    BY <2>1, <2>3 DEF Success, SuccessClosed, SuccessCounts, SuccessIgnored
  <2>4. ASSUME NEW c \in Callers, ClearFailures(c) \/ ClearSuccesses(c)
        PROVE  FailureStamped'
    BY <2>1, <2>4 DEF ClearFailures, ClearSuccesses
  <2>5. ASSUME NEW c \in Callers, Fail(c) \/ Stamp(c)
        PROVE  FailureStamped'
    BY <2>1, <2>5 DEF Fail, Stamp
  <2>6. ASSUME NEW c \in Callers, CountFailure(c) \/ Trip(c)
        PROVE  FailureStamped'
    BY <2>1, <2>6 DEF CountFailure, Trip
  <2>7. CASE Reset
    <3>1. reset = "idle"
      BY <2>1
    <3>2. ~ ResetState
      BY Zenon DEF ResetState
    <3>3. QED
      BY <2>7, <3>1, <3>2 DEF Reset, ResetFailures, ResetSuccesses, ResetTime
  <2>8. CASE Tick
    <3>1. last_failure' # None
      BY <2>1, <2>8 DEF Tick
    <3>2. QED
      BY <2>1, <2>8, <3>1 DEF Tick
  <2>9. CASE UNCHANGED vars
    BY <2>1, <2>9 DEF vars
  <2>10. QED
    BY <2>1, <2>2, <2>3, <2>4, <2>5, <2>6, <2>7, <2>8, <2>9 DEF Next, Report, Record
<1>3. FailureStamped => OpenHasFailure
  BY DEF FailureStamped, OpenHasFailure
<1>4. QED
  BY <1>1, <1>2, <1>3, TypeCorrect, PTL DEF Spec

-----------------------------------------------------------------------------
\* The path of a request.

\* The steps of a request that leave the breaker alone.
Quiet(c) == Arrive(c) \/ Check(c) \/ Miss(c) \/ Insert(c) \/ Body(c) \/ Lookup(c)
            \/ Refuse(c) \/ Store(c) \/ End(c)

LEMMA PathStep ==
  ASSUME PathNext
  PROVE  \/ \E c \in Callers : Quiet(c) \/ Admit(c) \/ Answered(c) \/ Drop(c)
         \/ SweepBegin \/ (\E a \in Addresses : Sweep(a)) \/ Pass
BY DEF PathNext, Handle, Quiet

\* Every step of the path is a step of the breaker or leaves it alone.
THEOREM PathUsesBreaker == PathSpec => Spec
<1>1. PathInit => Init
  BY DEF PathInit
<1>2. ASSUME [PathNext]_allVars PROVE [Next]_vars
  <2>1. ASSUME NEW c \in Callers, Quiet(c) PROVE UNCHANGED vars
    BY <2>1 DEF Quiet, Arrive, Check, Miss, Insert, Body, Lookup, Refuse, Store, End,
       Granted, Leaves
  <2>2. ASSUME NEW c \in Callers, Admit(c) \/ Answered(c) \/ Drop(c) PROVE [Next]_vars
    BY <2>2 DEF Admit, Answered, Drop, Next, Report
  <2>3. CASE SweepBegin \/ \E a \in Addresses : Sweep(a)
    BY <2>3 DEF SweepBegin, Sweep
  <2>4. CASE Pass
    BY <2>4 DEF Pass, Next
  <2>5. CASE UNCHANGED allVars
    BY <2>5 DEF allVars
  <2>6. QED
    BY <1>2, <2>1, <2>2, <2>3, <2>4, <2>5, PathStep
<1>3. QED
  BY <1>1, <1>2, PTL DEF PathSpec, Spec

\* On the way of a request, too, an open circuit has the time of a failure to wait
\* for (circuit_breaker.rs 128-150): the server never calls reset().
THEOREM PathOpenIsTimed ==
  ASSUME Resets = FALSE
  PROVE  PathSpec => []OpenHasFailure
BY PathUsesBreaker, OpenIsTimed

-----------------------------------------------------------------------------
Stages  == Limiting \cup Missed
           \cup {"none", "body", "lookup", "breaker", "engine", "store", "answer"}
StageOK == stage \in [Callers -> Stages] /\ fresh \in [Callers -> BOOLEAN] /\ cached \in BOOLEAN
LimitOK ==
  /\ behind \in [Callers -> 0..1]
  /\ count \in [Addresses -> 0..MaxRequests]
  /\ since \in [Addresses -> -1..(2 * Window + 1)]
  /\ \A a \in Addresses : (count[a] = 0) = (since[a] = NoEntry)
  /\ unswept \subseteq Addresses /\ lateness \in 0..1
CountOK == ActiveIsExplained /\ dropped \in 0..MaxDropped

LEMMA StageStep == StageOK /\ [PathNext]_allVars => StageOK'
<1>1. SUFFICES ASSUME StageOK, [PathNext]_allVars PROVE StageOK'
  OBVIOUS
<1>2. ASSUME NEW to \in Stages, NEW c \in Callers, stage' = [stage EXCEPT ![c] = to]
      PROVE  stage' \in [Callers -> Stages]
  BY <1>1, <1>2 DEF StageOK
<1>3. ASSUME NEW c \in Callers PROVE After(c) \in Stages
  BY DEF After, Stages
<1>4. ASSUME NEW c \in Callers, Check(c) \/ Insert(c) PROVE StageOK'
  BY <1>1, <1>2, <1>3, <1>4 DEF Check, Insert, Granted, Leaves, Stages, StageOK
<1>5. ASSUME NEW c \in Callers, Miss(c) PROVE StageOK'
  <2>1. Missing(stage[c]) \in Stages
    BY <1>5 DEF Miss, Stages, Missed
  <2>2. QED
    BY <1>1, <1>2, <1>5, <2>1 DEF Miss, StageOK
<1>6. ASSUME NEW c \in Callers,
             Arrive(c) \/ Body(c) \/ Lookup(c) \/ Refuse(c) \/ Store(c) \/ End(c)
      PROVE  StageOK'
  BY <1>1, <1>6 DEF Arrive, Body, Lookup, Refuse, Store, End, StageOK, Stages, Limiting
<1>7. ASSUME NEW c \in Callers, Admit(c) \/ Answered(c) \/ Drop(c) PROVE StageOK'
  BY <1>1, <1>7 DEF Admit, Answered, Drop, StageOK, Stages
<1>8. CASE SweepBegin \/ (\E a \in Addresses : Sweep(a)) \/ UNCHANGED allVars
  BY <1>1, <1>8 DEF SweepBegin, Sweep, allVars, pathVars, StageOK
<1>9. CASE Pass
  BY <1>1, <1>9 DEF Pass, TimePasses, StageOK
<1>10. QED
  BY <1>1, <1>4, <1>5, <1>6, <1>7, <1>8, <1>9, PathStep DEF Quiet

\* The limit holds although the first entry is inserted without looking again.
LEMMA LimitStep == LimitOK /\ [PathNext]_allVars => LimitOK'
<1>1. SUFFICES ASSUME LimitOK, [PathNext]_allVars PROVE LimitOK'
  OBVIOUS
<1> USE PathAssumption DEF LimitOK, NoEntry, Window
<1>2. ASSUME NEW c \in Callers, NEW n \in 1..MaxRequests,
             NEW age \in 0..(2 * Window + 1), Granted(c, n, age)
      PROVE  LimitOK'
  <2>1. Key(c) \in Addresses
    BY DEF Key
  <2>2. /\ count' \in [Addresses -> 0..MaxRequests]
        /\ since' \in [Addresses -> -1..(2 * Window + 1)]
    BY <1>1, <1>2, <2>1 DEF Granted
  <2>3. \A a \in Addresses : (count'[a] = 0) = (since'[a] = NoEntry)
    BY <1>1, <1>2, <2>1 DEF Granted
  <2>4. behind' \in [Callers -> 0..1] /\ UNCHANGED sweepVars
    BY <1>1, <1>2 DEF Granted, Leaves
  <2>5. QED
    BY <1>1, <2>2, <2>3, <2>4 DEF sweepVars
<1>3. ASSUME NEW c \in Callers, Check(c) \/ Insert(c) PROVE LimitOK'
  <2>1. Key(c) \in Addresses /\ behind[c] \in 0..1
    BY <1>1 DEF Key
  <2>2. count[Key(c)] \in 0..MaxRequests /\ since[Key(c)] \in -1..(2 * Window + 1)
    BY <1>1, <2>1
  <2>3. CASE Granted(c, 1, behind[c])
    BY <1>2, <2>1, <2>3
  <2>4. CASE /\ since[Key(c)] # NoEntry /\ count[Key(c)] < MaxRequests
             /\ Granted(c, count[Key(c)] + 1, since[Key(c)])
    BY <1>2, <2>2, <2>4
  <2>5. CASE Leaves(c, "answer") /\ UNCHANGED limitVars
    BY <1>1, <2>5 DEF Leaves, limitVars, sweepVars
  <2>6. QED
    BY <1>3, <2>3, <2>4, <2>5 DEF Check, Insert
<1>4. ASSUME NEW c \in Callers,
             \/ Arrive(c) \/ Miss(c) \/ Body(c) \/ Lookup(c) \/ Refuse(c) \/ Store(c)
             \/ End(c) \/ Admit(c) \/ Answered(c) \/ Drop(c)
      PROVE  UNCHANGED <<behind, limitVars, sweepVars>>
  BY <1>4 DEF Arrive, Miss, Body, Lookup, Refuse, Store, End, Admit, Answered, Drop
<1>5. CASE UNCHANGED <<behind, limitVars, sweepVars>>
  BY <1>1, <1>5 DEF limitVars, sweepVars
<1>6. CASE SweepBegin
  BY <1>1, <1>6 DEF SweepBegin, limitVars
<1>7. ASSUME NEW a \in Addresses, Sweep(a) PROVE LimitOK'
  <2>1. /\ behind' = behind /\ unswept' \subseteq Addresses /\ lateness' \in 0..1
    BY <1>1, <1>7 DEF Sweep
  <2>2. CASE UNCHANGED limitVars
    BY <1>1, <2>1, <2>2 DEF limitVars
  <2>3. CASE /\ count' = [count EXCEPT ![a] = 0]
             /\ since' = [since EXCEPT ![a] = NoEntry]
    BY <1>1, <2>1, <2>3
  <2>4. QED
    BY <1>7, <2>2, <2>3 DEF Sweep
<1>8. CASE Pass
  BY <1>1, <1>8 DEF Pass
<1>9. CASE UNCHANGED allVars
  BY <1>5, <1>9 DEF allVars, pathVars
<1>10. QED
  BY <1>1, <1>3, <1>4, <1>5, <1>6, <1>7, <1>8, <1>9, PathStep DEF Quiet

-----------------------------------------------------------------------------
\* Requests enter the count as they leave "none" and leave it as they come back.
LEMMA CountStep == StageOK /\ CountOK /\ [PathNext]_allVars => CountOK'
<1>1. SUFFICES ASSUME StageOK, CountOK, [PathNext]_allVars PROVE CountOK'
  OBVIOUS
<1>2. /\ IsFiniteSet(InFlight) /\ Cardinality(InFlight) \in Nat
      /\ active = Cardinality(InFlight) + dropped /\ dropped \in 0..MaxDropped
  <2>1. IsFiniteSet(InFlight)
    BY PathAssumption, FS_Subset DEF InFlight
  <2>2. QED
    BY <1>1, <2>1, FS_CardinalityType DEF CountOK, ActiveIsExplained
<1>3. ASSUME InFlight' = InFlight, UNCHANGED <<active, dropped>> PROVE CountOK'
  BY <1>2, <1>3 DEF CountOK, ActiveIsExplained
<1>4. ASSUME NEW c \in Callers, Arrive(c) PROVE CountOK'
  <2>1. InFlight' = InFlight \cup {c} /\ c \notin InFlight
    BY <1>1, <1>4 DEF Arrive, InFlight, StageOK
  <2>2. Cardinality(InFlight') = Cardinality(InFlight) + 1
    BY <1>2, <2>1, FS_AddElement
  <2>3. active' = active + 1 /\ dropped' = dropped
    BY <1>4 DEF Arrive
  <2>4. QED
    BY <1>2, <2>2, <2>3 DEF CountOK, ActiveIsExplained
<1>5. ASSUME NEW c \in Callers, End(c) \/ Drop(c) PROVE CountOK'
  <2>1. InFlight' = InFlight \ {c} /\ c \in InFlight
    BY <1>1, <1>5 DEF End, Drop, InFlight, StageOK
  <2>2. Cardinality(InFlight') = Cardinality(InFlight) - 1 /\ Cardinality(InFlight) > 0
    BY <1>2, <2>1, FS_RemoveElement, FS_EmptySet
  <2>3. \/ active' = active - 1 /\ dropped' = dropped
        \/ active' = active /\ dropped' = dropped + 1 /\ dropped < MaxDropped
    BY <1>5 DEF End, Drop
  <2>4. QED
    BY <1>2, <2>2, <2>3, PathAssumption DEF CountOK, ActiveIsExplained
<1>6. ASSUME NEW c \in Callers, stage[c] # "none",
             NEW to, to # "none", stage' = [stage EXCEPT ![c] = to]
      PROVE  InFlight' = InFlight
  BY <1>1, <1>6 DEF InFlight, StageOK
<1>7. ASSUME NEW c \in Callers, Check(c) \/ Insert(c) PROVE CountOK'
  BY <1>3, <1>6, <1>7 DEF Check, Insert, Granted, Leaves, After, Limiting, Missed, Missing
<1>8. ASSUME NEW c \in Callers, Miss(c) PROVE CountOK'
  BY <1>3, <1>6, <1>8 DEF Miss, Limiting, Missing
<1>9. ASSUME NEW c \in Callers,
             Body(c) \/ Lookup(c) \/ Refuse(c) \/ Store(c) \/ Admit(c)
      PROVE  CountOK'
  BY <1>3, <1>6, <1>9 DEF Body, Lookup, Refuse, Store, Admit
<1>10. ASSUME NEW c \in Callers, Answered(c) PROVE CountOK'
  BY <1>3, <1>6, <1>10 DEF Answered
<1>11. CASE \/ SweepBegin \/ (\E a \in Addresses : Sweep(a)) \/ Pass
            \/ UNCHANGED allVars
  BY <1>3, <1>11 DEF SweepBegin, Sweep, Pass, allVars, pathVars, InFlight
<1>12. QED
  BY <1>1, <1>4, <1>5, <1>7, <1>8, <1>9, <1>10, <1>11, PathStep DEF Quiet

LEMMA PathInvariant == PathSpec => [](StageOK /\ LimitOK /\ CountOK)
<1>1. PathInit => StageOK
  BY DEF PathInit, StageOK, Stages
<1>2. PathInit => LimitOK
  BY PathAssumption DEF PathInit, LimitOK, NoEntry, Window
<1>3. PathInit => CountOK
  <2>1. PathInit => InFlight = {} /\ active = 0 /\ dropped = 0
    BY DEF PathInit, InFlight
  <2>2. QED
    BY <2>1, FS_EmptySet, PathAssumption DEF CountOK, ActiveIsExplained
<1>4. QED
  BY <1>1, <1>2, <1>3, StageStep, LimitStep, CountStep, PTL DEF PathSpec

\* The active count never drifts, but by the requests whose future was dropped
\* (request_logger.rs 95-140).
THEOREM ActiveCorrect == PathSpec => []ActiveIsExplained
<1>1. CountOK => ActiveIsExplained
  BY DEF CountOK
<1>2. QED
  BY <1>1, PathInvariant, PTL

\* No count of the limiter passes its limit, and no entry is empty (49-82), whatever
\* addresses the two checks count by.
THEOREM PathTypeCorrect == PathSpec => []PathTypeOK
<1>1. TypeOK /\ StageOK /\ LimitOK /\ CountOK => PathTypeOK
  <2>1. SUFFICES ASSUME TypeOK, StageOK, LimitOK, CountOK PROVE PathTypeOK
    OBVIOUS
  <2>2. Cardinality(InFlight) \in Nat
    BY PathAssumption, FS_Subset, FS_CardinalityType DEF InFlight
  <2>3. active \in Nat /\ dropped \in 0..MaxDropped
    BY <2>1, <2>2, PathAssumption DEF CountOK, ActiveIsExplained
  <2>4. QED
    BY <2>1, <2>3 DEF PathTypeOK, StageOK, Stages, LimitOK
<1>2. QED
  BY <1>1, PathInvariant, PathUsesBreaker, TypeCorrect, PTL
=============================================================================

---------------------------- MODULE CircuitBreaker ----------------------------
(***************************************************************************)
(* The circuit breaker of the /predict handler                             *)
(* (src/src/resilience/circuit_breaker.rs, src/src/api/handlers.rs).       *)
(* Only the state is behind the mutex; the two counters and the time of    *)
(* the last failure are atomics, some of them written outside it.  One     *)
(* action is one access to shared memory, except where the mutex covers    *)
(* all that other threads could see.                                       *)
(*                                                                         *)
(* last_failure is the age of the last failure in ticks, saturating at the *)
(* timeout; failure_count saturates at its threshold, the only value it is *)
(* compared with.                                                          *)
(***************************************************************************)
EXTENDS Integers

CONSTANTS
  Callers,                            \* tasks that run the handler
  FailureThreshold, SuccessThreshold, \* the fields of CircuitBreakerConfig
  Timeout,                            \* config.timeout, in ticks
  Resets                              \* whether reset() is ever called

ASSUME BreakerAssumption ==
  /\ FailureThreshold \in Nat \ {0} /\ SuccessThreshold \in Nat \ {0}
  /\ Timeout \in Nat
  /\ Resets \in BOOLEAN

VARIABLES
  state,
  failure_count, success_count, last_failure,
  pc,     \* per caller: where it is in the handler or in a report
  seen,   \* per caller: failure_count, the local of on_failure
  reset   \* where reset() is

vars == <<state, failure_count, success_count, last_failure, pc, seen, reset>>

None == -1      \* no recorded failure

Saturated(n) == IF n < FailureThreshold THEN n ELSE FailureThreshold

\* The mutex is free: only a success that closes the circuit holds it for
\* longer than one step.
Free == \A c \in Callers : pc[c] \notin {"closing", "closed"}

Init ==
  /\ state = "Closed"
  /\ failure_count = 0 /\ success_count = 0
  /\ last_failure = None
  /\ pc = [c \in Callers |-> "idle"]
  /\ seen = [c \in Callers |-> 0]
  /\ reset = "idle"

-----------------------------------------------------------------------------
\* try_acquire: the call is admitted unless the circuit is open and the last
\* failure is too recent or not recorded.  A rejected caller changes nothing.
TryAcquire(c) ==
  /\ pc[c] = "idle" /\ Free
  /\ state = "Open" => last_failure # None /\ last_failure >= Timeout
  /\ state' = IF state = "Open" THEN "HalfOpen" ELSE state
  /\ pc' = [pc EXCEPT ![c] = "running"]
  /\ UNCHANGED <<failure_count, success_count, last_failure, seen, reset>>

\* The handler's future is dropped while it awaits the engine: no report.
Cancel(c) ==
  /\ pc[c] = "running"
  /\ pc' = [pc EXCEPT ![c] = "idle"]
  /\ UNCHANGED <<state, failure_count, success_count, last_failure, seen, reset>>

-----------------------------------------------------------------------------
\* record_success, after a result and after a client's error too, by the state
\* of the circuit.
SuccessClosed ==
  /\ state = "Closed"
  /\ failure_count' = 0
  /\ UNCHANGED <<state, success_count>>

SuccessCounts ==
  /\ state = "HalfOpen"
  /\ success_count' = success_count + 1
  /\ state' = IF success_count' >= SuccessThreshold THEN "Closed" ELSE "HalfOpen"
  /\ UNCHANGED failure_count

SuccessIgnored ==
  /\ state = "Open"
  /\ UNCHANGED <<state, failure_count, success_count>>

Success(c) ==
  /\ pc[c] = "running" /\ Free
  /\ SuccessClosed \/ SuccessCounts \/ SuccessIgnored
  /\ pc' = [pc EXCEPT ![c] = IF state' # state THEN "closing" ELSE "idle"]
  /\ UNCHANGED <<last_failure, seen, reset>>

\* The two counters are cleared one after the other, under the mutex.
ClearFailures(c) ==
  /\ pc[c] = "closing"
  /\ failure_count' = 0
  /\ pc' = [pc EXCEPT ![c] = "closed"]
  /\ UNCHANGED <<state, success_count, last_failure, seen, reset>>

ClearSuccesses(c) ==
  /\ pc[c] = "closed"
  /\ success_count' = 0
  /\ pc' = [pc EXCEPT ![c] = "idle"]
  /\ UNCHANGED <<state, failure_count, last_failure, seen, reset>>

-----------------------------------------------------------------------------
\* record_failure: three atomic writes before the mutex is taken.  The time of
\* the failure is taken and stored in one step.
Fail(c) ==
  /\ pc[c] = "running"
  /\ success_count' = 0
  /\ pc' = [pc EXCEPT ![c] = "failing"]
  /\ UNCHANGED <<state, failure_count, last_failure, seen, reset>>

\* Planted defect: only the failure that opens the circuit would be stamped.
StampNot(c) ==
  /\ pc[c] = "failing"
  /\ pc' = [pc EXCEPT ![c] = "stamped"]
  /\ UNCHANGED <<state, failure_count, success_count, last_failure, seen, reset>>

Stamp(c) ==
  /\ pc[c] = "failing"
  /\ last_failure' = 0
  /\ pc' = [pc EXCEPT ![c] = "stamped"]
  /\ UNCHANGED <<state, failure_count, success_count, seen, reset>>

\* Planted defect: fetch_add's result is taken for the new value.
CountFailureOld(c) ==
  /\ pc[c] = "stamped"
  /\ failure_count' = Saturated(failure_count + 1)
  /\ seen' = [seen EXCEPT ![c] = failure_count]
  /\ pc' = [pc EXCEPT ![c] = "counted"]
  /\ UNCHANGED <<state, success_count, last_failure, reset>>

CountFailure(c) ==
  /\ pc[c] = "stamped"
  /\ failure_count' = Saturated(failure_count + 1)
  /\ seen' = [seen EXCEPT ![c] = failure_count']
  /\ pc' = [pc EXCEPT ![c] = "counted"]
  /\ UNCHANGED <<state, success_count, last_failure, reset>>

Trip(c) ==
  /\ pc[c] = "counted" /\ Free
  /\ state' = IF state = "HalfOpen" \/ seen[c] >= FailureThreshold THEN "Open" ELSE state
  /\ seen' = [seen EXCEPT ![c] = 0]
  /\ pc' = [pc EXCEPT ![c] = "idle"]
  /\ UNCHANGED <<failure_count, success_count, last_failure, reset>>

-----------------------------------------------------------------------------
\* reset(): the mutex covers the state only.
ResetState ==
  /\ Resets /\ reset = "idle" /\ Free
  /\ state' = "Closed"
  /\ reset' = "state"
  /\ UNCHANGED <<failure_count, success_count, last_failure, pc, seen>>

ResetFailures ==
  /\ reset = "state"
  /\ failure_count' = 0
  /\ reset' = "failures"
  /\ UNCHANGED <<state, success_count, last_failure, pc, seen>>

ResetSuccesses ==
  /\ reset = "failures"
  /\ success_count' = 0
  /\ reset' = "successes"
  /\ UNCHANGED <<state, failure_count, last_failure, pc, seen>>

ResetTime ==
  /\ reset = "successes"
  /\ last_failure' = None
  /\ reset' = "idle"
  /\ UNCHANGED <<state, failure_count, success_count, pc, seen>>

Tick ==
  /\ last_failure # None
  /\ last_failure < Timeout
  /\ last_failure' = last_failure + 1
  /\ UNCHANGED <<state, failure_count, success_count, pc, seen, reset>>

-----------------------------------------------------------------------------
Record(c) == \/ Success(c) \/ ClearFailures(c) \/ ClearSuccesses(c)
             \/ Fail(c) \/ Stamp(c) \/ CountFailure(c) \/ Trip(c)

Report(c) == Cancel(c) \/ Record(c)

Reset == ResetState \/ ResetFailures \/ ResetSuccesses \/ ResetTime

Next == \/ \E c \in Callers : TryAcquire(c) \/ Report(c)
        \/ Reset
        \/ Tick

Spec == Init /\ [][Next]_vars

-----------------------------------------------------------------------------
TypeOK ==
  /\ state \in {"Closed", "Open", "HalfOpen"}
  /\ failure_count \in 0..FailureThreshold
  /\ success_count \in 0..SuccessThreshold
  /\ last_failure \in -1..Timeout
  /\ pc \in [Callers -> {"idle", "running", "closing", "closed",
                         "failing", "stamped", "counted"}]
  /\ seen \in [Callers -> 0..FailureThreshold]
  /\ reset \in {"idle", "state", "failures", "successes"}

Counting == {c \in Callers : pc[c] = "counted"}

\* Whatever the order of the unlocked writes, once no failure is waiting for
\* the mutex and no reset is going on, a closed circuit has not reached its
\* threshold and keeps nothing of an earlier half-open period (100-124,
\* 126-150).
ClosedIsClean ==
  state = "Closed" /\ Counting = {} /\ Free /\ reset = "idle"
    => failure_count < FailureThreshold /\ success_count = 0

\* Where reset() is never called, an open circuit has the time of a failure to
\* wait for (128-150), without which try_acquire (75-79) would reject for ever.
\* A reset that races with a failure breaks this: its last store (160-162)
\* comes after the mutex has been released.
OpenHasFailure ==
  state = "Open" /\ reset = "idle" => last_failure # None

\* An open circuit lets a call through again, however its failures were
\* interleaved: the state machine has no end.
Recovers == state = "Open" ~> state = "HalfOpen"

-----------------------------------------------------------------------------
\* Why ClosedIsClean is inductive.  A count at the threshold is carried to the
\* mutex by the caller that made it, or the circuit is not closed.
TripPending ==
  state = "Closed" /\ failure_count >= FailureThreshold
    => \/ \E c \in Counting : seen[c] >= FailureThreshold
       \/ \E c \in Callers : pc[c] = "closing"
       \/ reset = "state"

\* Successes are counted in a half-open period only.
SuccessesPending ==
  state = "Closed" /\ success_count > 0
    => ~ Free \/ reset \in {"state", "failures"}

\* Only a caller that is closing the circuit leaves the count at its threshold.
SuccessesBounded == Free => success_count < SuccessThreshold

IInv == TypeOK /\ TripPending /\ SuccessesPending /\ SuccessesBounded

\* Without reset(), a failure on its way to the mutex has left its time.
FailureStamped ==
  /\ reset = "idle"
  /\ state = "Open" \/ (\E c \in Callers : pc[c] \in {"stamped", "counted"})
       => last_failure # None

=============================================================================

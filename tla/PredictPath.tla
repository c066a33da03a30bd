----------------------------- MODULE PredictPath -----------------------------
(***************************************************************************)
(* Requests to /predict on their way through the server: the request       *)
(* logger and its monitor, the rate limiter (as middleware, by the address *)
(* that a proxy forwards, and again in the handler, by that of the peer),  *)
(* the body, the deduplication cache, the circuit breaker and the engine.  *)
(* The requests are authorised and well-formed, and all ask for the same   *)
(* model with the same input.                                              *)
(*                                                                         *)
(* A tick is one window: of the limiter, of the deduplication key and, as  *)
(* often as Timeout says, of the breaker.  A handler reads the clock when  *)
(* it enters the limiter, so it may be behind the entry it then finds.     *)
(***************************************************************************)
EXTENDS CircuitBreaker, FiniteSets

CONSTANTS
  Addresses,      \* the keys of the rate limiter
  RealIp, Peer,   \* per caller: its key in the middleware and in the handler
  MaxRequests,    \* RateLimiter.max_requests
  MaxDropped      \* bound: requests whose future is dropped

ASSUME PathAssumption ==
  /\ IsFiniteSet(Callers)
  /\ RealIp \in [Callers -> Addresses] /\ Peer \in [Callers -> Addresses]
  /\ MaxRequests \in Nat \ {0} /\ MaxDropped \in Nat

VARIABLES
  stage,        \* per caller: where its request is
  behind,       \* per caller in the limiter: ticks since it read the clock
  fresh,        \* per caller: its deduplication key is that of this window
  count, since, \* per address, the limiter's entry: count and age; NoEntry
  unswept,      \* the addresses a clean-up has still to visit
  lateness,     \* ticks since that clean-up read the clock
  cached,       \* the deduplicator has a valid result for this window's key
  active,       \* monitor.active_requests
  dropped       \* requests dropped so far

limitVars == <<count, since>>
sweepVars == <<unswept, lateness>>
pathVars  == <<stage, behind, fresh, limitVars, sweepVars, cached, active, dropped>>
allVars   == <<vars, pathVars>>

Limiting == {"middleware", "handler"}      \* it has read the clock
Missing(s) == IF s = "middleware" THEN "middleware, no entry" ELSE "handler, no entry"
Missed   == {Missing(s) : s \in Limiting}
NoEntry  == -1
Window   == 1

PathInit ==
  /\ Init
  /\ stage = [c \in Callers |-> "none"]
  /\ behind = [c \in Callers |-> 0] /\ fresh = [c \in Callers |-> FALSE]
  /\ count = [a \in Addresses |-> 0] /\ since = [a \in Addresses |-> NoEntry]
  /\ unswept = {} /\ lateness = 0
  /\ cached = FALSE /\ active = 0 /\ dropped = 0

\* A request arrives: the logger counts it, and it enters the limiter.
Arrive(c) ==
  /\ stage[c] = "none"
  /\ active' = active + 1
  /\ stage' = [stage EXCEPT ![c] = "middleware"]
  /\ UNCHANGED <<vars, behind, fresh, limitVars, sweepVars, cached, dropped>>

InMiddleware(c) == stage[c] \in {"middleware", Missing("middleware")}
Key(c)   == IF InMiddleware(c) THEN RealIp[c] ELSE Peer[c]

\* What follows a grant: the body after the middleware's, the deduplicator after
\* the handler's.  What follows a refusal is the answer.
After(c) == IF InMiddleware(c) THEN "body" ELSE "lookup"

Leaves(c, to) ==
  /\ stage' = [stage EXCEPT ![c] = to]
  /\ behind' = [behind EXCEPT ![c] = 0]
  /\ UNCHANGED <<vars, fresh, sweepVars, cached, active, dropped>>

\* Planted defect: every refused request would begin the window anew.
ExpiredNever(c) == since[Key(c)] - behind[c] > 2 * Window + 1

\* now - timestamp > window_seconds, in u64: an entry that is newer than the
\* clock that was read is taken for one that is very old.
Expired(c) == since[Key(c)] - behind[c] > Window \/ since[Key(c)] < behind[c]

Granted(c, n, age) ==
  /\ count' = [count EXCEPT ![Key(c)] = n]
  /\ since' = [since EXCEPT ![Key(c)] = age]
  /\ Leaves(c, After(c))

\* Planted defect: the limit is compared after the increment.
CheckOver(c) ==
  /\ stage[c] \in Limiting /\ since[Key(c)] # NoEntry
  /\ ~Expired(c) /\ count[Key(c)] <= MaxRequests
  /\ Granted(c, count[Key(c)] + 1, since[Key(c)])

\* is_allowed where the entry exists, under its lock.
Check(c) ==
  /\ stage[c] \in Limiting /\ since[Key(c)] # NoEntry
  /\ \/ Expired(c) /\ Granted(c, 1, behind[c])
     \/ /\ ~Expired(c) /\ count[Key(c)] < MaxRequests
        /\ Granted(c, count[Key(c)] + 1, since[Key(c)])
     \/ /\ ~Expired(c) /\ count[Key(c)] = MaxRequests
        /\ Leaves(c, "answer") /\ UNCHANGED limitVars

\* Where it does not, the lookup and the insertion are two steps.
Miss(c) ==
  /\ stage[c] \in Limiting /\ since[Key(c)] = NoEntry
  /\ stage' = [stage EXCEPT ![c] = Missing(@)]
  /\ UNCHANGED <<vars, behind, fresh, limitVars, sweepVars, cached, active, dropped>>

Insert(c) == stage[c] \in Missed /\ Granted(c, 1, behind[c])

\* The body has arrived: the handler begins, with its limiter.
Body(c) ==
  /\ stage[c] = "body"
  /\ stage' = [stage EXCEPT ![c] = "handler"]
  /\ UNCHANGED <<vars, behind, fresh, limitVars, sweepVars, cached, active, dropped>>

\* cleanup_old_entries reads the clock, and then goes from entry to entry.
SweepBegin ==
  /\ unswept = {} /\ unswept' = Addresses
  /\ UNCHANGED <<vars, stage, behind, fresh, limitVars, lateness, cached, active, dropped>>

\* It subtracts in u64 too.
Outdated(a) == since[a] - lateness >= 2 * Window \/ since[a] < lateness

Sweep(a) ==
  /\ a \in unswept /\ unswept' = unswept \ {a}
  /\ lateness' = IF unswept' = {} THEN 0 ELSE lateness
  /\ IF since[a] # NoEntry /\ Outdated(a)
     THEN /\ count' = [count EXCEPT ![a] = 0]
          /\ since' = [since EXCEPT ![a] = NoEntry]
     ELSE UNCHANGED limitVars
  /\ UNCHANGED <<vars, stage, behind, fresh, cached, active, dropped>>

-----------------------------------------------------------------------------
\* generate_key and get.
Lookup(c) ==
  /\ stage[c] = "lookup"
  /\ stage' = [stage EXCEPT ![c] = IF cached THEN "answer" ELSE "breaker"]
  /\ fresh' = [fresh EXCEPT ![c] = ~cached]
  /\ UNCHANGED <<vars, behind, limitVars, sweepVars, cached, active, dropped>>

Admit(c) ==
  /\ stage[c] = "breaker" /\ TryAcquire(c)
  /\ stage' = [stage EXCEPT ![c] = "engine"]
  /\ UNCHANGED <<behind, fresh, limitVars, sweepVars, cached, active, dropped>>

\* 503: the circuit is open.
Refuse(c) ==
  /\ stage[c] = "breaker" /\ Free /\ state = "Open" /\ last_failure < Timeout
  /\ stage' = [stage EXCEPT ![c] = "answer"]
  /\ UNCHANGED <<vars, behind, fresh, limitVars, sweepVars, cached, active, dropped>>

\* The engine has answered: the report to the breaker, then the answer, by way
\* of the cache where there is a result.
Answered(c) ==
  /\ stage[c] = "engine" /\ Record(c)
  /\ \E to \in {"store", "answer"} :
       stage' = [stage EXCEPT ![c] =
         IF pc'[c] # "idle" THEN "engine"
         ELSE IF pc[c] = "counted" THEN "answer" ELSE to]
  /\ UNCHANGED <<behind, fresh, limitVars, sweepVars, cached, active, dropped>>

\* deduplicator.set, under the key of the window in which the request came.
Store(c) ==
  /\ stage[c] = "store"
  /\ cached' = (cached \/ fresh[c])
  /\ stage' = [stage EXCEPT ![c] = "answer"]
  /\ UNCHANGED <<vars, behind, fresh, limitVars, sweepVars, active, dropped>>

\* The client has gone while the body or the engine is awaited: no report, and
\* no record_request_end.
Drop(c) ==
  /\ \/ stage[c] = "body" /\ UNCHANGED vars
     \/ stage[c] = "engine" /\ Cancel(c)
  /\ dropped < MaxDropped /\ dropped' = dropped + 1
  /\ stage' = [stage EXCEPT ![c] = "none"]
  /\ fresh' = [fresh EXCEPT ![c] = FALSE]
  /\ UNCHANGED <<behind, limitVars, sweepVars, cached, active>>

\* Planted defect: a request that brings no result is not counted out.
EndOfResults(c) ==
  /\ stage[c] = "answer"
  /\ active' = IF fresh[c] \/ cached THEN active - 1 ELSE active
  /\ stage' = [stage EXCEPT ![c] = "none"]
  /\ fresh' = [fresh EXCEPT ![c] = FALSE]
  /\ UNCHANGED <<vars, behind, limitVars, sweepVars, cached, dropped>>

\* record_request_end.
End(c) ==
  /\ stage[c] = "answer"
  /\ active' = active - 1
  /\ stage' = [stage EXCEPT ![c] = "none"]
  /\ fresh' = [fresh EXCEPT ![c] = FALSE]
  /\ UNCHANGED <<vars, behind, limitVars, sweepVars, cached, dropped>>

-----------------------------------------------------------------------------
InLimiter(c) == stage[c] \in Limiting \cup Missed

\* Planted defect: a cached result outlives its window.
TimePassesNot(was) == was

\* Neither the key nor the time to live of a result outlasts its window.
TimePasses(was) == FALSE

\* Bound: no one is in the limiter for more than one tick.  Ages saturate where
\* the clean-up takes the entry.
Pass ==
  /\ \A c \in Callers : InLimiter(c) => behind[c] = 0
  /\ lateness = 0
  /\ IF last_failure # None /\ last_failure < Timeout
     THEN Tick ELSE UNCHANGED vars
  /\ behind' = [c \in Callers |-> IF InLimiter(c) THEN 1 ELSE 0]
  /\ lateness' = IF unswept = {} THEN 0 ELSE 1
  /\ since' = [a \in Addresses |->
       IF since[a] \in {NoEntry, 2 * Window + 1} THEN since[a] ELSE since[a] + 1]
  /\ fresh' = [c \in Callers |-> FALSE]
  /\ cached' = TimePasses(cached)
  /\ UNCHANGED <<stage, count, unswept, active, dropped>>

Handle(c) == \/ Check(c) \/ Miss(c) \/ Insert(c) \/ Body(c) \/ Lookup(c) \/ Admit(c)
             \/ Refuse(c) \/ Answered(c) \/ Store(c) \/ End(c)

PathNext == \/ \E c \in Callers : Arrive(c) \/ Handle(c) \/ Drop(c)
            \/ SweepBegin \/ (\E a \in Addresses : Sweep(a))
            \/ Pass

\* Requests keep arriving, handlers run, and time passes.
PathSpec ==
  /\ PathInit /\ [][PathNext]_allVars
  /\ WF_allVars(Pass) /\ WF_allVars(\E a \in Addresses : Sweep(a))
  /\ \A c \in Callers : WF_allVars(Arrive(c) \/ Handle(c))

-----------------------------------------------------------------------------
InFlight == {c \in Callers : stage[c] # "none"}

\* The monitor's count of active requests is that of the requests in flight and
\* of those whose future was dropped (request_logger.rs 95-140): it never runs
\* below zero, and a dropped request stays in it.
ActiveIsExplained == active = Cardinality(InFlight) + dropped

PathTypeOK ==
  /\ TypeOK
  /\ stage \in [Callers -> Limiting \cup Missed \cup
                 {"none", "body", "lookup", "breaker", "engine", "store", "answer"}]
  /\ behind \in [Callers -> 0..1] /\ fresh \in [Callers -> BOOLEAN]
  /\ count \in [Addresses -> 0..MaxRequests]
  /\ since \in [Addresses -> -1..(2 * Window + 1)]
  /\ \A a \in Addresses : (count[a] = 0) = (since[a] = NoEntry)
  /\ unswept \subseteq Addresses /\ lateness \in 0..1 /\ cached \in BOOLEAN
  /\ active \in Nat /\ dropped \in 0..MaxDropped

\* Where fewer requests run at a time than a window admits, the limiter shuts no
\* one out for good: one of them passes both checks in some later window again,
\* whatever refusals, races for a first entry and clean-ups there are (49-91).
\* With as many requests at a time it may: all pass the middleware, which uses up
\* the window, and the handler refuses each of them, in every window.
NotShutOut ==
  Cardinality(Callers) < MaxRequests => []<>(\E c \in Callers : stage[c] = "lookup")
=============================================================================

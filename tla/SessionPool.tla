------------------------------ MODULE SessionPool ------------------------------
(***************************************************************************)
(* The pool of ONNX sessions of the Kokoro engine                          *)
(* (src/src/core/kokoro_onnx.rs): a semaphore with one permit per session, *)
(* a mutex around the free sessions, and a guard that holds a session for  *)
(* one synthesis and puts it back when it is dropped - with try_lock, so   *)
(* only if nobody has the mutex at that instant.                           *)
(*                                                                         *)
(* The mutex is a variable: what matters is who finds it taken.            *)
(***************************************************************************)
EXTENDS Integers, FiniteSets, Counting

CONSTANTS
  Callers,     \* tasks that synthesize, again and again
  Sessions     \* the sessions that are created at start

ASSUME SessionAssumption == IsFiniteSet(Callers) /\ IsFiniteSet(Sessions)

VARIABLES
  sessions,    \* the free sessions
  permits,     \* available permits of the semaphore
  locked,      \* the mutex around `sessions' is taken
  pc,
  held         \* per caller: the session in its guard, as a set

vars == <<sessions, permits, locked, pc, held>>

Init ==
  /\ sessions = Sessions
  /\ permits = Cardinality(Sessions)
  /\ locked = FALSE
  /\ pc = [c \in Callers |-> "idle"]
  /\ held = [c \in Callers |-> {}]

-----------------------------------------------------------------------------
Request(c) ==
  /\ pc[c] = "idle"
  /\ pc' = [pc EXCEPT ![c] = "waiting"]
  /\ UNCHANGED <<sessions, permits, locked, held>>

\* acquire: the permit first, so that the mutex is not held while waiting.
AcquirePermit(c) ==
  /\ pc[c] = "waiting"
  /\ permits > 0
  /\ permits' = permits - 1
  /\ pc' = [pc EXCEPT ![c] = "permitted"]
  /\ UNCHANGED <<sessions, locked, held>>

\* The client goes away while its request waits for a permit.
Cancel(c) ==
  /\ pc[c] = "waiting"
  /\ pc' = [pc EXCEPT ![c] = "idle"]
  /\ UNCHANGED <<sessions, permits, locked, held>>

Lock(c) ==
  /\ pc[c] = "permitted"
  /\ ~ locked
  /\ locked' = TRUE
  /\ pc' = [pc EXCEPT ![c] = "locked"]
  /\ UNCHANGED <<sessions, permits, held>>

\* Planted defect: a session is borrowed from the vector, not moved out of it.
PopBorrow(c) ==
  /\ pc[c] = "locked"
  /\ \E s \in sessions : held' = [held EXCEPT ![c] = {s}]
  /\ locked' = FALSE
  /\ pc' = [pc EXCEPT ![c] = "running"]
  /\ UNCHANGED <<sessions, permits>>

Pop(c) ==
  /\ pc[c] = "locked"
  /\ \E s \in sessions :
       /\ sessions' = sessions \ {s}
       /\ held' = [held EXCEPT ![c] = {s}]
  /\ locked' = FALSE
  /\ pc' = [pc EXCEPT ![c] = "running"]
  /\ UNCHANGED permits

\* "session pool empty after permit acquired": the call fails, its permit is
\* dropped.
PopNothing(c) ==
  /\ pc[c] = "locked"
  /\ sessions = {}
  /\ locked' = FALSE
  /\ pc' = [pc EXCEPT ![c] = "releasing"]
  /\ UNCHANGED <<sessions, permits, held>>

-----------------------------------------------------------------------------
\* The synthesis is over, in a result, an error or a panic, and the guard is
\* dropped on the blocking thread.
TryLock(c) ==
  /\ pc[c] = "running"
  /\ ~ locked
  /\ locked' = TRUE
  /\ pc' = [pc EXCEPT ![c] = "returning"]
  /\ UNCHANGED <<sessions, permits, held>>

\* The mutex is taken: the session is dropped with the guard.
Discard(c) ==
  /\ pc[c] = "running"
  /\ locked
  /\ held' = [held EXCEPT ![c] = {}]
  /\ pc' = [pc EXCEPT ![c] = "releasing"]
  /\ UNCHANGED <<sessions, permits, locked>>

Push(c) ==
  /\ pc[c] = "returning"
  /\ sessions' = sessions \cup held[c]
  /\ held' = [held EXCEPT ![c] = {}]
  /\ locked' = FALSE
  /\ pc' = [pc EXCEPT ![c] = "releasing"]
  /\ UNCHANGED permits

\* Planted defect: the permit is given back by Drop and by its own drop.
ReleaseTwice(c) ==
  /\ pc[c] = "releasing"
  /\ permits' = permits + 2
  /\ pc' = [pc EXCEPT ![c] = "idle"]
  /\ UNCHANGED <<sessions, locked, held>>

\* The permit is a field of the guard: it goes after the body of Drop.
Release(c) ==
  /\ pc[c] = "releasing"
  /\ permits' = permits + 1
  /\ pc' = [pc EXCEPT ![c] = "idle"]
  /\ UNCHANGED <<sessions, locked, held>>

-----------------------------------------------------------------------------
Acquire(c) == AcquirePermit(c) \/ Lock(c) \/ Pop(c) \/ PopNothing(c)
Drop(c)    == TryLock(c) \/ Discard(c) \/ Push(c) \/ Release(c)

Next == \E c \in Callers : Request(c) \/ Cancel(c) \/ Acquire(c) \/ Drop(c)

Spec == Init /\ [][Next]_vars

-----------------------------------------------------------------------------
TypeOK ==
  /\ sessions \in SUBSET Sessions
  /\ permits \in 0..Cardinality(Sessions)
  /\ locked \in BOOLEAN
  /\ pc \in [Callers -> {"idle", "waiting", "permitted", "locked", "running",
                         "returning", "releasing"}]
  /\ held \in [Callers -> SUBSET Sessions]

\* A session runs for one caller at a time, and is not offered to another one
\* before its guard has let it go: Session::run takes it by &mut.
SessionIsExclusive ==
  /\ \A c, d \in Callers : c # d => held[c] \cap held[d] = {}
  /\ \A c \in Callers : held[c] \cap sessions = {}

-----------------------------------------------------------------------------
\* What the exclusion rests on: a guard holds a session while it runs only, and
\* the permits are those of the callers between acquire and the end of drop.
WithPermit == {"permitted", "locked", "running", "returning", "releasing"}

PermitsExact == permits = Cardinality(Sessions) - CountOf(Callers, pc, WithPermit)

IInv == /\ TypeOK /\ SessionIsExclusive /\ PermitsExact
        /\ \A c \in Callers : pc[c] \notin {"running", "returning"} => held[c] = {}

-----------------------------------------------------------------------------
\* Claim of acquire's comment (69): it returns "`Err` only if the pool has been
\* closed".  It never is closed, so a session is there for every permit.
SessionPerPermit == \A c \in Callers : pc[c] = "locked" => sessions # {}
=============================================================================

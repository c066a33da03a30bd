---------------------------- MODULE BatchProcessor ----------------------------
(***************************************************************************)
(* The batch processor of src/src/batch.rs: callers add requests to a      *)
(* bounded priority queue behind a mutex, and publish its length and the   *)
(* time of its oldest request in two atomics that a consumer polls without *)
(* the mutex; the consumer is woken when the batch is full and otherwise   *)
(* after a timeout, and takes the whole queue.                             *)
(*                                                                         *)
(* Instants are represented by their age in ticks, saturating at the batch *)
(* timeout.  The order of the heap does not matter here: get_batch takes   *)
(* everything.                                                             *)
(***************************************************************************)
EXTENDS Integers, FiniteSets

CONSTANTS
  Requests,                    \* the requests that are added, each of them once
  Consumers,                   \* tasks that wait, poll and take batches
  MaxBatchSize, MinBatchSize,
  Timeout,                     \* batch_timeout_ms, in ticks
  Adaptive,                    \* adaptive_timeout_enabled
  Clears                       \* whether clear_batch is ever called

ASSUME ProcessorAssumption ==
  /\ IsFiniteSet(Requests)
  /\ MaxBatchSize \in Nat /\ MinBatchSize \in Nat /\ Timeout \in Nat
  /\ Adaptive \in BOOLEAN /\ Clears \in BOOLEAN

VARIABLES
  call,           \* per request: where the caller of add_request is
  age,            \* per request: age of its timestamp, taken when it is built
  heap, oldest_enqueue,                 \* BatchQueue, under the mutex
  len, oldest_ts, \* per request: the locals of add_request
  queue_depth, oldest_enqueue_nanos,    \* the atomics
  permit,         \* batch_full_notify holds a permit
  pc,             \* per consumer: where it is
  taken           \* per request: how it left the queue

vars == <<call, age, heap, oldest_enqueue, len, oldest_ts, queue_depth,
          oldest_enqueue_nanos, permit, pc, taken>>
queueVars == <<heap, oldest_enqueue, taken>>
callVars  == <<call, age, len, oldest_ts>>

None == -1      \* no oldest request, and 0 nanoseconds

Init ==
  /\ call = [r \in Requests |-> "new"]
  /\ age = [r \in Requests |-> 0]
  /\ heap = {} /\ oldest_enqueue = None
  /\ len = [r \in Requests |-> 0]
  /\ oldest_ts = [r \in Requests |-> None]
  /\ queue_depth = 0 /\ oldest_enqueue_nanos = None
  /\ permit = FALSE
  /\ pc = [k \in Consumers |-> "waiting"]
  /\ taken = [r \in Requests |-> "none"]

Older(a) == IF a = None \/ a >= Timeout THEN a ELSE a + 1

Tick ==
  /\ age' = [r \in Requests |-> IF call[r] = "new" THEN age[r] ELSE Older(age[r])]
  /\ oldest_ts' = [r \in Requests |-> Older(oldest_ts[r])]
  /\ oldest_enqueue' = Older(oldest_enqueue)
  /\ oldest_enqueue_nanos' = Older(oldest_enqueue_nanos)
  /\ UNCHANGED <<call, heap, len, queue_depth, permit, pc, taken>>

-----------------------------------------------------------------------------
\* add_request.  The caller has built the request, with its timestamp.
Build(r) ==
  /\ call[r] = "new"
  /\ call' = [call EXCEPT ![r] = "built"]
  /\ UNCHANGED <<age, len, oldest_ts, queueVars, queue_depth,
                 oldest_enqueue_nanos, permit, pc>>

Reject(r) ==
  /\ call[r] = "built"
  /\ Cardinality(heap) >= MaxBatchSize
  /\ call' = [call EXCEPT ![r] = "rejected"]
  /\ UNCHANGED <<age, len, oldest_ts, queueVars, queue_depth,
                 oldest_enqueue_nanos, permit, pc>>

\* BatchQueue::push, under the mutex, with the two locals that are read there.
Push(r) ==
  /\ call[r] = "built"
  /\ Cardinality(heap) < MaxBatchSize
  /\ heap' = heap \cup {r}
  /\ oldest_enqueue' = IF oldest_enqueue >= age[r] THEN oldest_enqueue ELSE age[r]
  /\ len' = [len EXCEPT ![r] = Cardinality(heap')]
  /\ oldest_ts' = [oldest_ts EXCEPT ![r] = oldest_enqueue']
  /\ call' = [call EXCEPT ![r] = "pushed"]
  /\ UNCHANGED <<age, taken, queue_depth, oldest_enqueue_nanos, permit, pc>>

\* Planted defect: the depth counts the request a second time.
StoreDepthOneMore(r) ==
  /\ call[r] = "pushed"
  /\ queue_depth' = len[r] + 1
  /\ call' = [call EXCEPT ![r] = "depth_stored"]
  /\ UNCHANGED <<age, len, oldest_ts, queueVars, oldest_enqueue_nanos, permit, pc>>

\* The rest runs after the mutex has been released.
StoreDepth(r) ==
  /\ call[r] = "pushed"
  /\ queue_depth' = len[r]
  /\ call' = [call EXCEPT ![r] = "depth_stored"]
  /\ UNCHANGED <<age, len, oldest_ts, queueVars, oldest_enqueue_nanos, permit, pc>>

StoreOldest(r) ==
  /\ call[r] = "depth_stored"
  /\ oldest_enqueue_nanos' = oldest_ts[r]
  /\ oldest_ts' = [oldest_ts EXCEPT ![r] = None]
  /\ call' = [call EXCEPT ![r] = "stored"]
  /\ UNCHANGED <<age, len, queueVars, queue_depth, permit, pc>>

Return(r) ==
  /\ call[r] = "stored"
  /\ permit' = (permit \/ len[r] >= MaxBatchSize)
  /\ call' = [call EXCEPT ![r] = "returned"]
  /\ UNCHANGED <<age, len, oldest_ts, queueVars, queue_depth,
                 oldest_enqueue_nanos, pc>>

-----------------------------------------------------------------------------
\* wait_for_dispatch: the notification, or the timeout, whose length does not
\* matter to the consumer.
Wake(k) ==
  /\ pc[k] = "waiting"
  /\ permit' \in {permit, FALSE}
  /\ pc' = [pc EXCEPT ![k] = "checking"]
  /\ UNCHANGED <<callVars, queueVars, queue_depth, oldest_enqueue_nanos>>

AdaptiveTimeout ==
  CASE ~ Adaptive \/ queue_depth <= 2 -> Timeout
    [] Adaptive /\ queue_depth \in 3..5  -> Timeout \div 2
    [] Adaptive /\ queue_depth \in 6..10 -> Timeout \div 4
    [] Adaptive /\ queue_depth > 10      -> Timeout \div 8

\* should_process_batch: two loads, without the mutex.
CheckDepth(k) ==
  /\ pc[k] = "checking"
  /\ pc' = [pc EXCEPT ![k] =
       IF queue_depth # 0 /\ queue_depth >= MaxBatchSize THEN "taking"
       ELSE IF queue_depth = 0 \/ queue_depth < MinBatchSize THEN "waiting"
       ELSE "checking_age"]
  /\ UNCHANGED <<callVars, queueVars, queue_depth, oldest_enqueue_nanos, permit>>

CheckAge(k) ==
  /\ pc[k] = "checking_age"
  /\ pc' = [pc EXCEPT ![k] =
       IF oldest_enqueue_nanos # None /\ oldest_enqueue_nanos >= AdaptiveTimeout
       THEN "taking" ELSE "waiting"]
  /\ UNCHANGED <<callVars, queueVars, queue_depth, oldest_enqueue_nanos, permit>>

\* Planted defect: the cached oldest time survives the drain.
DrainKeepOldest(k) ==
  /\ pc[k] = "taking"
  /\ taken' = [r \in Requests |-> IF r \in heap THEN "batch" ELSE taken[r]]
  /\ heap' = {}
  /\ pc' = [pc EXCEPT ![k] = "drained"]
  /\ UNCHANGED <<callVars, oldest_enqueue, queue_depth, oldest_enqueue_nanos, permit>>

\* Planted defect: the batch is copied out of the queue.
DrainCopies(k) ==
  /\ pc[k] = "taking"
  /\ taken' = [r \in Requests |-> IF r \in heap THEN "batch" ELSE taken[r]]
  /\ oldest_enqueue' = None
  /\ pc' = [pc EXCEPT ![k] = "drained"]
  /\ UNCHANGED <<callVars, heap, queue_depth, oldest_enqueue_nanos, permit>>

\* get_batch: the queue is drained under the mutex, the atomics are cleared
\* after it has been released.
Drain(k) ==
  /\ pc[k] = "taking"
  /\ taken' = [r \in Requests |-> IF r \in heap THEN "batch" ELSE taken[r]]
  /\ heap' = {} /\ oldest_enqueue' = None
  /\ pc' = [pc EXCEPT ![k] = "drained"]
  /\ UNCHANGED <<callVars, queue_depth, oldest_enqueue_nanos, permit>>

ClearDepth(k) ==
  /\ pc[k] = "drained"
  /\ queue_depth' = 0
  /\ pc' = [pc EXCEPT ![k] = "depth_cleared"]
  /\ UNCHANGED <<callVars, queueVars, oldest_enqueue_nanos, permit>>

ClearOldest(k) ==
  /\ pc[k] = "depth_cleared"
  /\ oldest_enqueue_nanos' = None
  /\ pc' = [pc EXCEPT ![k] = "waiting"]
  /\ UNCHANGED <<callVars, queueVars, queue_depth, permit>>

\* clear_batch clears all three while it holds the mutex.
Clear ==
  /\ Clears
  /\ taken' = [r \in Requests |-> IF r \in heap THEN "cleared" ELSE taken[r]]
  /\ heap' = {} /\ oldest_enqueue' = None
  /\ queue_depth' = 0 /\ oldest_enqueue_nanos' = None
  /\ UNCHANGED <<callVars, permit, pc>>

-----------------------------------------------------------------------------
Add(r)  == Build(r) \/ Reject(r) \/ Push(r) \/ StoreDepth(r) \/ StoreOldest(r) \/ Return(r)
Take(k) == \/ Wake(k) \/ CheckDepth(k) \/ CheckAge(k)
           \/ Drain(k) \/ ClearDepth(k) \/ ClearOldest(k)

Next == \/ \E r \in Requests : Add(r)
        \/ \E k \in Consumers : Take(k)
        \/ Clear
        \/ Tick

Spec == Init /\ [][Next]_vars

\* Time passes, the consumers keep polling, and a call that has started ends.
FairSpec == /\ Spec
            /\ WF_vars(Tick)
            /\ \A k \in Consumers : WF_vars(Take(k))
            /\ \A r \in Requests : WF_vars(call[r] # "new" /\ Add(r))

-----------------------------------------------------------------------------
Accepted == {r \in Requests : call[r] \notin {"new", "built", "rejected"}}

TypeOK ==
  /\ call \in [Requests -> {"new", "built", "rejected", "pushed", "depth_stored",
                            "stored", "returned"}]
  /\ age \in [Requests -> 0..Timeout]
  /\ heap \in SUBSET Requests
  /\ oldest_enqueue \in -1..Timeout
  /\ len \in [Requests -> 0..MaxBatchSize]
  /\ oldest_ts \in [Requests -> -1..Timeout]
  /\ queue_depth \in 0..MaxBatchSize
  /\ oldest_enqueue_nanos \in -1..Timeout
  /\ permit \in BOOLEAN
  /\ pc \in [Consumers -> {"waiting", "checking", "checking_age", "taking",
                           "drained", "depth_cleared"}]
  /\ taken \in [Requests -> {"none", "batch", "cleared"}]

\* Every request for which add_request returned Ok is in the queue or has left
\* it, once, by a batch or a clear_batch; a refused request never gets in.
AcceptedOnce ==
  /\ heap = {r \in Accepted : taken[r] = "none"}
  /\ \A r \in Requests \ Accepted : taken[r] = "none"

\* The bound of the queue (145-147).
NeverOverfull == Cardinality(heap) <= MaxBatchSize

\* The cached oldest time is that of the oldest request of the heap, although
\* requests are pushed in another order than they were built.
OldestExact ==
  /\ heap = {} => oldest_enqueue = None
  /\ heap # {} => /\ \A r \in heap : age[r] <= oldest_enqueue
                  /\ \E r \in heap : age[r] = oldest_enqueue

-----------------------------------------------------------------------------
\* Claim of the field's comment (batch.rs:109-111): "Notified immediately when
\* the batch reaches max capacity, so any consumer blocked in
\* `notified().await` can dispatch".
FullIsDispatched == Cardinality(heap) = MaxBatchSize ~> Cardinality(heap) < MaxBatchSize
=============================================================================

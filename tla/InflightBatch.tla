----------------------------- MODULE InflightBatch -----------------------------
(***************************************************************************)
(* Continuous batching (src/src/inflight_batch.rs): callers push requests  *)
(* into a priority queue behind a read-write lock, batch workers form      *)
(* batches from it with try_form_batch, a semaphore limits the batches in  *)
(* flight, and a guard returns the permit when it is completed or dropped. *)
(*                                                                         *)
(* Instants are represented by their age in ticks, saturating at the batch *)
(* timeout, beyond which the code does not tell ages apart.                *)
(***************************************************************************)
EXTENDS Integers, FiniteSets, Counting

CONSTANTS
  Requests,      \* the requests that are ever submitted, each of them once
  Workers,       \* the tasks that call try_form_batch
  Priority,      \* the priority field of each request
  MaxBatchSize, MaxInflight,
  Timeout        \* batch_timeout_ms, in ticks

ASSUME BatchAssumption ==
  /\ IsFiniteSet(Requests) /\ IsFiniteSet(Workers)
  /\ Priority \in [Requests -> Int]
  /\ MaxBatchSize \in Nat \ {0} /\ MaxInflight \in Nat
  /\ Timeout \in Nat

VARIABLES
  call,      \* per request: where the caller of add_request is
  age,       \* per request: age of its timestamp, taken when it is built
  heap,      \* the requests in the binary heap
  seq,       \* per request: its sequence number, once pushed
  size,      \* per request: queue_size, the local of add_request
  next_seq, oldest_enqueue,           \* PriorityQueue's other fields
  current_queue_depth, peak_queue_depth, inflight_batches,   \* the atomics
  processed_batches, processed_requests,
  permits,   \* available permits of inflight_semaphore
  pc, batch, \* per worker: where it is; the batch its guard owns
  outcome    \* per request: what came over its response channel

vars == <<call, age, heap, seq, size, next_seq, oldest_enqueue,
          current_queue_depth, peak_queue_depth, inflight_batches,
          processed_batches, processed_requests, permits, pc, batch, outcome>>
callVars   == <<call, age, seq, size>>
queueVars  == <<heap, next_seq, oldest_enqueue>>
statVars   == <<processed_batches, processed_requests>>
workerVars == <<inflight_batches, permits, pc, batch, statVars>>

None == -1      \* oldest_enqueue of an empty queue

\* The age of the oldest request of S, given the ages a.
MaxAge(S, a)   == CHOOSE m \in {a[r] : r \in S} : \A r \in S : a[r] <= m
OldestOf(S, a) == IF S = {} THEN None ELSE MaxAge(S, a)

-----------------------------------------------------------------------------
Init ==
  /\ call = [r \in Requests |-> "new"]
  /\ age  = [r \in Requests |-> 0]
  /\ heap = {}
  /\ seq  = [r \in Requests |-> 0]
  /\ size = [r \in Requests |-> 0]
  /\ next_seq = 0
  /\ oldest_enqueue = None
  /\ current_queue_depth = 0
  /\ peak_queue_depth = 0
  /\ inflight_batches = 0
  /\ processed_batches = 0
  /\ processed_requests = 0
  /\ permits = MaxInflight
  /\ pc = [w \in Workers |-> "idle"]
  /\ batch = [w \in Workers |-> {}]
  /\ outcome = [r \in Requests |-> "none"]

\* The caller builds the request: its timestamp is taken here, which may be
\* well before it gets the write lock.
Build(r) ==
  /\ call[r] = "new"
  /\ call' = [call EXCEPT ![r] = "built"]
  /\ UNCHANGED <<age, seq, size, queueVars, current_queue_depth,
                 peak_queue_depth, workerVars, outcome>>

\* Time passes: every timestamp taken so far grows older.
Older(a) == IF a < Timeout THEN a + 1 ELSE a

Tick ==
  /\ age' = [r \in Requests |-> IF call[r] = "new" THEN age[r] ELSE Older(age[r])]
  /\ oldest_enqueue' = IF oldest_enqueue = None THEN None ELSE Older(oldest_enqueue)
  /\ UNCHANGED <<call, seq, size, heap, next_seq, current_queue_depth,
                 peak_queue_depth, workerVars, outcome>>

-----------------------------------------------------------------------------
\* add_request under the write lock (PriorityQueue::push).  The cached oldest
\* entry stays when it is at least as old as the new request.
Push(r) ==
  /\ call[r] = "built"
  /\ heap' = heap \cup {r}
  /\ seq'  = [seq EXCEPT ![r] = next_seq]
  /\ next_seq' = next_seq + 1
  /\ size' = [size EXCEPT ![r] = Cardinality(heap')]
  /\ oldest_enqueue' = IF oldest_enqueue >= age[r] THEN oldest_enqueue ELSE age[r]
  /\ call' = [call EXCEPT ![r] = "pushed"]
  /\ UNCHANGED <<age, current_queue_depth, peak_queue_depth, workerVars, outcome>>

\* The two statistics are written after the lock has been dropped.
StoreDepth(r) ==
  /\ call[r] = "pushed"
  /\ current_queue_depth' = size[r]
  /\ call' = [call EXCEPT ![r] = "stored"]
  /\ UNCHANGED <<age, seq, size, queueVars, peak_queue_depth, workerVars, outcome>>

\* Planted defect: load, compare and store instead of fetch_max, on a peak that
\* was read before the other callers stored theirs.
StorePeakPlain(r) ==
  /\ call[r] = "stored"
  /\ peak_queue_depth' = size[r]
  /\ call' = [call EXCEPT ![r] = "returned"]
  /\ UNCHANGED <<age, seq, size, queueVars, current_queue_depth, workerVars, outcome>>

StorePeak(r) ==
  /\ call[r] = "stored"
  /\ peak_queue_depth' = IF size[r] > peak_queue_depth THEN size[r] ELSE peak_queue_depth
  /\ call' = [call EXCEPT ![r] = "returned"]
  /\ UNCHANGED <<age, seq, size, queueVars, current_queue_depth, workerVars, outcome>>

-----------------------------------------------------------------------------
\* Planted defect: the sequence numbers are compared the other way round.
BeforeLifo(r, s) == \/ Priority[r] > Priority[s]
                    \/ Priority[r] = Priority[s] /\ seq[r] > seq[s]

\* The order of the heap: higher priority first, first come first served
\* within a priority.
Before(r, s) == \/ Priority[r] > Priority[s]
                \/ Priority[r] = Priority[s] /\ seq[r] < seq[s]

\* Planted defect: one pop too many.
TopOneMore(n) == {r \in heap : Cardinality({s \in heap : Before(s, r)}) <= n}

\* The requests that n pops of the heap return.
Top(n) == {r \in heap : Cardinality({s \in heap : Before(s, r)}) < n}

\* Phase 1 of try_form_batch, under the read lock.
Ready == heap # {} /\ (Cardinality(heap) >= MaxBatchSize \/ oldest_enqueue >= Timeout)

Peek(w) ==
  /\ pc[w] = "idle"
  /\ Ready
  /\ pc' = [pc EXCEPT ![w] = "peeked"]
  /\ UNCHANGED <<callVars, queueVars, current_queue_depth, peak_queue_depth,
                 inflight_batches, statVars, permits, batch, outcome>>

\* Planted defect: the permits are looked at, not taken.
AcquireLook(w) ==
  /\ pc[w] = "peeked"
  /\ pc' = [pc EXCEPT ![w] = IF permits > 0 THEN "permitted" ELSE "idle"]
  /\ UNCHANGED <<callVars, queueVars, current_queue_depth, peak_queue_depth,
                 inflight_batches, statVars, permits, batch, outcome>>

\* The non-blocking acquisition between the two locks.
AcquirePermit(w) ==
  /\ pc[w] = "peeked"
  /\ IF permits > 0
     THEN /\ permits' = permits - 1
          /\ pc' = [pc EXCEPT ![w] = "permitted"]
     ELSE /\ pc' = [pc EXCEPT ![w] = "idle"]
          /\ UNCHANGED permits
  /\ UNCHANGED <<callVars, queueVars, current_queue_depth, peak_queue_depth,
                 inflight_batches, statVars, batch, outcome>>

\* Planted defect: the cached oldest entry is only reset when nothing remains.
DrainKeepOldest(w) ==
  /\ pc[w] = "permitted"
  /\ heap # {}
  /\ batch' = [batch EXCEPT ![w] = Top(MaxBatchSize)]
  /\ heap' = heap \ Top(MaxBatchSize)
  /\ oldest_enqueue' = IF heap' = {} THEN None ELSE oldest_enqueue
  /\ current_queue_depth' = Cardinality(heap')
  /\ inflight_batches' = inflight_batches + 1
  /\ pc' = [pc EXCEPT ![w] = "running"]
  /\ UNCHANGED <<callVars, next_seq, peak_queue_depth, statVars, permits, outcome>>

\* Phase 2, under the write lock: only emptiness is checked again.
Drain(w) ==
  /\ pc[w] = "permitted"
  /\ heap # {}
  /\ batch' = [batch EXCEPT ![w] = Top(MaxBatchSize)]
  /\ heap' = heap \ Top(MaxBatchSize)
  /\ oldest_enqueue' = OldestOf(heap', age)
  /\ current_queue_depth' = Cardinality(heap')
  /\ inflight_batches' = inflight_batches + 1
  /\ pc' = [pc EXCEPT ![w] = "running"]
  /\ UNCHANGED <<callVars, next_seq, peak_queue_depth, statVars, permits, outcome>>

\* Planted defect: the permit is released by the return and by the caller.
DrainEmptyTwice(w) ==
  /\ pc[w] = "permitted"
  /\ heap = {}
  /\ permits' = permits + 1
  /\ pc' = [pc EXCEPT ![w] = "releasing"]
  /\ UNCHANGED <<callVars, queueVars, current_queue_depth, peak_queue_depth,
                 inflight_batches, statVars, batch, outcome>>

\* Planted defect: the permit is forgotten (permit.forget()).
DrainEmptyForget(w) ==
  /\ pc[w] = "permitted"
  /\ heap = {}
  /\ pc' = [pc EXCEPT ![w] = "idle"]
  /\ UNCHANGED <<callVars, queueVars, current_queue_depth, peak_queue_depth,
                 inflight_batches, statVars, permits, batch, outcome>>

\* The queue was emptied in between: the permit is dropped by the return.
DrainEmpty(w) ==
  /\ pc[w] = "permitted"
  /\ heap = {}
  /\ pc' = [pc EXCEPT ![w] = "releasing"]
  /\ UNCHANGED <<callVars, queueVars, current_queue_depth, peak_queue_depth,
                 inflight_batches, statVars, permits, batch, outcome>>

\* The owner of the guard answers the batch.  Sending on a response channel
\* consumes it, so the requests are taken out of the guard's batch.
Answer(w) ==
  /\ pc[w] = "running"
  /\ batch[w] # {}
  /\ outcome' = [r \in Requests |-> IF r \in batch[w] THEN "answered" ELSE outcome[r]]
  /\ batch' = [batch EXCEPT ![w] = {}]
  /\ UNCHANGED <<callVars, queueVars, current_queue_depth, peak_queue_depth,
                 inflight_batches, statVars, permits, pc>>

\* guard.complete(): the batch is counted first.
Complete(w) ==
  /\ pc[w] = "running"
  /\ processed_batches' = processed_batches + 1
  /\ pc' = [pc EXCEPT ![w] = "completing"]
  /\ UNCHANGED <<callVars, queueVars, current_queue_depth, peak_queue_depth,
                 inflight_batches, processed_requests, permits, batch, outcome>>

\* The guard is dropped with the requests left in it, whose channels close
\* unanswered.
LeaveBatch(w) ==
  /\ outcome' = [r \in Requests |-> IF r \in batch[w] THEN "dropped" ELSE outcome[r]]
  /\ batch' = [batch EXCEPT ![w] = {}]
  /\ pc' = [pc EXCEPT ![w] = "releasing"]
  /\ UNCHANGED <<callVars, queueVars, current_queue_depth, peak_queue_depth,
                 processed_batches, permits>>

\* Planted defect: complete() leaves `completed' unset and Drop decrements again.
FinishTwice(w) ==
  /\ pc[w] = "completing"
  /\ processed_requests' = processed_requests + Cardinality(batch[w])
  /\ inflight_batches' = inflight_batches - 2
  /\ LeaveBatch(w)

\* The rest of complete().
Finish(w) ==
  /\ pc[w] = "completing"
  /\ processed_requests' = processed_requests + Cardinality(batch[w])
  /\ inflight_batches' = inflight_batches - 1
  /\ LeaveBatch(w)

\* The guard is dropped without complete(): its owner panicked or gave up.
Abandon(w) ==
  /\ pc[w] = "running"
  /\ inflight_batches' = inflight_batches - 1
  /\ LeaveBatch(w)
  /\ UNCHANGED processed_requests

\* The permit is a field of the guard: it goes last.
ReleasePermit(w) ==
  /\ pc[w] = "releasing"
  /\ permits' = permits + 1
  /\ pc' = [pc EXCEPT ![w] = "idle"]
  /\ UNCHANGED <<callVars, queueVars, current_queue_depth, peak_queue_depth,
                 inflight_batches, statVars, batch, outcome>>

\* Planted defect: the queue is answered but not emptied.
ClearQueueKeep ==
  /\ outcome' = [r \in Requests |-> IF r \in heap THEN "cleared" ELSE outcome[r]]
  /\ current_queue_depth' = 0
  /\ UNCHANGED <<callVars, queueVars, peak_queue_depth, workerVars>>

\* clear_queue, under the write lock.
ClearQueue ==
  /\ outcome' = [r \in Requests |-> IF r \in heap THEN "cleared" ELSE outcome[r]]
  /\ heap' = {}
  /\ oldest_enqueue' = None
  /\ current_queue_depth' = 0
  /\ UNCHANGED <<callVars, next_seq, peak_queue_depth, workerVars>>

-----------------------------------------------------------------------------
Add(r)  == Build(r) \/ Push(r) \/ StoreDepth(r) \/ StorePeak(r)
Form(w) == Peek(w) \/ AcquirePermit(w) \/ Drain(w) \/ DrainEmpty(w)
Run(w)  == Answer(w) \/ Complete(w) \/ Finish(w) \/ Abandon(w) \/ ReleasePermit(w)

Next == \/ \E r \in Requests : Add(r)
        \/ \E w \in Workers : Form(w) \/ Run(w)
        \/ ClearQueue
        \/ Tick

Spec == Init /\ [][Next]_vars

-----------------------------------------------------------------------------
InBatch    == UNION {batch[w] : w \in Workers}
Submitted  == {r \in Requests : call[r] \in {"pushed", "stored", "returned"}}
Adding     == {r \in Requests : call[r] \in {"pushed", "stored"}}

TypeOK ==
  /\ call \in [Requests -> {"new", "built", "pushed", "stored", "returned"}]
  /\ age \in [Requests -> 0..Timeout]
  /\ heap \in SUBSET Requests
  /\ seq \in [Requests -> Nat] /\ size \in [Requests -> Nat] /\ next_seq \in Nat
  /\ oldest_enqueue \in -1..Timeout
  /\ current_queue_depth \in Nat /\ peak_queue_depth \in Nat
  /\ inflight_batches \in Nat
  /\ processed_batches \in Nat /\ processed_requests \in Nat
  /\ permits \in Nat
  /\ pc \in [Workers -> {"idle", "peeked", "permitted", "running", "completing",
                       "releasing"}]
  /\ batch \in [Workers -> SUBSET Requests]
  /\ outcome \in [Requests -> {"none", "answered", "dropped", "cleared"}]

\* The limit the semaphore is there for: never more than max_inflight_batches
\* batches in flight, counted by the atomic that get_stats reports (201-231,
\* 347-383).
InflightWithinLimit == inflight_batches <= MaxInflight

\* Every request that was pushed is in exactly one place - the heap, one
\* worker's batch, or answered - and a request that was not is in none: no
\* request is lost, and none is put into two batches or answered twice.
OneHome ==
  /\ heap \cup InBatch = {r \in Submitted : outcome[r] = "none"}
  /\ heap \cap InBatch = {}
  /\ \A v, w \in Workers : v # w => batch[v] \cap batch[w] = {}
  /\ \A r \in Requests \ Submitted : outcome[r] = "none"

\* The cached oldest entry, which decides whether a small batch is due, is the
\* age of the oldest request in the heap, whatever the order in which requests
\* were built, pushed and drained (73-109).
OldestExact == oldest_enqueue = OldestOf(heap, age)

\* A request pushed earlier, with at least the priority, is never left in the
\* queue by the batch that takes a later one.
NoOvertaking ==
  \A r, s \in Submitted :
    /\ Priority[r] >= Priority[s] /\ seq[r] < seq[s]
    /\ s \in InBatch \/ outcome[s] \in {"answered", "dropped"}
    => r \notin heap

\* A batch never exceeds max_batch_size, and neither does the ratio of the counters
\* at any instant: complete() counts the batch before its requests.  get_stats loads
\* the two at different instants (266-267), so this does not bound what it reports.
BatchesWithinSize ==
  /\ \A w \in Workers : Cardinality(batch[w]) <= MaxBatchSize
  /\ processed_requests <= MaxBatchSize * processed_batches

\* Whatever the order in which concurrent add_request calls reach fetch_max,
\* the recorded peak covers the queue once they have returned (173).
PeakCoversQueue == Adding = {} => peak_queue_depth >= Cardinality(heap)

\* The processor does what BatchQueue promises: what the two phases, the cached
\* time, the counters and the permits add to it is not seen by a caller.
Earlier == [r \in Requests |-> IF r \in Submitted THEN {s \in Submitted : seq[s] < seq[r]}
                               ELSE {}]

Promise == INSTANCE BatchQueue WITH
             arrived <- Submitted, ahead <- Earlier, waiting <- heap,
             open <- {w \in Workers : pc[w] \in {"running", "completing"}},
             Urgency <- Priority, MaxSize <- MaxBatchSize, MaxOpen <- MaxInflight

KeepsPromise == Promise!Spec

-----------------------------------------------------------------------------
\* The inductive strengthening of the safety invariants.
Held == {"permitted", "running", "completing", "releasing"}
Live == {"running", "completing"}
Count(P) == CountOf(Workers, pc, P)

\* Permits are neither lost nor made on any path, early returns, clear_queue in
\* between and dropped guards included: each worker past the acquisition has one
\* (200-213, 380-383), and inflight_batches counts the guards that are alive.
SlotsExact ==
  /\ permits = MaxInflight - Count(Held)
  /\ inflight_batches = Count(Live)

GuardOwnsBatch == \A w \in Workers : pc[w] \notin Live => batch[w] = {}

\* The batches that are being completed are counted, their requests not yet.
CompletedWithinSize ==
  processed_requests <= MaxBatchSize * (processed_batches - Count({"completing"}))

\* Sequence numbers are unique and below next_seq.
SeqUnique ==
  /\ \A r \in Submitted : seq[r] < next_seq
  /\ \A r, s \in Submitted : seq[r] = seq[s] => r = s

\* The queue's length is covered by the peak or by a call about to raise it.
PeakCovered == \/ peak_queue_depth >= Cardinality(heap)
               \/ \E r \in Adding : size[r] >= Cardinality(heap)

IInv == /\ TypeOK
        /\ SlotsExact
        /\ OneHome /\ GuardOwnsBatch
        /\ OldestExact
        /\ SeqUnique /\ NoOvertaking
        /\ BatchesWithinSize /\ CompletedWithinSize
        /\ PeakCovered
=============================================================================

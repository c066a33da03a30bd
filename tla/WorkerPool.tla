------------------------------ MODULE WorkerPool ------------------------------
(***************************************************************************)
(* The worker pool of src/src/worker_pool.rs: a vector of shared worker    *)
(* objects behind a read-write lock, a bounded lock-free FIFO of the       *)
(* INDICES of idle workers, tasks that acquire and release workers, the    *)
(* auto-scaler task that grows and shrinks the vector, and the calls that  *)
(* pause, resume and stop every worker.                                    *)
(*                                                                         *)
(* Code that runs under the write lock is one step, except where it works  *)
(* on the lock-free queue, which the tasks reach without the lock.         *)
(***************************************************************************)
EXTENDS Integers, Sequences, FiniteSets

CONSTANTS
  Tasks,              \* callers of acquire_worker / release_worker
  MinWorkers, MaxWorkers, ZeroScaling, AutoScaling,     \* WorkerPoolConfig
  ScaleUpThreshold, ScaleDownThreshold,
  QueueSizes,         \* the values set_queue_size is called with
  AdminCalls          \* subset of {"pause", "resume", "shutdown"}

ASSUME PoolAssumption ==
  /\ MinWorkers \in Nat /\ MaxWorkers \in Nat \ {0} /\ MinWorkers <= MaxWorkers
  /\ ZeroScaling \in BOOLEAN /\ AutoScaling \in BOOLEAN
  /\ ScaleUpThreshold \in Nat /\ ScaleDownThreshold \in Nat
  /\ QueueSizes \subseteq Nat
  /\ AdminCalls \subseteq {"pause", "resume", "shutdown"}
  /\ IsFiniteSet(Tasks)

VARIABLES
  objects,       \* the Worker objects: their fields `id' and `state'
  workers,       \* the vector of objects: the code's index i is workers[i+1]
  idle_workers,  \* the ArrayQueue of indices
  active_count,
  queue_size,
  shutdown,      \* the shutdown flag
  stopping,      \* TRUE between the flag and the loop that stops the workers
  pc, got,       \* per task: where it is; the popped index, then the object
  scaler,        \* the auto-scaler task's program counter and locals
  admin          \* the pause_all / resume_all call in progress

vars == <<objects, workers, idle_workers, active_count, queue_size, shutdown,
          stopping, pc, got, scaler, admin>>
taskVars  == <<pc, got>>
poolVars  == <<objects, workers, idle_workers, active_count>>
ctrlVars  == <<queue_size, shutdown, stopping>>

WorkerState == {"Idle", "Processing", "Paused", "Stopping", "Stopped"}

\* usize arithmetic wraps in release builds; 2^16 stands for 2^64.
UsizeRange == 2 ^ 16

\* An Arc<Worker> that neither the vector nor a task refers to is freed, so this
\* many object names are enough for the next one always to find a free name.
Objects == 1 .. MaxWorkers + Cardinality(Tasks)

Initial  == IF ZeroScaling THEN 0 ELSE MinWorkers

\* Planted defect: the minimum is off by one.
MinLimitOffByOne == IF ZeroScaling THEN 0 ELSE MinWorkers - 1

MinLimit == IF ZeroScaling THEN 0 ELSE MinWorkers

WithState(w, s) == [objects EXCEPT ![w].state = s]
StateAt(i)      == objects[workers[i + 1]].state
Indices         == 0 .. Len(workers) - 1

Using(t)  == pc[t] \in {"holding", "released", "counted"}
InVector(w)   == \E i \in Indices : workers[i + 1] = w
UsedBy(w, T)  == \E t \in T : Using(t) /\ got[t] = w
FreeObject    == CHOOSE w \in Objects : ~InVector(w) /\ ~UsedBy(w, Tasks)

\* The fields of a name that is free.
Blank == [id |-> 0, state |-> "Idle"]

\* The vector's write lock is held while the idle queue is being renumbered;
\* pause_all and resume_all hold the read lock for their whole scan.
WriteLocked == scaler.pc \in {"drain", "repush"}
ReadLocked  == admin.call # "none"

NoScan == [call |-> "none", at |-> 0, seen |-> FALSE]

\* Planted defect: a stack instead of a queue.
PushToTop(q, i) == IF Len(q) < MaxWorkers THEN <<i>> \o q ELSE q

\* ArrayQueue::push fails, and the code ignores it, when the queue is full.
PushTo(q, i) == IF Len(q) < MaxWorkers THEN Append(q, i) ELSE q

-----------------------------------------------------------------------------
\* The pool as initialize() leaves it, before any task or timer has run.
Init ==
  /\ objects      = [w \in Objects |-> IF w <= Initial THEN [Blank EXCEPT !.id = w - 1] ELSE Blank]
  /\ workers      = [w \in 1..Initial |-> w]
  /\ idle_workers = [w \in 1..Initial |-> w - 1]
  /\ active_count = 0
  /\ queue_size   = 0
  /\ shutdown     = FALSE
  /\ stopping     = FALSE
  /\ pc           = [t \in Tasks |-> "outside"]
  /\ got          = [t \in Tasks |-> 0]
  /\ scaler       = [pc |-> IF AutoScaling THEN "top" ELSE "off",
                     queue |-> 0, count |-> 0, gone |-> 0, pending |-> <<>>]
  /\ admin        = NoScan

-----------------------------------------------------------------------------
\* acquire_worker: the lock-free pop ...
AcquirePop(t) ==
  /\ pc[t] = "outside"
  /\ idle_workers # <<>>
  /\ pc'  = [pc EXCEPT ![t] = "popped"]
  /\ got' = [got EXCEPT ![t] = Head(idle_workers)]
  /\ idle_workers' = Tail(idle_workers)
  /\ UNCHANGED <<objects, workers, active_count, ctrlVars, scaler, admin>>

\* Planted defect: the counter is not incremented.
AcquireLookupUncounted(t) ==
  /\ pc[t] = "popped"
  /\ ~WriteLocked
  /\ got[t] \in Indices
  /\ objects' = WithState(workers[got[t] + 1], "Processing")
  /\ got' = [got EXCEPT ![t] = workers[got[t] + 1]]
  /\ pc' = [pc EXCEPT ![t] = "holding"]
  /\ UNCHANGED <<workers, idle_workers, active_count, ctrlVars, scaler, admin>>

\* ... and the lookup of the popped index under the read lock.  The state the
\* worker is in is not looked at.  An index out of range is dropped.
AcquireLookup(t) ==
  /\ pc[t] = "popped"
  /\ ~WriteLocked
  /\ \/ /\ got[t] \in Indices
        /\ LET w == workers[got[t] + 1] IN
             /\ objects' = WithState(w, "Processing")
             /\ got' = [got EXCEPT ![t] = w]
        /\ active_count' = active_count + 1
        /\ pc' = [pc EXCEPT ![t] = "holding"]
     \/ /\ got[t] \notin Indices
        /\ got' = [got EXCEPT ![t] = 0]
        /\ pc' = [pc EXCEPT ![t] = "outside"]
        /\ UNCHANGED <<objects, active_count>>
  /\ UNCHANGED <<workers, idle_workers, ctrlVars, scaler, admin>>

\* release_worker: state, counter and queue are three separate atomics, and
\* no lock is taken.
ReleaseSetIdle(t) ==
  /\ pc[t] = "holding"
  /\ objects' = WithState(got[t], "Idle")
  /\ pc' = [pc EXCEPT ![t] = "released"]
  /\ UNCHANGED <<workers, idle_workers, active_count, ctrlVars, got, scaler, admin>>

\* Planted defect: the counter is decremented for the state and for the push.
ReleaseCountTwice(t) ==
  /\ pc[t] = "released"
  /\ active_count' = active_count - 2
  /\ pc' = [pc EXCEPT ![t] = "counted"]
  /\ UNCHANGED <<objects, workers, idle_workers, ctrlVars, got, scaler, admin>>

ReleaseCount(t) ==
  /\ pc[t] = "released"
  /\ active_count' = active_count - 1
  /\ pc' = [pc EXCEPT ![t] = "counted"]
  /\ UNCHANGED <<objects, workers, idle_workers, ctrlVars, got, scaler, admin>>

\* Planted defect: only a worker still in state Idle is queued again.
ReleasePushIfIdle(t) ==
  /\ pc[t] = "counted"
  /\ idle_workers' = IF objects[got[t]].state = "Idle"
                     THEN PushTo(idle_workers, objects[got[t]].id) ELSE idle_workers
  /\ pc'  = [pc EXCEPT ![t] = "outside"]
  /\ got' = [got EXCEPT ![t] = 0]
  /\ UNCHANGED <<objects, workers, active_count, ctrlVars, scaler, admin>>

\* The Arc goes with it, and the object, if it was the last one.
ReleasePush(t) ==
  /\ pc[t] = "counted"
  /\ idle_workers' = PushTo(idle_workers, objects[got[t]].id)
  /\ objects' = IF InVector(got[t]) \/ UsedBy(got[t], Tasks \ {t}) THEN objects
                ELSE [objects EXCEPT ![got[t]] = Blank]
  /\ pc'  = [pc EXCEPT ![t] = "outside"]
  /\ got' = [got EXCEPT ![t] = 0]
  /\ UNCHANGED <<workers, active_count, ctrlVars, scaler, admin>>

SetQueueSize(q) ==
  /\ queue_size' = q
  /\ UNCHANGED <<poolVars, shutdown, stopping, taskVars, scaler, admin>>

-----------------------------------------------------------------------------
\* The auto-scaler: one round reads the two sizes, may add, may remove.
\* Planted defect: the flag is not looked at while a shutdown is in progress.
ScalerTopLate ==
  /\ scaler.pc = "top"
  /\ scaler' = [scaler EXCEPT !.pc = IF stopping THEN "off" ELSE "wait"]
  /\ UNCHANGED <<poolVars, ctrlVars, taskVars, admin>>

ScalerTop ==
  /\ scaler.pc = "top"
  /\ scaler' = [scaler EXCEPT !.pc = IF shutdown THEN "off" ELSE "wait"]
  /\ UNCHANGED <<poolVars, ctrlVars, taskVars, admin>>

ScalerObserve ==
  /\ scaler.pc = "wait"
  /\ scaler' = [scaler EXCEPT !.pc = "up", !.queue = queue_size,
                              !.count = Len(workers)]
  /\ UNCHANGED <<poolVars, ctrlVars, taskVars, admin>>

\* add_worker, under the write lock.
AddWorker ==
  /\ ~ReadLocked
  /\ IF Len(workers) < MaxWorkers
     THEN /\ objects' = [objects EXCEPT
                           ![FreeObject] = [id |-> Len(workers), state |-> "Idle"]]
          /\ workers' = Append(workers, FreeObject)
          /\ idle_workers' = PushTo(idle_workers, Len(workers))
     ELSE UNCHANGED <<objects, workers, idle_workers>>
  /\ UNCHANGED active_count

ScaleUp ==
  /\ scaler.pc = "up"
  /\ IF scaler.queue > ScaleUpThreshold /\ scaler.count < MaxWorkers
     THEN AddWorker
     ELSE UNCHANGED poolVars
  /\ scaler' = [scaler EXCEPT !.pc = "down"]
  /\ UNCHANGED <<ctrlVars, taskVars, admin>>

\* worker_count - active_count > 1, on usize values read at different moments.
Surplus == (scaler.count - active_count) % UsizeRange > 1

ScaleDown ==
  /\ scaler.pc = "down"
  /\ scaler' = [scaler EXCEPT !.queue = 0, !.count = 0,     \* out of scope
                              !.pc = IF /\ scaler.queue < ScaleDownThreshold
                                        /\ scaler.count > MinLimit
                                        /\ Surplus
                                     THEN "remove" ELSE "top"]
  /\ UNCHANGED <<poolVars, ctrlVars, taskVars, admin>>

\* remove_idle_worker: the index to remove is the front of the idle queue when
\* that worker is idle, else the last idle worker of the vector.
IdleIndices == {i \in Indices : StateAt(i) = "Idle"}
LastIdle    == CHOOSE i \in IdleIndices : \A j \in IdleIndices : j <= i
Candidate   == IF idle_workers # <<>> /\ Head(idle_workers) \in IdleIndices
               THEN Head(idle_workers) ELSE LastIdle
AfterPop    == IF idle_workers = <<>> THEN <<>> ELSE Tail(idle_workers)

RemoveIdleWorker ==
  /\ scaler.pc = "remove"
  /\ ~ReadLocked
  /\ \/ /\ Len(workers) <= MinLimit \/ IdleIndices = {}    \* the two Err returns;
        /\ idle_workers' = IF Len(workers) <= MinLimit        \* the second one has
                           THEN idle_workers ELSE AfterPop    \* lost its candidate
        /\ scaler' = [scaler EXCEPT !.pc = "top"]
        /\ UNCHANGED <<objects, workers, active_count>>
     \/ /\ Len(workers) > MinLimit
        /\ IdleIndices # {}
        /\ idle_workers' = AfterPop
        /\ LET w == workers[Candidate + 1] IN
             objects' = IF UsedBy(w, Tasks) THEN WithState(w, "Stopping")
                        ELSE [objects EXCEPT ![w] = Blank]
        /\ workers' = SubSeq(workers, 1, Candidate)
                        \o SubSeq(workers, Candidate + 2, Len(workers))
        /\ scaler' = [scaler EXCEPT !.pc = "drain", !.gone = Candidate,
                                    !.pending = <<>>]
        /\ UNCHANGED active_count
  /\ UNCHANGED <<ctrlVars, taskVars, admin>>

\* Still under the write lock: pop every index, renumber it, ...
Renumber(i) == IF i = scaler.gone THEN <<>>
               ELSE IF i > scaler.gone THEN <<i - 1>> ELSE <<i>>

RemoveDrain ==
  /\ scaler.pc = "drain"
  /\ IF idle_workers # <<>>
     THEN /\ scaler' = [scaler EXCEPT !.pending = @ \o Renumber(Head(idle_workers))]
          /\ idle_workers' = Tail(idle_workers)
     ELSE /\ scaler' = [scaler EXCEPT !.pc = "repush"]
          /\ UNCHANGED idle_workers
  /\ UNCHANGED <<objects, workers, active_count, ctrlVars, taskVars, admin>>

\* ... and push them back; the write lock is released after the last one.
RemoveRepush ==
  /\ scaler.pc = "repush"
  /\ IF scaler.pending # <<>>
     THEN /\ idle_workers' = PushTo(idle_workers, Head(scaler.pending))
          /\ scaler' = [scaler EXCEPT !.pending = Tail(@)]
     ELSE /\ scaler' = [scaler EXCEPT !.pc = "top", !.gone = 0]
          /\ UNCHANGED idle_workers
  /\ UNCHANGED <<objects, workers, active_count, ctrlVars, taskVars, admin>>

-----------------------------------------------------------------------------
\* pause_all and resume_all scan the vector under the read lock; for each
\* worker the state is loaded and then stored, and acquire_worker may run in
\* between, because it takes the read lock too.
FromState(call) == IF call = "pause" THEN "Idle" ELSE "Paused"
ToState(call)   == IF call = "pause" THEN "Paused" ELSE "Idle"

ScanBegin(call) ==
  /\ call \in AdminCalls \ {"shutdown"}
  /\ ~ReadLocked /\ ~WriteLocked
  /\ admin' = [call |-> call, at |-> 0, seen |-> FALSE]
  /\ UNCHANGED <<poolVars, ctrlVars, taskVars, scaler>>

ScanLoad ==
  /\ ReadLocked /\ ~admin.seen
  /\ admin' = IF admin.at \notin Indices THEN NoScan
              ELSE IF StateAt(admin.at) = FromState(admin.call)
              THEN [admin EXCEPT !.seen = TRUE]
              ELSE [admin EXCEPT !.at = @ + 1]
  /\ UNCHANGED <<poolVars, ctrlVars, taskVars, scaler>>

ScanStore ==
  /\ admin.seen
  /\ objects' = WithState(workers[admin.at + 1], ToState(admin.call))
  /\ admin' = [admin EXCEPT !.at = @ + 1, !.seen = FALSE]
  /\ UNCHANGED <<workers, idle_workers, active_count, ctrlVars, taskVars, scaler>>

\* shutdown(): the flag is stored first, the workers are stopped under the
\* read lock afterwards.
ShutdownFlag ==
  /\ "shutdown" \in AdminCalls
  /\ ~shutdown
  /\ shutdown' = TRUE
  /\ stopping' = TRUE
  /\ UNCHANGED <<poolVars, queue_size, taskVars, scaler, admin>>

ShutdownStop ==
  /\ stopping
  /\ ~WriteLocked
  /\ objects' = [w \in Objects |->
                   IF InVector(w)
                   THEN [objects[w] EXCEPT !.state = "Stopped"] ELSE objects[w]]
  /\ stopping' = FALSE
  /\ UNCHANGED <<workers, idle_workers, active_count, queue_size, shutdown,
                 taskVars, scaler, admin>>

-----------------------------------------------------------------------------
Acquire(t) == AcquirePop(t) \/ AcquireLookup(t)
Release(t) == ReleaseSetIdle(t) \/ ReleaseCount(t) \/ ReleasePush(t)
Scaler     == ScalerTop \/ ScalerObserve \/ ScaleUp \/ ScaleDown
              \/ RemoveIdleWorker \/ RemoveDrain \/ RemoveRepush
Admin      == \/ \E call \in AdminCalls : ScanBegin(call)
              \/ ScanLoad \/ ScanStore \/ ShutdownFlag \/ ShutdownStop

Next == \/ \E t \in Tasks : Acquire(t) \/ Release(t)
        \/ \E q \in QueueSizes : SetQueueSize(q)
        \/ Scaler
        \/ Admin

Spec == Init /\ [][Next]_vars

\* Tokio keeps running the scaler task, which wakes at the latest after its
\* 5 s sleep; the scans are loops without an await; parking_lot's lock is fair,
\* so the scaler's request for the write lock cannot be overtaken for ever.
FairSpec ==
  /\ Spec
  /\ WF_vars(ScalerTop \/ ScalerObserve \/ ScaleDown \/ RemoveDrain \/ RemoveRepush)
  /\ SF_vars(ScaleUp \/ RemoveIdleWorker)
  /\ WF_vars(ScanLoad \/ ScanStore)

-----------------------------------------------------------------------------
\* Every variable keeps its type; in particular active_count, a usize, never
\* goes below zero and the idle queue never exceeds its capacity.
TypeOK ==
  /\ objects \in [Objects -> [id : Nat, state : WorkerState]]
  /\ workers \in Seq(Objects)
  /\ idle_workers \in Seq(Nat) /\ Len(idle_workers) <= MaxWorkers
  /\ active_count \in Nat
  /\ queue_size \in QueueSizes \cup {0}
  /\ shutdown \in BOOLEAN /\ stopping \in BOOLEAN
  /\ pc \in [Tasks -> {"outside", "popped", "holding", "released", "counted"}]
  /\ got \in [Tasks -> Nat] /\ \A t \in Tasks : Using(t) => got[t] \in Objects
  /\ scaler \in [pc : {"off", "top", "wait", "up", "down", "remove", "drain", "repush"},
                 queue : Nat, count : Nat, gone : Nat, pending : Seq(Nat)]
  /\ admin \in [call : {"none", "pause", "resume"}, at : Nat, seen : BOOLEAN]

\* How often index i is in circulation: queued, popped, or to be pushed back
\* by the task that has the worker.
Circulating(i) ==
    Cardinality({k \in DOMAIN idle_workers : idle_workers[k] = i})
  + Cardinality({t \in Tasks : pc[t] = "popped" /\ got[t] = i})
  + Cardinality({t \in Tasks : Using(t) /\ objects[got[t]].id = i})

\* While no worker is removed, every index of the vector circulates exactly
\* once and no other index does: acquire_worker (300-314) and release_worker
\* (317-327) hand no worker to two tasks and forget none, whatever pauses,
\* resumes, shutdowns and additions happen meanwhile.
EveryWorkerAccountedFor ==
  \A i \in 0..MaxWorkers : Circulating(i) = IF i \in Indices THEN 1 ELSE 0

\* While no worker is removed, acquire_worker (300-314), release_worker (317-327)
\* and add_worker lend workers as WorkerLending does: the queue of indices, the lookup
\* that comes later, and the three atomics of a release are not seen by a task.
Members     == {workers[i + 1] : i \in Indices}
Line        == [k \in 1..Len(idle_workers) |-> workers[idle_workers[k] + 1]]
WorkerOf(t) == IF pc[t] = "outside" THEN 0
               ELSE IF pc[t] = "popped" THEN workers[got[t] + 1] ELSE got[t]
Lent        == [t \in Tasks |-> WorkerOf(t)]

Lending == INSTANCE WorkerLending WITH
             members <- Members, line <- Line, lent <- Lent,
             Workers <- Objects, Nobody <- 0, Most <- MaxWorkers

KeepsLending == Lending!Spec

\* active_count, which the auto-scaler trusts (389-391), is the number of tasks
\* between the increment of acquire_worker and the decrement of release_worker:
\* no miss, double hand-out or removal makes it drift.
ActiveCountExact ==
  active_count = Cardinality({t \in Tasks : pc[t] \in {"holding", "released"}})

\* The auto-scaler never takes the pool above max_workers or below the minimum
\* of the configuration, on sizes it read before it took the lock (370-400).
PoolWithinLimits ==
  /\ Len(workers) <= MaxWorkers
  /\ ~ ZeroScaling => Len(workers) >= MinWorkers

\* After shutdown() the auto-scaler ends, even if it is blocked by a scan that has
\* the read lock, one after the other, or in the middle of renumbering the idle
\* queue when the flag is stored (364).
ScalerStops == shutdown ~> (scaler.pc = "off")

-----------------------------------------------------------------------------
\* What the account rests on: an index is in the queue, or with a task, ...
In(q, i)    == \E k \in 1..Len(q) : q[k] = i
Distinct(q) == \A j, k \in 1..Len(q) : q[j] = q[k] => j = k
Away(t)     == pc[t] # "outside"
Mine(t)     == IF pc[t] = "popped" THEN got[t] ELSE objects[got[t]].id

\* ... never in two places, nor lost; and the objects know their indices.
Accounted ==
  /\ Distinct(idle_workers)
  /\ \A k \in 1..Len(idle_workers) : idle_workers[k] \in Indices
  /\ \A t \in Tasks : Away(t) => Mine(t) \in Indices /\ ~In(idle_workers, Mine(t))
  /\ \A t, u \in Tasks : Away(t) /\ Away(u) /\ Mine(t) = Mine(u) => t = u
  /\ \A i \in Indices : In(idle_workers, i) \/ \E t \in Tasks : Away(t) /\ Mine(t) = i
  /\ \A i \in Indices : objects[workers[i + 1]].id = i
  /\ \A t \in Tasks : Using(t) => workers[Mine(t) + 1] = got[t]

\* A pool that only grows: the auto-scaler is off, or its threshold is never met.
GrowsOnly == ~AutoScaling \/ ScaleDownThreshold = 0
Growing   == /\ scaler.pc \notin {"remove", "drain", "repush"}
             /\ ~AutoScaling => scaler.pc = "off"
=============================================================================

---------------------------- MODULE WorkerPoolProofs ----------------------------
(***************************************************************************)
(* Proofs about WorkerPool, for any number of tasks, any limits and any    *)
(* thresholds: types, the limits of the pool, and the count of active      *)
(* workers, whatever indices go stale when workers are removed; and, while *)
(* none is removed, that no worker is lost or handed out twice.            *)
(***************************************************************************)
EXTENDS WorkerPool, FiniteLemmas, SequenceTheorems

IInv == TypeOK /\ ActiveCountExact /\ PoolWithinLimits

Counted == {"holding", "released"}

-----------------------------------------------------------------------------
\* What the steps work with.

LEMMA Sizes ==
  /\ MinWorkers \in Nat /\ MaxWorkers \in Nat /\ MinWorkers <= MaxWorkers
  /\ IsFiniteSet(Tasks) /\ Cardinality(Tasks) \in Nat
  /\ Objects = 1 .. MaxWorkers + Cardinality(Tasks)
  /\ Initial \in 0..MaxWorkers
  /\ MinLimit = Initial
BY PoolAssumption, FS_CardinalityType DEF Objects, Initial, MinLimit

LEMMA Vector ==
  ASSUME TypeOK
  PROVE  /\ Len(workers) \in Nat
         /\ Indices \subseteq Nat
         /\ \A i \in Indices : workers[i + 1] \in Objects
BY DEF TypeOK, Indices

LEMMA StateType ==
  ASSUME TypeOK, NEW w, NEW s \in WorkerState
  PROVE  WithState(w, s) \in [Objects -> [id : Nat, state : WorkerState]]
BY DEF TypeOK, WithState

\* A worker is queued again where there is room for it.
LEMMA PushToType ==
  ASSUME NEW q \in Seq(Nat), NEW i \in Nat, Len(q) <= MaxWorkers
  PROVE  PushTo(q, i) \in Seq(Nat) /\ Len(PushTo(q, i)) <= MaxWorkers
BY Sizes DEF PushTo

\* The vector and the tasks refer to fewer objects than there are names.
LEMMA FreeName ==
  ASSUME TypeOK, Len(workers) < MaxWorkers
  PROVE  FreeObject \in Objects /\ ~InVector(FreeObject) /\ ~UsedBy(FreeObject, Tasks)
<1> DEFINE n  == Len(workers)
           S1 == {workers[i] : i \in 1..n}
           S2 == {got[t] : t \in Tasks}
<1>1. /\ IsFiniteSet(S1) /\ Cardinality(S1) <= n /\ Cardinality(S1) \in Nat
  <2>1. n \in Nat /\ workers \in [1..n -> Objects]
    BY LenProperties DEF TypeOK
  <2>2. workers \in Surjection(1..n, S1)
    BY <2>1 DEF Surjection
  <2>3. IsFiniteSet(1..n) /\ Cardinality(1..n) = n
    BY <2>1, FS_Interval
  <2> HIDE DEF n, S1
  <2>4. QED
    BY <2>2, <2>3, FS_Surjection, FS_CardinalityType
<1>2. /\ IsFiniteSet(S2) /\ Cardinality(S2) <= Cardinality(Tasks) /\ Cardinality(S2) \in Nat
  <2>1. got \in Surjection(Tasks, S2)
    BY DEF TypeOK, Surjection
  <2>2. QED
    BY <2>1, Sizes, FS_Surjection, FS_CardinalityType
<1>3. /\ IsFiniteSet(S1 \cup S2)
      /\ Cardinality(S1 \cup S2) <= Cardinality(S1) + Cardinality(S2)
      /\ Cardinality(S1 \cup S2) \in Nat
  <2> HIDE DEF n, S1, S2
  <2>1. /\ IsFiniteSet(S1 \cup S2)
        /\ Cardinality(S1 \cup S2)
             = Cardinality(S1) + Cardinality(S2) - Cardinality(S1 \cap S2)
    BY <1>1, <1>2, FS_Union
  <2>2. Cardinality(S1 \cap S2) \in Nat /\ Cardinality(S1 \cup S2) \in Nat
    BY <1>1, <2>1, FS_Intersection, FS_CardinalityType
  <2>3. QED
    BY <1>1, <1>2, <2>1, <2>2
<1>4. n \in Nat
  BY Vector
<1>5. IsFiniteSet(Objects) /\ Cardinality(Objects) = MaxWorkers + Cardinality(Tasks)
  BY Sizes, FS_Interval
<1>6. \E w \in Objects : w \notin S1 \cup S2
  <2>1. SUFFICES ASSUME Objects \subseteq S1 \cup S2
                 PROVE  FALSE
    OBVIOUS
  <2> HIDE DEF n, S1, S2
  <2>2. Cardinality(Objects) <= Cardinality(S1 \cup S2)
    BY <1>3, <2>1, FS_Subset
  <2>3. QED
    BY <1>1, <1>2, <1>3, <1>4, <1>5, <2>2, Sizes DEF n
<1>7. PICK w \in Objects : w \notin S1 \cup S2
  BY <1>6
<1>8. ~ InVector(w) /\ ~ UsedBy(w, Tasks)
  BY <1>4, <1>7 DEF InVector, UsedBy, Indices
<1>9. QED
  BY <1>8 DEF FreeObject

\* The worker remove_idle_worker takes is one of the vector.
LEMMA CandidateType ==
  ASSUME TypeOK, IdleIndices # {}
  PROVE  Candidate \in Indices
<1>1. IdleIndices \in SUBSET Nat /\ IdleIndices \subseteq Indices
  BY Vector DEF IdleIndices
<1>2. \A i \in IdleIndices : i <= Len(workers)
  BY Vector DEF IdleIndices, Indices
<1>3. \E i \in IdleIndices : \A j \in IdleIndices : j <= i
  BY <1>1, <1>2, Vector, NatMax
<1>4. LastIdle \in IdleIndices
  BY <1>3 DEF LastIdle
<1>5. QED
  BY <1>1, <1>4 DEF Candidate

\* The vector is one shorter after a removal.
LEMMA Removal ==
  ASSUME TypeOK, NEW c \in Indices
  PROVE  /\ SubSeq(workers, 1, c) \o SubSeq(workers, c + 2, Len(workers)) \in Seq(Objects)
         /\ Len(SubSeq(workers, 1, c) \o SubSeq(workers, c + 2, Len(workers)))
              = Len(workers) - 1
<1> DEFINE A == SubSeq(workers, 1, c)
           B == SubSeq(workers, c + 2, Len(workers))
<1>1. /\ workers \in Seq(Objects) /\ Len(workers) \in Nat
      /\ c \in Nat /\ c + 1 <= Len(workers)
  BY Vector DEF TypeOK, Indices
<1>2. /\ \A i \in 1..c : workers[i] \in Objects
      /\ \A i \in (c + 2)..Len(workers) : workers[i] \in Objects
  BY <1>1
<1>3. A \in Seq(Objects) /\ Len(A) = c
  BY <1>1, <1>2, SubSeqProperties
<1>4. B \in Seq(Objects) /\ Len(B) = Len(workers) - c - 1
  BY <1>1, <1>2, SubSeqProperties
<1>5. A \o B \in Seq(Objects) /\ Len(A \o B) = Len(A) + Len(B)
  <2> HIDE DEF A, B
  <2> QED
    BY <1>3, <1>4, ConcatProperties
<1>6. Len(A) + Len(B) = Len(workers) - 1
  <2> HIDE DEF A, B
  <2> QED
    BY <1>1, <1>3, <1>4
<1>7. QED
  BY <1>5, <1>6

-----------------------------------------------------------------------------
\* Every step keeps the types, variable by variable: the actions that write a
\* variable one by one, and all others together.

LEMMA ObjectsStep ==
  ASSUME TypeOK, [Next]_vars
  PROVE  objects' \in [Objects -> [id : Nat, state : WorkerState]]
<1> DEFINE T == [Objects -> [id : Nat, state : WorkerState]]
<1>0. objects \in T
  BY DEF TypeOK
<1>1. ASSUME NEW t \in Tasks, AcquireLookup(t) \/ ReleaseSetIdle(t)
      PROVE  objects' \in T
  <2>1. {"Processing", "Idle"} \subseteq WorkerState
    BY DEF WorkerState
  <2>2. QED
    BY <1>0, <1>1, <2>1, StateType DEF AcquireLookup, ReleaseSetIdle
<1>2. Blank \in [id : Nat, state : WorkerState]
  BY DEF Blank, WorkerState
<1>3. ASSUME NEW t \in Tasks, ReleasePush(t)
      PROVE  objects' \in T
  BY <1>0, <1>2, <1>3 DEF ReleasePush
<1>4. CASE ScaleUp
  <2>1. Len(workers) \in Nat
    BY Vector
  <2>2. CASE UNCHANGED objects
    BY <1>0, <2>2
  <2>3. ASSUME objects' = [objects EXCEPT ![FreeObject] = [id |-> Len(workers), state |-> "Idle"]]
        PROVE  objects' \in T
    BY <1>0, <2>1, <2>3 DEF WorkerState
  <2>4. QED
    BY <1>4, <2>2, <2>3 DEF ScaleUp, AddWorker, poolVars
<1>5. CASE RemoveIdleWorker
  <2>1. "Stopping" \in WorkerState
    BY DEF WorkerState
  <2>2. QED
    <3> DEFINE w == workers[Candidate + 1]
    <3>1. objects' \in {objects, WithState(w, "Stopping"), [objects EXCEPT ![w] = Blank]}
      BY <1>5 DEF RemoveIdleWorker
    <3>2. WithState(w, "Stopping") \in T /\ [objects EXCEPT ![w] = Blank] \in T
      BY <1>0, <1>2, <2>1, StateType
    <3>3. QED
      BY <1>0, <3>1, <3>2
<1>6. CASE ScanStore
  <2>1. ToState(admin.call) \in WorkerState
    BY DEF ToState, WorkerState
  <2>2. QED
    BY <1>6, <2>1, StateType DEF ScanStore
<1>7. CASE ShutdownStop
  <2>1. \A w \in Objects : [objects[w] EXCEPT !.state = "Stopped"]
                             \in [id : Nat, state : WorkerState]
    BY <1>0 DEF WorkerState
  <2>2. objects' = [w \in Objects |-> IF InVector(w) THEN [objects[w] EXCEPT !.state = "Stopped"]
                                     ELSE objects[w]]
    BY <1>7 DEF ShutdownStop
  <2>3. QED
    BY <1>0, <2>1, <2>2, Zenon
<1>8. ASSUME ~ (\E t \in Tasks : AcquireLookup(t) \/ ReleaseSetIdle(t) \/ ReleasePush(t)),
             ~ (ScaleUp \/ RemoveIdleWorker \/ ScanStore \/ ShutdownStop)
      PROVE  objects' = objects
  BY <1>8 DEF Next, Acquire, Release, Scaler, Admin, vars, poolVars,
     AcquirePop, ReleaseCount, SetQueueSize, ScalerTop, ScalerObserve, ScaleDown,
     RemoveDrain, RemoveRepush, ScanBegin, ScanLoad, ShutdownFlag
<1>9. QED
  BY <1>0, <1>1, <1>3, <1>4, <1>5, <1>6, <1>7, <1>8

\* The vector keeps its type and its limits: add_worker and remove_idle_worker
\* look at its length again under the write lock.
LEMMA VectorStep ==
  ASSUME TypeOK, PoolWithinLimits, [Next]_vars
  PROVE  workers' \in Seq(Objects) /\ PoolWithinLimits'
<1>0. /\ workers \in Seq(Objects) /\ Len(workers) \in Nat
      /\ Len(workers) <= MaxWorkers /\ (~ ZeroScaling => Len(workers) >= MinWorkers)
      /\ MinWorkers \in Nat /\ MaxWorkers \in Nat
  BY Vector, Sizes DEF TypeOK, PoolWithinLimits
<1>1. ASSUME workers' = workers
      PROVE  workers' \in Seq(Objects) /\ PoolWithinLimits'
  BY <1>0, <1>1 DEF PoolWithinLimits
<1>2. CASE ScaleUp
  <2>1. ASSUME Len(workers) < MaxWorkers, workers' = Append(workers, FreeObject)
        PROVE  workers' \in Seq(Objects) /\ PoolWithinLimits'
    <3>1. workers' \in Seq(Objects) /\ Len(workers') = Len(workers) + 1
      BY <1>0, <2>1, FreeName, AppendProperties
    <3>2. QED
      BY <1>0, <2>1, <3>1 DEF PoolWithinLimits
  <2>2. QED
    BY <1>1, <1>2, <2>1 DEF ScaleUp, AddWorker, poolVars
<1>3. CASE RemoveIdleWorker
  <2>1. ASSUME Len(workers) > MinLimit, IdleIndices # {},
               workers' = SubSeq(workers, 1, Candidate)
                            \o SubSeq(workers, Candidate + 2, Len(workers))
        PROVE  workers' \in Seq(Objects) /\ PoolWithinLimits'
    <3>1. workers' \in Seq(Objects) /\ Len(workers') = Len(workers) - 1
      BY <2>1, CandidateType, Removal
    <3>2. ~ ZeroScaling => MinLimit = MinWorkers
      BY DEF MinLimit
    <3>3. QED
      BY <1>0, <2>1, <3>1, <3>2 DEF PoolWithinLimits
  <2>2. QED
    BY <1>1, <1>3, <2>1 DEF RemoveIdleWorker
<1>4. ASSUME ~ ScaleUp, ~ RemoveIdleWorker
      PROVE  workers' = workers
  BY <1>4 DEF Next, Acquire, Release, Scaler, Admin, vars, poolVars, AcquirePop,
     AcquireLookup, ReleaseSetIdle, ReleaseCount, ReleasePush, SetQueueSize, ScalerTop,
     ScalerObserve, ScaleDown, RemoveDrain, RemoveRepush, ScanBegin, ScanLoad, ScanStore,
     ShutdownFlag, ShutdownStop
<1>5. QED
  BY <1>1, <1>2, <1>3, <1>4

LEMMA QueueStep ==
  ASSUME TypeOK, [Next]_vars
  PROVE  idle_workers' \in Seq(Nat) /\ Len(idle_workers') <= MaxWorkers
<1> DEFINE Good(q) == q \in Seq(Nat) /\ Len(q) <= MaxWorkers
<1>0. Good(idle_workers) /\ MaxWorkers \in Nat /\ Len(workers) \in Nat
  BY Vector, Sizes DEF TypeOK
<1>1. idle_workers # <<>> => Good(Tail(idle_workers)) /\ Head(idle_workers) \in Nat
  BY <1>0, HeadTailProperties
<1>2. \A i \in Nat : Good(PushTo(idle_workers, i))
  BY <1>0, PushToType
<1>3. ASSUME NEW t \in Tasks, AcquirePop(t)
      PROVE  Good(idle_workers')
  BY <1>1, <1>3 DEF AcquirePop
<1>4. ASSUME NEW t \in Tasks, ReleasePush(t)
      PROVE  Good(idle_workers')
  <2>1. objects[got[t]].id \in Nat
    BY <1>4 DEF ReleasePush, TypeOK, Using
  <2>2. QED
    BY <1>2, <1>4, <2>1 DEF ReleasePush
<1>5. CASE ScaleUp
  BY <1>0, <1>2, <1>5 DEF ScaleUp, AddWorker, poolVars
<1>6. CASE RemoveIdleWorker
  <2>1. Good(AfterPop)
    BY <1>0, <1>1 DEF AfterPop
  <2>2. QED
    BY <1>0, <1>6, <2>1 DEF RemoveIdleWorker
<1>7. CASE RemoveDrain
  BY <1>0, <1>1, <1>7 DEF RemoveDrain
<1>8. CASE RemoveRepush
  <2>1. scaler.pending # <<>> => Head(scaler.pending) \in Nat
    BY HeadTailProperties DEF TypeOK
  <2>2. QED
    BY <1>0, <1>2, <1>8, <2>1 DEF RemoveRepush
<1>9. ASSUME ~ (\E t \in Tasks : AcquirePop(t) \/ ReleasePush(t)),
             ~ (ScaleUp \/ RemoveIdleWorker \/ RemoveDrain \/ RemoveRepush)
      PROVE  idle_workers' = idle_workers
  BY <1>9 DEF Next, Acquire, Release, Scaler, Admin, vars, poolVars,
     AcquireLookup, ReleaseSetIdle, ReleaseCount, SetQueueSize, ScalerTop,
     ScalerObserve, ScaleDown, ScanBegin, ScanLoad, ScanStore, ShutdownFlag, ShutdownStop
<1>10. QED
  BY <1>0, <1>3, <1>4, <1>5, <1>6, <1>7, <1>8, <1>9

LEMMA TaskStep ==
  ASSUME TypeOK, [Next]_vars
  PROVE  /\ pc' \in [Tasks -> {"outside", "popped", "holding", "released", "counted"}]
         /\ got' \in [Tasks -> Nat]
         /\ \A t \in Tasks : Using(t)' => got'[t] \in Objects
<1> DEFINE PC == {"outside", "popped", "holding", "released", "counted"}
           Good == /\ pc' \in [Tasks -> PC] /\ got' \in [Tasks -> Nat]
                   /\ \A t \in Tasks : Using(t)' => got'[t] \in Objects
<1>0. /\ pc \in [Tasks -> PC] /\ got \in [Tasks -> Nat]
      /\ \A t \in Tasks : pc[t] \in {"holding", "released", "counted"} => got[t] \in Objects
      /\ Objects \subseteq Nat
  BY Sizes DEF TypeOK, Using
<1>1. ASSUME NEW t \in Tasks, NEW p \in PC, NEW g \in Nat,
             pc' = [pc EXCEPT ![t] = p], got' = [got EXCEPT ![t] = g],
             p \in {"outside", "popped"} \/ g \in Objects
      PROVE  Good
  BY <1>0, <1>1 DEF Using
<1>2. ASSUME NEW t \in Tasks, AcquirePop(t)
      PROVE  Good
  <2>1. Head(idle_workers) \in Nat
    BY <1>2, HeadTailProperties DEF AcquirePop, TypeOK
  <2>2. QED
    BY <1>1, <1>2, <2>1 DEF AcquirePop
<1>3. ASSUME NEW t \in Tasks, AcquireLookup(t)
      PROVE  Good
  <2>1. got[t] \in Indices => workers[got[t] + 1] \in Objects
    BY Vector
  <2>2. QED
    BY <1>0, <1>1, <1>3, <2>1 DEF AcquireLookup
<1>4. ASSUME NEW t \in Tasks, ReleasePush(t)
      PROVE  Good
  BY <1>1, <1>4 DEF ReleasePush
<1>5. ASSUME NEW t \in Tasks, ReleaseSetIdle(t) \/ ReleaseCount(t)
      PROVE  Good
  <2>1. got' = [got EXCEPT ![t] = got[t]] /\ got[t] \in Nat /\ got[t] \in Objects
    BY <1>0, <1>5 DEF ReleaseSetIdle, ReleaseCount
  <2>2. QED
    BY <1>1, <1>5, <2>1 DEF ReleaseSetIdle, ReleaseCount
<1>6. ASSUME pc' = pc, got' = got
      PROVE  Good
  BY <1>0, <1>6 DEF Using
<1>7. ASSUME ~ \E t \in Tasks : Acquire(t) \/ Release(t)
      PROVE  pc' = pc /\ got' = got
  BY <1>7 DEF Next, Scaler, Admin, vars, taskVars, SetQueueSize, ScalerTop, ScalerObserve,
     ScaleUp, ScaleDown, RemoveIdleWorker, RemoveDrain, RemoveRepush, ScanBegin, ScanLoad,
     ScanStore, ShutdownFlag, ShutdownStop
<1>8. QED
  BY <1>2, <1>3, <1>4, <1>5, <1>6, <1>7 DEF Acquire, Release

LEMMA ScalerStep ==
  ASSUME TypeOK, [Next]_vars
  PROVE  scaler' \in [pc : {"off", "top", "wait", "up", "down", "remove", "drain", "repush"},
                      queue : Nat, count : Nat, gone : Nat, pending : Seq(Nat)]
<1> DEFINE T == [pc : {"off", "top", "wait", "up", "down", "remove", "drain", "repush"},
                 queue : Nat, count : Nat, gone : Nat, pending : Seq(Nat)]
<1>0. scaler \in T
  BY DEF TypeOK
<1>1. CASE ScalerTop \/ ScaleUp
  BY <1>0, <1>1 DEF ScalerTop, ScaleUp
<1>2. CASE ScalerObserve
  <2>1. queue_size \in Nat /\ Len(workers) \in Nat
    BY Vector, PoolAssumption DEF TypeOK
  <2>2. QED
    BY <1>0, <1>2, <2>1 DEF ScalerObserve
<1>3. CASE ScaleDown
  BY <1>0, <1>3 DEF ScaleDown
<1>4. CASE RemoveIdleWorker
  <2>1. IdleIndices # {} => Candidate \in Nat
    BY Vector, CandidateType
  <2>2. \/ scaler' = [scaler EXCEPT !.pc = "top"]
        \/ IdleIndices # {}
           /\ scaler' = [scaler EXCEPT !.pc = "drain", !.gone = Candidate, !.pending = <<>>]
    BY <1>4 DEF RemoveIdleWorker
  <2>3. <<>> \in Seq(Nat)
    OBVIOUS
  <2>4. QED
    BY <1>0, <2>1, <2>2, <2>3
<1>5. CASE RemoveDrain
  <2>1. ASSUME idle_workers # <<>>
        PROVE  scaler.pending \o Renumber(Head(idle_workers)) \in Seq(Nat)
    <3>1. Head(idle_workers) \in Nat /\ scaler.gone \in Nat /\ scaler.pending \in Seq(Nat)
      BY <2>1, HeadTailProperties DEF TypeOK
    <3>2. Renumber(Head(idle_workers)) \in Seq(Nat)
      BY <3>1 DEF Renumber
    <3>3. QED
      BY <3>1, <3>2, ConcatProperties
  <2>2. QED
    BY <1>0, <1>5, <2>1 DEF RemoveDrain
<1>6. CASE RemoveRepush
  <2>1. 0 \in Nat /\ (scaler.pending # <<>> => Tail(scaler.pending) \in Seq(Nat))
    BY <1>0, HeadTailProperties
  <2>2. \/ scaler' = [scaler EXCEPT !.pc = "top", !.gone = 0]
        \/ scaler.pending # <<>>
           /\ scaler' = [scaler EXCEPT !.pending = Tail(scaler.pending)]
    BY <1>6 DEF RemoveRepush
  <2>3. QED
    BY <1>0, <2>1, <2>2, Zenon
<1>7. ASSUME ~ Scaler
      PROVE  scaler' = scaler
  BY <1>7 DEF Next, Acquire, Release, Admin, vars, AcquirePop,
     AcquireLookup, ReleaseSetIdle, ReleaseCount, ReleasePush, SetQueueSize,
     ScanBegin, ScanLoad, ScanStore, ShutdownFlag, ShutdownStop
<1>8. QED
  BY <1>0, <1>1, <1>2, <1>3, <1>4, <1>5, <1>6, <1>7 DEF Scaler

LEMMA ControlStep ==
  ASSUME TypeOK, [Next]_vars
  PROVE  /\ queue_size' \in QueueSizes \cup {0}
         /\ shutdown' \in BOOLEAN /\ stopping' \in BOOLEAN
<1>0. queue_size \in QueueSizes \cup {0} /\ shutdown \in BOOLEAN /\ stopping \in BOOLEAN
  BY DEF TypeOK
<1>1. ASSUME NEW q \in QueueSizes, SetQueueSize(q)
      PROVE  /\ queue_size' \in QueueSizes \cup {0}
             /\ shutdown' \in BOOLEAN /\ stopping' \in BOOLEAN
  BY <1>0, <1>1 DEF SetQueueSize
<1>2. CASE ShutdownFlag \/ ShutdownStop
  BY <1>0, <1>2 DEF ShutdownFlag, ShutdownStop
<1>3. ASSUME ~ \E q \in QueueSizes : SetQueueSize(q), ~ (ShutdownFlag \/ ShutdownStop)
      PROVE  UNCHANGED ctrlVars
  BY <1>3 DEF Next, Acquire, Release, Scaler, Admin, vars, ctrlVars, AcquirePop,
     AcquireLookup, ReleaseSetIdle, ReleaseCount, ReleasePush, ScalerTop, ScalerObserve,
     ScaleUp, ScaleDown, RemoveIdleWorker, RemoveDrain, RemoveRepush, ScanBegin, ScanLoad,
     ScanStore
<1>4. QED
  BY <1>0, <1>1, <1>2, <1>3 DEF ctrlVars

LEMMA AdminStep ==
  ASSUME TypeOK, [Next]_vars
  PROVE  admin' \in [call : {"none", "pause", "resume"}, at : Nat, seen : BOOLEAN]
<1>0. /\ admin \in [call : {"none", "pause", "resume"}, at : Nat, seen : BOOLEAN]
      /\ NoScan \in [call : {"none", "pause", "resume"}, at : Nat, seen : BOOLEAN]
  BY DEF TypeOK, NoScan
<1>1. ASSUME NEW call \in AdminCalls, ScanBegin(call)
      PROVE  admin' \in [call : {"none", "pause", "resume"}, at : Nat, seen : BOOLEAN]
  BY <1>1, PoolAssumption DEF ScanBegin
<1>2. CASE ScanLoad
  <2>1. admin' = NoScan \/ admin' = [admin EXCEPT !.seen = TRUE]
                        \/ admin' = [admin EXCEPT !.at = admin.at + 1]
    BY <1>2 DEF ScanLoad
  <2>2. admin.at + 1 \in Nat
    BY <1>0
  <2>3. QED
    BY <1>0, <2>1, <2>2, Zenon
<1>3. CASE ScanStore
  <2>1. admin' = [admin EXCEPT !.at = admin.at + 1, !.seen = FALSE]
    BY <1>3 DEF ScanStore
  <2>2. admin.at + 1 \in Nat
    BY <1>0
  <2>3. QED
    BY <1>0, <2>1, <2>2, Zenon
<1>4. ASSUME ~ \E call \in AdminCalls : ScanBegin(call), ~ (ScanLoad \/ ScanStore)
      PROVE  admin' = admin
  BY <1>4 DEF Next, Acquire, Release, Scaler, Admin, vars, AcquirePop,
     AcquireLookup, ReleaseSetIdle, ReleaseCount, ReleasePush, SetQueueSize, ScalerTop,
     ScalerObserve, ScaleUp, ScaleDown, RemoveIdleWorker, RemoveDrain, RemoveRepush,
     ShutdownFlag, ShutdownStop
<1>5. QED
  BY <1>0, <1>1, <1>2, <1>3, <1>4

-----------------------------------------------------------------------------
\* The count changes in acquire_worker and release_worker only, together with
\* the place of the one task that runs them.
LEMMA CountStep ==
  ASSUME TypeOK, ActiveCountExact, [Next]_vars
  PROVE  ActiveCountExact' /\ active_count' \in Nat
<1> DEFINE N(f) == CountOf(Tasks, f, Counted)
<1>0. /\ active_count = N(pc) /\ active_count \in Nat
      /\ DOMAIN pc = Tasks /\ pc = [t \in Tasks |-> pc[t]]
  BY DEF TypeOK, ActiveCountExact, CountOf, Counted
<1>1. ASSUME active_count' = N(pc')
      PROVE  ActiveCountExact' /\ active_count' \in Nat
  <2>1. ActiveCountExact'
    BY <1>1 DEF ActiveCountExact, CountOf, Counted
  <2>2. N(pc') \in 0..Cardinality(Tasks)
    BY Sizes, CountType
  <2>3. QED
    BY <1>1, <2>1, <2>2, Sizes
<1>2. ASSUME NEW t \in Tasks, NEW p, pc' = [pc EXCEPT ![t] = p]
      PROVE  N(pc') = N(pc) + (IF p \in Counted THEN 1 ELSE 0)
                            - (IF pc[t] \in Counted THEN 1 ELSE 0)
  <2>1. IsFiniteSet(Tasks)
    BY Sizes
  <2>2. QED
    BY <1>0, <1>2, <2>1, CountExcept
<1>3. ASSUME NEW t \in Tasks, AcquireLookup(t)
      PROVE  active_count' = N(pc')
  <2>1. CASE active_count' = active_count + 1 /\ pc' = [pc EXCEPT ![t] = "holding"]
    <3>1. pc[t] \notin Counted /\ "holding" \in Counted
      BY <1>3 DEF AcquireLookup, Counted
    <3>2. QED
      BY <1>0, <1>2, <2>1, <3>1
  <2>2. CASE active_count' = active_count /\ pc' = [pc EXCEPT ![t] = "outside"]
    <3>1. pc[t] \notin Counted /\ "outside" \notin Counted
      BY <1>3 DEF AcquireLookup, Counted
    <3>2. QED
      BY <1>0, <1>2, <2>2, <3>1
  <2>3. QED
    BY <1>3, <2>1, <2>2 DEF AcquireLookup
<1>4. ASSUME NEW t \in Tasks, ReleaseCount(t)
      PROVE  active_count' = N(pc')
  <2>1. /\ active_count' = active_count - 1 /\ pc' = [pc EXCEPT ![t] = "counted"]
        /\ pc[t] \in Counted /\ "counted" \notin Counted
    BY <1>4 DEF ReleaseCount, Counted
  <2>2. QED
    BY <1>0, <1>2, <2>1
<1>5. ASSUME NEW t \in Tasks, AcquirePop(t) \/ ReleaseSetIdle(t) \/ ReleasePush(t)
      PROVE  active_count' = N(pc')
  <2>1. /\ active_count' = active_count
        /\ \E p : pc' = [pc EXCEPT ![t] = p] /\ (p \in Counted <=> pc[t] \in Counted)
    BY <1>5 DEF AcquirePop, ReleaseSetIdle, ReleasePush, Counted
  <2>2. PICK p : pc' = [pc EXCEPT ![t] = p] /\ (p \in Counted <=> pc[t] \in Counted)
    BY <2>1
  <2>3. QED
    BY <1>0, <1>2, <2>1, <2>2
<1>6. ASSUME ~ \E t \in Tasks : Acquire(t) \/ Release(t)
      PROVE  pc' = pc /\ active_count' = active_count
  BY <1>6 DEF Next, Scaler, Admin, vars, taskVars, poolVars, SetQueueSize, ScalerTop,
     ScalerObserve, ScaleUp, AddWorker, ScaleDown, RemoveIdleWorker, RemoveDrain,
     RemoveRepush, ScanBegin, ScanLoad, ScanStore, ShutdownFlag, ShutdownStop
<1>7. QED
  BY <1>0, <1>1, <1>3, <1>4, <1>5, <1>6 DEF Acquire, Release

-----------------------------------------------------------------------------
LEMMA IInvInit ==
  Init => IInv
<1> SUFFICES ASSUME Init
             PROVE  IInv
  OBVIOUS
<1>1. /\ Initial \in Nat /\ Initial <= MaxWorkers /\ MaxWorkers \in Nat
      /\ MinWorkers \in Nat /\ Cardinality(Tasks) \in Nat
      /\ 1..Initial \subseteq Objects
  BY Sizes
<1>2. objects \in [Objects -> [id : Nat, state : WorkerState]]
  <2>1. Blank \in [id : Nat, state : WorkerState]
    BY DEF Blank, WorkerState
  <2>2. \A w \in Objects : w <= Initial => [Blank EXCEPT !.id = w - 1]
                                             \in [id : Nat, state : WorkerState]
    BY <2>1, Sizes
  <2>3. objects = [w \in Objects |-> IF w <= Initial THEN [Blank EXCEPT !.id = w - 1]
                                                   ELSE Blank]
    BY DEF Init
  <2>4. QED
    BY <2>1, <2>2, <2>3, Zenon
<1>3. workers \in Seq(Objects) /\ Len(workers) = Initial
  <2>1. workers = [w \in 1..Initial |-> w]
    BY DEF Init
  <2>2. workers \in [1..Initial -> Objects] /\ Initial \in Nat
    BY <1>1, <2>1
  <2>3. QED
    BY <2>2
<1>4. idle_workers \in Seq(Nat) /\ Len(idle_workers) <= MaxWorkers
  <2>1. idle_workers = [w \in 1..Initial |-> w - 1]
    BY DEF Init
  <2>2. idle_workers \in [1..Initial -> Nat]
    BY <1>1, <2>1
  <2>3. QED
    BY <1>1, <2>2
<1>5. ActiveCountExact
  <2>1. {t \in Tasks : pc[t] \in {"holding", "released"}} = {}
    BY DEF Init
  <2>2. QED
    BY <2>1, FS_EmptySet DEF ActiveCountExact, Init
<1>6. PoolWithinLimits
  BY <1>1, <1>3 DEF PoolWithinLimits, Initial
<1>7. TypeOK
  <2>1. /\ scaler \in [pc : {"off", "top", "wait", "up", "down", "remove", "drain", "repush"},
                       queue : Nat, count : Nat, gone : Nat, pending : Seq(Nat)]
        /\ admin \in [call : {"none", "pause", "resume"}, at : Nat, seen : BOOLEAN]
    BY DEF Init, NoScan
  <2>2. /\ active_count \in Nat
        /\ queue_size \in QueueSizes \cup {0}
        /\ shutdown \in BOOLEAN /\ stopping \in BOOLEAN
    BY DEF Init
  <2>3. /\ pc \in [Tasks -> {"outside", "popped", "holding", "released", "counted"}]
        /\ got \in [Tasks -> Nat]
        /\ \A t \in Tasks : ~ Using(t)
    BY DEF Init, Using
  <2>4. QED
    BY <1>2, <1>3, <1>4, <2>1, <2>2, <2>3 DEF TypeOK
<1>8. QED
  BY <1>5, <1>6, <1>7 DEF IInv

LEMMA IInvInvariant ==
  Spec => []IInv
<1>1. IInv /\ [Next]_vars => IInv'
  <2> SUFFICES ASSUME IInv, [Next]_vars
               PROVE  IInv'
    OBVIOUS
  <2>1. TypeOK /\ ActiveCountExact /\ PoolWithinLimits
    BY DEF IInv
  <2>2. TypeOK'
    BY <2>1, ObjectsStep, VectorStep, QueueStep, TaskStep, ScalerStep, ControlStep,
       AdminStep, CountStep DEF TypeOK
  <2>3. ActiveCountExact' /\ PoolWithinLimits'
    BY <2>1, CountStep, VectorStep
  <2>4. QED
    BY <2>2, <2>3 DEF IInv
<1>2. QED
  BY <1>1, IInvInit, PTL DEF Spec

\* The variables keep their types: active_count, a usize, never wraps below
\* zero (322), and a name is free whenever add_worker (227-244) needs one.
THEOREM TypeCorrect ==
  Spec => []TypeOK
<1>1. IInv => TypeOK
  BY DEF IInv
<1>2. QED
  BY <1>1, IInvInvariant, PTL

\* active_count is the number of tasks between the increment of acquire_worker
\* and the decrement of release_worker (300-327), stale indices or not.
THEOREM CountCorrect ==
  Spec => []ActiveCountExact
<1>1. IInv => ActiveCountExact
  BY DEF IInv
<1>2. QED
  BY <1>1, IInvInvariant, PTL

\* The auto-scaler keeps the pool within its limits (370-400, 227-297).
THEOREM LimitsKept ==
  Spec => []PoolWithinLimits
<1>1. IInv => PoolWithinLimits
  BY DEF IInv
<1>2. QED
  BY <1>1, IInvInvariant, PTL

-----------------------------------------------------------------------------
\* A pool that only grows forgets no worker and lends none twice.

\* The queue as a set of indices.
LEMMA TailIn ==
  ASSUME NEW q \in Seq(Nat), q # <<>>, Distinct(q)
  PROVE  /\ Distinct(Tail(q))
         /\ \A i : In(Tail(q), i) <=> In(q, i) /\ i # Head(q)
         /\ In(q, Head(q))
<1>1. PICK n \in Nat : Len(q) = n + 1
  <2>1. Len(q) \in Nat /\ Len(q) # 0
    BY EmptySeq, LenProperties
  <2>2. Len(q) - 1 \in Nat /\ Len(q) = (Len(q) - 1) + 1
    BY <2>1
  <2>3. QED
    BY <2>2, Zenon
<1>2. Len(Tail(q)) = n /\ \A k \in 1..n : Tail(q)[k] = q[k + 1]
  BY <1>1, HeadTailProperties
<1>3. Head(q) = q[1]
  OBVIOUS
<1>4. Distinct(Tail(q))
  <2>1. SUFFICES ASSUME NEW j \in 1..n, NEW k \in 1..n, Tail(q)[j] = Tail(q)[k] PROVE j = k
    BY <1>2 DEF Distinct
  <2>2. j + 1 \in 1..Len(q) /\ k + 1 \in 1..Len(q) /\ q[j + 1] = q[k + 1]
    BY <1>1, <1>2, <2>1
  <2>3. j + 1 = k + 1
    BY <2>2 DEF Distinct
  <2>4. QED
    BY <2>3
<1>5. ASSUME NEW i, In(Tail(q), i) PROVE In(q, i) /\ i # Head(q)
  <2>1. PICK k \in 1..n : Tail(q)[k] = i
    BY <1>2, <1>5 DEF In
  <2>2. k + 1 \in 1..Len(q) /\ 1 \in 1..Len(q) /\ q[k + 1] = i /\ k + 1 # 1
    BY <1>1, <1>2, <2>1
  <2>3. QED
    BY <1>3, <2>2 DEF In, Distinct
<1>6. ASSUME NEW i, In(q, i), i # Head(q) PROVE In(Tail(q), i)
  <2>1. PICK k \in 1..(n + 1) : q[k] = i
    BY <1>1, <1>6 DEF In
  <2>2. k # 1
    BY <1>3, <1>6, <2>1
  <2>3. k - 1 \in 1..n /\ (k - 1) + 1 = k
    BY <2>1, <2>2
  <2>4. Tail(q)[k - 1] = i
    BY <1>2, <2>1, <2>3
  <2>5. QED
    BY <1>2, <2>3, <2>4 DEF In
<1>7. In(q, Head(q))
  <2>1. 1 \in 1..Len(q)
    BY <1>1
  <2>2. QED
    BY <1>3, <2>1 DEF In
<1>8. QED
  BY <1>4, <1>5, <1>6, <1>7

LEMMA AppendIn ==
  ASSUME NEW q \in Seq(Nat), NEW x \in Nat, Distinct(q), ~In(q, x)
  PROVE  /\ Distinct(Append(q, x))
         /\ \A i : In(Append(q, x), i) <=> In(q, i) \/ i = x
<1>1. PICK n \in Nat : Len(q) = n
  BY LenProperties
<1>2. /\ Len(Append(q, x)) = n + 1 /\ Append(q, x)[n + 1] = x
      /\ \A k \in 1..n : Append(q, x)[k] = q[k]
  BY <1>1, AppendProperties
<1>3. \A k \in 1..n : q[k] # x
  BY <1>1 DEF In
<1>4. Distinct(Append(q, x))
  <2>1. \A k \in 1..(n + 1) : k \in 1..n \/ k = n + 1
    BY <1>1
  <2>2. QED
    BY <1>1, <1>2, <1>3, <2>1 DEF Distinct
<1>5. ASSUME NEW i PROVE In(Append(q, x), i) <=> In(q, i) \/ i = x
  <2>1. n + 1 \in 1..(n + 1) /\ 1..(n + 1) = (1..n) \cup {n + 1}
    BY <1>1
  <2>2. QED
    BY <1>1, <1>2, <2>1 DEF In
<1>6. QED
  BY <1>4, <1>5

\* The queue has room for an index that is not in it.
LEMMA RoomForOne ==
  ASSUME NEW q \in Seq(Nat), Distinct(q), NEW n \in Nat,
         \A k \in 1..Len(q) : q[k] \in 0..(n - 1)
  PROVE  /\ Len(q) <= n
         /\ \A x \in 0..(n - 1) : ~In(q, x) => Len(q) < n
<1>1. Len(q) \in Nat /\ q \in [1..Len(q) -> Nat]
  BY LenProperties
<1>2. IsFiniteSet(1..Len(q)) /\ Cardinality(1..Len(q)) = Len(q)
  BY <1>1, FS_Interval
<1>3. IsFiniteSet(0..(n - 1)) /\ Cardinality(0..(n - 1)) = n
  <2>1. 0 \in Int /\ n - 1 \in Int
    OBVIOUS
  <2>2. IsFiniteSet(0..(n - 1)) /\ Cardinality(0..(n - 1)) = IF 0 > n - 1 THEN 0 ELSE (n - 1) - 0 + 1
    BY <2>1, FS_Interval
  <2>3. QED
    BY <2>2
<1>4. Len(q) <= n
  <2>1. q \in Injection(1..Len(q), 0..(n - 1))
    BY <1>1 DEF Distinct, Injection, IsInjective
  <2>2. Cardinality(1..Len(q)) <= Cardinality(0..(n - 1))
    BY <1>3, <2>1, FS_Injection
  <2>3. QED
    BY <1>2, <1>3, <2>2
<1>5. ASSUME NEW x \in 0..(n - 1), ~In(q, x) PROVE Len(q) < n
  <2>1. q \in Injection(1..Len(q), (0..(n - 1)) \ {x})
    BY <1>1, <1>5 DEF Distinct, Injection, IsInjective, In
  <2>2. /\ IsFiniteSet((0..(n - 1)) \ {x})
        /\ Cardinality((0..(n - 1)) \ {x}) = n - 1
    BY <1>3, FS_RemoveElement
  <2>3. Cardinality(1..Len(q)) <= Cardinality((0..(n - 1)) \ {x})
    BY <2>1, <2>2, FS_Injection
  <2>4. QED
    BY <1>1, <1>2, <2>2, <2>3
<1>6. QED
  BY <1>4, <1>5

\* A step that moves no index: the vector, the queue and the identities of the
\* objects are as they were, and each task has the index it had.
LEMMA NothingMoves ==
  ASSUME TypeOK, Accounted, UNCHANGED <<workers, idle_workers>>,
         \A w \in Objects : objects'[w].id = objects[w].id,
         \A t \in Tasks : /\ Away(t)' = Away(t) /\ (Away(t) => Mine(t)' = Mine(t))
                          /\ Using(t)' => got'[t] = workers[Mine(t) + 1]
  PROVE  Accounted'
<1>1. Indices' = Indices /\ \A i \in Indices : workers[i + 1] \in Objects
  BY Vector DEF Indices
<1>2. /\ Distinct(idle_workers)' /\ \A i : In(idle_workers, i)' = In(idle_workers, i)
  BY DEF Accounted, Distinct, In
<1>3. \A t \in Tasks : Using(t)' => Away(t)
  BY DEF Using, Away
<1>4. \A i \in Indices' : objects'[workers'[i + 1]].id = i
  BY <1>1 DEF Accounted
<1>5. \A i \in Indices' : In(idle_workers, i)' \/ \E t \in Tasks : Away(t)' /\ Mine(t)' = i
  BY <1>1, <1>2 DEF Accounted
<1>6. \A t \in Tasks : Away(t)' => Mine(t)' \in Indices' /\ ~In(idle_workers, Mine(t))'
  BY <1>1, <1>2 DEF Accounted, In
<1>7. QED
  BY <1>1, <1>2, <1>3, <1>4, <1>5, <1>6 DEF Accounted

LEMMA StoreKeepsId ==
  ASSUME TypeOK, NEW w, NEW s, objects' = WithState(w, s)
  PROVE  \A v \in Objects : objects'[v].id = objects[v].id
BY DEF WithState, TypeOK

LEMMA PopAccounted ==
  ASSUME TypeOK, Accounted, NEW t \in Tasks, AcquirePop(t)
  PROVE  Accounted'
<1> DEFINE q == idle_workers
           x == Head(q)
<1>1. /\ q \in Seq(Nat) /\ q # <<>> /\ Distinct(q) /\ idle_workers' = Tail(q)
      /\ pc[t] = "outside" /\ pc'[t] = "popped" /\ got'[t] = x
      /\ workers' = workers /\ objects' = objects
      /\ \A u \in Tasks \ {t} : pc'[u] = pc[u] /\ got'[u] = got[u]
  BY DEF AcquirePop, TypeOK, Accounted
<1>2. /\ Distinct(idle_workers') /\ In(q, x)
      /\ \A i : In(idle_workers', i) <=> In(q, i) /\ i # x
  BY <1>1, TailIn
<1>3. \A i : In(q, i) => i \in Indices
  BY DEF In, Accounted
<1>4. \A k \in 1..Len(idle_workers') : idle_workers'[k] \in Indices
  BY <1>2, <1>3 DEF In
<1>5. Indices' = Indices
  BY <1>1 DEF Indices
<1>6. /\ ~Away(t) /\ Away(t)' /\ Mine(t)' = x /\ ~Using(t)'
      /\ \A u \in Tasks \ {t} : /\ Away(u)' = Away(u) /\ Mine(u)' = Mine(u)
                                /\ Using(u)' = Using(u) /\ got'[u] = got[u]
  BY <1>1 DEF Away, Mine, Using
<1>7. \A u \in Tasks : Away(u)' => Mine(u)' \in Indices /\ ~In(idle_workers', Mine(u)')
  BY <1>2, <1>3, <1>6 DEF Accounted
<1>8. \A u, v \in Tasks : Away(u)' /\ Away(v)' /\ Mine(u)' = Mine(v)' => u = v
  BY <1>2, <1>6 DEF Accounted
<1>9. \A i \in Indices : In(idle_workers', i) \/ \E u \in Tasks : Away(u)' /\ Mine(u)' = i
  BY <1>2, <1>6 DEF Accounted
<1>10. \A u \in Tasks : Using(u)' => workers[Mine(u)' + 1] = got'[u]
  BY <1>6 DEF Accounted
<1>11. \A i \in Indices : objects'[workers'[i + 1]].id = i
  BY <1>1 DEF Accounted
<1>12. QED
  BY <1>1, <1>2, <1>4, <1>5, <1>7, <1>8, <1>9, <1>10, <1>11 DEF Accounted, Distinct, In

\* The lookup finds the worker whose index was popped.
LEMMA LookupAccounted ==
  ASSUME TypeOK, Accounted, NEW t \in Tasks, AcquireLookup(t)
  PROVE  Accounted'
<1>1. pc[t] = "popped" /\ Mine(t) = got[t] /\ got[t] \in Indices
  BY DEF AcquireLookup, Accounted, Away, Mine
<1>2. PICK w \in Objects : w = workers[got[t] + 1]
  BY <1>1, Vector
<1>3. /\ objects' = WithState(w, "Processing") /\ got' = [got EXCEPT ![t] = w]
      /\ pc' = [pc EXCEPT ![t] = "holding"] /\ UNCHANGED <<workers, idle_workers>>
  BY <1>1, <1>2 DEF AcquireLookup
<1>4. \A v \in Objects : objects'[v].id = objects[v].id
  BY <1>3, StoreKeepsId
<1>5. objects[w].id = got[t]
  BY <1>1, <1>2 DEF Accounted
<1>6. /\ pc'[t] = "holding" /\ got'[t] = w
      /\ \A u \in Tasks \ {t} : pc'[u] = pc[u] /\ got'[u] = got[u]
  BY <1>3 DEF TypeOK
<1>7. /\ Away(t) /\ Away(t)' /\ Mine(t)' = Mine(t) /\ got'[t] = workers[Mine(t) + 1]
  BY <1>1, <1>2, <1>4, <1>5, <1>6 DEF Away, Mine
<1>8. ASSUME NEW u \in Tasks \ {t}
      PROVE  /\ Away(u)' = Away(u) /\ (Away(u) => Mine(u)' = Mine(u))
             /\ Using(u)' => got'[u] = workers[Mine(u) + 1]
  <2>1. pc'[u] = pc[u] /\ got'[u] = got[u] /\ (Using(u) => got[u] \in Objects)
        /\ pc[u] \in {"outside", "popped", "holding", "released", "counted"}
    BY <1>6 DEF TypeOK
  <2>2. Away(u) => Mine(u)' = Mine(u)
    BY <1>4, <2>1 DEF Away, Mine, Using
  <2>3. QED
    BY <2>1, <2>2 DEF Away, Using, Accounted
<1>9. ASSUME NEW u \in Tasks
      PROVE  /\ Away(u)' = Away(u) /\ (Away(u) => Mine(u)' = Mine(u))
             /\ Using(u)' => got'[u] = workers[Mine(u) + 1]
  <2>1. Away(t)' = Away(t)
    BY <1>1, <1>6 DEF Away
  <2>2. QED
    BY <1>7, <1>8, <2>1
<1>10. QED
  BY <1>3, <1>4, <1>9, NothingMoves

LEMMA ReleaseAccounted ==
  ASSUME TypeOK, Accounted, NEW t \in Tasks, ReleaseSetIdle(t) \/ ReleaseCount(t)
  PROVE  Accounted'
<1>1. \A v \in Objects : objects'[v].id = objects[v].id
  BY StoreKeepsId DEF ReleaseSetIdle, ReleaseCount
<1>2. /\ UNCHANGED <<workers, idle_workers, got>>
      /\ \A u \in Tasks : /\ pc'[u] = pc[u]
                             \/ {pc[u], pc'[u]} \subseteq {"holding", "released", "counted"}
  BY DEF ReleaseSetIdle, ReleaseCount, TypeOK
<1>3. ASSUME NEW u \in Tasks
      PROVE  /\ Away(u)' = Away(u) /\ (Away(u) => Mine(u)' = Mine(u))
             /\ Using(u)' => got'[u] = workers[Mine(u) + 1]
  <2>1. Using(u) => got[u] \in Objects
    BY DEF TypeOK
  <2>2. pc[u] \in {"outside", "popped", "holding", "released", "counted"}
    BY DEF TypeOK
  <2>3. Away(u)' = Away(u) /\ Using(u)' = Using(u)
    BY <1>2 DEF Away, Using
  <2>4. Away(u) => Mine(u)' = Mine(u)
    BY <1>1, <1>2, <2>1, <2>2 DEF Away, Mine, Using
  <2>5. QED
    BY <1>2, <2>3, <2>4 DEF Accounted
<1>4. QED
  BY <1>1, <1>2, <1>3, NothingMoves

\* The queue has room for the index of a task, and for a new one.
LEMMA Room ==
  ASSUME TypeOK, PoolWithinLimits, Accounted
  PROVE  /\ \A t \in Tasks : Away(t) => Len(idle_workers) < MaxWorkers
         /\ Len(workers) < MaxWorkers => Len(idle_workers) < MaxWorkers
         /\ ~In(idle_workers, Len(workers))
         /\ Len(workers) \in Nat /\ Indices = 0..(Len(workers) - 1)
<1>1. /\ idle_workers \in Seq(Nat) /\ Distinct(idle_workers) /\ Len(workers) \in Nat
      /\ Indices = 0..(Len(workers) - 1) /\ Len(workers) <= MaxWorkers /\ MaxWorkers \in Nat
      /\ Len(idle_workers) \in Nat
      /\ \A k \in 1..Len(idle_workers) : idle_workers[k] \in 0..(Len(workers) - 1)
  BY Vector, Sizes, LenProperties DEF TypeOK, PoolWithinLimits, Accounted, Indices
<1>2. /\ Len(idle_workers) <= Len(workers)
      /\ \A x \in 0..(Len(workers) - 1) : ~In(idle_workers, x) => Len(idle_workers) < Len(workers)
  BY <1>1, RoomForOne
<1>3. ASSUME NEW t \in Tasks, Away(t) PROVE Len(idle_workers) < MaxWorkers
  <2>1. Mine(t) \in 0..(Len(workers) - 1) /\ ~In(idle_workers, Mine(t))
    BY <1>1, <1>3 DEF Accounted
  <2>2. QED
    BY <1>1, <1>2, <2>1
<1>4. Len(workers) < MaxWorkers => Len(idle_workers) < MaxWorkers
  BY <1>1, <1>2
<1>5. ~In(idle_workers, Len(workers))
  <2>1. Len(workers) \notin 0..(Len(workers) - 1)
    BY <1>1
  <2>2. QED
    BY <1>1, <2>1 DEF In
<1>6. QED
  BY <1>1, <1>3, <1>4, <1>5

\* The last step of a release gives the task's index back.
LEMMA PushAccounted ==
  ASSUME TypeOK, PoolWithinLimits, Accounted, NEW t \in Tasks, ReleasePush(t)
  PROVE  Accounted'
<1> DEFINE q == idle_workers
           x == Mine(t)
<1>1. /\ Away(t) /\ Using(t) /\ pc[t] # "popped" /\ x = objects[got[t]].id
      /\ x \in Indices /\ ~In(q, x) /\ workers[x + 1] = got[t]
  BY DEF ReleasePush, Away, Using, Mine, Accounted
<1>2. q \in Seq(Nat) /\ Distinct(q) /\ x \in Nat /\ Len(q) < MaxWorkers
  BY <1>1, Vector, Room DEF TypeOK, Accounted
<1>3. idle_workers' = Append(q, x)
  BY <1>1, <1>2 DEF ReleasePush, PushTo
<1>4. /\ Distinct(idle_workers')
      /\ \A i : In(idle_workers', i) <=> In(q, i) \/ i = x
  BY <1>1, <1>2, <1>3, AppendIn
<1>5. InVector(got[t])
  BY <1>1 DEF InVector
<1>6. /\ objects' = objects /\ workers' = workers
      /\ pc'[t] = "outside"
      /\ \A u \in Tasks \ {t} : pc'[u] = pc[u] /\ got'[u] = got[u]
  BY <1>5 DEF ReleasePush, TypeOK
<1>7. Indices' = Indices
  BY <1>6 DEF Indices
<1>8. \A k \in 1..Len(idle_workers') : idle_workers'[k] \in Indices
  BY <1>1, <1>4 DEF In, Accounted
<1>9. /\ ~Away(t)' /\ ~Using(t)'
      /\ \A u \in Tasks \ {t} : /\ Away(u)' = Away(u) /\ Mine(u)' = Mine(u)
                                /\ Using(u)' = Using(u) /\ got'[u] = got[u]
  BY <1>6 DEF Away, Mine, Using
<1>10. \A u \in Tasks : Away(u)' => Mine(u)' \in Indices /\ ~In(idle_workers', Mine(u)')
  BY <1>1, <1>4, <1>9 DEF Accounted
<1>11. \A u, v \in Tasks : Away(u)' /\ Away(v)' /\ Mine(u)' = Mine(v)' => u = v
  BY <1>9 DEF Accounted
<1>12. \A i \in Indices : In(idle_workers', i) \/ \E u \in Tasks : Away(u)' /\ Mine(u)' = i
  BY <1>4, <1>9 DEF Accounted
<1>13. \A u \in Tasks : Using(u)' => workers[Mine(u)' + 1] = got'[u]
  BY <1>9 DEF Accounted
<1>14. \A i \in Indices : objects'[workers'[i + 1]].id = i
  BY <1>6 DEF Accounted
<1>15. QED
  BY <1>4, <1>6, <1>7, <1>8, <1>10, <1>11, <1>12, <1>13, <1>14 DEF Accounted, Distinct, In

\* A new worker brings a new index, which is queued.
LEMMA AddAccounted ==
  ASSUME TypeOK, PoolWithinLimits, Accounted, Len(workers) < MaxWorkers,
         objects' = [objects EXCEPT ![FreeObject] = [id |-> Len(workers), state |-> "Idle"]],
         workers' = Append(workers, FreeObject),
         idle_workers' = PushTo(idle_workers, Len(workers)), UNCHANGED taskVars
  PROVE  Accounted'
<1> DEFINE q == idle_workers
<1>1. PICK n \in Nat : n = Len(workers)
  BY Vector
<1>2. PICK f \in Objects : f = FreeObject /\ ~InVector(f) /\ ~UsedBy(f, Tasks)
  BY FreeName
<1>3. /\ q \in Seq(Nat) /\ Distinct(q) /\ ~In(q, n) /\ Indices = 0..(n - 1)
      /\ idle_workers' = Append(q, n)
  BY <1>1, Room DEF TypeOK, Accounted, PushTo
<1>4. /\ Distinct(idle_workers')
      /\ \A i : In(idle_workers', i) <=> In(q, i) \/ i = n
  BY <1>3, AppendIn
<1>5. /\ Len(workers') = n + 1 /\ workers'[n + 1] = f
      /\ \A i \in 0..(n - 1) : workers'[i + 1] = workers[i + 1]
  BY <1>1, <1>2, AppendProperties DEF TypeOK
<1>6. Indices' = 0..n /\ Indices' = Indices \cup {n} /\ n \notin Indices
  <2>1. Indices' = 0..((n + 1) - 1)
    BY <1>5 DEF Indices
  <2>2. QED
    BY <1>3, <2>1
<1>7. /\ objects'[f].id = n /\ \A w \in Objects \ {f} : objects'[w] = objects[w]
  BY <1>1, <1>2 DEF TypeOK
<1>8. \A i \in Indices : workers[i + 1] \in Objects \ {f}
  BY <1>2, Vector DEF InVector
<1>9. \A t \in Tasks : Using(t) => got[t] \in Objects \ {f}
  BY <1>2 DEF UsedBy, TypeOK
<1>10. ASSUME NEW t \in Tasks
       PROVE  /\ Away(t)' = Away(t) /\ Using(t)' = Using(t) /\ got'[t] = got[t]
              /\ Away(t) => Mine(t)' = Mine(t)
  <2>1. pc[t] \in {"outside", "popped", "holding", "released", "counted"}
    BY DEF TypeOK
  <2>2. QED
    BY <1>7, <1>9, <2>1 DEF taskVars, Away, Using, Mine
<1>11. \A k \in 1..Len(idle_workers') : idle_workers'[k] \in Indices'
  BY <1>4, <1>6 DEF In, Accounted
<1>12. \A u \in Tasks : Away(u)' => Mine(u)' \in Indices' /\ ~In(idle_workers', Mine(u)')
  BY <1>4, <1>6, <1>10 DEF Accounted
<1>13. \A u, v \in Tasks : Away(u)' /\ Away(v)' /\ Mine(u)' = Mine(v)' => u = v
  BY <1>10 DEF Accounted
<1>14. \A i \in Indices' : In(idle_workers', i) \/ \E u \in Tasks : Away(u)' /\ Mine(u)' = i
  BY <1>4, <1>6, <1>10 DEF Accounted
<1>15. \A u \in Tasks : Using(u)' => workers'[Mine(u)' + 1] = got'[u]
  <2>1. \A u \in Tasks : Using(u) => Away(u)
    BY DEF Using, Away
  <2>2. QED
    BY <1>3, <1>5, <1>10, <2>1 DEF Accounted
<1>16. \A i \in Indices' : objects'[workers'[i + 1]].id = i
  <2>1. ASSUME NEW i \in Indices PROVE objects'[workers'[i + 1]].id = i
    <3>1. workers'[i + 1] = workers[i + 1] /\ objects'[workers[i + 1]] = objects[workers[i + 1]]
      BY <1>3, <1>5, <1>7, <1>8
    <3>2. QED
      BY <3>1 DEF Accounted
  <2>2. objects'[workers'[n + 1]].id = n
    BY <1>5, <1>7
  <2>3. QED
    BY <1>6, <2>1, <2>2
<1>17. QED
  BY <1>4, <1>11, <1>12, <1>13, <1>14, <1>15, <1>16 DEF Accounted, Distinct, In

LEMMA AccountedInit ==
  ASSUME Init
  PROVE  Accounted /\ Growing
<1>1. PICK n \in Nat : n = Initial /\ n <= MaxWorkers
  BY Sizes
<1>2. /\ Len(workers) = n /\ Len(idle_workers) = n /\ Indices = 0..(n - 1)
      /\ \A k \in 1..n : workers[k] = k /\ idle_workers[k] = k - 1
  BY <1>1 DEF Init, Indices
<1>3. \A t \in Tasks : ~Away(t) /\ ~Using(t)
  BY DEF Init, Away, Using
<1>4. \A i \in Indices : i + 1 \in 1..n /\ (i + 1) - 1 = i
  BY <1>1, <1>2
<1>5. \A i \in Indices : In(idle_workers, i)
  <2>1. SUFFICES ASSUME NEW i \in Indices PROVE \E k \in 1..n : idle_workers[k] = i
    BY <1>2 DEF In
  <2>2. QED
    BY <1>2, <1>4
<1>6. \A i \in Indices : objects[workers[i + 1]].id = i
  <2>1. SUFFICES ASSUME NEW i \in Indices PROVE objects[i + 1].id = i
    BY <1>2, <1>4
  <2>2. i + 1 \in Objects /\ i + 1 <= Initial
    BY <1>1, <1>4, Sizes
  <2>3. objects[i + 1] = [Blank EXCEPT !.id = (i + 1) - 1]
    BY <2>2 DEF Init
  <2>4. QED
    BY <1>4, <2>3 DEF Blank
<1>7. Distinct(idle_workers) /\ \A k \in 1..n : idle_workers[k] \in Indices
  BY <1>1, <1>2 DEF Distinct
<1>8. Growing
  BY DEF Init, Growing
<1>9. QED
  BY <1>2, <1>3, <1>5, <1>6, <1>7, <1>8 DEF Accounted

\* The auto-scaler does not come to remove a worker.
LEMMA GrowingStep ==
  ASSUME TypeOK, GrowsOnly, Growing, [Next]_vars
  PROVE  Growing' /\ ~RemoveIdleWorker /\ ~RemoveDrain /\ ~RemoveRepush
<1>1. ~RemoveIdleWorker /\ ~RemoveDrain /\ ~RemoveRepush
  BY DEF Growing, RemoveIdleWorker, RemoveDrain, RemoveRepush
<1>2. scaler' = scaler \/ scaler.pc # "off"
  BY <1>1 DEF Next, Acquire, Release, Scaler, Admin, vars, AcquirePop, AcquireLookup,
     ReleaseSetIdle, ReleaseCount, ReleasePush, SetQueueSize, ScanBegin, ScanLoad, ScanStore,
     ShutdownFlag, ShutdownStop, ScalerTop, ScalerObserve, ScaleUp, ScaleDown
<1>3. CASE AutoScaling
  <2>1. ScaleDownThreshold = 0 /\ scaler.queue \in Nat
    BY <1>3 DEF GrowsOnly, TypeOK
  <2>2. ~(scaler.queue < ScaleDownThreshold)
    BY <2>1
  <2>3. scaler \in [pc : {"off", "top", "wait", "up", "down", "remove", "drain", "repush"},
                 queue : Nat, count : Nat, gone : Nat, pending : Seq(Nat)]
    BY DEF TypeOK
  <2>4. \/ scaler' = scaler
        \/ scaler'.pc \in {"off", "wait", "up", "down", "top"}
    <3>1. CASE ScalerTop
      BY <2>3, <3>1 DEF ScalerTop
    <3>2. CASE ScalerObserve
      BY <2>3, <3>2 DEF ScalerObserve
    <3>3. CASE ScaleUp
      BY <2>3, <3>3 DEF ScaleUp
    <3>4. CASE ScaleDown
      BY <2>2, <2>3, <3>4 DEF ScaleDown
    <3>5. CASE ~Scaler
      BY <3>5 DEF Next, Acquire, Release, Admin, vars, AcquirePop, AcquireLookup,
         ReleaseSetIdle, ReleaseCount, ReleasePush, SetQueueSize, ScanBegin, ScanLoad, ScanStore,
         ShutdownFlag, ShutdownStop
    <3>6. QED
      BY <1>1, <3>1, <3>2, <3>3, <3>4, <3>5 DEF Scaler
  <2>5. QED
    BY <1>1, <1>3, <2>4 DEF Growing
<1>4. CASE ~AutoScaling
  BY <1>1, <1>2, <1>4 DEF Growing
<1>5. QED
  BY <1>3, <1>4, PoolAssumption

LEMMA AccountedStep ==
  ASSUME TypeOK, PoolWithinLimits, Accounted, GrowsOnly, Growing, [Next]_vars
  PROVE  Accounted' /\ Growing'
<1>1. Growing' /\ ~RemoveIdleWorker /\ ~RemoveDrain /\ ~RemoveRepush
  BY GrowingStep
<1> SUFFICES Accounted'
  BY <1>1
<1>2. ASSUME UNCHANGED <<workers, idle_workers, taskVars>>,
             \A w \in Objects : objects'[w].id = objects[w].id
      PROVE  Accounted'
  <2>1. ASSUME NEW t \in Tasks
        PROVE  /\ Away(t)' = Away(t) /\ (Away(t) => Mine(t)' = Mine(t))
               /\ Using(t)' => got'[t] = workers[Mine(t) + 1]
    <3>1. /\ pc[t] \in {"outside", "popped", "holding", "released", "counted"}
          /\ Using(t) => got[t] \in Objects
      BY DEF TypeOK
    <3>2. QED
      BY <1>2, <3>1 DEF taskVars, Away, Using, Mine, Accounted
  <2>2. QED
    BY <1>2, <2>1, NothingMoves
<1>3. CASE \E t \in Tasks : Acquire(t) \/ Release(t)
  BY <1>3, PopAccounted, LookupAccounted, ReleaseAccounted, PushAccounted DEF Acquire, Release
<1>4. CASE ScaleUp
  <2>1. taskVars' = taskVars
    BY <1>4 DEF ScaleUp
  <2>2. CASE UNCHANGED <<objects, workers, idle_workers>>
    BY <1>2, <2>1, <2>2
  <2>3. CASE Len(workers) < MaxWorkers /\ AddWorker
    BY <2>1, <2>3, AddAccounted DEF AddWorker
  <2>4. QED
    BY <1>4, <2>2, <2>3 DEF ScaleUp, AddWorker, poolVars
<1>5. CASE ScanStore
  <2>1. UNCHANGED <<workers, idle_workers, taskVars>>
    BY <1>5 DEF ScanStore
  <2>2. \A w \in Objects : objects'[w].id = objects[w].id
    BY <1>5, StoreKeepsId DEF ScanStore
  <2>3. QED
    BY <1>2, <2>1, <2>2
<1>6. CASE ShutdownStop
  <2>1. UNCHANGED <<workers, idle_workers, taskVars>>
    BY <1>6 DEF ShutdownStop
  <2>2. \A w \in Objects : objects'[w].id = objects[w].id
    BY <1>6 DEF ShutdownStop, TypeOK
  <2>3. QED
    BY <1>2, <2>1, <2>2
<1>7. ASSUME ~(\E t \in Tasks : Acquire(t) \/ Release(t)), ~ScaleUp, ~ScanStore, ~ShutdownStop
      PROVE  UNCHANGED <<objects, workers, idle_workers, taskVars>>
  BY <1>1, <1>7 DEF Next, Scaler, Admin, vars, taskVars, poolVars, SetQueueSize, ScalerTop,
     ScalerObserve, ScaleDown, ScanBegin, ScanLoad, ShutdownFlag
<1>8. QED
  BY <1>1, <1>2, <1>3, <1>4, <1>5, <1>6, <1>7

\* From places to counts.
LEMMA AccountedCounts ==
  ASSUME TypeOK, Accounted
  PROVE  EveryWorkerAccountedFor
<1>1. SUFFICES ASSUME NEW i \in 0..MaxWorkers
               PROVE  Circulating(i) = IF i \in Indices THEN 1 ELSE 0
  BY DEF EveryWorkerAccountedFor
<1> DEFINE Q == {k \in DOMAIN idle_workers : idle_workers[k] = i}
           P == {t \in Tasks : pc[t] = "popped" /\ got[t] = i}
           U == {t \in Tasks : Using(t) /\ objects[got[t]].id = i}
<1>2. DOMAIN idle_workers = 1..Len(idle_workers)
  BY DEF TypeOK
<1>3. \A t \in Tasks : t \in P \/ t \in U <=> Away(t) /\ Mine(t) = i
  BY DEF TypeOK, Using, Away, Mine
<1>4. P \cap U = {}
  BY DEF Using
<1>5. ASSUME NEW S, NEW x \in S, \A y \in S : y = x PROVE Cardinality(S) = 1
  <2>1. S = {x}
    BY <1>5
  <2>2. QED
    BY <2>1, FS_Singleton
<1>6. Cardinality({}) = 0
  BY FS_EmptySet
<1>7. Circulating(i) = Cardinality(Q) + Cardinality(P) + Cardinality(U)
  BY DEF Circulating
<1>8. CASE i \notin Indices
  <2>1. Q = {} /\ P = {} /\ U = {}
    BY <1>2, <1>3, <1>8 DEF Accounted
  <2>2. Cardinality(Q) = 0 /\ Cardinality(P) = 0 /\ Cardinality(U) = 0
    BY <1>6, <2>1
  <2>3. QED
    BY <1>7, <1>8, <2>2
<1>9. CASE i \in Indices /\ In(idle_workers, i)
  <2>1. P = {} /\ U = {}
    BY <1>3, <1>9 DEF Accounted
  <2>2. PICK k \in Q : \A j \in Q : j = k
    BY <1>2, <1>9 DEF Accounted, Distinct, In
  <2>3. Cardinality(Q) = 1
    BY <1>5, <2>2
  <2>4. Cardinality(P) = 0 /\ Cardinality(U) = 0
    BY <1>6, <2>1
  <2>5. QED
    BY <1>7, <1>9, <2>3, <2>4
<1>10. CASE i \in Indices /\ ~In(idle_workers, i)
  <2>1. Q = {}
    BY <1>2, <1>10 DEF In
  <2>2. PICK t \in Tasks : Away(t) /\ Mine(t) = i
    BY <1>10 DEF Accounted
  <2>3. \A u \in P \cup U : u = t
    BY <1>3, <2>2 DEF Accounted
  <2>4. (t \in P /\ U = {}) \/ (t \in U /\ P = {})
    BY <1>3, <1>4, <2>2, <2>3
  <2>5. \/ Cardinality(P) = 1 /\ Cardinality(U) = 0
        \/ Cardinality(U) = 1 /\ Cardinality(P) = 0
    BY <1>5, <1>6, <2>3, <2>4
  <2>6. Cardinality(Q) = 0
    BY <1>6, <2>1
  <2>7. QED
    BY <1>7, <1>10, <2>5, <2>6
<1>11. QED
  BY <1>8, <1>9, <1>10

\* What holds of a pool that only grows, besides types and limits.
LEMMA GrowingInvariant ==
  GrowsOnly /\ Spec => [](GrowsOnly /\ Accounted /\ Growing)
<1> DEFINE Inv == GrowsOnly /\ Accounted /\ Growing
<1>1. GrowsOnly /\ Init => Inv
  BY AccountedInit
<1>2. IInv /\ Inv /\ [Next]_vars => Inv'
  BY AccountedStep DEF IInv, GrowsOnly
<1>3. QED
  BY <1>1, <1>2, IInvInvariant, PTL DEF Spec

\* While no worker is removed, every index of the vector circulates exactly once,
\* whatever is paused, resumed, stopped and added meanwhile (227-327).
THEOREM NoneLost ==
  GrowsOnly /\ Spec => []EveryWorkerAccountedFor
<1>1. IInv /\ (GrowsOnly /\ Accounted /\ Growing) => EveryWorkerAccountedFor
  BY AccountedCounts DEF IInv
<1>2. QED
  BY <1>1, IInvInvariant, GrowingInvariant, PTL

-----------------------------------------------------------------------------
\* A pool that only grows implements WorkerLending.

LEMMA SamePoolCardinality ==
  \A S : Lending!Cardinality(S) = Cardinality(S)
BY DEF Lending!Cardinality, Cardinality

LEMMA FunctionIsSeq ==
  ASSUME NEW S, NEW m \in Nat, NEW f \in [1..m -> S]
  PROVE  f \in Seq(S) /\ Len(f) = m
OBVIOUS

\* The line is the queue, with the worker of each index in place of the index.
LEMMA LineIsQueue ==
  ASSUME TypeOK, Accounted
  PROVE  /\ Line \in Seq(Objects) /\ Len(Line) = Len(idle_workers)
         /\ Len(Line) \in Nat
         /\ \A k \in 1..Len(idle_workers) : Line[k] = workers[idle_workers[k] + 1]
<1>1. Len(idle_workers) \in Nat
  BY LenProperties DEF TypeOK
<1>2. \A k \in 1..Len(idle_workers) : workers[idle_workers[k] + 1] \in Objects
  BY Vector DEF Accounted
<1>3. QED
  BY <1>1, <1>2 DEF Line

\* The pool has no more members than the vector has places.
LEMMA MembersBounded ==
  ASSUME TypeOK
  PROVE  Cardinality(Members) \in Nat /\ Cardinality(Members) <= Len(workers)
<1>1. Len(workers) \in Nat /\ workers \in [1..Len(workers) -> Objects]
  BY LenProperties DEF TypeOK
<1>2. workers \in Surjection(1..Len(workers), {workers[i] : i \in 1..Len(workers)})
  BY <1>1 DEF Surjection
<1>3. Members = {workers[i] : i \in 1..Len(workers)}
  <2>1. \A i \in Indices : i + 1 \in 1..Len(workers)
    BY <1>1 DEF Indices
  <2>2. \A i \in 1..Len(workers) : i - 1 \in Indices /\ (i - 1) + 1 = i
    BY <1>1 DEF Indices
  <2>3. \A i \in 1..Len(workers) : workers[i] \in Members
    BY <2>2 DEF Members
  <2>4. QED
    BY <2>1, <2>3 DEF Members
<1>4. IsFiniteSet(1..Len(workers)) /\ Cardinality(1..Len(workers)) = Len(workers)
  BY <1>1, FS_Interval
<1>5. QED
  BY <1>2, <1>3, <1>4, FS_Surjection, FS_CardinalityType

LEMMA LendingInit ==
  ASSUME Init
  PROVE  Lending!Init
<1>1. PICK n \in Nat : n = Initial /\ n <= MaxWorkers
  BY Sizes
<1>2. /\ Len(workers) = n /\ Len(idle_workers) = n /\ Indices = 0..(n - 1)
      /\ \A k \in 1..n : workers[k] = k /\ idle_workers[k] = k - 1
  BY <1>1 DEF Init, Indices
<1>3. Line = [k \in 1..n |-> k]
  <2>1. \A k \in 1..n : workers[idle_workers[k] + 1] = k
    BY <1>1, <1>2
  <2>2. QED
    BY <1>2, <2>1 DEF Line
<1>4. Len(Line) = n /\ \A k \in 1..n : Line[k] = k
  BY <1>1, <1>3
<1>5. Members = 1..n
  <2>1. \A i \in Indices : i + 1 \in 1..n /\ workers[i + 1] = i + 1
    BY <1>1, <1>2
  <2>2. \A k \in 1..n : k - 1 \in Indices /\ (k - 1) + 1 = k
    BY <1>1, <1>2
  <2>3. QED
    BY <2>1, <2>2 DEF Members
<1>6. 1..n \subseteq Objects
  BY <1>1, Sizes
<1>7. Members = {Line[k] : k \in 1..Len(Line)}
  BY <1>4, <1>5
<1>8. Lent = [t \in Tasks |-> 0]
  BY DEF Init, Lent, WorkerOf
<1>9. \A j, k \in 1..Len(Line) : Line[j] = Line[k] => j = k
  BY <1>4
<1>10. QED
  BY <1>1, <1>4, <1>5, <1>6, <1>7, <1>8, <1>9 DEF Lending!Init

\* What is borrowed is the front of the queue ...
LEMMA LendingPop ==
  ASSUME TypeOK, Accounted, NEW t \in Tasks, AcquirePop(t)
  PROVE  Lending!Borrow(t)
<1> DEFINE q == idle_workers
           n == Len(q)
<1>1. /\ pc[t] = "outside" /\ q # <<>> /\ q' = Tail(q)
      /\ pc'[t] = "popped" /\ got'[t] = Head(q)
      /\ \A u \in Tasks \ {t} : pc'[u] = pc[u] /\ got'[u] = got[u]
      /\ workers' = workers
  BY DEF AcquirePop, TypeOK
<1>2. /\ q \in Seq(Nat) /\ Line \in Seq(Objects) /\ Len(Line) = n /\ n \in Nat
      /\ \A k \in 1..n : Line[k] = workers[q[k] + 1]
  BY LineIsQueue DEF TypeOK
<1>3. n # 0 /\ Line # <<>>
  BY <1>1, <1>2, EmptySeq
<1>4. /\ Head(q) = q[1] /\ Len(Tail(q)) = n - 1
      /\ \A k \in 1..(n - 1) : Tail(q)[k] = q[k + 1]
  <2>1. Head(q) = q[1]
    BY <1>1, <1>2
  <2>2. QED
    BY <1>1, <1>2, <2>1, HeadTailProperties
<1>5. /\ Head(Line) = Line[1] /\ Tail(Line) \in Seq(Objects) /\ Len(Tail(Line)) = n - 1
      /\ \A k \in 1..(n - 1) : Tail(Line)[k] = Line[k + 1]
  <2>1. Head(Line) = Line[1]
    BY <1>2, <1>3
  <2>2. QED
    BY <1>2, <1>3, <2>1, HeadTailProperties
<1>6. Line' = Tail(Line)
  <2>1. \A k \in 1..(n - 1) : k + 1 \in 1..n /\ k \in 1..(n - 1)
    BY <1>2
  <2>2. \A k \in 1..(n - 1) : workers[Tail(q)[k] + 1] = Tail(Line)[k]
    BY <1>2, <1>4, <1>5, <2>1
  <2>3. Line' = [k \in 1..(n - 1) |-> workers[Tail(q)[k] + 1]]
    BY <1>1, <1>4 DEF Line
  <2>4. Line' = [k \in 1..(n - 1) |-> Tail(Line)[k]]
    BY <2>2, <2>3
  <2>5. /\ Line' \in Seq(Objects) /\ Len(Line') = n - 1
        /\ \A k \in 1..(n - 1) : Line'[k] = Tail(Line)[k]
    <3>1. \A k \in 1..(n - 1) : Tail(Line)[k] \in Objects
      BY <1>5, ElementOfSeq
    <3>2. PICK m \in Nat : m = n - 1
      BY <1>2, <1>3
    <3>3. Line' = [k \in 1..m |-> Tail(Line)[k]] /\ \A k \in 1..m : Tail(Line)[k] \in Objects
      BY <2>4, <3>1, <3>2
    <3>4. Line' \in Seq(Objects) /\ Len(Line') = m
      <4>1. Line' \in [1..m -> Objects]
        BY <3>3
      <4>2. QED
        BY <4>1, FunctionIsSeq
    <3>5. QED
      BY <3>2, <3>3, <3>4
  <2>6. QED
    BY <1>5, <2>5, SeqEqual
<1>7. Head(Line) = workers[Head(q) + 1]
  BY <1>2, <1>3, <1>4, <1>5
<1>8. /\ WorkerOf(t) = 0 /\ WorkerOf(t)' = Head(Line)
      /\ \A u \in Tasks \ {t} : WorkerOf(u)' = WorkerOf(u)
  BY <1>1, <1>7 DEF WorkerOf
<1>9. Lent[t] = 0 /\ Lent' = [Lent EXCEPT ![t] = Head(Line)]
  BY <1>8 DEF Lent
<1>10. Members' = Members
  BY <1>1 DEF Members, Indices
<1>11. QED
  BY <1>3, <1>6, <1>9, <1>10 DEF Lending!Borrow

\* The line grows at its end.
LEMMA LineGrows ==
  ASSUME TypeOK, Accounted, NEW x \in Nat, NEW w \in Objects,
         idle_workers' = Append(idle_workers, x), workers'[x + 1] = w,
         \A i \in Indices : workers'[i + 1] = workers[i + 1]
  PROVE  Line' = Append(Line, w)
<1> DEFINE q == idle_workers
           n == Len(q)
<1>1. /\ q \in Seq(Nat) /\ Line \in Seq(Objects) /\ Len(Line) = n /\ n \in Nat
      /\ \A k \in 1..n : Line[k] = workers[q[k] + 1]
      /\ \A k \in 1..n : q[k] \in Indices
  BY LineIsQueue DEF TypeOK, Accounted
<1>2. /\ Len(q') = n + 1 /\ q'[n + 1] = x /\ \A k \in 1..n : q'[k] = q[k]
  BY <1>1, AppendProperties
<1>3. Line' = [k \in 1..(n + 1) |-> workers'[q'[k] + 1]]
  BY <1>2 DEF Line
<1>4. \A k \in 1..n : workers'[q'[k] + 1] = Line[k]
  BY <1>1, <1>2
<1>5. \A k \in 1..(n + 1) : k \in 1..n \/ k = n + 1
  BY <1>1
<1>6. Line' = [k \in 1..(n + 1) |-> IF k = n + 1 THEN w ELSE Line[k]]
  BY <1>2, <1>3, <1>4, <1>5
<1>7. /\ Line' \in Seq(Objects) /\ Len(Line') = n + 1 /\ Line'[n + 1] = w
      /\ \A k \in 1..n : Line'[k] = Line[k]
  <2>1. \A k \in 1..n : Line[k] \in Objects /\ k \in 1..(n + 1) /\ k # n + 1
    BY <1>1, ElementOfSeq
  <2>2. Line'[n + 1] = w /\ \A k \in 1..n : Line'[k] = Line[k]
    BY <1>1, <1>6, <2>1
  <2>3. Line' \in [1..(n + 1) -> Objects]
    BY <1>5, <1>6, <2>1
  <2>4. n + 1 \in Nat
    BY <1>1
  <2>5. Line' \in Seq(Objects) /\ Len(Line') = n + 1
    BY <2>3, <2>4, FunctionIsSeq
  <2>6. QED
    BY <2>2, <2>5
<1>8. /\ Append(Line, w) \in Seq(Objects) /\ Len(Append(Line, w)) = n + 1
      /\ Append(Line, w)[n + 1] = w /\ \A k \in 1..n : Append(Line, w)[k] = Line[k]
  BY <1>1, AppendProperties
<1>9. \A k \in 1..Len(Line') : Line'[k] = Append(Line, w)[k]
  BY <1>5, <1>7, <1>8
<1>10. QED
  BY <1>7, <1>8, <1>9, SeqEqual

\* ... and what is returned goes to its end, with the last atomic of a release.
LEMMA LendingPush ==
  ASSUME TypeOK, PoolWithinLimits, Accounted, NEW t \in Tasks, ReleasePush(t)
  PROVE  Lending!Return(t)
<1> DEFINE x == Mine(t)
<1>1. /\ Away(t) /\ Using(t) /\ pc[t] = "counted" /\ x = objects[got[t]].id
      /\ x \in Indices /\ workers[x + 1] = got[t] /\ got[t] \in Objects
  BY DEF ReleasePush, Away, Using, Mine, Accounted, TypeOK
<1>2. x \in Nat /\ Len(idle_workers) < MaxWorkers
  BY <1>1, Vector, Room
<1>3. /\ idle_workers' = Append(idle_workers, x) /\ workers' = workers
      /\ pc'[t] = "outside" /\ \A u \in Tasks \ {t} : pc'[u] = pc[u] /\ got'[u] = got[u]
  BY <1>1, <1>2 DEF ReleasePush, PushTo, TypeOK
<1>4. Line' = Append(Line, got[t])
  BY <1>1, <1>2, <1>3, LineGrows
<1>5. /\ WorkerOf(t) = got[t] /\ WorkerOf(t)' = 0
      /\ \A u \in Tasks \ {t} : WorkerOf(u)' = WorkerOf(u)
  BY <1>1, <1>3 DEF WorkerOf
<1>6. Lent[t] = got[t] /\ Lent' = [Lent EXCEPT ![t] = 0]
  BY <1>5 DEF Lent
<1>7. Members' = Members
  BY <1>3 DEF Members, Indices
<1>8. got[t] # 0
  BY <1>1, Sizes
<1>9. QED
  BY <1>4, <1>6, <1>7, <1>8 DEF Lending!Return

\* A new worker stands behind the others, and those that are lent stay so.
LEMMA LendingAdd ==
  ASSUME TypeOK, PoolWithinLimits, Accounted, Len(workers) < MaxWorkers,
         workers' = Append(workers, FreeObject),
         idle_workers' = PushTo(idle_workers, Len(workers)), UNCHANGED taskVars
  PROVE  FreeObject \in Objects /\ Lending!Join(FreeObject)
<1>1. PICK n \in Nat : n = Len(workers)
  BY Vector
<1>2. PICK f \in Objects : f = FreeObject /\ ~InVector(f)
  BY FreeName
<1>3. Indices = 0..(n - 1) /\ idle_workers' = Append(idle_workers, n)
  BY <1>1, Room DEF PushTo
<1>4. /\ Len(workers') = n + 1 /\ workers'[n + 1] = f
      /\ \A i \in Indices : workers'[i + 1] = workers[i + 1]
  BY <1>1, <1>2, <1>3, AppendProperties DEF TypeOK
<1>5. Line' = Append(Line, f)
  BY <1>3, <1>4, LineGrows
<1>6. Indices' = Indices \cup {n}
  <2>1. Indices' = 0..((n + 1) - 1)
    BY <1>4 DEF Indices
  <2>2. QED
    BY <1>3, <2>1
<1>7. Members' = Members \cup {f}
  BY <1>4, <1>6 DEF Members
<1>8. f \notin Members
  BY <1>2 DEF InVector, Members
<1>9. Lent' = Lent
  <2>1. \A t \in Tasks : pc[t] = "popped" => got[t] \in Indices
    BY DEF Accounted, Away, Mine
  <2>2. \A t \in Tasks : WorkerOf(t)' = WorkerOf(t)
    BY <1>4, <2>1 DEF WorkerOf, taskVars
  <2>3. QED
    BY <2>2 DEF Lent
<1>10. Lending!Cardinality(Members) < MaxWorkers
  BY <1>1, MembersBounded, SamePoolCardinality, Sizes
<1>11. Lending!Join(f)
  BY <1>5, <1>7, <1>8, <1>9, <1>10 DEF Lending!Join
<1>12. QED
  BY <1>2, <1>11

\* The lookup gives the worker that was lent with its index; the first two
\* atomics of a release do not take it back.
LEMMA LendingHidden ==
  ASSUME TypeOK, Accounted, NEW t \in Tasks,
         AcquireLookup(t) \/ ReleaseSetIdle(t) \/ ReleaseCount(t)
  PROVE  UNCHANGED Lending!vars
<1>1. UNCHANGED <<workers, idle_workers>>
  BY DEF AcquireLookup, ReleaseSetIdle, ReleaseCount
<1>2. WorkerOf(t)' = WorkerOf(t)
  <2>1. CASE AcquireLookup(t)
    <3>1. pc[t] = "popped" /\ got[t] \in Indices
      BY <2>1 DEF AcquireLookup, Accounted, Away, Mine
    <3>2. pc'[t] = "holding" /\ got'[t] = workers[got[t] + 1]
      BY <2>1, <3>1 DEF AcquireLookup, TypeOK
    <3>3. QED
      BY <3>1, <3>2 DEF WorkerOf
  <2>2. CASE ReleaseSetIdle(t) \/ ReleaseCount(t)
    BY <2>2 DEF ReleaseSetIdle, ReleaseCount, TypeOK, WorkerOf
  <2>3. QED
    BY <2>1, <2>2
<1>3. \A u \in Tasks \ {t} : pc'[u] = pc[u] /\ got'[u] = got[u]
  BY DEF AcquireLookup, ReleaseSetIdle, ReleaseCount, TypeOK
<1>4. \A u \in Tasks : WorkerOf(u)' = WorkerOf(u)
  BY <1>1, <1>2, <1>3 DEF WorkerOf
<1>5. Lent' = Lent
  BY <1>4 DEF Lent
<1>6. Line' = Line /\ Members' = Members
  BY <1>1 DEF Line, Members, Indices
<1>7. QED
  BY <1>5, <1>6 DEF Lending!vars

\* Every step of a pool that grows is one of the abstract pool or hidden from it.
LEMMA LendingStep ==
  ASSUME TypeOK, PoolWithinLimits, Accounted, GrowsOnly, Growing, [Next]_vars
  PROVE  [Lending!Next]_(Lending!vars)
<1>1. ~RemoveIdleWorker /\ ~RemoveDrain /\ ~RemoveRepush
  BY GrowingStep
<1>2. ASSUME UNCHANGED <<workers, idle_workers, taskVars>>
      PROVE  UNCHANGED Lending!vars
  BY <1>2 DEF Lending!vars, Line, Members, Indices, Lent, WorkerOf, taskVars
<1>3. ASSUME NEW t \in Tasks, Acquire(t) \/ Release(t)
      PROVE  [Lending!Next]_(Lending!vars)
  <2>1. CASE AcquirePop(t)
    BY <2>1, LendingPop DEF Lending!Next
  <2>2. CASE ReleasePush(t)
    BY <2>2, LendingPush DEF Lending!Next
  <2>3. CASE AcquireLookup(t) \/ ReleaseSetIdle(t) \/ ReleaseCount(t)
    BY <2>3, LendingHidden
  <2>4. QED
    BY <1>3, <2>1, <2>2, <2>3 DEF Acquire, Release
<1>4. CASE ScaleUp
  <2>1. taskVars' = taskVars
    BY <1>4 DEF ScaleUp
  <2>2. CASE UNCHANGED <<workers, idle_workers>>
    BY <1>2, <2>1, <2>2
  <2>3. CASE Len(workers) < MaxWorkers /\ AddWorker
    BY <2>1, <2>3, LendingAdd DEF AddWorker, Lending!Next
  <2>4. QED
    BY <1>4, <2>2, <2>3 DEF ScaleUp, AddWorker, poolVars
<1>5. CASE ~(\E t \in Tasks : Acquire(t) \/ Release(t)) /\ ~ScaleUp
  <2>1. UNCHANGED <<workers, idle_workers, taskVars>>
    BY <1>1, <1>5 DEF Next, Scaler, Admin, vars, taskVars, poolVars, SetQueueSize, ScalerTop,
       ScalerObserve, ScaleDown, ScanBegin, ScanLoad, ScanStore, ShutdownFlag, ShutdownStop
  <2>2. QED
    BY <1>2, <2>1
<1>6. QED
  BY <1>3, <1>4, <1>5

\* While no worker is removed, tasks are lent the workers of a plain line: the
\* longest idle one first, each to one task at a time (227-244, 300-327).
THEOREM LendsInTurn ==
  GrowsOnly /\ Spec => KeepsLending
<1>1. Init => Lending!Init
  BY LendingInit
<1>2. IInv /\ (GrowsOnly /\ Accounted /\ Growing) /\ [Next]_vars
        => [Lending!Next]_(Lending!vars)
  BY LendingStep DEF IInv
<1>3. QED
  BY <1>1, <1>2, IInvInvariant, GrowingInvariant, PTL DEF Spec, KeepsLending, Lending!Spec
=============================================================================

-------------------------- MODULE BatchProcessorProofs --------------------------
(***************************************************************************)
(* Proofs about BatchProcessor, for any number of callers and consumers:   *)
(* what the mutex protects is right whatever the unlocked stores do.       *)
(***************************************************************************)
EXTENDS BatchProcessor, FiniteSetTheorems, TLAPS

\* None of the three invariants needs more than the others: accepted requests
\* are those of the heap, so a request that is pushed is a new one, and every
\* request of the heap has a time that Tick makes older.
IInv == TypeOK /\ AcceptedOnce /\ NeverOverfull /\ OldestExact

\* The actions outside the mutex that neither touch the queue nor a timestamp.
Unlocked(r) == Build(r) \/ Reject(r) \/ StoreDepth(r) \/ StoreOldest(r) \/ Return(r)
Polling(k)  == Wake(k) \/ CheckDepth(k) \/ CheckAge(k) \/ ClearDepth(k) \/ ClearOldest(k)

\* The cases of Next, apart from the time.
LEMMA Cases ==
  Next <=> \/ \E r \in Requests : Push(r) \/ Unlocked(r)
           \/ \E k \in Consumers : Drain(k) \/ Polling(k)
           \/ Clear
           \/ Tick
BY DEF Next, Add, Take, Unlocked, Polling

\* Ages grow by at most one tick, in order, and stay below the timeout.
LEMMA OlderAge ==
  ASSUME NEW a \in -1..Timeout
  PROVE  /\ Older(a) \in -1..Timeout
         /\ a \in 0..Timeout => Older(a) \in 0..Timeout
         /\ \A b \in -1..Timeout : a <= b => Older(a) <= Older(b)
BY ProcessorAssumption DEF Older, None

\* A push makes the heap one longer, which the guard allows.
LEMMA PushSize ==
  ASSUME IInv, NEW r \in Requests, Push(r)
  PROVE  /\ r \notin heap
         /\ Cardinality(heap \cup {r}) \in 0..MaxBatchSize
<1>1. r \notin heap
  BY DEF IInv, TypeOK, AcceptedOnce, Accepted, Push
<1>2. IsFiniteSet(heap)
  BY ProcessorAssumption, FS_Subset DEF IInv, TypeOK
<1>3. Cardinality(heap \cup {r}) = Cardinality(heap) + 1 /\ Cardinality(heap) \in Nat
  BY <1>1, <1>2, FS_AddElement, FS_CardinalityType
<1>4. QED
  BY <1>1, <1>3, ProcessorAssumption DEF Push

LEMMA TypeStep ==
  ASSUME IInv, [Next]_vars
  PROVE  TypeOK'
<1>0. TypeOK /\ MaxBatchSize \in Nat /\ Timeout \in Nat
  BY ProcessorAssumption DEF IInv
<1>1. ASSUME NEW r \in Requests, Push(r)
      PROVE  TypeOK'
  <2>1. Cardinality(heap') \in 0..MaxBatchSize
    BY <1>1, PushSize DEF Push
  <2>2. oldest_enqueue' \in -1..Timeout
    BY <1>0, <1>1 DEF TypeOK, Push
  <2>3. QED
    BY <1>0, <1>1, <2>1, <2>2 DEF TypeOK, Push
<1>2. ASSUME NEW r \in Requests, Unlocked(r)
      PROVE  TypeOK'
  <2>1. CASE Build(r) \/ Reject(r)
    BY <1>0, <2>1 DEF TypeOK, Build, Reject, queueVars
  <2>2. CASE StoreDepth(r)
    BY <1>0, <2>2 DEF TypeOK, StoreDepth, queueVars
  <2>3. CASE StoreOldest(r)
    BY <1>0, <2>3 DEF TypeOK, StoreOldest, queueVars, None
  <2>4. CASE Return(r)
    BY <1>0, <2>4 DEF TypeOK, Return, queueVars
  <2>5. QED
    BY <1>2, <2>1, <2>2, <2>3, <2>4 DEF Unlocked
<1>3. ASSUME NEW k \in Consumers, Drain(k)
      PROVE  TypeOK'
  BY <1>0, <1>3 DEF TypeOK, Drain, callVars, None
<1>4. ASSUME NEW k \in Consumers, Polling(k)
      PROVE  TypeOK'
  <2>1. CASE Wake(k)
    BY <1>0, <2>1 DEF TypeOK, Wake, callVars, queueVars
  <2>2. CASE CheckDepth(k) \/ CheckAge(k)
    BY <1>0, <2>2 DEF TypeOK, CheckDepth, CheckAge, callVars, queueVars
  <2>3. CASE ClearDepth(k) \/ ClearOldest(k)
    BY <1>0, <2>3 DEF TypeOK, ClearDepth, ClearOldest, callVars, queueVars, None
  <2>4. QED
    BY <1>4, <2>1, <2>2, <2>3 DEF Polling
<1>5. CASE Clear
  BY <1>0, <1>5 DEF TypeOK, Clear, callVars, None
<1>6. CASE Tick
  <2>1. /\ age' \in [Requests -> 0..Timeout]
        /\ oldest_ts' \in [Requests -> -1..Timeout]
        /\ oldest_enqueue' \in -1..Timeout
        /\ oldest_enqueue_nanos' \in -1..Timeout
    BY <1>0, <1>6, OlderAge DEF TypeOK, Tick
  <2>2. QED
    BY <1>0, <1>6, <2>1 DEF TypeOK, Tick
<1>7. CASE UNCHANGED vars
  BY <1>0, <1>7 DEF TypeOK, vars
<1>8. QED
  BY <1>1, <1>2, <1>3, <1>4, <1>5, <1>6, <1>7, Cases

LEMMA AcceptedStep ==
  ASSUME IInv, [Next]_vars
  PROVE  AcceptedOnce'
<1>0. TypeOK /\ AcceptedOnce
  BY DEF IInv
<1>1. ASSUME NEW r \in Requests, Push(r)
      PROVE  AcceptedOnce'
  BY <1>0, <1>1 DEF TypeOK, AcceptedOnce, Accepted, Push
<1>2. ASSUME NEW r \in Requests, Unlocked(r)
      PROVE  AcceptedOnce'
  <2>1. heap' = heap /\ taken' = taken
    BY <1>2 DEF Unlocked, Build, Reject, StoreDepth, StoreOldest, Return, queueVars
  <2>2. Accepted' = Accepted
    BY <1>0, <1>2 DEF TypeOK, Accepted, Unlocked, Build, Reject, StoreDepth, StoreOldest, Return
  <2>3. QED
    BY <1>0, <2>1, <2>2 DEF AcceptedOnce
<1>3. ASSUME NEW k \in Consumers, Drain(k)
      PROVE  AcceptedOnce'
  BY <1>0, <1>3 DEF TypeOK, AcceptedOnce, Accepted, Drain, callVars
<1>4. ASSUME NEW k \in Consumers, Polling(k)
      PROVE  AcceptedOnce'
  <2>1. heap' = heap /\ taken' = taken /\ call' = call
    BY <1>4 DEF Polling, Wake, CheckDepth, CheckAge, ClearDepth, ClearOldest, queueVars, callVars
  <2>2. QED
    BY <1>0, <2>1 DEF AcceptedOnce, Accepted
<1>5. CASE Clear
  BY <1>0, <1>5 DEF TypeOK, AcceptedOnce, Accepted, Clear, callVars
<1>6. CASE Tick \/ UNCHANGED vars
  <2>1. heap' = heap /\ taken' = taken /\ call' = call
    BY <1>6 DEF Tick, vars
  <2>2. QED
    BY <1>0, <2>1 DEF AcceptedOnce, Accepted
<1>7. QED
  BY <1>1, <1>2, <1>3, <1>4, <1>5, <1>6, Cases

LEMMA SizeStep ==
  ASSUME IInv, [Next]_vars
  PROVE  NeverOverfull'
<1>0. NeverOverfull /\ MaxBatchSize \in Nat
  BY ProcessorAssumption DEF IInv
<1>1. ASSUME NEW r \in Requests, Push(r)
      PROVE  NeverOverfull'
  <2>1. Cardinality(heap') \in 0..MaxBatchSize
    BY <1>1, PushSize DEF Push
  <2>2. QED
    BY <1>0, <2>1 DEF NeverOverfull
<1>2. CASE heap' = heap
  BY <1>0, <1>2 DEF NeverOverfull
<1>3. CASE heap' = {}
  BY <1>0, <1>3, FS_EmptySet DEF NeverOverfull
<1>4. ASSUME ~ \E r \in Requests : Push(r)
      PROVE  heap' = heap \/ heap' = {}
  BY <1>4, Cases DEF Unlocked, Build, Reject, StoreDepth, StoreOldest, Return, Drain, Polling,
     Wake, CheckDepth, CheckAge, ClearDepth, ClearOldest, Clear, Tick, queueVars, vars
<1>5. QED
  BY <1>1, <1>2, <1>3, <1>4

LEMMA OldestStep ==
  ASSUME IInv, [Next]_vars
  PROVE  OldestExact'
<1>0. TypeOK /\ OldestExact /\ AcceptedOnce /\ Timeout \in Nat
  BY ProcessorAssumption DEF IInv
<1>1. ASSUME NEW r \in Requests, Push(r)
      PROVE  OldestExact'
  <2>1. /\ heap' = heap \cup {r} /\ age' = age
        /\ oldest_enqueue' = IF oldest_enqueue >= age[r] THEN oldest_enqueue ELSE age[r]
        /\ age \in [Requests -> 0..Timeout] /\ oldest_enqueue \in -1..Timeout
        /\ heap \subseteq Requests
    BY <1>0, <1>1 DEF Push, TypeOK
  <2>2. CASE heap = {}
    BY <1>0, <2>1, <2>2 DEF OldestExact, None
  <2>3. CASE heap # {}
    BY <1>0, <2>1, <2>3 DEF OldestExact
  <2>4. QED
    BY <2>2, <2>3
<1>2. CASE heap' = {} /\ oldest_enqueue' = None
  BY <1>2 DEF OldestExact
<1>3. CASE heap' = heap /\ oldest_enqueue' = oldest_enqueue /\ age' = age
  BY <1>0, <1>3 DEF OldestExact
<1>4. CASE Tick
  <2>1. /\ heap' = heap /\ heap \subseteq Requests
        /\ oldest_enqueue' = Older(oldest_enqueue)
        /\ age \in [Requests -> 0..Timeout] /\ oldest_enqueue \in -1..Timeout
    BY <1>0, <1>4 DEF Tick, TypeOK
  <2>2. \A s \in heap : age'[s] = Older(age[s])
    BY <1>0, <1>4 DEF Tick, AcceptedOnce, Accepted
  <2>3. CASE heap = {}
    BY <1>0, <2>1, <2>3 DEF OldestExact, Older, None
  <2>4. CASE heap # {}
    <3>1. \A s \in heap : Older(age[s]) <= Older(oldest_enqueue)
      BY <1>0, <2>1, <2>4, OlderAge DEF OldestExact
    <3>2. \E s \in heap : Older(age[s]) = Older(oldest_enqueue)
      BY <1>0, <2>4 DEF OldestExact
    <3>3. QED
      BY <2>1, <2>2, <2>4, <3>1, <3>2 DEF OldestExact
  <2>5. QED
    BY <2>3, <2>4
<1>5. ASSUME ~ Tick, ~ \E r \in Requests : Push(r)
      PROVE  \/ heap' = {} /\ oldest_enqueue' = None
             \/ heap' = heap /\ oldest_enqueue' = oldest_enqueue /\ age' = age
  BY <1>5, Cases DEF Unlocked, Build, Reject, StoreDepth, StoreOldest, Return, Drain, Polling,
     Wake, CheckDepth, CheckAge, ClearDepth, ClearOldest, Clear, queueVars, callVars, vars
<1>6. QED
  BY <1>1, <1>2, <1>3, <1>4, <1>5

-----------------------------------------------------------------------------
LEMMA IInvInit ==
  Init => IInv
<1> SUFFICES ASSUME Init
             PROVE  IInv
  OBVIOUS
<1>1. TypeOK
  <2>1. 0 \in 0..Timeout /\ 0 \in 0..MaxBatchSize /\ None \in -1..Timeout
    BY ProcessorAssumption DEF None
  <2>2. QED
    BY <2>1 DEF Init, TypeOK
<1>2. AcceptedOnce
  BY DEF Init, AcceptedOnce, Accepted
<1>3. NeverOverfull
  BY ProcessorAssumption, FS_EmptySet DEF Init, NeverOverfull
<1>4. OldestExact
  BY DEF Init, OldestExact
<1>5. QED
  BY <1>1, <1>2, <1>3, <1>4 DEF IInv

LEMMA IInvInvariant ==
  Spec => []IInv
<1>1. IInv /\ [Next]_vars => IInv'
  <2>1. ASSUME IInv, [Next]_vars
        PROVE  TypeOK' /\ AcceptedOnce' /\ NeverOverfull' /\ OldestExact'
    BY <2>1, TypeStep, AcceptedStep, SizeStep, OldestStep
  <2>2. QED
    BY <2>1 DEF IInv
<1>2. QED
  BY <1>1, IInvInit, PTL DEF Spec

\* The variables keep their types; the published depth (154) never exceeds the
\* limit of the queue.
THEOREM TypeCorrect ==
  Spec => []TypeOK
<1>1. IInv => TypeOK
  BY DEF IInv
<1>2. QED
  BY <1>1, IInvInvariant, PTL

\* No accepted request is lost or taken twice, and no refused one gets in
\* (add_request 141-168, get_batch 210-226, clear_batch 248-254).
THEOREM EveryAcceptedOnce ==
  Spec => []AcceptedOnce
<1>1. IInv => AcceptedOnce
  BY DEF IInv
<1>2. QED
  BY <1>1, IInvInvariant, PTL

\* The queue never exceeds max_batch_size (145-147), although its consumers
\* decide by a depth that may be stale.
THEOREM QueueBounded ==
  Spec => []NeverOverfull
<1>1. IInv => NeverOverfull
  BY DEF IInv
<1>2. QED
  BY <1>1, IInvInvariant, PTL

\* The cached oldest time is that of the oldest request of the heap (61-88).
THEOREM OldestCorrect ==
  Spec => []OldestExact
<1>1. IInv => OldestExact
  BY DEF IInv
<1>2. QED
  BY <1>1, IInvInvariant, PTL
=============================================================================

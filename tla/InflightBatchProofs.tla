-------------------------- MODULE InflightBatchProofs --------------------------
(***************************************************************************)
(* Proofs about InflightBatch, for any number of requests, workers and     *)
(* permits, any priorities, batch size and timeout.  The inductive         *)
(* invariant is IInv; each of its parts has a lemma of its own that says   *)
(* every step preserves it.                                                *)
(***************************************************************************)
EXTENDS InflightBatch, FiniteLemmas

-----------------------------------------------------------------------------
\* Lemmas about the operators.

\* The age of the oldest request of a nonempty set is the largest age in it.
LEMMA MaxAgeIsMax ==
  ASSUME NEW S \in SUBSET Requests, S # {}, NEW a \in [Requests -> 0..Timeout]
  PROVE  /\ \E r \in S : MaxAge(S, a) = a[r]
         /\ \A r \in S : a[r] <= MaxAge(S, a)
<1> DEFINE A == {a[r] : r \in S}
<1>1. A \in SUBSET Nat /\ A # {} /\ Timeout \in Nat /\ \A x \in A : x <= Timeout
  BY BatchAssumption
<1>2. \E m \in A : \A x \in A : x <= m
  <2> HIDE DEF A
  <2> QED
    BY <1>1, NatMax
<1>3. \E m \in A : \A r \in S : a[r] <= m
  BY <1>2
<1>4. QED
  BY <1>3 DEF MaxAge

\* What characterises the age of the oldest request.
LEMMA MaxAgeUnique ==
  ASSUME NEW S \in SUBSET Requests, NEW a \in [Requests -> 0..Timeout],
         NEW r \in S, \A s \in S : a[s] <= a[r]
  PROVE  MaxAge(S, a) = a[r]
<1>1. PICK s \in S : MaxAge(S, a) = a[s]
  BY MaxAgeIsMax
<1>2. a[r] <= a[s] /\ a[s] <= a[r]
  BY <1>1, MaxAgeIsMax
<1>3. QED
  BY <1>1, <1>2, BatchAssumption

LEMMA OldestOfType ==
  ASSUME NEW S \in SUBSET Requests, NEW a \in [Requests -> 0..Timeout]
  PROVE  OldestOf(S, a) \in -1..Timeout
<1>1. CASE S = {}
  BY <1>1, BatchAssumption DEF OldestOf, None
<1>2. CASE S # {}
  <2>1. PICK r \in S : MaxAge(S, a) = a[r]
    BY <1>2, MaxAgeIsMax
  <2>2. QED
    BY <1>2, <2>1, BatchAssumption DEF OldestOf
<1>3. QED
  BY <1>1, <1>2

LEMMA TimesFewer ==
  ASSUME NEW m \in Nat, NEW r \in Int, NEW b \in Int, NEW d \in Nat, r <= m * (b - d)
  PROVE  r <= m * b
<1>1. m * b = m * (b - d) + m * d /\ m * d >= 0
  OBVIOUS
<1>2. m * b \in Int /\ m * (b - d) \in Int /\ m * d \in Int
  OBVIOUS
<1>3. QED
  BY <1>1, <1>2

LEMMA RequestSets ==
  ASSUME NEW S \in SUBSET Requests
  PROVE  IsFiniteSet(S) /\ Cardinality(S) \in Nat
BY BatchAssumption, FS_Subset, FS_CardinalityType

LEMMA WorkerCounts ==
  ASSUME NEW P
  PROVE  Count(P) \in Nat
BY BatchAssumption, CountType, FS_CardinalityType DEF Count

\* How a worker's step changes a count of workers.
LEMMA CountStep ==
  ASSUME TypeOK, NEW w \in Workers, NEW v, pc' = [pc EXCEPT ![w] = v], NEW P
  PROVE  Count(P)' = Count(P) + (IF v \in P THEN 1 ELSE 0)
                              - (IF pc[w] \in P THEN 1 ELSE 0)
<1>1. IsFiniteSet(Workers) /\ DOMAIN pc = Workers /\ pc = [x \in Workers |-> pc[x]]
  BY BatchAssumption DEF TypeOK
<1>2. QED
  BY <1>1, CountExcept DEF Count

-----------------------------------------------------------------------------
\* Permits and guards: every step keeps the two counts exact.
LEMMA SlotsStep ==
  ASSUME TypeOK, SlotsExact, [Next]_vars
  PROVE  SlotsExact'
<1> DEFINE In(u, P) == IF u \in P THEN 1 ELSE 0
<1>0. /\ Count(Held) \in Nat /\ Count(Live) \in Nat /\ MaxInflight \in Nat
      /\ permits = MaxInflight - Count(Held) /\ inflight_batches = Count(Live)
      /\ permits \in Nat /\ inflight_batches \in Nat
  BY WorkerCounts, BatchAssumption DEF SlotsExact, TypeOK
<1>1. ASSUME UNCHANGED <<pc, permits, inflight_batches>>
      PROVE  SlotsExact'
  BY <1>1 DEF SlotsExact, Count
<1>2. ASSUME NEW w \in Workers, NEW v, pc' = [pc EXCEPT ![w] = v]
      PROVE  /\ Count(Held)' = Count(Held) + In(v, Held) - In(pc[w], Held)
             /\ Count(Live)' = Count(Live) + In(v, Live) - In(pc[w], Live)
  BY <1>2, CountStep
<1>3. ASSUME Count(Held)' = Count(Held) + permits - permits',
             Count(Live)' = Count(Live) + inflight_batches' - inflight_batches,
             permits' \in Int, inflight_batches' \in Int
      PROVE  SlotsExact'
  <2>1. permits' = MaxInflight - Count(Held)' /\ inflight_batches' = Count(Live)'
    BY <1>0, <1>3
  <2>2. QED
    BY <2>1 DEF SlotsExact
<1>4. ASSUME NEW w \in Workers, Form(w)
      PROVE  SlotsExact'
  <2>1. CASE Peek(w)
    <3>1. /\ pc[w] = "idle" /\ pc' = [pc EXCEPT ![w] = "peeked"]
          /\ permits' = permits /\ inflight_batches' = inflight_batches
      BY <2>1 DEF Peek
    <3>2. Count(Held)' = Count(Held) /\ Count(Live)' = Count(Live)
      <4>1. /\ Count(Held)' = Count(Held) + In("peeked", Held) - In(pc[w], Held)
            /\ Count(Live)' = Count(Live) + In("peeked", Live) - In(pc[w], Live)
        BY <1>2, <3>1, Zenon
      <4>2. QED
        BY <1>0, <3>1, <4>1 DEF Held, Live
    <3>3. QED
      BY <1>0, <1>3, <3>1, <3>2
  <2>2. CASE AcquirePermit(w) /\ permits > 0
    <3>1. /\ pc[w] = "peeked" /\ pc' = [pc EXCEPT ![w] = "permitted"]
          /\ permits' = permits - 1 /\ inflight_batches' = inflight_batches
      BY <2>2 DEF AcquirePermit
    <3>2. Count(Held)' = Count(Held) + 1 /\ Count(Live)' = Count(Live)
      <4>1. /\ Count(Held)' = Count(Held) + In("permitted", Held) - In(pc[w], Held)
            /\ Count(Live)' = Count(Live) + In("permitted", Live) - In(pc[w], Live)
        BY <1>2, <3>1, Zenon
      <4>2. QED
        BY <1>0, <3>1, <4>1 DEF Held, Live
    <3>3. QED
      BY <1>0, <1>3, <3>1, <3>2
  <2>3. CASE AcquirePermit(w) /\ ~ (permits > 0)
    <3>1. /\ pc[w] = "peeked" /\ pc' = [pc EXCEPT ![w] = "idle"]
          /\ permits' = permits /\ inflight_batches' = inflight_batches
      BY <2>3 DEF AcquirePermit
    <3>2. Count(Held)' = Count(Held) /\ Count(Live)' = Count(Live)
      <4>1. /\ Count(Held)' = Count(Held) + In("idle", Held) - In(pc[w], Held)
            /\ Count(Live)' = Count(Live) + In("idle", Live) - In(pc[w], Live)
        BY <1>2, <3>1, Zenon
      <4>2. QED
        BY <1>0, <3>1, <4>1 DEF Held, Live
    <3>3. QED
      BY <1>0, <1>3, <3>1, <3>2
  <2>4. CASE Drain(w)
    <3>1. /\ pc[w] = "permitted" /\ pc' = [pc EXCEPT ![w] = "running"]
          /\ permits' = permits /\ inflight_batches' = inflight_batches + 1
      BY <2>4 DEF Drain
    <3>2. Count(Held)' = Count(Held) /\ Count(Live)' = Count(Live) + 1
      <4>1. /\ Count(Held)' = Count(Held) + In("running", Held) - In(pc[w], Held)
            /\ Count(Live)' = Count(Live) + In("running", Live) - In(pc[w], Live)
        BY <1>2, <3>1, Zenon
      <4>2. QED
        BY <1>0, <3>1, <4>1 DEF Held, Live
    <3>3. QED
      BY <1>0, <1>3, <3>1, <3>2
  <2>5. CASE DrainEmpty(w)
    <3>1. /\ pc[w] = "permitted" /\ pc' = [pc EXCEPT ![w] = "releasing"]
          /\ permits' = permits /\ inflight_batches' = inflight_batches
      BY <2>5 DEF DrainEmpty
    <3>2. Count(Held)' = Count(Held) /\ Count(Live)' = Count(Live)
      <4>1. /\ Count(Held)' = Count(Held) + In("releasing", Held) - In(pc[w], Held)
            /\ Count(Live)' = Count(Live) + In("releasing", Live) - In(pc[w], Live)
        BY <1>2, <3>1, Zenon
      <4>2. QED
        BY <1>0, <3>1, <4>1 DEF Held, Live
    <3>3. QED
      BY <1>0, <1>3, <3>1, <3>2
  <2>6. QED
    BY <1>4, <2>1, <2>2, <2>3, <2>4, <2>5 DEF Form
<1>5. ASSUME NEW w \in Workers, Run(w)
      PROVE  SlotsExact'
  <2>1. CASE Answer(w)
    BY <1>1, <2>1 DEF Answer
  <2>2. CASE Complete(w)
    <3>1. /\ pc[w] = "running" /\ pc' = [pc EXCEPT ![w] = "completing"]
          /\ permits' = permits /\ inflight_batches' = inflight_batches
      BY <2>2 DEF Complete
    <3>2. Count(Held)' = Count(Held) /\ Count(Live)' = Count(Live)
      <4>1. /\ Count(Held)' = Count(Held) + In("completing", Held) - In(pc[w], Held)
            /\ Count(Live)' = Count(Live) + In("completing", Live) - In(pc[w], Live)
        BY <1>2, <3>1, Zenon
      <4>2. QED
        BY <1>0, <3>1, <4>1 DEF Held, Live
    <3>3. QED
      BY <1>0, <1>3, <3>1, <3>2
  <2>3. CASE Finish(w)
    <3>1. /\ pc[w] = "completing" /\ pc' = [pc EXCEPT ![w] = "releasing"]
          /\ permits' = permits /\ inflight_batches' = inflight_batches - 1
      BY <2>3 DEF Finish, LeaveBatch
    <3>2. Count(Held)' = Count(Held) /\ Count(Live)' = Count(Live) - 1
      <4>1. /\ Count(Held)' = Count(Held) + In("releasing", Held) - In(pc[w], Held)
            /\ Count(Live)' = Count(Live) + In("releasing", Live) - In(pc[w], Live)
        BY <1>2, <3>1, Zenon
      <4>2. QED
        BY <1>0, <3>1, <4>1 DEF Held, Live
    <3>3. QED
      BY <1>0, <1>3, <3>1, <3>2
  <2>4. CASE Abandon(w)
    <3>1. /\ pc[w] = "running" /\ pc' = [pc EXCEPT ![w] = "releasing"]
          /\ permits' = permits /\ inflight_batches' = inflight_batches - 1
      BY <2>4 DEF Abandon, LeaveBatch
    <3>2. Count(Held)' = Count(Held) /\ Count(Live)' = Count(Live) - 1
      <4>1. /\ Count(Held)' = Count(Held) + In("releasing", Held) - In(pc[w], Held)
            /\ Count(Live)' = Count(Live) + In("releasing", Live) - In(pc[w], Live)
        BY <1>2, <3>1, Zenon
      <4>2. QED
        BY <1>0, <3>1, <4>1 DEF Held, Live
    <3>3. QED
      BY <1>0, <1>3, <3>1, <3>2
  <2>5. CASE ReleasePermit(w)
    <3>1. /\ pc[w] = "releasing" /\ pc' = [pc EXCEPT ![w] = "idle"]
          /\ permits' = permits + 1 /\ inflight_batches' = inflight_batches
      BY <2>5 DEF ReleasePermit
    <3>2. Count(Held)' = Count(Held) - 1 /\ Count(Live)' = Count(Live)
      <4>1. /\ Count(Held)' = Count(Held) + In("idle", Held) - In(pc[w], Held)
            /\ Count(Live)' = Count(Live) + In("idle", Live) - In(pc[w], Live)
        BY <1>2, <3>1, Zenon
      <4>2. QED
        BY <1>0, <3>1, <4>1 DEF Held, Live
    <3>3. QED
      BY <1>0, <1>3, <3>1, <3>2
  <2>6. QED
    BY <1>5, <2>1, <2>2, <2>3, <2>4, <2>5 DEF Run
<1>6. ASSUME NEW r \in Requests, Add(r)
      PROVE  SlotsExact'
  BY <1>1, <1>6 DEF Add, Build, Push, StoreDepth, StorePeak, workerVars
<1>7. CASE ClearQueue \/ Tick \/ UNCHANGED vars
  BY <1>1, <1>7 DEF ClearQueue, Tick, vars, workerVars
<1>8. QED
  BY <1>4, <1>5, <1>6, <1>7 DEF Next

\* A worker in a counted phase makes the count positive.
LEMMA CountPositive ==
  ASSUME NEW w \in Workers, NEW P, pc[w] \in P
  PROVE  Count(P) > 0
<1> DEFINE S == {x \in Workers : pc[x] \in P}
<1>1. IsFiniteSet(S) /\ Cardinality(S) \in Nat
  BY BatchAssumption, FS_Subset, FS_CardinalityType
<1>2. S # {}
  OBVIOUS
<1> HIDE DEF S
<1>3. Cardinality(S) # 0
  BY <1>1, <1>2, FS_EmptySet
<1>4. QED
  BY <1>1, <1>3 DEF Count, CountOf, S

\* Types: the counters that are decremented stay naturals because a guard that
\* is dropped has been counted, and a permit that is returned was taken.
LEMMA TypeStep ==
  ASSUME TypeOK, SlotsExact, [Next]_vars
  PROVE  TypeOK'
<1> USE BatchAssumption
<1>1. ASSUME NEW r \in Requests, Build(r)
      PROVE  TypeOK'
  BY <1>1 DEF TypeOK, Build, queueVars, workerVars, statVars
<1>2. ASSUME NEW r \in Requests, Push(r)
      PROVE  TypeOK'
  <2>1. heap' \in SUBSET Requests /\ Cardinality(heap') \in Nat
    BY <1>2, RequestSets DEF Push, TypeOK
  <2>2. QED
    BY <1>2, <2>1 DEF TypeOK, Push, workerVars, statVars
<1>3. ASSUME NEW r \in Requests, StoreDepth(r)
      PROVE  TypeOK'
  BY <1>3 DEF TypeOK, StoreDepth, queueVars, workerVars, statVars
<1>4. ASSUME NEW r \in Requests, StorePeak(r)
      PROVE  TypeOK'
  BY <1>4 DEF TypeOK, StorePeak, queueVars, workerVars, statVars
<1>5. ASSUME NEW w \in Workers, Peek(w)
      PROVE  TypeOK'
  BY <1>5 DEF TypeOK, Peek, callVars, queueVars, statVars
<1>6. ASSUME NEW w \in Workers, AcquirePermit(w)
      PROVE  TypeOK'
  BY <1>6 DEF TypeOK, AcquirePermit, callVars, queueVars, statVars
<1>7. ASSUME NEW w \in Workers, Drain(w)
      PROVE  TypeOK'
  <2>1. /\ heap' \in SUBSET Requests /\ Cardinality(heap') \in Nat
        /\ Top(MaxBatchSize) \in SUBSET Requests
    BY <1>7, RequestSets DEF Drain, TypeOK, Top
  <2>2. age \in [Requests -> 0..Timeout]
    BY DEF TypeOK
  <2>3. oldest_enqueue' \in -1..Timeout
    BY <1>7, <2>1, <2>2, OldestOfType DEF Drain
  <2>4. QED
    BY <1>7, <2>1, <2>3 DEF TypeOK, Drain, callVars, statVars
<1>8. ASSUME NEW w \in Workers, DrainEmpty(w)
      PROVE  TypeOK'
  BY <1>8 DEF TypeOK, DrainEmpty, callVars, queueVars, statVars
<1>9. ASSUME NEW w \in Workers, Answer(w) \/ Complete(w)
      PROVE  TypeOK'
  BY <1>9 DEF TypeOK, Answer, Complete, callVars, queueVars, statVars
<1>10. ASSUME NEW w \in Workers, Finish(w) \/ Abandon(w)
       PROVE  TypeOK'
  <2>1. inflight_batches > 0
    BY <1>10, CountPositive DEF Finish, Abandon, SlotsExact, Live
  <2>2. Cardinality(batch[w]) \in Nat
    BY RequestSets DEF TypeOK
  <2>3. inflight_batches' \in Nat
    BY <1>10, <2>1 DEF Finish, Abandon, TypeOK
  <2>4. processed_requests' \in Nat
    BY <1>10, <2>2 DEF Finish, Abandon, TypeOK
  <2>5. LeaveBatch(w)
    BY <1>10 DEF Finish, Abandon
  <2>6. QED
    BY <2>3, <2>4, <2>5 DEF TypeOK, LeaveBatch, callVars, queueVars
<1>11. ASSUME NEW w \in Workers, ReleasePermit(w)
       PROVE  TypeOK'
  BY <1>11 DEF TypeOK, ReleasePermit, callVars, queueVars, statVars
<1>12. CASE ClearQueue
  BY <1>12 DEF TypeOK, ClearQueue, callVars, workerVars, statVars, None
<1>13. CASE Tick
  BY <1>13 DEF TypeOK, Tick, Older, workerVars, statVars, None
<1>14. CASE UNCHANGED vars
  BY <1>14 DEF TypeOK, vars
<1>15. QED
  BY <1>1, <1>2, <1>3, <1>4, <1>5, <1>6, <1>7, <1>8, <1>9, <1>10, <1>11, <1>12,
     <1>13, <1>14 DEF Next, Add, Form, Run

-----------------------------------------------------------------------------
\* Where a request is, said of one request at a time.
Homes ==
  /\ \A r \in Requests :
       (r \in heap \/ \E w \in Workers : r \in batch[w])
         <=> r \in Submitted /\ outcome[r] = "none"
  /\ \A r \in heap : \A w \in Workers : r \notin batch[w]
  /\ \A v, w \in Workers : v # w => batch[v] \cap batch[w] = {}
  /\ \A r \in Requests \ Submitted : outcome[r] = "none"

LEMMA HomesIsOneHome ==
  TypeOK => (OneHome <=> Homes)
<1> SUFFICES ASSUME TypeOK
             PROVE  OneHome <=> Homes
  OBVIOUS
<1>1. \A r : r \in InBatch <=> \E w \in Workers : r \in batch[w]
  BY DEF InBatch
<1>2. heap \subseteq Requests /\ InBatch \subseteq Requests
  BY <1>1 DEF TypeOK
<1>3. heap \cup InBatch = {r \in Submitted : outcome[r] = "none"} <=>
        \A r \in Requests : (r \in heap \/ \E w \in Workers : r \in batch[w])
                              <=> r \in Submitted /\ outcome[r] = "none"
  BY <1>1, <1>2 DEF Submitted
<1>4. heap \cap InBatch = {} <=>
        \A r \in heap : \A w \in Workers : r \notin batch[w]
  BY <1>1
<1>5. QED
  BY <1>3, <1>4 DEF OneHome, Homes

\* No step loses a request, takes it twice or answers it twice.
LEMMA HomesStep ==
  ASSUME TypeOK, Homes, GuardOwnsBatch, [Next]_vars
  PROVE  Homes' /\ GuardOwnsBatch'
<1> USE DEF Homes, GuardOwnsBatch, Submitted, TypeOK, Live
<1>1. ASSUME NEW r \in Requests, Build(r)
      PROVE  Homes' /\ GuardOwnsBatch'
  BY <1>1 DEF Build, queueVars, workerVars
<1>2. ASSUME NEW r \in Requests, Push(r)
      PROVE  Homes' /\ GuardOwnsBatch'
  BY <1>2 DEF Push, workerVars
<1>3. ASSUME NEW r \in Requests, StoreDepth(r) \/ StorePeak(r)
      PROVE  Homes' /\ GuardOwnsBatch'
  BY <1>3 DEF StoreDepth, StorePeak, queueVars, workerVars
<1>4. ASSUME NEW w \in Workers,
             \/ Peek(w) \/ AcquirePermit(w) \/ DrainEmpty(w)
             \/ Complete(w) \/ ReleasePermit(w)
      PROVE  Homes' /\ GuardOwnsBatch'
  BY <1>4 DEF Peek, AcquirePermit, DrainEmpty, Complete, ReleasePermit, callVars, queueVars
<1>5. ASSUME NEW w \in Workers, Drain(w)
      PROVE  Homes' /\ GuardOwnsBatch'
  <2>1. Top(MaxBatchSize) \subseteq heap /\ batch[w] = {}
    BY <1>5 DEF Drain, Top
  <2>2. QED
    BY <1>5, <2>1 DEF Drain, callVars
<1>6. ASSUME NEW w \in Workers, Answer(w)
      PROVE  Homes' /\ GuardOwnsBatch'
  BY <1>6 DEF Answer, callVars, queueVars
<1>7. ASSUME NEW w \in Workers, Finish(w) \/ Abandon(w)
      PROVE  Homes' /\ GuardOwnsBatch'
  <2>1. LeaveBatch(w)
    BY <1>7 DEF Finish, Abandon
  <2>2. QED
    BY <2>1 DEF LeaveBatch, callVars, queueVars
<1>8. CASE ClearQueue
  BY <1>8 DEF ClearQueue, callVars, workerVars
<1>9. CASE Tick \/ UNCHANGED vars
  BY <1>9 DEF Tick, vars, workerVars
<1>10. QED
  BY <1>1, <1>2, <1>3, <1>4, <1>5, <1>6, <1>7, <1>8, <1>9 DEF Next, Add, Form, Run

-----------------------------------------------------------------------------
\* The cached oldest entry stays exact: a request built earlier may be pushed
\* later, and a drain takes by priority, not by age.
LEMMA OldestStep ==
  ASSUME TypeOK, Homes, OldestExact, [Next]_vars
  PROVE  OldestExact'
<1>0. /\ heap \in SUBSET Requests /\ age \in [Requests -> 0..Timeout]
      /\ Timeout \in Nat
  BY BatchAssumption DEF TypeOK
<1>1. ASSUME UNCHANGED <<heap, age, oldest_enqueue>>
      PROVE  OldestExact'
  BY <1>1 DEF OldestExact
<1>2. ASSUME NEW r \in Requests, Push(r)
      PROVE  OldestExact'
  <2>1. /\ heap' = heap \cup {r} /\ age' = age /\ r \in heap'
        /\ heap' \in SUBSET Requests
        /\ oldest_enqueue' = IF oldest_enqueue >= age[r] THEN oldest_enqueue ELSE age[r]
    BY <1>2, <1>0 DEF Push
  <2>2. CASE heap = {}
    <3>1. oldest_enqueue' = age[r]
      BY <1>0, <2>1, <2>2 DEF OldestExact, OldestOf, None
    <3>2. \A s \in heap' : age[s] <= age[r]
      BY <1>0, <2>1, <2>2
    <3>3. MaxAge(heap', age) = age[r]
      BY <1>0, <2>1, <3>2, MaxAgeUnique
    <3>4. QED
      BY <2>1, <3>1, <3>3 DEF OldestExact, OldestOf
  <2>3. CASE heap # {}
    <3>1. PICK m \in heap : MaxAge(heap, age) = age[m]
      BY <1>0, <2>3, MaxAgeIsMax
    <3>2. oldest_enqueue = age[m] /\ \A s \in heap : age[s] <= age[m]
      BY <1>0, <2>3, <3>1, MaxAgeIsMax DEF OldestExact, OldestOf
    <3>3. PICK k \in heap' : age[k] = oldest_enqueue' /\ \A s \in heap' : age[s] <= age[k]
      BY <1>0, <2>1, <3>2
    <3>4. MaxAge(heap', age) = age[k]
      BY <1>0, <2>1, <3>3, MaxAgeUnique
    <3>5. QED
      BY <2>1, <3>3, <3>4 DEF OldestExact, OldestOf
  <2>4. QED
    BY <2>2, <2>3
<1>3. ASSUME NEW w \in Workers, Drain(w)
      PROVE  OldestExact'
  BY <1>3 DEF Drain, OldestExact, callVars
<1>4. CASE ClearQueue
  BY <1>4 DEF ClearQueue, OldestExact, OldestOf
<1>5. CASE Tick
  <2>1. /\ heap' = heap /\ \A r \in heap : age'[r] = Older(age[r])
        /\ age' \in [Requests -> 0..Timeout]
        /\ oldest_enqueue' = IF oldest_enqueue = None THEN None ELSE Older(oldest_enqueue)
    BY <1>0, <1>5 DEF Tick, Homes, Submitted, Older
  <2>2. CASE heap = {}
    BY <2>1, <2>2 DEF OldestExact, OldestOf
  <2>3. CASE heap # {}
    <3>1. PICK m \in heap : MaxAge(heap, age) = age[m]
      BY <1>0, <2>3, MaxAgeIsMax
    <3>2. oldest_enqueue = age[m] /\ \A s \in heap : age[s] <= age[m]
      BY <1>0, <2>3, <3>1, MaxAgeIsMax DEF OldestExact, OldestOf
    <3>3. oldest_enqueue' = age'[m]
      BY <1>0, <2>1, <3>2 DEF None
    <3>4. \A s \in heap : age'[s] <= age'[m]
      BY <1>0, <2>1, <3>2 DEF Older
    <3>5. MaxAge(heap, age') = age'[m]
      BY <1>0, <2>1, <3>4, MaxAgeUnique
    <3>6. QED
      BY <2>1, <2>3, <3>3, <3>5 DEF OldestExact, OldestOf
  <2>4. QED
    BY <2>2, <2>3
<1>6. ASSUME NEW r \in Requests, Build(r) \/ StoreDepth(r) \/ StorePeak(r)
      PROVE  OldestExact'
  BY <1>1, <1>6 DEF Build, StoreDepth, StorePeak, queueVars
<1>7. ASSUME NEW w \in Workers, Peek(w) \/ AcquirePermit(w) \/ DrainEmpty(w)
      PROVE  OldestExact'
  BY <1>1, <1>7 DEF Peek, AcquirePermit, DrainEmpty, callVars, queueVars
<1>8. ASSUME NEW w \in Workers, Run(w)
      PROVE  OldestExact'
  BY <1>1, <1>8 DEF Run, Answer, Complete, Finish, Abandon, LeaveBatch, ReleasePermit,
     callVars, queueVars
<1>9. CASE UNCHANGED vars
  BY <1>1, <1>9 DEF vars
<1>10. QED
  BY <1>2, <1>3, <1>4, <1>5, <1>6, <1>7, <1>8, <1>9 DEF Next, Add, Form

\* The queue's length stays covered: a push leaves a call that is about to
\* raise the peak that far, and that call does so before it returns.
LEMMA PeakStep ==
  ASSUME TypeOK, PeakCovered, [Next]_vars
  PROVE  PeakCovered'
<1>0. Cardinality(heap) \in Nat /\ heap \subseteq Requests
  BY RequestSets DEF TypeOK
<1>1. ASSUME UNCHANGED <<call, size, peak_queue_depth>>, heap' \subseteq heap
      PROVE  PeakCovered'
  <2>1. Cardinality(heap') <= Cardinality(heap) /\ Cardinality(heap') \in Nat
    BY <1>0, <1>1, RequestSets, FS_Subset
  <2>2. QED
    BY <1>0, <1>1, <2>1 DEF PeakCovered, Adding, TypeOK
<1>2. ASSUME NEW r \in Requests, Push(r)
      PROVE  PeakCovered'
  <2>1. Cardinality(heap') \in Nat
    BY <1>0, <1>2, RequestSets DEF Push
  <2>2. r \in Adding' /\ size'[r] = Cardinality(heap')
    BY <1>2 DEF Push, Adding, TypeOK
  <2>3. QED
    BY <2>1, <2>2 DEF PeakCovered
<1>3. ASSUME NEW r \in Requests, Build(r) \/ StoreDepth(r)
      PROVE  PeakCovered'
  <2>1. Adding' = Adding /\ UNCHANGED <<size, heap, peak_queue_depth>>
    BY <1>3 DEF Build, StoreDepth, Adding, TypeOK, queueVars
  <2>2. QED
    BY <2>1 DEF PeakCovered
<1>4. ASSUME NEW r \in Requests, StorePeak(r)
      PROVE  PeakCovered'
  <2>1. /\ size' = size /\ heap' = heap /\ size \in [Requests -> Nat]
        /\ peak_queue_depth' >= size[r] /\ peak_queue_depth' >= peak_queue_depth
        /\ peak_queue_depth \in Nat /\ peak_queue_depth' \in Nat
        /\ \A s \in Adding : s # r => s \in Adding'
    BY <1>4 DEF StorePeak, TypeOK, Adding, queueVars
  <2>2. CASE peak_queue_depth >= Cardinality(heap)
    BY <1>0, <2>1, <2>2 DEF PeakCovered
  <2>3. CASE \E s \in Adding : size[s] >= Cardinality(heap)
    BY <1>0, <2>1, <2>3 DEF PeakCovered, Adding
  <2>4. QED
    BY <2>2, <2>3 DEF PeakCovered
<1>5. ASSUME NEW w \in Workers, Form(w) \/ Run(w)
      PROVE  PeakCovered'
  BY <1>1, <1>5 DEF Form, Run, Peek, AcquirePermit, Drain, DrainEmpty, Answer,
     Complete, Finish, Abandon, LeaveBatch, ReleasePermit, callVars, queueVars
<1>6. CASE ClearQueue \/ Tick \/ UNCHANGED vars
  BY <1>1, <1>6 DEF ClearQueue, Tick, vars, callVars
<1>7. QED
  BY <1>2, <1>3, <1>4, <1>5, <1>6 DEF Next, Add

-----------------------------------------------------------------------------
\* The order of the heap.

\* The requests of the heap that a pop returns before r.
Ahead(r) == {s \in heap : Before(s, r)}

LEMMA BeforeOrder ==
  ASSUME TypeOK, SeqUnique, Homes
  PROVE  /\ \A r \in heap : ~ Before(r, r)
         /\ \A r, s, t \in heap : Before(r, s) /\ Before(s, t) => Before(r, t)
         /\ \A r, s \in heap : r # s => Before(r, s) \/ Before(s, r)
<1>1. /\ heap \subseteq Submitted
      /\ \A r \in heap : Priority[r] \in Int /\ seq[r] \in Nat
  BY BatchAssumption DEF Homes, TypeOK
<1>2. QED
  BY <1>1 DEF Before, SeqUnique

\* A request has strictly more requests ahead of it than one before it has.
LEMMA AheadGrows ==
  ASSUME TypeOK, SeqUnique, Homes, NEW r \in heap, NEW s \in heap, Before(r, s)
  PROVE  /\ Cardinality(Ahead(r)) \in Nat /\ Cardinality(Ahead(s)) \in Nat
         /\ Cardinality(Ahead(r)) < Cardinality(Ahead(s))
<1>1. Ahead(r) \cup {r} \subseteq Ahead(s) /\ r \notin Ahead(r)
  BY BeforeOrder DEF Ahead
<1>2. Ahead(r) \in SUBSET Requests /\ Ahead(s) \in SUBSET Requests
  BY DEF Ahead, TypeOK
<1>3. Ahead(r) # Ahead(s) /\ Ahead(r) \in SUBSET Ahead(s)
  BY <1>1
<1>4. /\ IsFiniteSet(Ahead(s)) /\ Cardinality(Ahead(s)) \in Nat
      /\ Cardinality(Ahead(r)) \in Nat
  BY <1>2, RequestSets
<1>5. QED
  BY <1>3, <1>4, FS_Subset

\* n pops return what is ahead of anything they return.
LEMMA TopIsPrefix ==
  ASSUME TypeOK, SeqUnique, Homes, NEW n \in Nat,
         NEW r \in heap, NEW s \in Top(n), Before(r, s)
  PROVE  r \in Top(n)
<1>1. s \in heap /\ Cardinality(Ahead(s)) < n
  BY DEF Top, Ahead
<1>2. /\ Cardinality(Ahead(r)) < Cardinality(Ahead(s))
      /\ Cardinality(Ahead(r)) \in Nat /\ Cardinality(Ahead(s)) \in Nat
  BY <1>1, AheadGrows
<1>3. Cardinality(Ahead(r)) < n
  BY <1>1, <1>2
<1>4. QED
  BY <1>3 DEF Top, Ahead

\* n pops return at most n requests: all but the last of them are ahead of it.
LEMMA TopBounded ==
  ASSUME TypeOK, SeqUnique, Homes, NEW n \in Nat
  PROVE  Cardinality(Top(n)) <= n
<1> DEFINE T == Top(n)
           R == {Cardinality(Ahead(r)) : r \in T}
<1>1. T \in SUBSET heap /\ T \in SUBSET Requests /\ \A r \in T : Cardinality(Ahead(r)) < n
  BY DEF Top, Ahead, TypeOK
<1>2. \A r \in T : /\ Ahead(r) \in SUBSET Requests
                   /\ IsFiniteSet(Ahead(r)) /\ Cardinality(Ahead(r)) \in Nat
  BY <1>1, RequestSets DEF Ahead, TypeOK
<1> HIDE DEF T
<1>3. IsFiniteSet(T) /\ Cardinality(T) \in Nat
  BY <1>1, RequestSets
<1>4. CASE T = {}
  BY <1>4, FS_EmptySet DEF T
<1>5. CASE T # {}
  <2>1. R \in SUBSET Nat /\ R # {} /\ \A x \in R : x <= n
    BY <1>1, <1>2, <1>5
  <2>2. \E x \in R : \A y \in R : y <= x
    <3> HIDE DEF R
    <3> QED
      BY <2>1, NatMax
  <2>3. PICK m \in T : \A r \in T : Cardinality(Ahead(r)) <= Cardinality(Ahead(m))
    BY <2>2
  <2>4. \A r \in T : r # m => Before(r, m)
    <3>1. SUFFICES ASSUME NEW r \in T, r # m, Before(m, r)
                   PROVE  FALSE
      BY <1>1, BeforeOrder
    <3>2. Cardinality(Ahead(m)) < Cardinality(Ahead(r))
      BY <1>1, <3>1, AheadGrows
    <3>3. QED
      BY <1>2, <2>3, <3>1, <3>2
  <2>5. T \ {m} \in SUBSET Ahead(m)
    BY <1>1, <2>4 DEF Ahead
  <2>6. Cardinality(T \ {m}) <= Cardinality(Ahead(m))
    BY <1>2, <2>5, FS_Subset
  <2>7. Cardinality(T \ {m}) = Cardinality(T) - 1
    BY <1>3, FS_RemoveElement
  <2>8. Cardinality(T) - 1 < n
    BY <1>1, <1>2, <1>3, <2>6, <2>7
  <2>9. QED
    BY <1>3, <2>8 DEF T
<1>6. QED
  BY <1>4, <1>5

\* A batch that is formed takes no request and leaves one that is ahead of it;
\* a request that is pushed is numbered after all others.
LEMMA OrderStep ==
  ASSUME TypeOK, SeqUnique, Homes, NoOvertaking, [Next]_vars
  PROVE  SeqUnique' /\ NoOvertaking'
<1> DEFINE Taken(s) == s \in InBatch \/ outcome[s] \in {"answered", "dropped"}
<1>0. \A r : r \in InBatch <=> \E w \in Workers : r \in batch[w]
  BY DEF InBatch
<1>1. ASSUME UNCHANGED <<Submitted, seq, next_seq>>, heap' \subseteq heap,
             \A s \in Submitted : Taken(s)' => Taken(s)
      PROVE  SeqUnique' /\ NoOvertaking'
  BY <1>1 DEF SeqUnique, NoOvertaking
<1>2. ASSUME NEW q \in Requests, Push(q)
      PROVE  SeqUnique' /\ NoOvertaking'
  <2>1. /\ q \notin Submitted /\ Submitted' = Submitted \cup {q}
        /\ \A r \in Submitted : r \in Requests /\ seq'[r] = seq[r] /\ seq[r] \in Nat
        /\ seq'[q] = next_seq /\ next_seq' = next_seq + 1 /\ next_seq \in Nat
        /\ heap' = heap \cup {q} /\ UNCHANGED <<batch, outcome>>
    BY <1>2 DEF Push, Submitted, TypeOK, workerVars
  <2>2. SeqUnique'
    BY <2>1 DEF SeqUnique
  <2>3. \A s : Taken(s)' <=> Taken(s)
    BY <2>1 DEF InBatch
  <2>4. ~ Taken(q)
    BY <1>0, <2>1 DEF Homes
  <2>5. \A s \in Submitted : seq[s] < next_seq
    BY DEF SeqUnique
  <2> HIDE DEF Taken
  <2>6. ASSUME NEW r \in Submitted', NEW s \in Submitted',
               Priority[r] >= Priority[s], seq'[r] < seq'[s], Taken(s)
        PROVE  r \notin heap'
    <3>1. s \in Submitted /\ r # q
      BY <2>1, <2>4, <2>5, <2>6
    <3>2. r \in Submitted /\ seq[r] < seq[s]
      BY <2>1, <2>6, <3>1
    <3>3. r \notin heap
      BY <2>6, <3>1, <3>2 DEF NoOvertaking, Taken
    <3>4. QED
      BY <2>1, <3>1, <3>3
  <2>7. QED
    BY <2>2, <2>3, <2>6 DEF NoOvertaking, Taken
<1>3. ASSUME NEW r \in Requests, Build(r) \/ StoreDepth(r) \/ StorePeak(r)
      PROVE  SeqUnique' /\ NoOvertaking'
  <2>1. UNCHANGED <<Submitted, seq, next_seq, heap, batch, outcome>>
    BY <1>3 DEF Build, StoreDepth, StorePeak, Submitted, TypeOK, queueVars, workerVars
  <2>2. QED
    BY <1>1, <2>1 DEF InBatch
<1>4. ASSUME NEW w \in Workers,
             \/ Peek(w) \/ AcquirePermit(w) \/ DrainEmpty(w)
             \/ Complete(w) \/ ReleasePermit(w)
      PROVE  SeqUnique' /\ NoOvertaking'
  <2>1. UNCHANGED <<Submitted, seq, next_seq, heap, batch, outcome>>
    BY <1>4 DEF Peek, AcquirePermit, DrainEmpty, Complete, ReleasePermit, Submitted,
       callVars, queueVars
  <2>2. QED
    BY <1>1, <2>1 DEF InBatch
<1>5. ASSUME NEW w \in Workers, Drain(w)
      PROVE  SeqUnique' /\ NoOvertaking'
  <2>1. /\ UNCHANGED <<call, seq, next_seq, outcome>> /\ Submitted' = Submitted
        /\ heap' = heap \ Top(MaxBatchSize)
    BY <1>5 DEF Drain, callVars, Submitted
  <2>2. SeqUnique'
    BY <2>1 DEF SeqUnique
  <2>3. \A s : s \in InBatch' => s \in InBatch \/ s \in Top(MaxBatchSize)
    BY <1>5 DEF Drain, InBatch, TypeOK
  <2>4. \A s : Taken(s)' => Taken(s) \/ s \in Top(MaxBatchSize)
    BY <2>1, <2>3
  <2> HIDE DEF Taken
  <2>5. ASSUME NEW r \in Submitted, NEW s \in Submitted,
               Priority[r] >= Priority[s], seq[r] < seq[s], r \in heap, s \in Top(MaxBatchSize)
        PROVE  r \in Top(MaxBatchSize)
    <3>1. Before(r, s)
      BY <2>5, BatchAssumption DEF Before, Submitted
    <3>2. QED
      BY <2>5, <3>1, TopIsPrefix, BatchAssumption
  <2>6. ASSUME NEW r \in Submitted', NEW s \in Submitted',
               Priority[r] >= Priority[s], seq'[r] < seq'[s], Taken(s)'
        PROVE  r \notin heap'
    <3>1. CASE Taken(s)
      BY <2>1, <2>6, <3>1 DEF NoOvertaking, Taken
    <3>2. CASE s \in Top(MaxBatchSize)
      BY <2>1, <2>5, <2>6, <3>2
    <3>3. QED
      BY <2>4, <2>6, <3>1, <3>2
  <2>7. QED
    BY <2>2, <2>6 DEF NoOvertaking, Taken
<1>6. ASSUME NEW w \in Workers, Answer(w) \/ Finish(w) \/ Abandon(w)
      PROVE  SeqUnique' /\ NoOvertaking'
  <2>1. UNCHANGED <<Submitted, seq, next_seq, heap>>
    BY <1>6 DEF Answer, Finish, Abandon, LeaveBatch, Submitted, callVars, queueVars
  <2>2. \A s \in Submitted : Taken(s)' => Taken(s)
    BY <1>6 DEF Answer, Finish, Abandon, LeaveBatch, InBatch, TypeOK, Submitted
  <2>3. QED
    BY <1>1, <2>1, <2>2
<1>7. CASE ClearQueue
  <2>1. UNCHANGED <<Submitted, seq, next_seq>> /\ heap' = {}
    BY <1>7 DEF ClearQueue, Submitted, callVars
  <2>2. QED
    BY <2>1 DEF SeqUnique, NoOvertaking
<1>8. CASE Tick \/ UNCHANGED vars
  <2>1. UNCHANGED <<Submitted, seq, next_seq, heap, batch, outcome>>
    BY <1>8 DEF Tick, vars, Submitted, workerVars
  <2>2. QED
    BY <1>1, <2>1 DEF InBatch
<1>9. QED
  BY <1>2, <1>3, <1>4, <1>5, <1>6, <1>7, <1>8 DEF Next, Add, Form, Run

\* No batch, and so no average over batches, exceeds max_batch_size.
LEMMA SizeStep ==
  ASSUME TypeOK, SeqUnique, Homes, BatchesWithinSize, CompletedWithinSize, [Next]_vars
  PROVE  BatchesWithinSize' /\ CompletedWithinSize'
<1> DEFINE Due == Count({"completing"})
           Batches == \A w \in Workers : Cardinality(batch[w]) <= MaxBatchSize
<1>0. /\ MaxBatchSize \in Nat /\ Cardinality({}) = 0 /\ Due \in Nat /\ Due' \in Nat
      /\ processed_batches \in Nat /\ processed_requests \in Nat
      /\ \A w \in Workers : Cardinality(batch[w]) \in Nat
  <2>1. Due \in Nat /\ Due' \in Nat
    BY BatchAssumption, CountType, FS_CardinalityType DEF Count
  <2>2. QED
    BY <2>1, BatchAssumption, FS_EmptySet, RequestSets DEF TypeOK
<1>1. ASSUME Batches', CompletedWithinSize',
             processed_batches' \in Nat, processed_requests' \in Nat
      PROVE  BatchesWithinSize'
  <2>1. processed_requests' <= MaxBatchSize * (processed_batches' - Due')
    BY <1>1 DEF CompletedWithinSize
  <2>2. /\ MaxBatchSize \in Nat /\ Due' \in Nat
        /\ processed_requests' \in Int /\ processed_batches' \in Int
    BY <1>0, <1>1
  <2>3. processed_requests' <= MaxBatchSize * processed_batches'
    <3> HIDE DEF Due
    <3> QED
      BY <2>1, <2>2, TimesFewer, Zenon
  <2>4. QED
    BY <1>1, <2>3 DEF BatchesWithinSize
<1>2. ASSUME NEW w \in Workers, NEW v, pc' = [pc EXCEPT ![w] = v]
      PROVE  /\ v = "completing" /\ pc[w] # "completing" => Due' = Due + 1
             /\ v # "completing" /\ pc[w] = "completing" => Due' = Due - 1
             /\ v # "completing" /\ pc[w] # "completing" => Due' = Due
  <2>1. Due' = Due + (IF v \in {"completing"} THEN 1 ELSE 0)
                   - (IF pc[w] \in {"completing"} THEN 1 ELSE 0)
    BY <1>2, CountStep
  <2>2. QED
    BY <1>0, <2>1
<1>3. ASSUME Batches', Due' = Due, UNCHANGED <<processed_batches, processed_requests>>
      PROVE  BatchesWithinSize' /\ CompletedWithinSize'
  BY <1>0, <1>1, <1>3 DEF CompletedWithinSize
<1>4. ASSUME UNCHANGED <<batch, pc, processed_batches, processed_requests>>
      PROVE  BatchesWithinSize' /\ CompletedWithinSize'
  BY <1>4 DEF BatchesWithinSize, CompletedWithinSize, Count
<1>5. ASSUME NEW w \in Workers, Peek(w) \/ AcquirePermit(w) \/ DrainEmpty(w) \/ ReleasePermit(w)
      PROVE  BatchesWithinSize' /\ CompletedWithinSize'
  <2>1. /\ \E v : v # "completing" /\ pc' = [pc EXCEPT ![w] = v]
        /\ pc[w] # "completing"
    BY <1>5, Zenon DEF Peek, AcquirePermit, DrainEmpty, ReleasePermit
  <2>2. Due' = Due
    BY <1>2, <2>1, Zenon
  <2>3. UNCHANGED <<batch, processed_batches, processed_requests>>
    BY <1>5 DEF Peek, AcquirePermit, DrainEmpty, ReleasePermit, statVars
  <2>4. QED
    BY <1>3, <2>2, <2>3 DEF BatchesWithinSize
<1>6. ASSUME NEW w \in Workers, Drain(w)
      PROVE  BatchesWithinSize' /\ CompletedWithinSize'
  <2>1. Cardinality(Top(MaxBatchSize)) <= MaxBatchSize
    BY <1>0, TopBounded
  <2>2. Batches'
    BY <1>6, <2>1 DEF Drain, BatchesWithinSize, TypeOK
  <2>3. /\ pc' = [pc EXCEPT ![w] = "running"] /\ pc[w] # "completing"
        /\ "running" # "completing"
    BY <1>6 DEF Drain
  <2>4. Due' = Due
    BY <1>2, <2>3, Zenon
  <2>5. QED
    BY <1>3, <1>6, <2>2, <2>4 DEF Drain, statVars
<1>7. ASSUME NEW w \in Workers, Answer(w)
      PROVE  BatchesWithinSize' /\ CompletedWithinSize'
  BY <1>0, <1>7 DEF Answer, BatchesWithinSize, CompletedWithinSize, Count, TypeOK, statVars
<1>8. ASSUME NEW w \in Workers, Complete(w)
      PROVE  BatchesWithinSize' /\ CompletedWithinSize'
  <2>1. pc' = [pc EXCEPT ![w] = "completing"] /\ pc[w] = "running"
    BY <1>8 DEF Complete
  <2>2. Due' = Due + 1
    BY <1>2, <2>1, Zenon
  <2>3. /\ processed_batches' = processed_batches + 1
        /\ UNCHANGED <<batch, processed_requests>>
    BY <1>8 DEF Complete
  <2>4. processed_batches' - Due' = processed_batches - Due /\ processed_batches' \in Nat
    BY <1>0, <2>2, <2>3
  <2>5. Batches' /\ CompletedWithinSize'
    BY <2>3, <2>4 DEF CompletedWithinSize, BatchesWithinSize
  <2>6. QED
    BY <1>0, <1>1, <2>3, <2>4, <2>5
<1>9. ASSUME NEW w \in Workers, Finish(w)
      PROVE  BatchesWithinSize' /\ CompletedWithinSize'
  <2>1. /\ pc' = [pc EXCEPT ![w] = "releasing"] /\ pc[w] = "completing"
        /\ "releasing" # "completing"
    BY <1>9 DEF Finish, LeaveBatch
  <2>2. Due' = Due - 1
    BY <1>2, <2>1, Zenon
  <2>3. /\ processed_requests' = processed_requests + Cardinality(batch[w])
        /\ Cardinality(batch[w]) <= MaxBatchSize
        /\ processed_batches' = processed_batches
    BY <1>9 DEF Finish, LeaveBatch, BatchesWithinSize
  <2>4. Batches'
    BY <1>0, <1>9 DEF Finish, LeaveBatch, BatchesWithinSize, TypeOK
  <2>5. MaxBatchSize * (processed_batches' - Due')
          = MaxBatchSize * (processed_batches - Due) + MaxBatchSize
    BY <1>0, <2>2, <2>3
  <2>6. MaxBatchSize * (processed_batches - Due) \in Int
    BY <1>0
  <2>7. CompletedWithinSize'
    BY <1>0, <2>3, <2>5, <2>6 DEF CompletedWithinSize
  <2>8. QED
    BY <1>0, <1>1, <2>3, <2>4, <2>7
<1>10. ASSUME NEW w \in Workers, Abandon(w)
       PROVE  BatchesWithinSize' /\ CompletedWithinSize'
  <2>1. /\ pc' = [pc EXCEPT ![w] = "releasing"] /\ pc[w] # "completing"
        /\ "releasing" # "completing"
    BY <1>10 DEF Abandon, LeaveBatch
  <2>2. Due' = Due
    BY <1>2, <2>1, Zenon
  <2>3. Batches'
    BY <1>0, <1>10 DEF Abandon, LeaveBatch, BatchesWithinSize, TypeOK
  <2>4. QED
    BY <1>3, <1>10, <2>2, <2>3 DEF Abandon, LeaveBatch
<1>11. ASSUME NEW r \in Requests, Add(r)
       PROVE  BatchesWithinSize' /\ CompletedWithinSize'
  BY <1>4, <1>11 DEF Add, Build, Push, StoreDepth, StorePeak, workerVars, statVars
<1>12. CASE ClearQueue \/ Tick \/ UNCHANGED vars
  BY <1>4, <1>12 DEF ClearQueue, Tick, vars, workerVars, statVars
<1>13. QED
  BY <1>5, <1>6, <1>7, <1>8, <1>9, <1>10, <1>11, <1>12 DEF Next, Form, Run

-----------------------------------------------------------------------------
\* The refinement: every step is one of the abstract batch queue, or none.

\* Some request of a queue has nobody ahead of it, so that a pop returns one.
LEMMA TopNonEmpty ==
  ASSUME TypeOK, SeqUnique, Homes, heap # {}
  PROVE  Top(MaxBatchSize) # {}
<1> DEFINE N == Cardinality(heap)
           Behind(r) == N - Cardinality(Ahead(r))
           R == {Behind(r) : r \in heap}
<1>1. IsFiniteSet(heap) /\ N \in Nat
  BY RequestSets DEF TypeOK
<1>2. \A r \in heap : Cardinality(Ahead(r)) \in 0..N
  BY <1>1, FS_Subset, FS_CardinalityType DEF Ahead
<1>3. \E x \in R : \A y \in R : y <= x
  <2>1. R \in SUBSET Nat /\ R # {} /\ \A x \in R : x <= N
    BY <1>1, <1>2
  <2>2. QED
    <3> HIDE DEF R, N
    <3> QED
      BY <1>1, <2>1, NatMax
<1>4. PICK r \in heap : \A s \in heap : Behind(s) <= Behind(r)
  BY <1>3
<1>5. Ahead(r) = {}
  <2>1. SUFFICES ASSUME NEW s \in Ahead(r)
                 PROVE  FALSE
    OBVIOUS
  <2>2. s \in heap /\ Before(s, r)
    BY DEF Ahead
  <2>3. Cardinality(Ahead(s)) < Cardinality(Ahead(r))
    BY <2>2, AheadGrows
  <2>4. QED
    BY <1>1, <1>2, <1>4, <2>2, <2>3
<1>6. r \in Top(MaxBatchSize)
  BY <1>5, FS_EmptySet, BatchAssumption DEF Top, Ahead
<1>7. QED
  BY <1>6

\* The cardinality that BatchQueue speaks of is the one of this module.
LEMMA SameCardinality ==
  \A S : Promise!Cardinality(S) = Cardinality(S)
BY DEF Promise!Cardinality, Cardinality

LEMMA PromiseInit ==
  Init => Promise!Init
BY DEF Init, Promise!Init, Submitted, Earlier

\* The steps of which the abstract queue sees nothing.
LEMMA PromiseHidden ==
  ASSUME TypeOK,
         \/ \E r \in Requests : Build(r) \/ StoreDepth(r) \/ StorePeak(r)
         \/ \E w \in Workers : \/ Peek(w) \/ AcquirePermit(w) \/ DrainEmpty(w)
                               \/ Complete(w) \/ ReleasePermit(w)
         \/ Tick \/ UNCHANGED vars
  PROVE  UNCHANGED Promise!vars
<1>1. UNCHANGED <<heap, seq, batch, outcome>>
  BY DEF Build, StoreDepth, StorePeak, Peek, AcquirePermit, DrainEmpty, Complete,
     ReleasePermit, Tick, vars, queueVars, callVars, workerVars
<1>2. Submitted' = Submitted
  BY DEF Submitted, TypeOK, Build, StoreDepth, StorePeak, Peek, AcquirePermit, DrainEmpty,
     Complete, ReleasePermit, Tick, vars, callVars
<1>3. Earlier' = Earlier
  BY <1>1, <1>2 DEF Earlier
<1>4. {w \in Workers : pc[w] \in {"running", "completing"}}'
        = {w \in Workers : pc[w] \in {"running", "completing"}}
  BY DEF TypeOK, Build, StoreDepth, StorePeak, Peek, AcquirePermit, DrainEmpty,
     Complete, ReleasePermit, Tick, vars, workerVars
<1>5. QED
  BY <1>1, <1>2, <1>3, <1>4 DEF Promise!vars

\* A request is accepted when it is pushed: its number is larger than all others.
LEMMA PromiseArrive ==
  ASSUME TypeOK, SeqUnique, NEW r \in Requests, Push(r)
  PROVE  Promise!Arrive(r)
<1>1. /\ r \notin Submitted /\ Submitted' = Submitted \cup {r}
      /\ seq' = [seq EXCEPT ![r] = next_seq] /\ seq \in [Requests -> Nat]
      /\ \A s \in Submitted : seq[s] < next_seq /\ seq[s] \in Nat
      /\ next_seq \in Nat /\ Submitted \subseteq Requests
      /\ heap' = heap \cup {r} /\ UNCHANGED <<pc, batch, outcome>>
  BY DEF Push, Submitted, TypeOK, SeqUnique, workerVars
<1>2. Earlier' = [Earlier EXCEPT ![r] = Submitted]
  <2>1. \A s \in Submitted : {q \in Submitted' : seq'[q] < seq'[s]}
                               = {q \in Submitted : seq[q] < seq[s]}
    BY <1>1
  <2>2. {q \in Submitted' : seq'[q] < seq'[r]} = Submitted
    BY <1>1
  <2>3. QED
    BY <1>1, <2>1, <2>2 DEF Earlier
<1>3. QED
  BY <1>1, <1>2 DEF Promise!Arrive

\* A batch is taken by the drain: the permit leaves room for it, and the requests
\* that the heap keeps are behind those it returns.
LEMMA PromiseTake ==
  ASSUME TypeOK, SlotsExact, SeqUnique, Homes, NEW w \in Workers, Drain(w),
         NEW B, B = Top(MaxBatchSize)
  PROVE  Promise!Take(w, B) /\ B \in SUBSET heap
<1> DEFINE Open == {v \in Workers : pc[v] \in {"running", "completing"}}
<1>1. /\ pc[w] = "permitted" /\ pc' = [pc EXCEPT ![w] = "running"] /\ heap # {}
      /\ heap' = heap \ B /\ batch' = [batch EXCEPT ![w] = B]
      /\ UNCHANGED <<call, seq, outcome>>
  BY DEF Drain, callVars
<1>2. w \notin Open /\ Open' = Open \cup {w}
  BY <1>1 DEF TypeOK
<1>3. Cardinality(Open) < MaxInflight
  <2>1. Cardinality(Open) = Count(Live)
    BY DEF Count, CountOf, Live
  <2>2. Count(Live) < Count(Held)
    <3> DEFINE H == {v \in Workers : pc[v] \in Held}
    <3>1. Open \in SUBSET (H \ {w}) /\ w \in H
      BY <1>1 DEF Held
    <3>2. IsFiniteSet(H)
      BY BatchAssumption, FS_Subset
    <3> HIDE DEF H
    <3>3. /\ Cardinality(Open) <= Cardinality(H \ {w})
          /\ Cardinality(H \ {w}) = Cardinality(H) - 1
          /\ Cardinality(H) \in Nat /\ Cardinality(Open) \in Nat
      BY <3>1, <3>2, FS_Subset, FS_RemoveElement, FS_CardinalityType
    <3>4. Count(Held) = Cardinality(H)
      BY DEF Count, CountOf, H
    <3>5. QED
      BY <2>1, <3>3, <3>4
  <2>3. QED
    BY <2>1, <2>2, WorkerCounts, BatchAssumption DEF SlotsExact, TypeOK
<1>4. B # {} /\ B \in SUBSET heap /\ Cardinality(B) <= MaxBatchSize
  BY <1>1, TopNonEmpty, TopBounded, BatchAssumption DEF Top
<1>5. \A r \in heap \ B, s \in B : ~ Promise!Before(r, s)
  <2>1. SUFFICES ASSUME NEW r \in heap, NEW s \in B, Promise!Before(r, s)
                 PROVE  r \in B
    OBVIOUS
  <2>2. r \in Requests /\ s \in Requests /\ s \in heap
    BY <1>4 DEF TypeOK
  <2>3. Before(r, s)
    BY <2>1, <2>2 DEF Before, Promise!Before, Earlier
  <2>4. QED
    BY <2>3, TopIsPrefix, BatchAssumption
<1>6. Submitted' = Submitted
  BY <1>1 DEF Submitted
<1>7. Earlier' = Earlier
  BY <1>1, <1>6 DEF Earlier
<1>8. /\ Promise!Cardinality(Open) < MaxInflight
      /\ Promise!Cardinality(B) <= MaxBatchSize
  BY <1>3, <1>4, SameCardinality
<1>9. Promise!Take(w, B)
  BY <1>1, <1>2, <1>4, <1>5, <1>6, <1>7, <1>8 DEF Promise!Take
<1>10. QED
  BY <1>4, <1>9

LEMMA PromiseRest ==
  ASSUME TypeOK, GuardOwnsBatch,
         ClearQueue \/ \E w \in Workers : Answer(w) \/ Finish(w) \/ Abandon(w)
  PROVE  Promise!Clear \/ \E w \in Workers : Promise!Answer(w) \/ Promise!Close(w)
<1> DEFINE Open == {v \in Workers : pc[v] \in {"running", "completing"}}
<1>1. UNCHANGED <<call, seq>>
  BY DEF ClearQueue, Answer, Finish, Abandon, LeaveBatch, callVars
<1>2. Submitted' = Submitted
  BY <1>1 DEF Submitted
<1>3. Earlier' = Earlier
  BY <1>1, <1>2 DEF Earlier
<1>4. CASE ClearQueue
  <2>1. UNCHANGED <<pc, batch>> /\ heap' = {}
    BY <1>4 DEF ClearQueue, workerVars
  <2>2. Promise!End(heap, "cleared")
    BY <1>4 DEF ClearQueue, Promise!End
  <2>3. QED
    BY <1>2, <1>3, <2>1, <2>2 DEF Promise!Clear
<1>5. ASSUME NEW w \in Workers, Answer(w)
      PROVE  Promise!Answer(w)
  <2>1. w \in Open /\ Open' = Open /\ heap' = heap
    BY <1>5 DEF Answer, queueVars
  <2>2. Promise!End(batch[w], "answered") /\ batch' = [batch EXCEPT ![w] = {}]
    BY <1>5 DEF Answer, Promise!End
  <2>3. QED
    BY <1>2, <1>3, <2>1, <2>2 DEF Promise!Answer
<1>6. ASSUME NEW w \in Workers, Finish(w) \/ Abandon(w)
      PROVE  Promise!Close(w)
  <2>1. w \in Open /\ Open' = Open \ {w} /\ heap' = heap
    BY <1>6 DEF Finish, Abandon, LeaveBatch, queueVars, TypeOK
  <2>2. Promise!End(batch[w], "dropped") /\ batch' = [batch EXCEPT ![w] = {}]
    BY <1>6 DEF Finish, Abandon, LeaveBatch, Promise!End
  <2>3. QED
    BY <1>2, <1>3, <2>1, <2>2 DEF Promise!Close
<1>7. QED
  BY <1>4, <1>5, <1>6

LEMMA PromiseStep ==
  ASSUME IInv, [Next]_vars
  PROVE  [Promise!Next]_Promise!vars
<1>1. TypeOK /\ SlotsExact /\ SeqUnique /\ Homes /\ GuardOwnsBatch
  BY HomesIsOneHome DEF IInv
<1>2. ASSUME NEW r \in Requests, Push(r)
      PROVE  Promise!Next
  BY <1>1, <1>2, PromiseArrive DEF Promise!Next
<1>3. ASSUME NEW w \in Workers, Drain(w)
      PROVE  Promise!Next
  <2>1. PICK B : B = Top(MaxBatchSize)
    OBVIOUS
  <2>2. Promise!Take(w, B) /\ B \in SUBSET heap
    BY <1>1, <1>3, <2>1, PromiseTake
  <2>3. QED
    BY <2>2 DEF Promise!Next
<1>4. ASSUME ClearQueue \/ \E w \in Workers : Answer(w) \/ Finish(w) \/ Abandon(w)
      PROVE  Promise!Next
  BY <1>1, <1>4, PromiseRest DEF Promise!Next
<1>5. QED
  BY <1>1, <1>2, <1>3, <1>4, PromiseHidden DEF Next, Add, Form, Run

-----------------------------------------------------------------------------
\* The invariant holds at the start and is kept by every step.
LEMMA IInvInit ==
  ASSUME Init
  PROVE  IInv
<1>1. Count(Held) = 0 /\ Count(Live) = 0 /\ Count({"completing"}) = 0
  <2>1. {x \in Workers : pc[x] \in Held} = {}
    BY DEF Init, Held
  <2>2. {x \in Workers : pc[x] \in Live} = {}
    BY DEF Init, Live
  <2>3. {x \in Workers : pc[x] \in {"completing"}} = {}
    BY DEF Init
  <2>4. QED
    BY <2>1, <2>2, <2>3, FS_EmptySet DEF Count, CountOf
<1>2. TypeOK
  BY BatchAssumption DEF Init, TypeOK, None
<1>3. SlotsExact
  BY <1>1, BatchAssumption DEF Init, SlotsExact
<1>4. Homes /\ GuardOwnsBatch
  BY DEF Init, Homes, GuardOwnsBatch, Submitted
<1>5. OldestExact /\ SeqUnique /\ NoOvertaking /\ PeakCovered
  BY FS_EmptySet DEF Init, OldestExact, OldestOf, SeqUnique, NoOvertaking, Submitted,
     PeakCovered
<1>6. BatchesWithinSize /\ CompletedWithinSize
  BY <1>1, BatchAssumption, FS_EmptySet DEF Init, BatchesWithinSize, CompletedWithinSize
<1>7. QED
  BY <1>2, <1>3, <1>4, <1>5, <1>6, HomesIsOneHome DEF IInv

LEMMA IInvStep ==
  ASSUME IInv, [Next]_vars
  PROVE  IInv'
<1>1. TypeOK /\ SlotsExact /\ Homes /\ GuardOwnsBatch
  BY HomesIsOneHome DEF IInv
<1>2. TypeOK' /\ SlotsExact'
  BY <1>1, TypeStep, SlotsStep
<1>3. Homes' /\ GuardOwnsBatch'
  BY <1>1, HomesStep
<1>4. OneHome'
  BY <1>2, <1>3, HomesIsOneHome, PTL
<1>5. /\ OldestExact' /\ PeakCovered' /\ SeqUnique' /\ NoOvertaking'
      /\ BatchesWithinSize' /\ CompletedWithinSize'
  BY <1>1, OldestStep, PeakStep, OrderStep, SizeStep DEF IInv
<1>6. QED
  BY <1>2, <1>3, <1>4, <1>5 DEF IInv

LEMMA IInvInvariant ==
  Spec => []IInv
<1>1. Init => IInv
  BY IInvInit
<1>2. IInv /\ [Next]_vars => IInv'
  BY IInvStep
<1>3. QED
  BY <1>1, <1>2, PTL DEF Spec

-----------------------------------------------------------------------------
\* The variables keep their types; in particular inflight_batches, which an
\* atomic fetch_sub decrements, never wraps below zero (201-231, 347-383).
THEOREM TypeCorrect ==
  Spec => []TypeOK
<1>1. IInv => TypeOK
  BY DEF IInv
<1>2. QED
  BY <1>1, IInvInvariant, PTL

\* The semaphore does limit the batches in flight to max_inflight_batches, for
\* any number of workers between the two phases of try_form_batch (201-222).
THEOREM InflightLimit ==
  Spec => []InflightWithinLimit
<1>1. IInv => InflightWithinLimit
  <2>1. SUFFICES ASSUME IInv
                 PROVE  InflightWithinLimit
    OBVIOUS
  <2>2. Count(Live) <= Count(Held)
    BY BatchAssumption, CountMono DEF Count, Live, Held
  <2>3. /\ Count(Live) \in Nat /\ Count(Held) \in Nat
        /\ permits \in Nat /\ MaxInflight \in Nat
    BY <2>1, WorkerCounts, BatchAssumption DEF IInv, TypeOK
  <2>4. QED
    BY <2>1, <2>2, <2>3 DEF IInv, SlotsExact, InflightWithinLimit
<1>2. QED
  BY <1>1, IInvInvariant, PTL

\* Every request pushed is in the heap, in one batch, or answered, and in one
\* of them only, whatever try_form_batch, clear_queue and the guards' drops do.
THEOREM NoRequestLost ==
  Spec => []OneHome
<1>1. IInv => OneHome
  BY DEF IInv
<1>2. QED
  BY <1>1, IInvInvariant, PTL

\* The cached oldest_enqueue is the oldest timestamp of the heap (73-109).
THEOREM OldestCorrect ==
  Spec => []OldestExact
<1>1. IInv => OldestExact
  BY DEF IInv
<1>2. QED
  BY <1>1, IInvInvariant, PTL

\* No batch takes a request and leaves one pushed before it that has at least
\* its priority (the heap's order, 22-46, and drain_up_to, 94-109).
THEOREM PriorityOrder ==
  Spec => []NoOvertaking
<1>1. IInv => NoOvertaking
  BY DEF IInv
<1>2. QED
  BY <1>1, IInvInvariant, PTL

\* No batch exceeds max_batch_size, and at no instant does the ratio of the two
\* counters; get_stats loads them one after the other (266-267), which is not claimed.
THEOREM BatchSize ==
  Spec => []BatchesWithinSize
<1>1. IInv => BatchesWithinSize
  BY DEF IInv
<1>2. QED
  BY <1>1, IInvInvariant, PTL

\* The recorded peak covers the queue whenever no add_request is in progress.
THEOREM PeakCorrect ==
  Spec => []PeakCoversQueue
<1>1. IInv => PeakCoversQueue
  BY DEF IInv, PeakCovered, PeakCoversQueue
<1>2. QED
  BY <1>1, IInvInvariant, PTL

\* No path of try_form_batch or of a guard leaks or doubles a permit (200-213,
\* 372-383).
THEOREM PermitsExact ==
  Spec => []SlotsExact
<1>1. IInv => SlotsExact
  BY DEF IInv
<1>2. QED
  BY <1>1, IInvInvariant, PTL

\* The refinement: whatever the interleaving of callers, workers and clear_queue,
\* an observer of the requests sees BatchQueue - batches of the most urgent
\* requests, no more of them than permits, every request with one end (73-109,
\* 183-232, 294-383).
THEOREM Implements ==
  Spec => KeepsPromise
<1>1. Init => Promise!Init
  BY PromiseInit
<1>2. IInv /\ [Next]_vars => [Promise!Next]_Promise!vars
  BY PromiseStep
<1>3. QED
  BY <1>1, <1>2, IInvInvariant, PTL DEF Spec, KeepsPromise, Promise!Spec
=============================================================================

------------------------------ MODULE SpeechProofs ------------------------------
(***************************************************************************)
(* Proofs about SessionPool, for any number of callers and sessions, and   *)
(* for the pool of a single session, which cannot lose it; and about       *)
(* Speech, for any number of connections, pipelines and sentences and any  *)
(* depth of the channel: what a client hears is in order and complete, and *)
(* the pool is used as SessionPool says, so that its theorems hold of      *)
(* speech.                                                                 *)
(***************************************************************************)
EXTENDS Speech, FiniteLemmas

-----------------------------------------------------------------------------
\* The pool of sessions.

Count(P) == CountOf(Callers, pc, P)

\* How a caller's step changes the number of callers with a permit.
LEMMA PermitStep ==
  ASSUME TypeOK, NEW c \in Callers, NEW v, pc' = [pc EXCEPT ![c] = v]
  PROVE  Count(WithPermit)' = Count(WithPermit) + (IF v \in WithPermit THEN 1 ELSE 0)
                                   - (IF pc[c] \in WithPermit THEN 1 ELSE 0)
<1>1. IsFiniteSet(Callers) /\ DOMAIN pc = Callers /\ pc = [x \in Callers |-> pc[x]]
  BY SessionAssumption DEF TypeOK
<1>2. WithPermit' = WithPermit
  BY DEF WithPermit
<1>3. QED
  BY <1>1, <1>2, CountExcept DEF Count

LEMMA PermitCounts ==
  Count(WithPermit) \in Nat /\ Cardinality(Sessions) \in Nat
<1>1. Cardinality(Callers) \in Nat /\ Cardinality(Sessions) \in Nat
  BY SessionAssumption, FS_CardinalityType
<1>2. QED
  BY <1>1, SessionAssumption, CountType DEF Count

\* Only AcquirePermit and Release change the permits, and only they move a
\* caller in or out of WithPermit.
LEMMA PermitsStep ==
  ASSUME TypeOK, PermitsExact, [Next]_vars
  PROVE  PermitsExact' /\ permits' \in 0..Cardinality(Sessions)
<1> DEFINE N == Cardinality(Sessions)
<1>0. /\ permits = N - Count(WithPermit) /\ N \in Nat
      /\ Count(WithPermit) \in Nat /\ Count(WithPermit)' \in Nat
      /\ permits \in 0..N
  <2>1. Count(WithPermit)' \in Nat
    <3>1. CountOf(Callers, pc', WithPermit) \in 0..Cardinality(Callers)
      BY SessionAssumption, CountType
    <3>2. Cardinality(Callers) \in Nat
      BY SessionAssumption, FS_CardinalityType
    <3>3. QED
      BY <3>1, <3>2 DEF Count
  <2>2. QED
    BY <2>1, PermitCounts DEF PermitsExact, Count, TypeOK
<1>1. ASSUME permits' = N - Count(WithPermit)', permits' >= 0
      PROVE  PermitsExact' /\ permits' \in 0..N
  BY <1>0, <1>1 DEF PermitsExact, Count
<1>2. ASSUME NEW c \in Callers, NEW v, pc' = [pc EXCEPT ![c] = v],
             v \in WithPermit <=> pc[c] \in WithPermit, permits' = permits
      PROVE  permits' = N - Count(WithPermit)' /\ permits' >= 0
  <2>1. Count(WithPermit)' = Count(WithPermit) + (IF v \in WithPermit THEN 1 ELSE 0)
                                 - (IF pc[c] \in WithPermit THEN 1 ELSE 0)
    BY <1>2, PermitStep
  <2>2. QED
    BY <1>0, <1>2, <2>1
<1>3. ASSUME NEW c \in Callers, AcquirePermit(c)
      PROVE  permits' = N - Count(WithPermit)' /\ permits' >= 0
  <2>1. /\ pc[c] = "waiting" /\ pc' = [pc EXCEPT ![c] = "permitted"]
        /\ permits > 0 /\ permits' = permits - 1
    BY <1>3 DEF AcquirePermit
  <2>2. Count(WithPermit)' = Count(WithPermit) + 1
    <3>1. Count(WithPermit)' = Count(WithPermit)
              + (IF "permitted" \in WithPermit THEN 1 ELSE 0)
              - (IF pc[c] \in WithPermit THEN 1 ELSE 0)
      BY <2>1, PermitStep
    <3>2. QED
      BY <1>0, <2>1, <3>1 DEF WithPermit
  <2>3. QED
    BY <1>0, <2>1, <2>2
<1>4. ASSUME NEW c \in Callers, Release(c)
      PROVE  permits' = N - Count(WithPermit)' /\ permits' >= 0
  <2>1. /\ pc[c] = "releasing" /\ pc' = [pc EXCEPT ![c] = "idle"]
        /\ permits' = permits + 1
    BY <1>4 DEF Release
  <2>2. Count(WithPermit)' = Count(WithPermit) - 1
    <3>1. Count(WithPermit)' = Count(WithPermit)
              + (IF "idle" \in WithPermit THEN 1 ELSE 0)
              - (IF pc[c] \in WithPermit THEN 1 ELSE 0)
      BY <2>1, PermitStep
    <3>2. QED
      BY <1>0, <2>1, <3>1 DEF WithPermit
  <2>3. QED
    BY <1>0, <2>1, <2>2
<1>5. ASSUME NEW c \in Callers,
             \/ Request(c) \/ Cancel(c) \/ Lock(c) \/ Pop(c) \/ PopNothing(c)
             \/ TryLock(c) \/ Discard(c) \/ Push(c)
      PROVE  permits' = N - Count(WithPermit)' /\ permits' >= 0
  <2>1. /\ permits' = permits
        /\ \E v : pc' = [pc EXCEPT ![c] = v]
                  /\ (v \in WithPermit <=> pc[c] \in WithPermit)
    BY <1>5 DEF Request, Cancel, Lock, Pop, PopNothing, TryLock, Discard, Push, WithPermit
  <2>2. QED
    BY <1>2, <2>1
<1>6. CASE UNCHANGED vars
  <2>1. permits' = N - Count(WithPermit)' /\ permits' >= 0
    BY <1>0, <1>6 DEF vars, Count
  <2>2. QED
    BY <1>1, <2>1
<1>7. CASE Next
  BY <1>1, <1>3, <1>4, <1>5, <1>7 DEF Next, Acquire, Drop
<1>8. QED
  BY <1>6, <1>7

-----------------------------------------------------------------------------
LEMMA IInvInit ==
  Init => IInv
<1> SUFFICES ASSUME Init
             PROVE  IInv
  OBVIOUS
<1>1. Cardinality(Sessions) \in Nat
  BY PermitCounts
<1>2. Count(WithPermit) = 0
  <2>1. {c \in Callers : pc[c] \in WithPermit} = {}
    BY DEF Init, WithPermit
  <2>2. QED
    BY <2>1, FS_EmptySet DEF Count, CountOf
<1>3. PermitsExact
  BY <1>1, <1>2 DEF PermitsExact, Count, Init
<1>4. TypeOK
  <2>1. permits \in 0..Cardinality(Sessions) /\ sessions \in SUBSET Sessions
    BY <1>1 DEF Init
  <2>2. held \in [Callers -> SUBSET Sessions]
    BY DEF Init
  <2>3. QED
    BY <2>1, <2>2 DEF Init, TypeOK
<1>5. QED
  BY <1>3, <1>4 DEF IInv, Init, SessionIsExclusive

LEMMA IInvStep ==
  IInv /\ [Next]_vars => IInv'
<1> SUFFICES ASSUME IInv, [Next]_vars
             PROVE  IInv'
  OBVIOUS
<1>1. PermitsExact' /\ permits' \in 0..Cardinality(Sessions)
  BY PermitsStep DEF IInv
<1> DEFINE Rest == /\ TypeOK' /\ SessionIsExclusive'
                   /\ \A c \in Callers :
                        pc'[c] \notin {"running", "returning"} => held'[c] = {}
<1> USE <1>1 DEF IInv, TypeOK, SessionIsExclusive
<1>2. ASSUME NEW c \in Callers, Request(c)
      PROVE  Rest
  BY <1>2 DEF Request
<1>3. ASSUME NEW c \in Callers, Cancel(c)
      PROVE  Rest
  BY <1>3 DEF Cancel
<1>4. ASSUME NEW c \in Callers, AcquirePermit(c)
      PROVE  Rest
  BY <1>4 DEF AcquirePermit
<1>5. ASSUME NEW c \in Callers, Lock(c)
      PROVE  Rest
  BY <1>5 DEF Lock
<1>6. ASSUME NEW c \in Callers, Pop(c)
      PROVE  Rest
  <2>1. PICK s \in sessions : /\ sessions' = sessions \ {s}
                              /\ held' = [held EXCEPT ![c] = {s}]
    BY <1>6 DEF Pop
  <2>2. TypeOK'
    BY <1>6, <2>1 DEF Pop
  <2>3. SessionIsExclusive'
    BY <1>6, <2>1 DEF Pop
  <2>4. QED
    BY <1>6, <2>1, <2>2, <2>3 DEF Pop
<1>7. ASSUME NEW c \in Callers, PopNothing(c)
      PROVE  Rest
  BY <1>7 DEF PopNothing
<1>8. ASSUME NEW c \in Callers, TryLock(c)
      PROVE  Rest
  BY <1>8 DEF TryLock
<1>9. ASSUME NEW c \in Callers, Discard(c)
      PROVE  Rest
  BY <1>9 DEF Discard
<1>10. ASSUME NEW c \in Callers, Push(c)
       PROVE  Rest
  BY <1>10 DEF Push
<1>11. ASSUME NEW c \in Callers, Release(c)
       PROVE  Rest
  BY <1>11 DEF Release
<1>12. CASE UNCHANGED vars
  BY <1>12 DEF vars
<1>13. CASE Next
  BY <1>2, <1>3, <1>4, <1>5, <1>6, <1>7, <1>8, <1>9, <1>10, <1>11, <1>13
     DEF Next, Acquire, Drop
<1>14. QED
  BY <1>12, <1>13

LEMMA IInvInvariant ==
  Spec => []IInv
BY IInvInit, IInvStep, PTL DEF Spec

\* The variables keep their types: in particular the semaphore never has more
\* permits than it was made with (59-66, 92-121).
THEOREM TypeCorrect ==
  Spec => []TypeOK
<1>1. IInv => TypeOK
  BY DEF IInv
<1>2. QED
  BY <1>1, IInvInvariant, PTL

\* No session is run by two callers, or offered while a guard still has it.
THEOREM Exclusion ==
  Spec => []SessionIsExclusive
<1>1. IInv => SessionIsExclusive
  BY DEF IInv
<1>2. QED
  BY <1>1, IInvInvariant, PTL

-----------------------------------------------------------------------------
\* The pool of one session: whoever has the permit is alone, so nobody has the
\* mutex when its guard is dropped.
Alone ==
  /\ \A c, d \in Callers : pc[c] \in WithPermit /\ pc[d] \in WithPermit => c = d
  /\ \A c \in Callers : pc[c] \in WithPermit => permits = 0
  /\ locked => \E c \in Callers : pc[c] \in {"locked", "returning"}
  /\ \A c \in Callers : pc[c] \in {"running", "returning"} => held[c] # {}
  /\ (\A c \in Callers : pc[c] \notin {"running", "returning"}) => sessions # {}

LEMMA AloneStep ==
  ASSUME permits \in 0..1, permits' \in 0..1, TypeOK
  PROVE  Alone /\ [Next]_vars => Alone'
<1> SUFFICES ASSUME Alone, [Next]_vars
             PROVE  Alone'
  OBVIOUS
<1> USE DEF Alone, WithPermit, TypeOK
<1>2. ASSUME NEW c \in Callers, Request(c)
      PROVE  Alone'
  BY <1>2 DEF Request
<1>3. ASSUME NEW c \in Callers, Cancel(c)
      PROVE  Alone'
  BY <1>3 DEF Cancel
<1>4. ASSUME NEW c \in Callers, AcquirePermit(c)
      PROVE  Alone'
  BY <1>4 DEF AcquirePermit
<1>5. ASSUME NEW c \in Callers, Lock(c)
      PROVE  Alone'
  BY <1>5 DEF Lock
<1>6. ASSUME NEW c \in Callers, Pop(c)
      PROVE  Alone'
  BY <1>6 DEF Pop
<1>7. ASSUME NEW c \in Callers, PopNothing(c)
      PROVE  Alone'
  BY <1>7 DEF PopNothing
<1>8. ASSUME NEW c \in Callers, TryLock(c)
      PROVE  Alone'
  BY <1>8 DEF TryLock
<1>9. ASSUME NEW c \in Callers, Discard(c)
      PROVE  Alone'
  BY <1>9 DEF Discard
<1>10. ASSUME NEW c \in Callers, Push(c)
       PROVE  Alone'
  BY <1>10 DEF Push
<1>11. ASSUME NEW c \in Callers, Release(c)
       PROVE  Alone'
  BY <1>11 DEF Release
<1>12. CASE UNCHANGED vars
  BY <1>12 DEF vars
<1>13. CASE Next
  BY <1>2, <1>3, <1>4, <1>5, <1>6, <1>7, <1>8, <1>9, <1>10, <1>11, <1>13
     DEF Next, Acquire, Drop
<1>14. QED
  BY <1>12, <1>13

\* With pool_size = 1 no session is ever discarded, and a session is there for
\* whoever gets the permit: what acquire's comment (69) promises.
THEOREM OneSessionIsKept ==
  ASSUME Cardinality(Sessions) = 1
  PROVE  Spec => []SessionPerPermit
<1>1. Init => Alone
  <2>1. Sessions # {}
    BY FS_EmptySet
  <2>2. QED
    BY <2>1 DEF Init, Alone, WithPermit
<1>2. IInv /\ IInv' /\ Alone /\ [Next]_vars => Alone'
  <2>1. IInv => permits \in 0..1 /\ TypeOK
    BY DEF IInv, TypeOK
  <2>2. IInv' => permits' \in 0..1
    BY DEF IInv, TypeOK
  <2>3. QED
    BY <2>1, <2>2, AloneStep
<1>3. Alone => SessionPerPermit
  BY DEF Alone, SessionPerPermit, WithPermit
<1>4. QED
  BY <1>1, <1>2, <1>3, IInvInvariant, PTL DEF Spec

-----------------------------------------------------------------------------
\* Speech.

Chunks == [n : Nat, ok : BOOLEAN]

Types ==
  /\ rx \in [Conns -> SUBSET Pipelines] /\ heard \in [Conns -> Nat]
  /\ at \in [Pipelines -> 0..Sentences + 1] /\ Sentences \in Nat \ {0}
  /\ chan \in [Pipelines -> Seq(Chunks)]

\* The types that arithmetic needs, without the others.
LEMMA Typed == ASSUME SpeechTypeOK PROVE Types
BY SpeechAssumption DEF SpeechTypeOK, Chunks, Types

\* Who reads a pipeline has been sent all its chunks but those in the channel.
LEMMA ReadHasStarted ==
  ASSUME SpeechIInv, NEW w \in Conns, NEW p \in rx[w]
  PROVE  /\ p \in Pipelines /\ at[p] \in Nat /\ at[p] >= 1 /\ ws[w] = "tts" /\ told[w] = "none"
         /\ chan[p] \in Seq(Chunks) /\ Len(chan[p]) \in Nat
<1>1. Types /\ OneReader /\ NoGap
  BY Typed DEF SpeechIInv
<1>2. p \in Pipelines /\ chan[p] \in Seq(Chunks) /\ heard[w] \in Nat
  BY <1>1 DEF Types
<1>3. Len(chan[p]) \in Nat
  BY <1>2
<1>4. at[p] = heard[w] + Len(chan[p]) + 1
  BY <1>1 DEF NoGap
<1>5. ws[w] = "tts" /\ told[w] = "none"
  BY <1>1 DEF OneReader
<1>6. QED
  BY <1>2, <1>3, <1>4, <1>5

\* The state, the count and the word that go with a new receiver, or with none.
Fits(s, new, h, t) ==
  /\ s \in {"idle", "tts", "stt", "stt with audio", "transcribing", "closed"}
  /\ t \in {"none", "done", "error"}
  /\ t = "done" => h = Sentences
  /\ new # {} => s = "tts" /\ t = "none"

\* What a step of a connection leaves to prove when it gives up its receiver, and
\* takes none or that of a pipeline without a task.
LEMMA BecomeStep ==
  ASSUME SpeechIInv, NEW w \in Conns, NEW s, NEW new \in SUBSET Pipelines, Become(w, s, new),
         NEW h \in Nat, heard' = [heard EXCEPT ![w] = h],
         NEW t, told' = [told EXCEPT ![w] = t], Fits(s, new, h, t),
         new # {} => h = 0 /\ \E p \in Pipelines : new = {p} /\ at[p] = 0
  PROVE  SpeechIInv'
<1>0. SpeechTypeOK /\ Types /\ OneReader /\ NoGap /\ InOrder /\ DoneMeansAll
  BY Typed DEF SpeechIInv
<1>1. /\ ws' = [ws EXCEPT ![w] = s] /\ rx' = [rx EXCEPT ![w] = new]
      /\ chan' = [p \in Pipelines |-> IF p \in rx[w] THEN <<>> ELSE chan[p]]
      /\ at' = [p \in Pipelines |-> IF p \in new THEN 1
                                    ELSE IF p \in rx[w] /\ Ended(p) THEN 0 ELSE at[p]]
      /\ result' = result
  BY DEF Become
<1>2. SpeechTypeOK'
  <2>1. 0 \in 0..Sentences + 1 /\ 1 \in 0..Sentences + 1
    BY <1>0 DEF Types
  <2>2. at' \in [Pipelines -> 0..Sentences + 1]
    BY <1>0, <1>1, <2>1 DEF Types
  <2>3. chan' \in [Pipelines -> Seq(Chunks)]
    <3>1. <<>> \in Seq(Chunks) /\ chan \in [Pipelines -> Seq(Chunks)]
      BY <1>0 DEF Types
    <3>2. QED
      BY <1>1, <3>1
  <2>4. \A p \in Pipelines : result'[p] # "none" => at'[p] \in 1..Sentences
    <3>1. SUFFICES ASSUME NEW p \in Pipelines, result[p] # "none"
                   PROVE  p \notin new /\ ~ Ended(p)
      BY <1>0, <1>1 DEF SpeechTypeOK
    <3>2. at[p] \in 1..Sentences
      BY <1>0, <3>1 DEF SpeechTypeOK
    <3>3. QED
      BY <1>0, <3>1, <3>2 DEF Ended, Types
  <2>5. QED
    BY <1>0, <1>1, <2>2, <2>3, <2>4 DEF SpeechTypeOK, Chunks, Fits
<1>3. \A v \in Conns \ {w} : \A p \in rx[v] :
        /\ p \in Pipelines /\ p \notin new /\ p \notin rx[w]
        /\ chan'[p] = chan[p] /\ at'[p] = at[p]
  <2>1. SUFFICES ASSUME NEW v \in Conns \ {w}, NEW p \in rx[v]
                 PROVE  p \in Pipelines /\ p \notin new /\ p \notin rx[w]
    BY <1>1
  <2>2. p \in Pipelines /\ at[p] >= 1
    BY ReadHasStarted
  <2>3. p \notin rx[w]
    BY <1>0 DEF OneReader
  <2>4. QED
    BY <2>2, <2>3
<1>4. \A p \in new : /\ p \in Pipelines /\ at'[p] = 1 /\ chan'[p] = <<>>
                     /\ \A v \in Conns : p \notin rx[v]
  <2>1. SUFFICES ASSUME NEW p \in new
                 PROVE  /\ p \in Pipelines /\ chan[p] = <<>>
                        /\ \A v \in Conns : p \notin rx[v]
    BY <1>1
  <2>2. p \in Pipelines /\ at[p] = 0
    OBVIOUS
  <2>3. \A v \in Conns : p \notin rx[v]
    BY <2>2, ReadHasStarted
  <2>4. QED
    BY <1>0, <2>2, <2>3 DEF OneReader, Read
<1>5. \A v \in Conns : rx'[v] = (IF v = w THEN new ELSE rx[v])
  BY <1>0, <1>1 DEF Types
<1>6. \A v \in Conns : v # w => heard'[v] = heard[v] /\ told'[v] = told[v] /\ ws'[v] = ws[v]
  BY <1>0, <1>1 DEF SpeechTypeOK
<1>7. heard'[w] = h /\ told'[w] = t /\ ws'[w] = s
  BY <1>0, <1>1 DEF SpeechTypeOK, Types
<1>8. OneReader'
  <2>1. \A p, q \in new : p = q
    OBVIOUS
  <2>2. \A p \in Pipelines : Read(p)' \/ chan'[p] = <<>>
    <3>1. SUFFICES ASSUME NEW p \in Pipelines, chan'[p] # <<>>
                   PROVE  \E v \in Conns : p \in rx'[v]
      BY DEF Read
    <3>2. p \notin rx[w] /\ chan[p] # <<>>
      BY <1>1, <3>1
    <3>3. PICK v \in Conns : p \in rx[v]
      BY <1>0, <3>2 DEF OneReader, Read
    <3>4. QED
      BY <1>5, <3>2, <3>3
  <2>3. \A v \in Conns : \A p, q \in rx'[v] : p = q
    BY <1>0, <1>5, <2>1 DEF OneReader
  <2>4. \A u, v \in Conns : u # v => rx'[u] \cap rx'[v] = {}
    BY <1>0, <1>4, <1>5 DEF OneReader
  <2>5. \A v \in Conns : rx'[v] # {} => ws'[v] = "tts" /\ told'[v] = "none"
    BY <1>0, <1>5, <1>6, <1>7 DEF OneReader, Fits
  <2>6. QED
    BY <2>2, <2>3, <2>4, <2>5 DEF OneReader
<1>9. NoGap'
  <2>1. SUFFICES ASSUME NEW v \in Conns, NEW p \in rx'[v]
                 PROVE  at'[p] = heard'[v] + Len(chan'[p]) + 1
    BY DEF NoGap
  <2>2. CASE v = w
    BY <1>4, <1>5, <1>7, <2>1, <2>2
  <2>3. CASE v # w
    BY <1>0, <1>3, <1>5, <1>6, <2>1, <2>3 DEF NoGap
  <2>4. QED
    BY <2>2, <2>3
<1>10. InOrder'
  <2>1. SUFFICES ASSUME NEW v \in Conns, NEW p \in rx'[v], NEW i \in 1..Len(chan'[p])
                 PROVE  chan'[p][i].n = heard'[v] + i
    BY DEF InOrder
  <2>2. CASE v = w
    BY <1>4, <1>5, <2>1, <2>2
  <2>3. CASE v # w
    BY <1>0, <1>3, <1>5, <1>6, <2>1, <2>3 DEF InOrder
  <2>4. QED
    BY <2>2, <2>3
<1>11. DoneMeansAll'
  BY <1>0, <1>6, <1>7 DEF DoneMeansAll, Fits
<1>12. QED
  BY <1>2, <1>8, <1>9, <1>10, <1>11 DEF SpeechIInv

\* A chunk that is sent takes the place after those of the channel.
LEMMA SendStep ==
  ASSUME SpeechIInv, NEW p \in Pipelines, Send(p)
  PROVE  SpeechIInv'
<1>0. /\ SpeechTypeOK /\ Types /\ OneReader /\ NoGap /\ InOrder /\ DoneMeansAll
      /\ UNCHANGED <<ws, rx, heard, told>> /\ result' = [result EXCEPT ![p] = "none"]
  BY Typed DEF SpeechIInv, Send, connVars
<1>1. CASE Read(p) /\ Len(chan[p]) < Depth
           /\ chan' = [chan EXCEPT ![p] = Append(@, [n |-> at[p], ok |-> result[p] = "ok"])]
           /\ at' = [at EXCEPT ![p] = @ + 1]
  <2> DEFINE c == [n |-> at[p], ok |-> result[p] = "ok"]
  <2>1. c \in Chunks /\ c.n = at[p] /\ chan[p] \in Seq(Chunks) /\ at[p] \in Nat
    BY <1>0 DEF Types, Chunks
  <2>2. /\ chan'[p] = Append(chan[p], c) /\ at'[p] = at[p] + 1
        /\ \A q \in Pipelines \ {p} : chan'[q] = chan[q] /\ at'[q] = at[q]
        /\ chan' = [chan EXCEPT ![p] = Append(chan[p], c)]
    BY <1>0, <1>1 DEF Types
  <2> HIDE DEF c
  <2>3. /\ Append(chan[p], c) \in Seq(Chunks) /\ Append(chan[p], c) # <<>>
        /\ Len(Append(chan[p], c)) = Len(chan[p]) + 1 /\ Len(chan[p]) \in Nat
        /\ Append(chan[p], c)[Len(chan[p]) + 1] = c
        /\ \A i \in 1..Len(chan[p]) : Append(chan[p], c)[i] = chan[p][i]
    BY <2>1
  <2>10. Len(chan'[p]) = Len(chan[p]) + 1 /\ Len(chan[p]) \in Nat /\ at'[p] = at[p] + 1
    BY <2>2, <2>3
  <2>4. PICK w \in Conns : p \in rx[w]
    BY <1>1 DEF Read
  <2>5. SpeechTypeOK'
    <3>1. at[p] \in 1..Sentences
      BY <1>0 DEF Send, SpeechTypeOK
    <3>2. at' \in [Pipelines -> 0..Sentences + 1]
      BY <1>0, <1>1, <3>1 DEF Types
    <3>3. chan' \in [Pipelines -> Seq(Chunks)]
      BY <1>0, <2>2, <2>3 DEF Types
    <3>4. \A q \in Pipelines : result'[q] # "none" => at'[q] \in 1..Sentences
      BY <1>0, <2>2 DEF SpeechTypeOK
    <3>5. QED
      BY <1>0, <3>2, <3>3, <3>4 DEF SpeechTypeOK, Chunks
  <2>6. OneReader'
    BY <1>0, <2>2, <2>4 DEF OneReader, Read
  <2>7. NoGap'
    <3>1. SUFFICES ASSUME NEW v \in Conns, NEW q \in rx[v]
                   PROVE  at'[q] = heard[v] + Len(chan'[q]) + 1
      BY <1>0 DEF NoGap
    <3>2. q \in Pipelines /\ at[q] = heard[v] + Len(chan[q]) + 1 /\ heard[v] \in Nat
      BY <1>0, ReadHasStarted DEF NoGap, Types
    <3>3. CASE q = p
      <4>1. at[p] = heard[v] + Len(chan[p]) + 1 /\ heard[v] \in Nat
        BY <3>2, <3>3
      <4>2. at'[p] = heard[v] + Len(chan'[p]) + 1
        BY <2>10, <4>1
      <4>3. QED
        BY <3>3, <4>2
    <3>4. CASE q # p
      BY <2>2, <3>2, <3>4
    <3>5. QED
      BY <3>3, <3>4
  <2>8. InOrder'
    <3>1. SUFFICES ASSUME NEW v \in Conns, NEW q \in rx[v], NEW i \in 1..Len(chan'[q])
                   PROVE  chan'[q][i].n = heard[v] + i
      BY <1>0 DEF InOrder
    <3>2. q \in Pipelines /\ at[q] = heard[v] + Len(chan[q]) + 1 /\ heard[v] \in Nat
      BY <1>0, ReadHasStarted DEF NoGap, Types
    <3>3. \A j \in 1..Len(chan[q]) : chan[q][j].n = heard[v] + j
      BY <1>0 DEF InOrder
    <3>4. CASE q = p /\ i \in 1..Len(chan[p])
      BY <2>2, <2>3, <3>3, <3>4
    <3>5. CASE q = p /\ i = Len(chan[p]) + 1
      <4>1. at[p] = heard[v] + Len(chan[p]) + 1 /\ heard[v] \in Nat
        BY <3>2, <3>5
      <4>2. chan'[q][i] = c
        BY <2>2, <2>3, <3>5
      <4>3. at[p] = heard[v] + i
        BY <2>10, <3>5, <4>1
      <4>4. QED
        BY <2>1, <4>2, <4>3
    <3>6. CASE q # p
      <4>1. chan'[q] = chan[q]
        BY <2>2, <3>2, <3>6
      <4>2. QED
        BY <3>3, <4>1
    <3>7. QED
      BY <2>10, <3>4, <3>5, <3>6
  <2>9. QED
    BY <1>0, <2>5, <2>6, <2>7, <2>8 DEF SpeechIInv, DoneMeansAll
<1>2. CASE ~ Read(p) /\ chan' = chan /\ at' = [at EXCEPT ![p] = 0]
  <2>1. /\ at'[p] = 0 /\ \A q \in Pipelines \ {p} : at'[q] = at[q]
        /\ at' \in [Pipelines -> 0..Sentences + 1]
    BY <1>0, <1>2 DEF Types
  <2>2. SpeechTypeOK'
    BY <1>0, <1>2, <2>1 DEF SpeechTypeOK
  <2>3. OneReader'
    BY <1>0, <1>2 DEF OneReader, Read
  <2>4. \A v \in Conns : \A q \in rx[v] : at'[q] = at[q]
    BY <1>2, <2>1, ReadHasStarted DEF Read
  <2>5. NoGap' /\ InOrder' /\ DoneMeansAll'
    BY <1>0, <1>2, <2>4 DEF NoGap, InOrder, DoneMeansAll
  <2>6. QED
    BY <2>2, <2>3, <2>5 DEF SpeechIInv
<1>3. QED
  BY <1>1, <1>2 DEF Send

LEMMA NextPlace == \A k \in Nat, i \in Int : k + (i + 1) = (k + 1) + i
OBVIOUS

\* The first chunk of the channel becomes the last one that was sent.
LEMMA ChunkStep ==
  ASSUME SpeechIInv, NEW w \in Conns, NEW p \in rx[w], chan[p] # <<>>,
         chan' = [chan EXCEPT ![p] = Tail(chan[p])], heard' = [heard EXCEPT ![w] = heard[w] + 1],
         UNCHANGED <<ws, rx, told, at, result>>
  PROVE  SpeechIInv'
<1>0. SpeechTypeOK /\ Types /\ OneReader /\ NoGap /\ InOrder /\ DoneMeansAll
  BY Typed DEF SpeechIInv
<1>1. /\ p \in Pipelines /\ chan[p] \in Seq(Chunks) /\ heard[w] \in Nat
      /\ at[p] = heard[w] + Len(chan[p]) + 1
  BY <1>0 DEF Types, NoGap
<1>2. /\ Tail(chan[p]) \in Seq(Chunks) /\ Len(chan[p]) \in Nat \ {0}
      /\ Len(Tail(chan[p])) = Len(chan[p]) - 1
      /\ \A i \in 1..Len(chan[p]) - 1 : Tail(chan[p])[i] = chan[p][i + 1]
  BY <1>1
<1>3. /\ chan'[p] = Tail(chan[p]) /\ heard'[w] = heard[w] + 1
      /\ \A q \in Pipelines \ {p} : chan'[q] = chan[q]
      /\ \A v \in Conns \ {w} : heard'[v] = heard[v]
  BY <1>0, <1>1 DEF Types
<1>13. Len(chan'[p]) = Len(chan[p]) - 1 /\ Len(chan[p]) \in Nat
  BY <1>2, <1>3
<1>14. heard'[w] = heard[w] + 1 /\ heard[w] \in Nat /\ at[p] = heard[w] + Len(chan[p]) + 1
  BY <1>1, <1>3
<1>4. \A v \in Conns \ {w} : \A q \in rx[v] : q \in Pipelines \ {p}
  <2>1. \A v \in Conns \ {w} : \A q \in rx[v] : q # p
    BY <1>0 DEF OneReader
  <2>2. QED
    BY <1>0, <2>1 DEF Types
<1>5. \A q \in rx[w] : q = p
  BY <1>0 DEF OneReader
<1>6. told[w] = "none"
  BY <1>0 DEF OneReader
<1>7. SpeechTypeOK'
  <2>1. heard' \in [Conns -> Nat]
    BY <1>0, <1>1 DEF Types
  <2>2. chan' \in [Pipelines -> Seq(Chunks)]
    BY <1>0, <1>2 DEF Types
  <2>3. QED
    BY <1>0, <2>1, <2>2 DEF SpeechTypeOK, Chunks
<1>8. OneReader'
  BY <1>0, <1>3 DEF OneReader, Read
<1>9. NoGap'
  <2>1. SUFFICES ASSUME NEW v \in Conns, NEW q \in rx[v]
                 PROVE  at[q] = heard'[v] + Len(chan'[q]) + 1
    BY DEF NoGap
  <2>2. CASE v = w
    <3>1. at[p] = heard'[w] + Len(chan'[p]) + 1
      BY <1>13, <1>14
    <3>2. QED
      BY <1>5, <2>2, <3>1
  <2>3. CASE v # w
    BY <1>0, <1>3, <1>4, <2>3 DEF NoGap
  <2>4. QED
    BY <2>2, <2>3
<1>10. InOrder'
  <2>1. SUFFICES ASSUME NEW v \in Conns, NEW q \in rx[v], NEW i \in 1..Len(chan'[q])
                 PROVE  chan'[q][i].n = heard'[v] + i
    BY DEF InOrder
  <2>2. CASE v = w
    <3>1. q = p /\ i \in 1..Len(chan[p]) - 1
      BY <1>2, <1>3, <1>5, <2>2
    <3>2. chan'[p][i] = chan[p][i + 1]
      BY <1>2, <1>3, <3>1
    <3>3. chan[p][i + 1].n = heard[w] + (i + 1)
      BY <1>0, <1>2, <3>1 DEF InOrder
    <3>4. QED
      <4>1. i \in Int
        OBVIOUS
      <4>2. heard[w] + (i + 1) = heard'[w] + i
        BY <1>14, <4>1, NextPlace
      <4>3. QED
        BY <2>2, <3>1, <3>2, <3>3, <4>2
  <2>3. CASE v # w
    BY <1>0, <1>3, <1>4, <2>3 DEF InOrder
  <2>4. QED
    BY <2>2, <2>3
<1>11. DoneMeansAll'
  <2>1. \A v \in Conns : told'[v] = "done" => v # w
    BY <1>6
  <2>2. QED
    BY <1>0, <1>3, <2>1 DEF DoneMeansAll
<1>12. QED
  BY <1>7, <1>8, <1>9, <1>10, <1>11 DEF SpeechIInv

\* A step that gives up the receiver and says nothing.
LEMMA LeaveStep ==
  ASSUME SpeechIInv, NEW w \in Conns, NEW s, Become(w, s, {}), UNCHANGED <<heard, told>>,
         s \in {"idle", "tts", "stt", "stt with audio", "transcribing", "closed"}
  PROVE  SpeechIInv'
<1>1. SpeechTypeOK /\ DoneMeansAll
  BY DEF SpeechIInv
<1>2. /\ heard[w] \in Nat /\ heard' = [heard EXCEPT ![w] = heard[w]]
      /\ told' = [told EXCEPT ![w] = told[w]]
  BY <1>1 DEF SpeechTypeOK
<1>3. Fits(s, {}, heard[w], told[w])
  BY <1>1 DEF Fits, SpeechTypeOK, DoneMeansAll
<1>4. QED
  BY <1>2, <1>3, BecomeStep

LEMMA StartTtsStep ==
  ASSUME SpeechIInv, NEW w \in Conns, StartTts(w)
  PROVE  SpeechIInv'
<1>1. PICK p \in Pipelines : at[p] = 0 /\ Become(w, "tts", {p})
  BY DEF StartTts
<1>2. heard' = [heard EXCEPT ![w] = 0] /\ told' = [told EXCEPT ![w] = "none"]
  BY DEF StartTts
<1>3. Fits("tts", {p}, 0, "none")
  BY DEF Fits
<1>4. /\ {p} \in SUBSET Pipelines /\ 0 \in Nat
      /\ {p} # {} => 0 = 0 /\ \E q \in Pipelines : {p} = {q} /\ at[q] = 0
  BY <1>1
<1>5. "none" \in {"none", "done", "error"}
  OBVIOUS
<1>6. QED
  BY <1>1, <1>2, <1>3, <1>4, BecomeStep

LEMMA ConnectStep ==
  ASSUME SpeechIInv, NEW w \in Conns, Connect(w)
  PROVE  SpeechIInv'
<1>1. Fits("idle", {}, 0, "none")
  BY DEF Fits
<1>2. QED
  BY <1>1, BecomeStep DEF Connect

\* tts_done is said when the last chunk has been sent.
LEMMA StreamStep ==
  ASSUME SpeechIInv, NEW w \in Conns, Stream(w)
  PROVE  SpeechIInv'
<1>1. SpeechTypeOK /\ Types /\ NoGap
  BY Typed DEF SpeechIInv
<1>2. /\ heard[w] \in Nat
      /\ UNCHANGED heard => heard' = [heard EXCEPT ![w] = heard[w]]
  BY <1>1 DEF Types
<1>3. CASE Tell(w, "error")
  <2>1. Fits("idle", {}, heard[w], "error")
    BY DEF Fits
  <2>2. QED
    BY <1>2, <1>3, <2>1, BecomeStep DEF Tell
<1>4. CASE TtsDone(w)
  <2>1. PICK p \in rx[w] : chan[p] = <<>> /\ Ended(p)
    BY <1>4 DEF TtsDone
  <2>2. at[p] = heard[w] + Len(chan[p]) + 1 /\ at[p] \in 0..Sentences + 1 /\ Sentences \in Nat
    BY <1>1 DEF Types, NoGap
  <2>3. heard[w] = Sentences
    BY <1>2, <2>1, <2>2 DEF Ended
  <2>4. Fits("idle", {}, heard[w], "done")
    BY <2>3 DEF Fits
  <2>5. QED
    BY <1>2, <1>4, <2>4, BecomeStep DEF TtsDone, Tell
<1>5. CASE Chunk(w) /\ ~ Tell(w, "error")
  BY <1>5, ChunkStep DEF Chunk
<1>6. QED
  BY <1>3, <1>4, <1>5 DEF Stream

\* A step of the pool changes nothing of a connection, and of a pipeline at most
\* the result of the sentence it is at.
LEMMA PoolStep ==
  ASSUME SpeechIInv, UNCHANGED <<connVars, at, chan>>,
         \/ UNCHANGED result
         \/ \E p \in Pipelines, x \in {"ok", "error"} :
              at[p] \in 1..Sentences /\ result' = [result EXCEPT ![p] = x]
  PROVE  SpeechIInv'
<1>1. UNCHANGED <<ws, rx, heard, told, at, chan>> /\ SpeechTypeOK
  BY DEF connVars, SpeechIInv
<1>2. /\ result' \in [Pipelines -> {"none", "ok", "error"}]
      /\ \A p \in Pipelines : result'[p] # "none" => at[p] \in 1..Sentences
  BY <1>1 DEF SpeechTypeOK
<1>3. SpeechTypeOK'
  BY <1>1, <1>2 DEF SpeechTypeOK
<1>4. (OneReader /\ NoGap /\ InOrder /\ DoneMeansAll)'
  BY <1>1 DEF SpeechIInv, OneReader, Read, NoGap, InOrder, DoneMeansAll
<1>5. QED
  BY <1>3, <1>4 DEF SpeechIInv

LEMMA SpeechStep == SpeechIInv /\ [SpeechNext]_speechVars => SpeechIInv'
<1>1. SUFFICES ASSUME SpeechIInv, [SpeechNext]_speechVars PROVE SpeechIInv'
  OBVIOUS
<1>2. ASSUME NEW p \in Pipelines, Synthesize(p) PROVE SpeechIInv'
  BY <1>1, <1>2, PoolStep DEF Synthesize
<1>3. ASSUME NEW p \in Pipelines, Send(p) PROVE SpeechIInv'
  BY <1>1, <1>3, SendStep
<1>4. ASSUME NEW c \in Callers, Elsewhere(c) PROVE SpeechIInv'
  BY <1>1, <1>4, PoolStep DEF Elsewhere, pipeVars
<1>5. ASSUME NEW w \in Conns, StartTts(w) PROVE SpeechIInv'
  BY <1>1, <1>5, StartTtsStep
<1>6. ASSUME NEW w \in Conns, SttBegin(w) \/ Audio(w) \/ SttEnd(w) \/ Transcribed(w) \/ Close(w)
      PROVE  SpeechIInv'
  BY <1>1, <1>6, LeaveStep DEF SttBegin, Audio, SttEnd, Transcribed, Close
<1>7. ASSUME NEW w \in Conns, Connect(w) PROVE SpeechIInv'
  BY <1>1, <1>7, ConnectStep
<1>8. ASSUME NEW w \in Conns, Stream(w) PROVE SpeechIInv'
  BY <1>1, <1>8, StreamStep
<1>9. CASE UNCHANGED speechVars
  BY <1>1, <1>9, PoolStep DEF speechVars, pipeVars
<1>10. QED
  BY <1>1, <1>2, <1>3, <1>4, <1>5, <1>6, <1>7, <1>8, <1>9 DEF SpeechNext

LEMMA SpeechStart == SpeechInit => SpeechIInv
<1>1. SUFFICES ASSUME SpeechInit PROVE SpeechIInv
  OBVIOUS
<1>2. 0 \in 0..Sentences + 1
  BY SpeechAssumption
<1>3. SpeechTypeOK
  <2>0. /\ ws = [w \in Conns |-> "idle"] /\ rx = [w \in Conns |-> {}]
        /\ heard = [w \in Conns |-> 0] /\ told = [w \in Conns |-> "none"]
        /\ at = [p \in Pipelines |-> 0] /\ result = [p \in Pipelines |-> "none"]
        /\ chan = [p \in Pipelines |-> <<>>]
    BY <1>1 DEF SpeechInit
  <2>1. /\ ws \in [Conns -> {"idle"}] /\ told \in [Conns -> {"none"}]
        /\ result \in [Pipelines -> {"none"}] /\ rx \in [Conns -> SUBSET Pipelines]
        /\ \A p \in Pipelines : result[p] = "none"
    BY <2>0
  <2>2. heard \in [Conns -> Nat] /\ at \in [Pipelines -> 0..Sentences + 1]
    BY <1>2, <2>0
  <2>3. chan \in [Pipelines -> Seq(Chunks)]
    BY <2>0
  <2>4. QED
    BY <2>1, <2>2, <2>3 DEF SpeechTypeOK, Chunks
<1>4. OneReader /\ NoGap /\ InOrder /\ DoneMeansAll
  <2>0. /\ rx = [w \in Conns |-> {}] /\ told = [w \in Conns |-> "none"]
        /\ chan = [p \in Pipelines |-> <<>>]
    BY <1>1 DEF SpeechInit
  <2>1. /\ \A w \in Conns : rx[w] = {} /\ told[w] # "done"
        /\ \A p \in Pipelines : chan[p] = <<>>
    BY <2>0
  <2>2. QED
    BY <2>1 DEF OneReader, NoGap, InOrder, DoneMeansAll
<1>5. QED
  BY <1>3, <1>4 DEF SpeechIInv

LEMMA SpeechInductive == SpeechSpec => []SpeechIInv
BY SpeechStart, SpeechStep, PTL DEF SpeechSpec

-----------------------------------------------------------------------------
\* What is in a client's channel is what comes next, in order and without a gap,
\* whatever texts the connection has given up (start_tts, stt_begin, Close).
THEOREM SpeechInOrder == SpeechSpec => []InOrder
<1>1. SpeechIInv => InOrder
  BY DEF SpeechIInv
<1>2. QED
  BY <1>1, SpeechInductive, PTL

\* tts_done is never sent for a text of which a sentence is missing.
THEOREM SpeechComplete == SpeechSpec => []DoneMeansAll
<1>1. SpeechIInv => DoneMeansAll
  BY DEF SpeechIInv
<1>2. QED
  BY <1>1, SpeechInductive, PTL

-----------------------------------------------------------------------------
\* Speech uses the pool of sessions as SessionPool says (every step of a pipeline or
\* a handler is a step of the pool, or none): the theorems about the pool hold of it.
THEOREM SpeechUsesPool == SpeechSpec => Spec
<1>1. SpeechInit => Init
  BY DEF SpeechInit
<1>2. ASSUME [SpeechNext]_speechVars PROVE [Next]_vars
  <2>1. ASSUME NEW p \in Pipelines, Synthesize(p) PROVE Next
    BY <2>1, SpeechAssumption DEF Synthesize, Next, Acquire, Drop
  <2>2. ASSUME NEW p \in Pipelines, Send(p) PROVE UNCHANGED vars
    BY <2>2 DEF Send
  <2>3. ASSUME NEW c \in Callers, Elsewhere(c) PROVE Next
    BY <2>3 DEF Elsewhere, Next
  <2>4. ASSUME NEW w \in Conns, NEW s, NEW new, Become(w, s, new) PROVE UNCHANGED vars
    BY <2>4 DEF Become
  <2>5. ASSUME NEW w \in Conns, Stream(w) PROVE UNCHANGED vars
    BY <2>4, <2>5 DEF Stream, Chunk, TtsDone, Tell
  <2>6. ASSUME NEW w \in Conns,
               \/ StartTts(w) \/ SttBegin(w) \/ Audio(w) \/ SttEnd(w)
               \/ Transcribed(w) \/ Close(w) \/ Connect(w)
        PROVE  UNCHANGED vars
    BY <2>4, <2>6 DEF StartTts, SttBegin, Audio, SttEnd, Transcribed, Close, Connect
  <2>7. CASE UNCHANGED speechVars
    BY <2>7 DEF speechVars
  <2>8. QED
    BY <1>2, <2>1, <2>2, <2>3, <2>5, <2>6, <2>7 DEF SpeechNext
<1>3. QED
  BY <1>1, <1>2, PTL DEF SpeechSpec, Spec

\* While pipelines and other callers speak, a session still runs for one of them at a
\* time and the semaphore never has more permits than there were sessions.
THEOREM SpeechKeepsPool == SpeechSpec => [](TypeOK /\ SessionIsExclusive)
<1>1. IInv => TypeOK /\ SessionIsExclusive
  BY DEF IInv
<1>2. QED
  BY <1>1, IInvInvariant, SpeechUsesPool, PTL
=============================================================================

---------------------------- MODULE LlmServiceProofs ----------------------------
(***************************************************************************)
(* Proofs about AgentRun and LlmService, for any number of runs, chats,    *)
(* permits and steps and any depth of the event channel: permits are       *)
(* exact, the events of a run are one conversation that ends with its      *)
(* final event, and a server that has gone leaves no child it knew of,     *)
(* whenever the service crashes and is spawned again.                      *)
(***************************************************************************)
EXTENDS LlmService, FiniteLemmas, SequenceTheorems

-----------------------------------------------------------------------------
\* What a step of an executor does, in one of four ways.

\* It goes from one place to another and emits an event, ...
Says(from, e, to) ==
  \/ from = "start" /\ e = "run_start" /\ to = "planning"
  \/ from = "planned" /\ e = "plan" /\ to = "step"
  \/ from = "unresolved" /\ e = "step_result" /\ to = "step"
  \/ from = "ready" /\ e = "step_start" /\ to = "tool"
  \/ from = "result" /\ e = "step_result" /\ to \in {"step", "failed"}
  \/ from = "answer" /\ e = "step_result" /\ to = "answered"
  \/ from = "answered" /\ e = "final" /\ to = "ended"
  \/ from = "failed" /\ e = "error" /\ to = "finish"
  \/ from = "finish" /\ e = "final" /\ to = "ended"

\* ... or goes without a word, to its end only where the client is gone, ...
Passes(from, to) ==
  \/ from = "step" /\ to \in {"finish", "failed", "ready", "unresolved"}
  \/ from = "tool" /\ to \in {"result", "answer", "reflect"}

\* ... or takes the lease, or gives it back.
Takes(from, to) == \/ from = "planning" /\ to = "proposing"
                   \/ from = "repairing" /\ to = "reproposing"
                   \/ from = "reflect" /\ to = "reflecting"
Gives(from, to) == \/ from = "proposing" /\ to \in {"planned", "repairing", "failed"}
                   \/ from = "reproposing" /\ to \in {"planned", "failed"}
                   \/ from = "reflecting" /\ to = "result"

Speaks(r) == \E from, to, e : Says(from, e, to) /\ Go(r, from, to) /\ Emit(r, e) /\ lease' = lease
Hushes(r) == \E from, to : Passes(from, to) /\ Go(r, from, to) /\ UNCHANGED <<queue, lease>>
Leaves(r) == Go(r, "step", "ended") /\ conn[r] # "open" /\ UNCHANGED <<queue, lease>>
Asks(r)   == \E from, to : /\ Takes(from, to) /\ Go(r, from, to) /\ UNCHANGED queue
                           /\ lease > 0 /\ lease' = lease - 1
Returns(r) == \E from, to : /\ Gives(from, to) /\ Go(r, from, to) /\ UNCHANGED queue
                            /\ lease' = lease + 1

LEMMA ExecuteKinds ==
  ASSUME NEW r \in Runs, Execute(r)
  PROVE  /\ UNCHANGED <<above_water, slots, conn, last, chat>>
         /\ Speaks(r) \/ Hushes(r) \/ Leaves(r) \/ Asks(r) \/ Returns(r)
<1> USE DEF Say, Take, Give, Silent
<1>1. CASE Plan(r)
  BY <1>1 DEF Plan, Speaks, Says, Asks, Takes, Returns, Gives
<1>2. CASE Announce(r)
  BY <1>2 DEF Announce, Speaks, Says
<1>3. CASE Step(r)
  BY <1>3 DEF Step, Hushes, Passes, Leaves
<1>4. CASE Unresolved(r)
  BY <1>4 DEF Unresolved, Speaks, Says
<1>5. CASE Dispatch(r)
  BY <1>5 DEF Dispatch, Speaks, Says, Hushes, Passes, Asks, Takes, Returns, Gives
<1>6. CASE Result(r)
  BY <1>6 DEF Result, Speaks, Says
<1>7. CASE Finish(r)
  BY <1>7 DEF Finish, Speaks, Says
<1>8. QED
  BY <1>1, <1>2, <1>3, <1>4, <1>5, <1>6, <1>7 DEF Execute

\* What an event says follows what was said before, by where the executor was.
LEMMA SaysFollows ==
  ASSUME NEW from, NEW to, NEW e, Says(from, e, to)
  PROVE  /\ from \notin Asked /\ to \notin Asked /\ to \in Places /\ e \in Events
         /\ from \notin {"none", "ended"} /\ to # "none"
         /\ \A x : Emitted(from, x) => e \in Follows(x)
         /\ Emitted(to, e)
<1>1. /\ from \notin Asked /\ to \notin Asked /\ to \in Places /\ e \in Events
      /\ from \notin {"none", "ended"} /\ to # "none"
  BY DEF Says, Asked, Places, Events
<1>2. ASSUME NEW x, Emitted(from, x) PROVE e \in Follows(x)
  BY <1>2 DEF Says, Emitted, Follows
<1>3. Emitted(to, e)
  BY DEF Says, Emitted
<1>4. QED
  BY <1>1, <1>2, <1>3

LEMMA PassesKeeps ==
  ASSUME NEW from, NEW to, Passes(from, to) \/ Takes(from, to) \/ Gives(from, to)
  PROVE  /\ Passes(from, to) => from \notin Asked /\ to \notin Asked
         /\ Takes(from, to) => from \notin Asked /\ to \in Asked
         /\ Gives(from, to) => from \in Asked /\ to \notin Asked
         /\ to \in Places /\ from \notin {"none", "ended"} /\ to # "none"
         /\ \A x : Emitted(from, x) => Emitted(to, x)
<1>1. CASE Passes(from, to)
  BY <1>1 DEF Passes, Takes, Gives, Asked, Places, Emitted
<1>2. CASE Takes(from, to)
  BY <1>2 DEF Passes, Takes, Gives, Asked, Places, Emitted
<1>3. CASE Gives(from, to)
  BY <1>3 DEF Passes, Takes, Gives, Asked, Places, Emitted
<1>4. QED
  BY <1>1, <1>2, <1>3

-----------------------------------------------------------------------------
\* The conversation.  Its types, without the permits.
Shape ==
  /\ left \in [Runs -> 0..MaxSteps]
  /\ queue \in [Runs -> Seq(Events)] /\ last \in [Runs -> Events \cup {"none"}]
  /\ conn \in [Runs -> {"none", "open", "done", "left"}] /\ exec \in [Runs -> Places]
  /\ chat \in [Chats -> {"none", "describing", "waiting", "generating"}]

Well(r) == Talk(r) /\ Manners(r)

\* A step of one run leaves the others alone.
Same(r) == conn'[r] = conn[r] /\ exec'[r] = exec[r] /\ queue'[r] = queue[r] /\ last'[r] = last[r]

LEMMA SameKeeps ==
  ASSUME NEW r \in Runs, Well(r), Same(r)
  PROVE  Well(r)'
BY DEF Same, Well, Talk, Manners, Tip, Event

\* An event is emitted where the previous one allows it.
LEMMA EmitKeeps ==
  ASSUME Shape, NEW r \in Runs, Well(r), NEW from, NEW to, NEW e,
         Says(from, e, to), Go(r, from, to), Emit(r, e), UNCHANGED <<conn, last>>
  PROVE  Well(r)'
<1>1. /\ e \in Events /\ from \notin {"none", "ended"} /\ to # "none" /\ Emitted(to, e)
      /\ Emitted(from, Tip(r)) => e \in Follows(Tip(r))
  BY SaysFollows
<1>2. /\ exec[r] = from /\ exec'[r] = to /\ conn'[r] = conn[r] /\ last'[r] = last[r]
      /\ queue[r] \in Seq(Events)
  BY DEF Go, Shape
<1>3. CASE conn[r] # "open"
  <2>1. queue'[r] = queue[r]
    BY <1>3 DEF Emit
  <2>2. QED
    BY <1>1, <1>2, <1>3, <2>1 DEF Well, Talk, Manners
<1>4. CASE conn[r] = "open"
  <2>1. queue'[r] = Append(queue[r], e)
    BY <1>4 DEF Emit, Shape
  <2>a. PICK n \in Nat : n = Len(queue[r])
    BY <1>2, LenProperties
  <2>2. n \in Nat /\ Len(queue'[r]) = n + 1 /\ queue'[r][n + 1] = e
    BY <1>1, <1>2, <2>1, <2>a, AppendProperties
  <2>3. \A i \in 1..n : queue'[r][i] = queue[r][i]
    BY <1>1, <1>2, <2>1, <2>a, AppendProperties
  <2>4. Event(r, n + 1)' = e /\ \A i \in 0..n : Event(r, i)' = Event(r, i)
    BY <1>2, <2>2, <2>3 DEF Event
  <2>5. Tip(r) = Event(r, n) /\ Tip(r)' = e
    BY <2>a, <2>2, <2>4 DEF Tip
  <2>6. e \in Follows(Event(r, n))
    BY <1>1, <1>2, <1>4, <2>5 DEF Well, Talk
  <2>7. \A i \in 1..n : Event(r, i) \in Follows(Event(r, i - 1))
    BY <1>4, <2>a DEF Well, Talk
  <2>8. ASSUME NEW i \in 1..(n + 1)
        PROVE  Event(r, i)' \in Follows(Event(r, i - 1)')
    <3>1. CASE i = n + 1
      BY <2>2, <2>4, <2>6, <3>1
    <3>2. CASE i \in 1..n
      <4>1. i - 1 \in 0..n /\ i \in 0..n
        BY <2>2, <3>2
      <4>2. QED
        BY <2>4, <2>7, <3>2, <4>1
    <3>3. QED
      BY <2>2, <3>1, <3>2
  <2>9. Talk(r)'
    <3>1. Emitted(exec'[r], Tip(r)')
      BY <1>1, <1>2, <2>5
    <3>2. \A i \in 1..Len(queue'[r]) : Event(r, i)' \in Follows(Event(r, i - 1)')
      BY <2>2, <2>8
    <3>3. QED
      BY <3>1, <3>2, Zenon DEF Talk, Follows
  <2>10. QED
    BY <1>1, <1>2, <1>4, <2>9 DEF Well, Manners
<1>5. QED
  BY <1>3, <1>4

\* A place is left for another without a word.
LEMMA HushKeeps ==
  ASSUME Shape, NEW r \in Runs, Well(r), NEW from, NEW to,
         Passes(from, to) \/ Takes(from, to) \/ Gives(from, to), Go(r, from, to),
         UNCHANGED <<conn, last, queue>>
  PROVE  Well(r)'
<1>1. from \notin {"none", "ended"} /\ to # "none" /\ (Emitted(from, Tip(r)) => Emitted(to, Tip(r)))
  BY PassesKeeps
<1>2. exec[r] = from /\ exec'[r] = to
  BY DEF Go, Shape
<1>3. Tip(r)' = Tip(r) /\ \A i : Event(r, i)' = Event(r, i)
  BY DEF Tip, Event
<1>4. Talk(r)'
  BY <1>1, <1>2, <1>3 DEF Well, Talk
<1>5. QED
  BY <1>1, <1>2, <1>4 DEF Well, Manners

LEMMA ExecuteKeeps ==
  ASSUME Shape, NEW r \in Runs, Well(r), Execute(r)
  PROVE  Well(r)' /\ \A v \in Runs \ {r} : Same(v)
<1>1. UNCHANGED <<conn, last>> /\ (Speaks(r) \/ Hushes(r) \/ Leaves(r) \/ Asks(r) \/ Returns(r))
  BY ExecuteKinds
<1>2. CASE Speaks(r)
  <2>1. PICK from, to, e : Says(from, e, to) /\ Go(r, from, to) /\ Emit(r, e)
    BY <1>2 DEF Speaks
  <2>2. Well(r)'
    BY <1>1, <2>1, EmitKeeps
  <2>3. \A v \in Runs \ {r} : Same(v)
    BY <1>1, <2>1 DEF Same, Go, Emit, Shape
  <2>4. QED
    BY <2>2, <2>3
<1>3. CASE Leaves(r)
  <2>1. exec' = [exec EXCEPT ![r] = "ended"] /\ queue' = queue /\ conn[r] # "open" /\ exec[r] = "step"
    BY <1>3 DEF Leaves, Go
  <2>2. Well(r)'
    BY <1>1, <2>1 DEF Well, Talk, Manners, Shape
  <2>3. \A v \in Runs \ {r} : Same(v)
    BY <1>1, <2>1 DEF Same, Shape
  <2>4. QED
    BY <2>2, <2>3
<1>4. CASE Hushes(r) \/ Asks(r) \/ Returns(r)
  <2>1. PICK from, to : /\ Passes(from, to) \/ Takes(from, to) \/ Gives(from, to)
                        /\ Go(r, from, to) /\ queue' = queue
    BY <1>4 DEF Hushes, Asks, Returns
  <2>2. Well(r)'
    BY <1>1, <2>1, HushKeeps
  <2>3. \A v \in Runs \ {r} : Same(v)
    BY <1>1, <2>1 DEF Same, Go, Shape
  <2>4. QED
    BY <2>2, <2>3
<1>5. QED
  BY <1>1, <1>2, <1>3, <1>4

\* The client is sent the first event of the channel.
LEMMA DeliverKeeps ==
  ASSUME Shape, NEW r \in Runs, Well(r), Deliver(r)
  PROVE  /\ Well(r)' /\ \A v \in Runs \ {r} : Same(v)
         /\ Head(queue[r]) \in Follows(last[r])
<1>1. /\ queue[r] \in Seq(Events) /\ queue[r] # <<>> /\ conn[r] = "open"
      /\ conn' = conn /\ exec' = exec
      /\ queue'[r] = Tail(queue[r]) /\ last'[r] = Head(queue[r])
  BY DEF Deliver, Shape
<1>2. \A v \in Runs \ {r} : Same(v)
  BY DEF Deliver, Shape, Same
<1>3. PICK n \in Nat : n + 1 = Len(queue[r])
  <2>1. Len(queue[r]) \in Nat /\ Len(queue[r]) # 0
    BY <1>1, EmptySeq, LenProperties
  <2>2. Len(queue[r]) - 1 \in Nat /\ (Len(queue[r]) - 1) + 1 = Len(queue[r])
    BY <2>1
  <2>3. QED
    BY <2>2, Zenon
<1>4. n + 1 = Len(queue[r]) /\ Len(queue'[r]) = n /\ 1 \in 1..(n + 1)
  BY <1>1, <1>3, HeadTailProperties
<1>5. \A i \in 1..n : queue'[r][i] = queue[r][i + 1]
  BY <1>1, <1>4, HeadTailProperties
<1>6. Head(queue[r]) = queue[r][1]
  BY <1>1
<1>7. \A i \in 0..n : Event(r, i)' = Event(r, i + 1)
  <2>1. Event(r, 0)' = Event(r, 1)
    BY <1>1, <1>6 DEF Event
  <2>2. ASSUME NEW i \in 1..n PROVE Event(r, i)' = Event(r, i + 1)
    BY <1>5, <2>2 DEF Event
  <2>3. QED
    BY <1>3, <2>1, <2>2
<1>8. /\ Emitted(exec[r], Event(r, n + 1))
      /\ \A i \in 1..(n + 1) : Event(r, i) \in Follows(Event(r, i - 1))
  BY <1>1, <1>4 DEF Well, Talk, Tip
<1>9. Tip(r)' = Event(r, n + 1)
  <2>1. Tip(r)' = Event(r, n)'
    BY <1>4 DEF Tip, Event
  <2>2. QED
    BY <1>3, <1>7, <2>1
<1>10. \A i \in 1..Len(queue'[r]) : Event(r, i)' \in Follows(Event(r, i - 1)')
  <2>1. ASSUME NEW i \in 1..n PROVE Event(r, i)' \in Follows(Event(r, i - 1)')
    <3>1. i \in 0..n /\ i - 1 \in 0..n /\ i + 1 \in 1..(n + 1) /\ (i - 1) + 1 = i /\ (i + 1) - 1 = i
      BY <1>3
    <3>2. Event(r, i)' = Event(r, i + 1) /\ Event(r, i - 1)' = Event(r, i)
      BY <1>7, <3>1
    <3>3. Event(r, i + 1) \in Follows(Event(r, i))
      BY <1>8, <3>1
    <3>4. QED
      BY <3>2, <3>3
  <2>2. QED
    BY <1>4, <2>1
<1>11. Well(r)'
  <2>1. Talk(r)'
    BY <1>1, <1>8, <1>9, <1>10, Zenon DEF Talk, Follows
  <2>2. Manners(r)'
    BY <1>1 DEF Well, Manners
  <2>3. QED
    BY <2>1, <2>2 DEF Well
<1>12. Head(queue[r]) \in Follows(last[r])
  BY <1>4, <1>6, <1>8 DEF Event
<1>13. QED
  BY <1>2, <1>11, <1>12

\* A request begins its conversation, and a connection ends it.
LEMMA StartKeeps ==
  ASSUME Shape, NEW r \in Runs, Well(r), NEW memory, StartRun(r, memory)
  PROVE  Well(r)' /\ \A v \in Runs \ {r} : Same(v)
<1>1. /\ conn[r] = "none" /\ queue[r] = <<>> /\ last[r] = "none"
      /\ conn'[r] = "open" /\ exec'[r] = "start" /\ queue' = queue /\ last' = last
  BY DEF StartRun, Shape, Well, Manners
<1>2. Len(queue'[r]) = 0 /\ Tip(r)' = "none"
  BY <1>1, EmptySeq DEF Tip, Event
<1>3. Emitted(exec'[r], Tip(r)') /\ 1..Len(queue'[r]) = {}
  BY <1>1, <1>2 DEF Emitted
<1>4. Talk(r)'
  BY <1>3 DEF Talk
<1>5. Manners(r)'
  BY <1>1 DEF Manners
<1>6. \A v \in Runs \ {r} : Same(v)
  BY DEF StartRun, Shape, Same
<1>7. QED
  BY <1>4, <1>5, <1>6 DEF Well

LEMMA DoneKeeps ==
  ASSUME Shape, NEW r \in Runs, Well(r), Done(r)
  PROVE  Well(r)' /\ \A v \in Runs \ {r} : Same(v)
<1>1. /\ conn[r] = "open" /\ queue[r] = <<>> /\ exec[r] = "ended"
      /\ conn'[r] = "done" /\ exec' = exec /\ queue' = queue /\ last' = last
  BY DEF Done, Shape
<1>2. Tip(r) = last[r]
  BY <1>1, EmptySeq DEF Tip, Event
<1>3. last[r] = "final"
  BY <1>1, <1>2 DEF Well, Talk, Emitted
<1>4. Well(r)'
  BY <1>1, <1>3 DEF Well, Talk, Manners
<1>5. \A v \in Runs \ {r} : Same(v)
  BY DEF Done, Shape, Same
<1>6. QED
  BY <1>4, <1>5

LEMMA LeaveKeeps ==
  ASSUME Shape, NEW r \in Runs, Well(r), Leave(r) \/ Forget(r)
  PROVE  Well(r)' /\ \A v \in Runs \ {r} : Same(v)
<1>1. CASE Leave(r)
  <2>1. /\ conn[r] = "open" /\ conn'[r] = "left" /\ exec' = exec /\ queue'[r] = <<>>
        /\ last'[r] = "none"
    BY <1>1 DEF Leave, Shape
  <2>2. Well(r)'
    BY <2>1 DEF Well, Talk, Manners
  <2>3. \A v \in Runs \ {r} : Same(v)
    BY <1>1 DEF Leave, Shape, Same
  <2>4. QED
    BY <2>2, <2>3
<1>2. CASE Forget(r)
  <2>1. /\ conn[r] \in {"done", "left"} /\ conn'[r] = "none" /\ exec'[r] = "none"
        /\ queue' = queue /\ last'[r] = "none"
    BY <1>2 DEF Forget, Shape
  <2>2. Well(r)'
    BY <2>1 DEF Well, Talk, Manners
  <2>3. \A v \in Runs \ {r} : Same(v)
    BY <1>2 DEF Forget, Shape, Same
  <2>4. QED
    BY <2>2, <2>3
<1>3. QED
  BY <1>1, <1>2

LEMMA NextKeeps ==
  ASSUME Shape, \A v \in Runs : Well(v), Next
  PROVE  \A v \in Runs : Well(v)'
<1>1. ASSUME NEW r \in Runs, Well(r)', \A v \in Runs \ {r} : Same(v)
      PROVE  \A v \in Runs : Well(v)'
  BY <1>1, SameKeeps
<1>2. CASE UNCHANGED runVars
  <2>1. \A v \in Runs : Same(v)
    BY <1>2 DEF runVars, Same
  <2>2. QED
    BY <2>1, SameKeeps
<1>3. CASE \E r \in Runs, memory \in Levels : StartRun(r, memory)
  BY <1>1, <1>3, StartKeeps
<1>4. CASE \E r \in Runs : Execute(r)
  BY <1>1, <1>4, ExecuteKeeps
<1>5. CASE \E r \in Runs : Stream(r)
  BY <1>1, <1>5, DeliverKeeps, DoneKeeps DEF Stream
<1>6. CASE \E r \in Runs : Leave(r) \/ Forget(r)
  BY <1>1, <1>6, LeaveKeeps
<1>7. QED
  BY <1>2, <1>3, <1>4, <1>5, <1>6
     DEF Next, RefuseRun, RefuseChat, StartChat, Describe, TakeChat, GiveChat

\* Only a delivery takes an event out of the channel of a client that listens.
LEMMA OnlyDeliverTakes ==
  ASSUME Shape, Next, NEW r \in Runs,
         conn'[r] = "open", queue[r] # <<>>, queue'[r] = Tail(queue[r])
  PROVE  Deliver(r)
<1>1. queue[r] \in Seq(Events) /\ Len(queue[r]) \in Nat /\ Len(queue[r]) # 0
      /\ Len(queue'[r]) = Len(queue[r]) - 1
  BY EmptySeq, LenProperties, HeadTailProperties DEF Shape
<1>2. queue'[r] # queue[r]
  <2>1. Len(queue'[r]) # Len(queue[r])
    BY <1>1
  <2>2. QED
    BY <2>1
<1>3. ASSUME NEW e \in Events PROVE queue'[r] # Append(queue[r], e)
  <2>1. Len(Append(queue[r], e)) = Len(queue[r]) + 1
    BY <1>1, <1>3, AppendProperties
  <2>2. QED
    BY <1>1, <2>1
<1>4. CASE \E v \in Runs : Execute(v)
  <2>1. PICK v \in Runs : Execute(v)
    BY <1>4
  <2>2. \/ UNCHANGED queue
        \/ \E from, to, e : Says(from, e, to) /\ Emit(v, e)
    BY <2>1, ExecuteKinds DEF Speaks, Hushes, Leaves, Asks, Returns
  <2>3. PICK e \in Events : Emit(v, e)
    BY <1>2, <2>2, SaysFollows
  <2>4. queue'[r] = queue[r] \/ queue'[r] = Append(queue[r], e)
    BY <2>3 DEF Emit, Shape
  <2>5. QED
    BY <1>2, <1>3, <2>4
<1>5. CASE \E v \in Runs : Deliver(v)
  <2>1. PICK v \in Runs : Deliver(v)
    BY <1>5
  <2>2. v # r => queue'[r] = queue[r]
    BY <2>1 DEF Deliver, Shape
  <2>3. QED
    BY <1>2, <2>1, <2>2
<1>6. CASE \E v \in Runs : Leave(v)
  <2>1. PICK v \in Runs : Leave(v)
    BY <1>6
  <2>2. v = r => conn'[r] = "left"
    BY <2>1 DEF Leave, Shape
  <2>3. v # r => queue'[r] = queue[r]
    BY <2>1 DEF Leave, Shape
  <2>4. QED
    BY <1>2, <2>2, <2>3
<1>7. QED
  BY <1>2, <1>4, <1>5, <1>6
     DEF Next, RefuseRun, StartRun, RefuseChat, StartChat, Describe, TakeChat, GiveChat,
         Stream, Done, Forget, runVars

-----------------------------------------------------------------------------
\* Types, the bound of the channels, and the steps that are left.
Counts == Shape /\ (\A r \in Runs : StepsLeft(r)) /\ above_water \in BOOLEAN

LEMMA ExecuteTypes ==
  ASSUME Counts, NEW r \in Runs, Execute(r)
  PROVE  Counts'
<1>1. /\ UNCHANGED <<above_water, slots, conn, last, chat>>
      /\ Speaks(r) \/ Hushes(r) \/ Leaves(r) \/ Asks(r) \/ Returns(r)
  BY ExecuteKinds
<1>2. /\ queue' \in [Runs -> Seq(Events)]
      /\ exec' \in [Runs -> Places]
  <2>1. CASE Speaks(r)
    <3>1. PICK from, to, e : Says(from, e, to) /\ Go(r, from, to) /\ Emit(r, e)
      BY <2>1 DEF Speaks
    <3>2. e \in Events /\ to \in Places
      BY <3>1, SaysFollows
    <3>3. Append(queue[r], e) \in Seq(Events)
      BY <3>2, AppendProperties DEF Counts, Shape
    <3>4. QED
      BY <3>1, <3>2, <3>3 DEF Emit, Go, Counts, Shape
  <2>2. CASE Leaves(r)
    BY <2>2 DEF Leaves, Go, Counts, Shape, Places
  <2>3. CASE Hushes(r) \/ Asks(r) \/ Returns(r)
    <3>1. PICK from, to : /\ Passes(from, to) \/ Takes(from, to) \/ Gives(from, to)
                          /\ Go(r, from, to) /\ queue' = queue
      BY <2>3 DEF Hushes, Asks, Returns
    <3>2. QED
      BY <3>1, PassesKeeps DEF Go, Counts, Shape
  <2>4. QED
    BY <1>1, <2>1, <2>2, <2>3
<1> DEFINE Doing == {"ready", "unresolved", "tool", "reflect", "reflecting", "result", "answer"}
<1>3. /\ left' \in [Runs -> 0..MaxSteps]
      /\ exec'[r] \in Doing => left'[r] > 0
      /\ \A v \in Runs \ {r} : left'[v] = left[v] /\ exec'[v] = exec[v]
  <2>1. /\ left \in [Runs -> 0..MaxSteps] /\ exec \in [Runs -> Places] /\ MaxSteps \in Nat
        /\ exec[r] \in Doing => left[r] > 0
    BY AgentAssumption DEF Counts, Shape, StepsLeft
  <2>2. CASE left' = left /\ \E from, to : Go(r, from, to) /\ (to \in Doing => from \in Doing \/ left[r] > 0)
    BY <2>1, <2>2 DEF Go
  <2>3. CASE /\ left' = [left EXCEPT ![r] = @ - 1]
             /\ \E from, to : Go(r, from, to) /\ from \in Doing /\ to \notin Doing
    <3>1. left[r] \in 0..MaxSteps /\ left[r] > 0
      BY <2>1, <2>3 DEF Go
    <3>2. left[r] - 1 \in 0..MaxSteps
      BY <3>1, <2>1
    <3>3. QED
      BY <2>1, <2>3, <3>2 DEF Go
  <2>4. CASE Announce(r)
    BY <2>1, <2>4 DEF Announce, Go
  <2>5. CASE Plan(r) \/ Finish(r)
    BY <2>2, <2>5 DEF Plan, Finish, Say, Take, Give
  <2>6. CASE Step(r)
    BY <2>2, <2>6 DEF Step, Silent
  <2>7. CASE Unresolved(r)
    BY <2>3, <2>7 DEF Unresolved
  <2>8. CASE Dispatch(r)
    BY <2>2, <2>8 DEF Dispatch, Say, Silent, Take, Give
  <2>9. CASE Result(r)
    BY <2>2, <2>3, <2>9 DEF Result, Say
  <2>10. QED
    BY <2>4, <2>5, <2>6, <2>7, <2>8, <2>9 DEF Execute
<1>4. \A v \in Runs : StepsLeft(v)'
  BY <1>3 DEF Counts, StepsLeft
<1>5. QED
  BY <1>1, <1>2, <1>3, <1>4 DEF Counts, Shape

LEMMA NextTypes ==
  ASSUME Counts, Next
  PROVE  Counts'
<1> USE DEF Counts
<1>1. CASE \E r \in Runs : Execute(r)
  BY <1>1, ExecuteTypes
<1>2. ASSUME NEW memory \in Levels PROVE Gate(memory) => above_water' \in BOOLEAN
  BY DEF Gate, Refuses
<1>3. CASE \E memory \in Levels, r \in Runs : RefuseRun(r, memory)
  BY <1>2, <1>3 DEF RefuseRun, Shape, StepsLeft, runVars
<1>4. CASE \E memory \in Levels, r \in Runs : StartRun(r, memory)
  BY <1>2, <1>4 DEF StartRun, Shape, StepsLeft, Places
<1>5. CASE \E memory \in Levels, c \in Chats : RefuseChat(c, memory) \/ StartChat(c, memory)
  BY <1>2, <1>5 DEF RefuseChat, StartChat, Shape, StepsLeft, runVars
<1>6. CASE \E r \in Runs : Deliver(r)
  <2>1. PICK r \in Runs : Deliver(r)
    BY <1>6
  <2>2. /\ queue[r] \in Seq(Events) /\ queue[r] # <<>>
        /\ Head(queue[r]) \in Events /\ Tail(queue[r]) \in Seq(Events)
    BY <2>1, HeadTailProperties DEF Deliver, Shape
  <2>3. QED
    BY <2>1, <2>2 DEF Deliver, Shape, StepsLeft
<1>7. CASE \E r \in Runs : Done(r)
  BY <1>7 DEF Done, Shape, StepsLeft
<1>8. CASE \E r \in Runs : Leave(r)
  <2>1. <<>> \in Seq(Events)
    BY EmptySeq
  <2>2. QED
    BY <1>8, <2>1 DEF Leave, Shape, StepsLeft
<1>9. CASE \E r \in Runs : Forget(r)
  <2>1. 0 \in 0..MaxSteps
    BY AgentAssumption
  <2>2. Shape'
    BY <1>9, <2>1 DEF Forget, Shape, Places
  <2>3. \A r \in Runs : StepsLeft(r)'
    BY <1>9 DEF Forget, Shape, StepsLeft
  <2>4. QED
    BY <1>9, <2>2, <2>3 DEF Forget
<1>10. CASE \E c \in Chats : Describe(c) \/ TakeChat(c) \/ GiveChat(c)
  BY <1>10 DEF Describe, TakeChat, GiveChat, Shape, StepsLeft, runVars
<1>11. QED
  BY <1>1, <1>3, <1>4, <1>5, <1>6, <1>7, <1>8, <1>9, <1>10 DEF Next, Stream

\* No channel holds more events than its bound.
Bounded == \A r \in Runs : Len(queue[r]) <= EventBuffer

LEMMA NextBounded ==
  ASSUME Shape, Bounded, Next
  PROVE  Bounded'
<1>1. EventBuffer \in Nat
  BY AgentAssumption
<1>2. CASE UNCHANGED queue
  BY <1>2 DEF Bounded
<1>3. CASE \E r \in Runs : Execute(r)
  <2>1. PICK r \in Runs : Execute(r)
    BY <1>3
  <2>2. \/ UNCHANGED queue
        \/ \E from, to, e : Says(from, e, to) /\ Emit(r, e)
    BY <2>1, ExecuteKinds DEF Speaks, Hushes, Leaves, Asks, Returns
  <2>3. CASE \E e \in Events : Emit(r, e)
    <3>1. PICK e \in Events : Emit(r, e)
      BY <2>3
    <3>2. CASE Len(queue[r]) < EventBuffer /\ queue' = [queue EXCEPT ![r] = Append(@, e)]
      <4>1. queue[r] \in Seq(Events) /\ Len(queue[r]) \in Nat
        BY LenProperties DEF Shape
      <4>2. Len(Append(queue[r], e)) = Len(queue[r]) + 1
        BY <3>1, <4>1, AppendProperties
      <4>3. queue'[r] = Append(queue[r], e) /\ \A v \in Runs \ {r} : queue'[v] = queue[v]
        BY <3>2 DEF Shape
      <4>4. Len(queue'[r]) <= EventBuffer
        BY <1>1, <3>2, <4>1, <4>2, <4>3
      <4>5. QED
        BY <4>3, <4>4 DEF Bounded
    <3>3. QED
      BY <1>2, <3>1, <3>2 DEF Emit
  <2>4. QED
    BY <1>2, <2>2, <2>3, SaysFollows
<1>4. CASE \E r \in Runs : Deliver(r)
  <2>1. PICK r \in Runs : Deliver(r)
    BY <1>4
  <2>2. queue[r] \in Seq(Events) /\ queue[r] # <<>> /\ Len(queue[r]) \in Nat
    BY <2>1, LenProperties DEF Deliver, Shape
  <2>3. Len(Tail(queue[r])) = Len(queue[r]) - 1
    BY <2>2, HeadTailProperties
  <2>4. queue'[r] = Tail(queue[r]) /\ \A v \in Runs \ {r} : queue'[v] = queue[v]
    BY <2>1 DEF Deliver, Shape
  <2>5. Len(queue'[r]) <= EventBuffer
    BY <1>1, <2>2, <2>3, <2>4 DEF Bounded
  <2>6. QED
    BY <2>4, <2>5 DEF Bounded
<1>5. CASE \E r \in Runs : Leave(r)
  <2>1. PICK r \in Runs : Leave(r)
    BY <1>5
  <2>2. Len(<<>>) <= EventBuffer
    BY <1>1, EmptySeq
  <2>3. queue'[r] = <<>> /\ \A v \in Runs \ {r} : queue'[v] = queue[v]
    BY <2>1 DEF Leave, Shape
  <2>4. QED
    BY <2>2, <2>3 DEF Bounded
<1>6. QED
  BY <1>2, <1>3, <1>4, <1>5
     DEF Next, RefuseRun, StartRun, RefuseChat, StartChat, Describe, TakeChat, GiveChat,
         Stream, Done, Forget, runVars

-----------------------------------------------------------------------------
\* Permits: those available and those in use are as many as there were.
Open         == {"open"}
Generating   == {"generating"}
RunPermits   == slots \in Nat /\ slots + CountOf(Runs, conn, Open) = MaxConcurrentRuns
LeaseHolders == CountOf(Runs, exec, Asked) + CountOf(Chats, chat, Generating)
Permits      == RunPermits /\ lease \in Nat /\ lease + LeaseHolders = LeasePermits

LEMMA CountTypes ==
  /\ CountOf(Runs, conn, Open) \in Nat /\ CountOf(Runs, exec, Asked) \in Nat
  /\ CountOf(Chats, chat, Generating) \in Nat
<1>1. /\ CountOf(Runs, conn, Open) \in 0..Cardinality(Runs)
      /\ CountOf(Runs, exec, Asked) \in 0..Cardinality(Runs)
      /\ CountOf(Chats, chat, Generating) \in 0..Cardinality(Chats)
  BY AgentAssumption, CountType
<1>2. QED
  BY <1>1

LEMMA ConnStep ==
  ASSUME Shape, NEW r \in Runs, NEW v, conn' = [conn EXCEPT ![r] = v]
  PROVE  /\ v \in Open /\ conn[r] \notin Open
            => CountOf(Runs, conn, Open)' = CountOf(Runs, conn, Open) + 1
         /\ v \notin Open /\ conn[r] \in Open
            => CountOf(Runs, conn, Open)' = CountOf(Runs, conn, Open) - 1
         /\ (v \in Open <=> conn[r] \in Open)
            => CountOf(Runs, conn, Open)' = CountOf(Runs, conn, Open)
<1>1. IsFiniteSet(Runs) /\ DOMAIN conn = Runs /\ conn = [x \in Runs |-> conn[x]]
  BY AgentAssumption DEF Shape
<1>2. CountOf(Runs, conn', Open) = CountOf(Runs, conn, Open)
            + (IF v \in Open THEN 1 ELSE 0) - (IF conn[r] \in Open THEN 1 ELSE 0)
  BY <1>1, CountExcept
<1>3. CountOf(Runs, conn, Open)' = CountOf(Runs, conn', Open)
  BY DEF CountOf, Open
<1>4. CountOf(Runs, conn, Open) \in Nat
  BY CountTypes
<1>5. QED
  BY <1>2, <1>3, <1>4

LEMMA ExecStep ==
  ASSUME Shape, NEW r \in Runs, NEW v, exec' = [exec EXCEPT ![r] = v]
  PROVE  /\ v \in Asked /\ exec[r] \notin Asked
            => CountOf(Runs, exec, Asked)' = CountOf(Runs, exec, Asked) + 1
         /\ v \notin Asked /\ exec[r] \in Asked
            => CountOf(Runs, exec, Asked)' = CountOf(Runs, exec, Asked) - 1
         /\ (v \in Asked <=> exec[r] \in Asked)
            => CountOf(Runs, exec, Asked)' = CountOf(Runs, exec, Asked)
<1>1. IsFiniteSet(Runs) /\ DOMAIN exec = Runs /\ exec = [x \in Runs |-> exec[x]]
  BY AgentAssumption DEF Shape
<1>2. CountOf(Runs, exec', Asked) = CountOf(Runs, exec, Asked)
            + (IF v \in Asked THEN 1 ELSE 0) - (IF exec[r] \in Asked THEN 1 ELSE 0)
  BY <1>1, CountExcept
<1>3. CountOf(Runs, exec, Asked)' = CountOf(Runs, exec', Asked)
  BY DEF CountOf, Asked
<1>4. CountOf(Runs, exec, Asked) \in Nat
  BY CountTypes
<1>5. QED
  BY <1>2, <1>3, <1>4

LEMMA ChatStep ==
  ASSUME Shape, NEW c \in Chats, NEW v, chat' = [chat EXCEPT ![c] = v]
  PROVE  /\ v \in Generating /\ chat[c] \notin Generating
            => CountOf(Chats, chat, Generating)' = CountOf(Chats, chat, Generating) + 1
         /\ v \notin Generating /\ chat[c] \in Generating
            => CountOf(Chats, chat, Generating)' = CountOf(Chats, chat, Generating) - 1
         /\ (v \in Generating <=> chat[c] \in Generating)
            => CountOf(Chats, chat, Generating)' = CountOf(Chats, chat, Generating)
<1>1. IsFiniteSet(Chats) /\ DOMAIN chat = Chats /\ chat = [x \in Chats |-> chat[x]]
  BY AgentAssumption DEF Shape
<1>2. CountOf(Chats, chat', Generating) = CountOf(Chats, chat, Generating)
            + (IF v \in Generating THEN 1 ELSE 0) - (IF chat[c] \in Generating THEN 1 ELSE 0)
  BY <1>1, CountExcept
<1>3. CountOf(Chats, chat, Generating)' = CountOf(Chats, chat', Generating)
  BY DEF CountOf, Generating
<1>4. CountOf(Chats, chat, Generating) \in Nat
  BY CountTypes
<1>5. QED
  BY <1>2, <1>3, <1>4

LEMMA SameCounts ==
  /\ UNCHANGED conn => CountOf(Runs, conn, Open)' = CountOf(Runs, conn, Open)
  /\ UNCHANGED exec => CountOf(Runs, exec, Asked)' = CountOf(Runs, exec, Asked)
  /\ UNCHANGED chat => CountOf(Chats, chat, Generating)' = CountOf(Chats, chat, Generating)
BY DEF CountOf, Open, Asked, Generating

LEMMA NextRunPermits ==
  ASSUME Shape, RunPermits, Next
  PROVE  RunPermits'
<1>0. /\ slots \in Nat /\ CountOf(Runs, conn, Open) \in Nat /\ MaxConcurrentRuns \in Nat
      /\ slots + CountOf(Runs, conn, Open) = MaxConcurrentRuns
  BY CountTypes, AgentAssumption DEF RunPermits
<1>1. CASE UNCHANGED <<slots, conn>>
  BY <1>1, SameCounts DEF RunPermits
<1>2. CASE \E memory \in Levels, r \in Runs : StartRun(r, memory)
  <2>1. PICK r \in Runs : /\ slots > 0 /\ slots' = slots - 1 /\ conn[r] = "none"
                          /\ conn' = [conn EXCEPT ![r] = "open"]
    BY <1>2 DEF StartRun
  <2>2. CountOf(Runs, conn, Open)' = CountOf(Runs, conn, Open) + 1
    BY <2>1, ConnStep DEF Open
  <2>3. QED
    BY <1>0, <2>1, <2>2 DEF RunPermits
<1>3. CASE \E r \in Runs : Done(r) \/ Leave(r)
  <2>1. PICK r \in Runs : /\ slots' = slots + 1 /\ conn[r] = "open"
                          /\ \E v \in {"done", "left"} : conn' = [conn EXCEPT ![r] = v]
    BY <1>3 DEF Done, Leave
  <2>2. CountOf(Runs, conn, Open)' = CountOf(Runs, conn, Open) - 1
    BY <2>1, ConnStep DEF Open
  <2>3. QED
    BY <1>0, <2>1, <2>2 DEF RunPermits
<1>4. CASE \E r \in Runs : Forget(r)
  <2>1. PICK r \in Runs : /\ slots' = slots /\ conn[r] # "open"
                          /\ conn' = [conn EXCEPT ![r] = "none"]
    BY <1>4 DEF Forget
  <2>a. "none" \notin Open /\ conn[r] \notin Open
    BY <2>1 DEF Open
  <2>2. CountOf(Runs, conn, Open)' = CountOf(Runs, conn, Open)
    BY <2>1, <2>a, ConnStep
  <2>3. QED
    BY <1>0, <2>1, <2>2 DEF RunPermits
<1>5. QED
  BY <1>1, <1>2, <1>3, <1>4, ExecuteKinds
     DEF Next, RefuseRun, RefuseChat, StartChat, Describe, TakeChat, GiveChat, Stream, Deliver, runVars

LEMMA NextPermits ==
  ASSUME Shape, Permits, Next
  PROVE  Permits'
<1> DEFINE R == CountOf(Runs, exec, Asked)
           C == CountOf(Chats, chat, Generating)
<1>0. /\ lease \in Nat /\ R \in Nat /\ C \in Nat /\ LeasePermits \in Nat
      /\ lease + (R + C) = LeasePermits
  BY CountTypes, AgentAssumption DEF Permits, LeaseHolders
<1>1. SUFFICES lease' \in Nat /\ lease' + (R' + C') = LeasePermits
  BY NextRunPermits DEF Permits, LeaseHolders
<1>2. CASE UNCHANGED <<lease, chat>> /\ R' = R
  BY <1>0, <1>2, SameCounts
<1>3. CASE \E r \in Runs : Execute(r)
  <2>1. PICK r \in Runs : Execute(r)
    BY <1>3
  <2>2. C' = C
    BY <2>1, ExecuteKinds, SameCounts
  <2>3. CASE Speaks(r) \/ Hushes(r) \/ Leaves(r)
    <3>1. PICK from, to : /\ Go(r, from, to) /\ lease' = lease
                          /\ from \notin Asked /\ to \notin Asked
      BY <2>3, SaysFollows, PassesKeeps DEF Speaks, Hushes, Leaves, Asked
    <3>2. R' = R
      BY <3>1, ExecStep DEF Go
    <3>3. QED
      BY <1>0, <2>2, <3>1, <3>2
  <2>4. CASE Asks(r)
    <3>1. PICK from, to : /\ Go(r, from, to) /\ lease > 0 /\ lease' = lease - 1
                          /\ from \notin Asked /\ to \in Asked
      BY <2>4, PassesKeeps DEF Asks
    <3>2. R' = R + 1
      BY <3>1, ExecStep DEF Go
    <3>3. QED
      BY <1>0, <2>2, <3>1, <3>2
  <2>5. CASE Returns(r)
    <3>1. PICK from, to : /\ Go(r, from, to) /\ lease' = lease + 1
                          /\ from \in Asked /\ to \notin Asked
      BY <2>5, PassesKeeps DEF Returns
    <3>2. R' = R - 1
      BY <3>1, ExecStep DEF Go
    <3>3. QED
      BY <1>0, <2>2, <3>1, <3>2
  <2>6. QED
    BY <2>1, <2>3, <2>4, <2>5, ExecuteKinds
<1>4. CASE \E memory \in Levels, r \in Runs : StartRun(r, memory)
  <2>1. PICK r \in Runs : /\ UNCHANGED <<lease, chat>> /\ exec[r] = "none"
                          /\ exec' = [exec EXCEPT ![r] = "start"]
    BY <1>4 DEF StartRun
  <2>a. "start" \notin Asked /\ exec[r] \notin Asked
    BY <2>1 DEF Asked
  <2>2. R' = R
    BY <2>1, <2>a, ExecStep
  <2>3. QED
    BY <1>2, <2>1, <2>2
<1>5. CASE \E r \in Runs : Forget(r)
  <2>1. PICK r \in Runs : /\ UNCHANGED <<lease, chat>> /\ exec[r] = "ended"
                          /\ exec' = [exec EXCEPT ![r] = "none"]
    BY <1>5 DEF Forget
  <2>a. "none" \notin Asked /\ exec[r] \notin Asked
    BY <2>1 DEF Asked
  <2>2. R' = R
    BY <2>1, <2>a, ExecStep
  <2>3. QED
    BY <1>2, <2>1, <2>2
<1>6. CASE \/ \E memory \in Levels, c \in Chats : StartChat(c, memory)
           \/ \E c \in Chats : Describe(c)
  <2>1. PICK c \in Chats, to \in {"none", "describing", "waiting"} :
          /\ UNCHANGED <<lease, exec>> /\ chat[c] \in {"none", "describing"}
          /\ chat' = [chat EXCEPT ![c] = to]
    BY <1>6 DEF StartChat, Describe, runVars
  <2>a. to \notin Generating /\ chat[c] \notin Generating
    BY <2>1 DEF Generating
  <2>2. C' = C
    BY <2>1, <2>a, ChatStep
  <2>3. QED
    BY <1>0, <2>1, <2>2, SameCounts
<1>7. CASE \E c \in Chats : TakeChat(c)
  <2>1. PICK c \in Chats : /\ lease > 0 /\ lease' = lease - 1 /\ exec' = exec
                           /\ chat[c] = "waiting" /\ chat' = [chat EXCEPT ![c] = "generating"]
    BY <1>7 DEF TakeChat, runVars
  <2>2. C' = C + 1
    BY <2>1, ChatStep DEF Generating
  <2>3. QED
    BY <1>0, <2>1, <2>2, SameCounts
<1>8. CASE \E c \in Chats : GiveChat(c)
  <2>1. PICK c \in Chats : /\ lease' = lease + 1 /\ exec' = exec
                           /\ chat[c] = "generating" /\ chat' = [chat EXCEPT ![c] = "none"]
    BY <1>8 DEF GiveChat, runVars
  <2>a. "none" \notin Generating /\ chat[c] \in Generating
    BY <2>1 DEF Generating
  <2>2. C' = C - 1
    BY <2>1, <2>a, ChatStep
  <2>3. QED
    BY <1>0, <2>1, <2>2, SameCounts
<1>9. CASE \/ \E memory \in Levels, r \in Runs : RefuseRun(r, memory)
           \/ \E memory \in Levels, c \in Chats : RefuseChat(c, memory)
           \/ \E r \in Runs : Stream(r) \/ Leave(r)
  BY <1>2, <1>9, SameCounts DEF RefuseRun, RefuseChat, Stream, Deliver, Done, Leave, runVars
<1>10. QED
  BY <1>3, <1>4, <1>5, <1>6, <1>7, <1>8, <1>9 DEF Next

-----------------------------------------------------------------------------
\* The inductive invariant, and what it says of RunIInv.
IInv == Counts /\ Bounded /\ Permits /\ \A r \in Runs : Well(r)

LEMMA InitHolds == Init => IInv
<1> SUFFICES ASSUME Init PROVE IInv
  OBVIOUS
<1>1. Counts
  <2>1. 0 \in 0..MaxSteps /\ <<>> \in Seq(Events)
    BY AgentAssumption, EmptySeq
  <2>2. QED
    BY <2>1 DEF Init, Counts, Shape, StepsLeft, Places
<1>2. Bounded
  <2>1. Len(<<>>) <= EventBuffer
    BY AgentAssumption, EmptySeq
  <2>2. QED
    BY <2>1 DEF Init, Bounded
<1>3. Permits
  <2>1. /\ {r \in Runs : conn[r] \in Open} = {} /\ {r \in Runs : exec[r] \in Asked} = {}
        /\ {c \in Chats : chat[c] \in Generating} = {}
    BY DEF Init, Open, Asked, Generating
  <2>2. /\ CountOf(Runs, conn, Open) = 0 /\ CountOf(Runs, exec, Asked) = 0
        /\ CountOf(Chats, chat, Generating) = 0
    BY <2>1, FS_EmptySet DEF CountOf
  <2>3. /\ MaxConcurrentRuns \in Nat /\ LeasePermits \in Nat
        /\ slots = MaxConcurrentRuns /\ lease = LeasePermits
    BY AgentAssumption DEF Init
  <2>4. QED
    BY <2>2, <2>3 DEF Permits, RunPermits, LeaseHolders
<1>4. ASSUME NEW r \in Runs PROVE Well(r)
  BY DEF Init, Well, Talk, Manners
<1>5. QED
  BY <1>1, <1>2, <1>3, <1>4 DEF IInv

LEMMA NextHolds == IInv /\ [Next]_vars => IInv'
<1> SUFFICES ASSUME IInv, [Next]_vars PROVE IInv'
  OBVIOUS
<1>1. CASE Next
  <2>1. Shape /\ Counts /\ Bounded /\ Permits /\ \A r \in Runs : Well(r)
    BY DEF IInv, Counts
  <2>2. QED
    BY <1>1, <2>1, NextTypes, NextBounded, NextPermits, NextKeeps DEF IInv
<1>2. CASE UNCHANGED vars
  <2>1. Counts'
    BY <1>2 DEF vars, runVars, IInv, Counts, Shape, StepsLeft
  <2>2. Bounded'
    BY <1>2 DEF vars, runVars, IInv, Bounded
  <2>3. Permits'
    BY <1>2, SameCounts DEF vars, runVars, IInv, Permits, RunPermits, LeaseHolders
  <2>4. \A r \in Runs : Same(r)
    BY <1>2 DEF vars, runVars, Same
  <2>5. QED
    BY <2>1, <2>2, <2>3, <2>4, SameKeeps DEF IInv
<1>3. QED
  BY <1>1, <1>2

LEMMA IInvGivesRunIInv == IInv => RunIInv
<1> SUFFICES ASSUME IInv PROVE RunIInv
  OBVIOUS
<1>1. /\ Shape /\ Permits /\ Bounded /\ above_water \in BOOLEAN
      /\ \A r \in Runs : Talk(r) /\ Manners(r) /\ StepsLeft(r)
  BY DEF IInv, Counts, Well
<1>2. Cardinality({r \in Runs : conn[r] = "open"}) = CountOf(Runs, conn, Open)
  <2>1. {r \in Runs : conn[r] = "open"} = {r \in Runs : conn[r] \in Open}
    BY DEF Open
  <2>2. QED
    BY <2>1 DEF CountOf
<1>3. Cardinality(Holders) = LeaseHolders
  <2> DEFINE R == {r \in Runs : exec[r] \in Asked}
             C == {c \in Chats : chat[c] \in Generating}
  <2>1. Holders = R \cup C
    BY DEF Holders, Generating
  <2>2. IsFiniteSet(R) /\ IsFiniteSet(C)
    BY AgentAssumption, FS_Subset
  <2>3. R \cap C = {}
    BY AgentAssumption
  <2>4. LeaseHolders = Cardinality(R) + Cardinality(C)
    BY DEF LeaseHolders, CountOf
  <2> HIDE DEF R, C
  <2>5. Cardinality(R) \in Nat /\ Cardinality(C) \in Nat /\ Cardinality(R \cap C) = 0
    BY <2>2, <2>3, FS_CardinalityType, FS_EmptySet
  <2>6. Cardinality(R \cup C) = Cardinality(R) + Cardinality(C) - Cardinality(R \cap C)
    BY <2>2, FS_Union
  <2>7. QED
    BY <2>1, <2>4, <2>5, <2>6
<1>4. /\ slots \in 0..MaxConcurrentRuns
      /\ slots + Cardinality({r \in Runs : conn[r] = "open"}) = MaxConcurrentRuns
      /\ lease \in 0..LeasePermits /\ lease + Cardinality(Holders) = LeasePermits
  <2>1. CountOf(Runs, conn, Open) \in Nat /\ LeaseHolders \in Nat
    BY CountTypes DEF LeaseHolders
  <2>2. /\ slots \in Nat /\ slots + CountOf(Runs, conn, Open) = MaxConcurrentRuns
        /\ lease \in Nat /\ lease + LeaseHolders = LeasePermits
    BY <1>1 DEF Permits, RunPermits
  <2>3. MaxConcurrentRuns \in Nat /\ LeasePermits \in Nat
    BY AgentAssumption
  <2>4. QED
    BY <1>2, <1>3, <2>1, <2>2, <2>3
<1>5. TypeOK
  BY <1>1, <1>4 DEF TypeOK, Shape, Bounded
<1>6. QED
  BY <1>1, <1>5 DEF RunIInv

\* A crash leaves what the service began with.
LEMMA RestartHolds == Restart => IInv'
<1>1. Init' => IInv'
  BY InitHolds, PTL
<1>2. Restart => Init'
  BY DEF Restart, Init
<1>3. QED
  BY <1>1, <1>2

LEMMA ServiceHolds == IInv /\ [ServiceNext]_allVars => IInv'
<1> SUFFICES ASSUME IInv, [ServiceNext]_allVars PROVE IInv'
  OBVIOUS
<1>1. [Next]_vars \/ Restart
  BY DEF ServiceNext, allVars, Serve, Listen, Exit, Other, Watch, Respawn, Kill, Quit
<1>2. QED
  BY <1>1, NextHolds, RestartHolds

LEMMA ServiceInvariant == ServiceSpec => []IInv
<1>1. ServiceInit => IInv
  BY InitHolds DEF ServiceInit
<1>2. QED
  BY <1>1, ServiceHolds, PTL DEF ServiceSpec

-----------------------------------------------------------------------------
\* Run permits and engine leases are neither lost nor invented, however runs and
\* chats end, clients leave and the service crashes.
THEOREM TypeCorrect == ServiceSpec => []TypeOK
<1>1. IInv => TypeOK
  BY IInvGivesRunIInv DEF RunIInv
<1>2. QED
  BY <1>1, ServiceInvariant, PTL

\* A client whose stream came to its end has seen the final event last.
THEOREM AnswersEnd == ServiceSpec => []DoneMeansFinal
<1>1. IInv => DoneMeansFinal
  BY DEF IInv, Well, Manners, DoneMeansFinal
<1>2. QED
  BY <1>1, ServiceInvariant, PTL

\* What a client is sent at any step continues what it was sent before.
THEOREM Conversations == ServiceSpec => EventGrammar
<1> DEFINE Continues(r) == conn'[r] = "open" /\ queue[r] # <<>> /\ queue'[r] = Tail(queue[r])
                           => Head(queue[r]) \in Follows(last[r])
<1>1. IInv /\ [ServiceNext]_allVars => [\A r \in Runs : Continues(r)]_vars
  <2> SUFFICES ASSUME IInv, [ServiceNext]_allVars, NEW r \in Runs, vars' # vars,
                      conn'[r] = "open", queue[r] # <<>>, queue'[r] = Tail(queue[r])
               PROVE  Head(queue[r]) \in Follows(last[r])
    OBVIOUS
  <2>1. Next \/ Restart
    BY DEF ServiceNext, allVars, Serve, Listen, Exit, Other, Watch, Respawn, Kill, Quit
  <2>2. ~Restart
    BY DEF Restart
  <2>3. Shape /\ Well(r)
    BY DEF IInv, Counts
  <2>4. QED
    BY <2>1, <2>2, <2>3, OnlyDeliverTakes, DeliverKeeps
<1>2. QED
  BY <1>1, ServiceInvariant, PTL DEF ServiceSpec, EventGrammar
=============================================================================

------------------------------- MODULE AgentRun -------------------------------
(***************************************************************************)
(* The LLM service (src/services/llm/src): agent runs and chats, behind    *)
(* the memory gate, the run permits and the engine lease.  A run is a task *)
(* of its own (agent/executor.rs) that sends events over a bounded channel *)
(* to the response stream (agent/http.rs), which holds the run's permit.   *)
(*                                                                         *)
(* The service has one HTTP worker thread.  Its handlers decide without an *)
(* await, so an admission is one step; but for a chat with an image, which *)
(* is described before the chat is started.                                *)
(***************************************************************************)
EXTENDS Naturals, Sequences, FiniteSets

CONSTANTS
  Runs, Chats,            \* connections that ask for agent runs, and for chats
  MaxConcurrentRuns,      \* config.max_concurrent_runs
  LeasePermits,           \* limits.engine.max_concurrent
  MaxSteps,               \* config.max_steps
  EventBuffer             \* limits.channels.sse_event_buffer

ASSUME AgentAssumption ==
  /\ MaxConcurrentRuns \in Nat \ {0} /\ LeasePermits \in Nat \ {0}
  /\ MaxSteps \in Nat \ {0} /\ EventBuffer \in Nat \ {0}
  /\ Runs \cap Chats = {} /\ IsFiniteSet(Runs) /\ IsFiniteSet(Chats)

VARIABLES
  above_water,   \* the memory gate's flag
  slots, lease,  \* available permits
  conn,          \* per run: its connection
  exec,          \* per run: where its executor is
  left,          \* per run: steps of the plan still to do
  queue,         \* per run: events in the channel
  last,          \* per run: the last event its client was sent
  chat           \* per chat: where it is

runVars == <<conn, exec, left, queue, last>>
vars    == <<above_water, slots, lease, runVars, chat>>

\* No request has arrived.
Init ==
  /\ above_water = FALSE
  /\ slots = MaxConcurrentRuns /\ lease = LeasePermits
  /\ conn = [r \in Runs |-> "none"]  /\ exec = [r \in Runs |-> "none"]
  /\ left = [r \in Runs |-> 0]       /\ queue = [r \in Runs |-> <<>>]
  /\ last = [r \in Runs |-> "none"]
  /\ chat = [c \in Chats |-> "none"]

\* The process is gone, with all it held; the next one begins as the first did.
Restart ==
  /\ above_water' = FALSE
  /\ slots' = MaxConcurrentRuns /\ lease' = LeasePermits
  /\ conn' = [r \in Runs |-> "none"] /\ exec' = [r \in Runs |-> "none"]
  /\ left' = [r \in Runs |-> 0]      /\ queue' = [r \in Runs |-> <<>>]
  /\ last' = [r \in Runs |-> "none"]
  /\ chat' = [c \in Chats |-> "none"]

-----------------------------------------------------------------------------
\* MemoryGate::admit at a memory use below the low mark, between the marks, or
\* above the high one.
Refuses(memory) == IF above_water THEN memory # "low" ELSE memory = "high"
Gate(memory)    == above_water' = Refuses(memory)

\* The handler's refusals: 503 by the gate, 429 without a permit, and a request
\* that is found invalid, whose permit is dropped.
RefuseRun(r, memory) ==
  /\ conn[r] = "none" /\ exec[r] = "none"
  /\ Gate(memory)
  /\ UNCHANGED <<slots, lease, runVars, chat>>

StartRun(r, memory) ==
  /\ conn[r] = "none" /\ exec[r] = "none"
  /\ ~Refuses(memory) /\ Gate(memory)
  /\ slots > 0 /\ slots' = slots - 1
  /\ conn' = [conn EXCEPT ![r] = "open"]
  /\ exec' = [exec EXCEPT ![r] = "start"]
  /\ UNCHANGED <<lease, left, queue, last, chat>>

\* The response stream: it passes events on, says [DONE] when the sender is
\* gone, and ends early when the client goes; either way it drops the permit.
Deliver(r) ==
  /\ conn[r] = "open" /\ queue[r] # <<>>
  /\ last' = [last EXCEPT ![r] = Head(queue[r])]
  /\ queue' = [queue EXCEPT ![r] = Tail(@)]
  /\ UNCHANGED <<above_water, slots, lease, conn, exec, left, chat>>

Done(r) ==
  /\ conn[r] = "open" /\ queue[r] = <<>> /\ exec[r] = "ended"
  /\ conn' = [conn EXCEPT ![r] = "done"]
  /\ slots' = slots + 1
  /\ UNCHANGED <<above_water, lease, exec, left, queue, last, chat>>

\* Planted defect: the permit is held by the executor, not by the stream.
LeaveKeepsSlot(r) ==
  /\ conn[r] = "open"
  /\ conn' = [conn EXCEPT ![r] = "left"]
  /\ queue' = [queue EXCEPT ![r] = <<>>]
  /\ last' = [last EXCEPT ![r] = "none"]
  /\ UNCHANGED <<above_water, slots, lease, exec, left, chat>>

Leave(r) ==
  /\ conn[r] = "open"
  /\ conn' = [conn EXCEPT ![r] = "left"]
  /\ queue' = [queue EXCEPT ![r] = <<>>]
  /\ slots' = slots + 1
  /\ last' = [last EXCEPT ![r] = "none"]
  /\ UNCHANGED <<above_water, lease, exec, left, chat>>

\* The connection and the executor are gone: r stands for another request.
Forget(r) ==
  /\ conn[r] \in {"done", "left"} /\ exec[r] = "ended"
  /\ conn' = [conn EXCEPT ![r] = "none"]
  /\ exec' = [exec EXCEPT ![r] = "none"]
  /\ left' = [left EXCEPT ![r] = 0] /\ last' = [last EXCEPT ![r] = "none"]
  /\ UNCHANGED <<above_water, slots, lease, queue, chat>>

-----------------------------------------------------------------------------
\* Planted defect: the stream's end is not noticed by a send that waits.
EmitWaits(r, e) ==
  \/ conn[r] = "open" /\ Len(queue[r]) < EventBuffer
     /\ queue' = [queue EXCEPT ![r] = Append(@, e)]
  \/ conn[r] = "done" /\ UNCHANGED queue

\* tx.send(e).await: waits for room, and does nothing once the receiver is gone.
Emit(r, e) ==
  \/ conn[r] = "open" /\ Len(queue[r]) < EventBuffer
     /\ queue' = [queue EXCEPT ![r] = Append(@, e)]
  \/ conn[r] # "open" /\ UNCHANGED queue

Go(r, from, to) == exec[r] = from /\ exec' = [exec EXCEPT ![r] = to]

Say(r, from, e, to) ==
  /\ Go(r, from, to) /\ Emit(r, e)
  /\ UNCHANGED <<above_water, slots, lease, conn, left, last, chat>>

\* Planner::propose holds the lease for the whole generation.
Take(r, from, to) ==
  /\ Go(r, from, to)
  /\ lease > 0 /\ lease' = lease - 1
  /\ UNCHANGED <<above_water, slots, conn, left, queue, last, chat>>

Give(r, from, to) ==
  /\ Go(r, from, to)
  /\ lease' = lease + 1
  /\ UNCHANGED <<above_water, slots, conn, left, queue, last, chat>>

\* A first proposal that cannot be parsed is repaired by a second one; an error,
\* or a second failure, ends the run.
Plan(r) ==
  \/ Say(r, "start", "run_start", "planning")
  \/ Take(r, "planning", "proposing")
  \/ \E to \in {"planned", "repairing", "failed"} : Give(r, "proposing", to)
  \/ Take(r, "repairing", "reproposing")
  \/ \E to \in {"planned", "failed"} : Give(r, "reproposing", to)

\* The plan, of which no more than max_steps steps are done; a client may ask for
\* none.
Announce(r) ==
  /\ Go(r, "planned", "step") /\ Emit(r, "plan")
  /\ \E n \in 0..MaxSteps : left' = [left EXCEPT ![r] = n]
  /\ UNCHANGED <<above_water, slots, lease, conn, last, chat>>

Silent(r, from, to) ==
  /\ Go(r, from, to)
  /\ UNCHANGED <<above_water, slots, lease, conn, left, queue, last, chat>>

\* The head of the loop: the plan is over, or the deadline has passed, or the
\* client has gone, or the step is resolved or not.
Step(r) ==
  \/ left[r] = 0 /\ Silent(r, "step", "finish")
  \/ /\ left[r] > 0
     /\ \/ Silent(r, "step", "failed")
        \/ conn[r] # "open" /\ Silent(r, "step", "ended")
        \/ conn[r] = "open" /\ \E to \in {"ready", "unresolved"} : Silent(r, "step", to)

\* Planted defect: a step whose references cannot be resolved ends the run.
UnresolvedReturns(r) ==
  /\ Go(r, "unresolved", "ended") /\ Emit(r, "step_result")
  /\ left' = [left EXCEPT ![r] = @ - 1]
  /\ UNCHANGED <<above_water, slots, lease, conn, last, chat>>

Unresolved(r) ==
  /\ Go(r, "unresolved", "step") /\ Emit(r, "step_result")
  /\ left' = [left EXCEPT ![r] = @ - 1]
  /\ UNCHANGED <<above_water, slots, lease, conn, last, chat>>

\* A tool is called over the network, or is reflect, which needs the engine, or
\* is final.
Dispatch(r) ==
  \/ Say(r, "ready", "step_start", "tool")
  \/ \E to \in {"result", "answer", "reflect"} : Silent(r, "tool", to)
  \/ Take(r, "reflect", "reflecting")
  \/ Give(r, "reflecting", "result")

\* Planted defect: the answer of a final step goes out, and the run falls through
\* to its synthesized one.
ResultFallsThrough(r) ==
  \/ /\ \E to \in {"step", "failed"} : Go(r, "result", to)
     /\ Emit(r, "step_result")
     /\ left' = [left EXCEPT ![r] = @ - 1]
     /\ UNCHANGED <<above_water, slots, lease, conn, last, chat>>
  \/ Say(r, "answer", "step_result", "answered")
  \/ Say(r, "answered", "final", "finish")

\* After its result a step may have used up the result budget; a final step ends
\* the run whatever its result was.
Result(r) ==
  \/ /\ \E to \in {"step", "failed"} : Go(r, "result", to)
     /\ Emit(r, "step_result")
     /\ left' = [left EXCEPT ![r] = @ - 1]
     /\ UNCHANGED <<above_water, slots, lease, conn, last, chat>>
  \/ Say(r, "answer", "step_result", "answered")
  \/ Say(r, "answered", "final", "ended")

\* emit_synthesized_final, after an error event where there is a reason.
Finish(r) == Say(r, "failed", "error", "finish") \/ Say(r, "finish", "final", "ended")

-----------------------------------------------------------------------------
\* The gate refuses, or what follows: too many messages or characters, an image
\* that is too large.
RefuseChat(c, memory) ==
  /\ chat[c] = "none" /\ Gate(memory)
  /\ UNCHANGED <<slots, lease, runVars, chat>>

StartChat(c, memory) ==
  /\ chat[c] = "none" /\ ~Refuses(memory) /\ Gate(memory)
  /\ \E to \in {"describing", "waiting"} : chat' = [chat EXCEPT ![c] = to]
  /\ UNCHANGED <<slots, lease, runVars>>

\* The image has a description; with it the prompt may be too long.  The client may
\* have gone, and the handler with it.
Describe(c) ==
  /\ chat[c] = "describing"
  /\ \E to \in {"waiting", "none"} : chat' = [chat EXCEPT ![c] = to]
  /\ UNCHANGED <<above_water, slots, lease, runVars>>

\* A chat's inference is a task of its own: a client that leaves does not stop it
\* from waiting for the lease.
TakeChat(c) ==
  /\ chat[c] = "waiting"
  /\ lease > 0 /\ lease' = lease - 1
  /\ chat' = [chat EXCEPT ![c] = "generating"]
  /\ UNCHANGED <<above_water, slots, runVars>>

\* Planted defect: the permit is forgotten when the engine fails.
GiveChatForgets(c) ==
  /\ chat[c] = "generating"
  /\ lease' \in {lease, lease + 1}
  /\ chat' = [chat EXCEPT ![c] = "none"]
  /\ UNCHANGED <<above_water, slots, runVars>>

\* The engine is done, has failed, or its client no longer listens.
GiveChat(c) ==
  /\ chat[c] = "generating"
  /\ lease' = lease + 1
  /\ chat' = [chat EXCEPT ![c] = "none"]
  /\ UNCHANGED <<above_water, slots, runVars>>

-----------------------------------------------------------------------------
Levels == {"low", "between", "high"}

Execute(r) == \/ Plan(r) \/ Announce(r) \/ Step(r) \/ Unresolved(r)
              \/ Dispatch(r) \/ Result(r) \/ Finish(r)

Stream(r) == Deliver(r) \/ Done(r)

Next ==
  \/ \E memory \in Levels :
       \/ \E r \in Runs : RefuseRun(r, memory) \/ StartRun(r, memory)
       \/ \E c \in Chats : RefuseChat(c, memory) \/ StartChat(c, memory)
  \/ \E r \in Runs : Execute(r) \/ Stream(r) \/ Leave(r) \/ Forget(r)
  \/ \E c \in Chats : Describe(c) \/ TakeChat(c) \/ GiveChat(c)

Spec == Init /\ [][Next]_vars

-----------------------------------------------------------------------------
Events == {"run_start", "plan", "step_start", "step_result", "error", "final"}
Places == {"none", "start", "planning", "proposing", "repairing", "reproposing", "planned",
           "step", "ready", "unresolved", "tool", "reflect", "reflecting", "result",
           "answer", "answered", "failed", "finish", "ended"}

Asked   == {"proposing", "reproposing", "reflecting"}
Holders == {r \in Runs : exec[r] \in Asked} \cup {c \in Chats : chat[c] = "generating"}

\* Permits are neither lost nor invented, whichever way a run or a chat ends and
\* whenever its client leaves: receiver_to_sse, EngineLease::acquire.
TypeOK ==
  /\ above_water \in BOOLEAN
  /\ slots \in 0..MaxConcurrentRuns
  /\ slots + Cardinality({r \in Runs : conn[r] = "open"}) = MaxConcurrentRuns
  /\ lease \in 0..LeasePermits /\ lease + Cardinality(Holders) = LeasePermits
  /\ left \in [Runs -> 0..MaxSteps]
  /\ queue \in [Runs -> Seq(Events)] /\ last \in [Runs -> Events \cup {"none"}]
  /\ \A r \in Runs : Len(queue[r]) <= EventBuffer
  /\ conn \in [Runs -> {"none", "open", "done", "left"}]
  /\ exec \in [Runs -> Places]
  /\ chat \in [Chats -> {"none", "describing", "waiting", "generating"}]

\* A client that stayed to the end has seen the answer last: run_inner ends every
\* one of its exits with a final event, except where the client is gone.
DoneMeansFinal == \A r \in Runs : conn[r] = "done" => last[r] = "final"

\* What may follow an event in a stream: results answer their starts, an error
\* is followed by the final event, and nothing follows that.
Follows(e) ==
  CASE e = "none"        -> {"run_start"}
    [] e = "run_start"   -> {"plan", "error"}
    [] e \in {"plan", "step_result"} -> {"step_start", "step_result", "error", "final"}
    [] e = "step_start"  -> {"step_result"}
    [] e = "error"       -> {"final"}
    [] e = "final"       -> {}

\* The events of a run form one conversation, in the order of run_inner.
EventGrammar ==
  [][\A r \in Runs :
        conn'[r] = "open" /\ queue[r] # <<>> /\ queue'[r] = Tail(queue[r])
        => Head(queue[r]) \in Follows(last[r])]_vars

\* Every run comes to its end, also when its client has left or reads slowly, and
\* however many others ask for the engine.
RunsEnd == \A r \in Runs : (exec[r] # "none") ~> (exec[r] \in {"none", "ended"})

\* Agent runs do not starve chats: a chat that waits for the engine gets it.
ChatsServed == \A c \in Chats : (chat[c] = "waiting") ~> (chat[c] # "waiting")

-----------------------------------------------------------------------------
\* What the order of the events rests on.  Event(r, i) counts from the event the
\* client was sent last, which is followed by those in the channel.
Event(r, i) == IF i = 0 THEN last[r] ELSE queue[r][i]
Tip(r)      == Event(r, Len(queue[r]))

\* The event that was emitted last, by where the executor is.
Emitted(place, e) ==
  \/ place = "start" /\ e = "none"
  \/ place \in {"planning", "proposing", "repairing", "reproposing", "planned"} /\ e = "run_start"
  \/ place \in {"step", "ready", "unresolved"} /\ e \in {"plan", "step_result"}
  \/ place \in {"tool", "reflect", "reflecting", "result", "answer"} /\ e = "step_start"
  \/ place = "answered" /\ e = "step_result"
  \/ place = "failed" /\ e \in {"run_start", "plan", "step_result"}
  \/ place = "finish" /\ e \in {"plan", "step_result", "error"}
  \/ place = "ended" /\ e = "final"

\* A client that listens has been sent, or will be, a beginning of a conversation
\* that is as far as its executor.
Talk(r) ==
  conn[r] = "open" =>
    /\ Emitted(exec[r], Tip(r))
    /\ \A i \in 1..Len(queue[r]) : Event(r, i) \in Follows(Event(r, i - 1))

\* Nothing is left in the channel of a client that is gone, nor in the memory of one
\* that has not come yet; one that heard the end has an executor that has ended.
Manners(r) ==
  /\ conn[r] # "open" => queue[r] = <<>>
  /\ conn[r] = "done" => exec[r] = "ended" /\ last[r] = "final"
  /\ conn[r] = "none" => last[r] = "none"
  /\ (conn[r] = "none") = (exec[r] = "none")

\* A step that is being done is one of those that are left.
StepsLeft(r) ==
  exec[r] \in {"ready", "unresolved", "tool", "reflect", "reflecting", "result", "answer"}
  => left[r] > 0

RunIInv == TypeOK /\ \A r \in Runs : Talk(r) /\ Manners(r) /\ StepsLeft(r)
=============================================================================

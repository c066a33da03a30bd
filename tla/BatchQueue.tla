------------------------------- MODULE BatchQueue -------------------------------
(***************************************************************************)
(* What continuous batching promises to its callers, without locks,        *)
(* sequence numbers, counters or permits: requests wait, an owner takes a  *)
(* batch of the most urgent ones when fewer than MaxOpen batches are open, *)
(* and every request it took is answered or dropped before its batch is    *)
(* closed.                                                                 *)
(***************************************************************************)
EXTENDS Integers, FiniteSets

CONSTANTS
  Requests, Workers,
  Urgency,               \* of each request
  MaxSize, MaxOpen       \* requests of a batch, batches at a time

VARIABLES
  arrived,   \* requests that have been accepted
  ahead,     \* per request: those that had been accepted before it
  waiting,   \* accepted, and neither taken nor answered
  open,      \* workers with a batch
  batch,     \* per worker: the requests it has not answered yet
  outcome    \* per request

vars == <<arrived, ahead, waiting, open, batch, outcome>>

Init ==
  /\ arrived = {} /\ waiting = {} /\ open = {}
  /\ ahead = [r \in Requests |-> {}]
  /\ batch = [w \in Workers |-> {}]
  /\ outcome = [r \in Requests |-> "none"]

Arrive(r) ==
  /\ r \notin arrived
  /\ arrived' = arrived \cup {r} /\ waiting' = waiting \cup {r}
  /\ ahead' = [ahead EXCEPT ![r] = arrived]
  /\ UNCHANGED <<open, batch, outcome>>

\* r is to be served before s.
Before(r, s) == \/ Urgency[r] > Urgency[s]
                \/ Urgency[r] = Urgency[s] /\ r \in ahead[s]

Take(w, B) ==
  /\ w \notin open /\ Cardinality(open) < MaxOpen
  /\ B # {} /\ Cardinality(B) <= MaxSize
  /\ \A r \in waiting \ B, s \in B : ~ Before(r, s)
  /\ open' = open \cup {w} /\ waiting' = waiting \ B
  /\ batch' = [batch EXCEPT ![w] = B]
  /\ UNCHANGED <<arrived, ahead, outcome>>

\* The requests of S come to an end.
End(S, how) == outcome' = [r \in Requests |-> IF r \in S THEN how ELSE outcome[r]]

Answer(w) ==
  /\ w \in open
  /\ End(batch[w], "answered") /\ batch' = [batch EXCEPT ![w] = {}]
  /\ UNCHANGED <<arrived, ahead, waiting, open>>

Close(w) ==
  /\ w \in open /\ open' = open \ {w}
  /\ End(batch[w], "dropped") /\ batch' = [batch EXCEPT ![w] = {}]
  /\ UNCHANGED <<arrived, ahead, waiting>>

Clear ==
  /\ End(waiting, "cleared") /\ waiting' = {}
  /\ UNCHANGED <<arrived, ahead, open, batch>>

Next ==
  \/ \E r \in Requests : Arrive(r)
  \/ \E w \in Workers : Answer(w) \/ Close(w) \/ \E B \in SUBSET waiting : Take(w, B)
  \/ Clear

Spec == Init /\ [][Next]_vars
=============================================================================

----------------------------- MODULE WorkerLending -----------------------------
(***************************************************************************)
(* What a worker pool promises to its tasks, without indices, lookups,     *)
(* locks, counters or states of workers: idle workers stand in a line, a   *)
(* task is lent the first of the line and its worker goes back to the end  *)
(* of it, and a worker that joins the pool does so at the end of the line. *)
(***************************************************************************)
EXTENDS Integers, Sequences, FiniteSets

CONSTANTS
  Tasks, Workers, Nobody,
  Most                   \* workers of the pool

VARIABLES
  members,   \* the workers of the pool
  line,      \* those that are idle, the longest idle one first
  lent       \* per task: its worker

vars == <<members, line, lent>>

\* All members stand in the line, in some order.
Init ==
  /\ members = {line[k] : k \in 1..Len(line)} /\ members \subseteq Workers
  /\ Len(line) <= Most
  /\ \A j, k \in 1..Len(line) : line[j] = line[k] => j = k
  /\ lent = [t \in Tasks |-> Nobody]

Borrow(t) ==
  /\ lent[t] = Nobody /\ line # <<>>
  /\ lent' = [lent EXCEPT ![t] = Head(line)] /\ line' = Tail(line)
  /\ UNCHANGED members

Return(t) ==
  /\ lent[t] # Nobody
  /\ line' = Append(line, lent[t]) /\ lent' = [lent EXCEPT ![t] = Nobody]
  /\ UNCHANGED members

Join(w) ==
  /\ w \notin members /\ Cardinality(members) < Most
  /\ members' = members \cup {w} /\ line' = Append(line, w)
  /\ UNCHANGED lent

Next == \/ \E t \in Tasks : Borrow(t) \/ Return(t)
        \/ \E w \in Workers : Join(w)

Spec == Init /\ [][Next]_vars
=============================================================================

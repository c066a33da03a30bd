-------------------------------- MODULE Counting --------------------------------
(* Counting, shared by the specifications and their proofs. *)
EXTENDS Integers, FiniteSets

\* How many of W the function f maps into P: tasks in certain phases, say.
CountOf(W, f, P) == Cardinality({x \in W : f[x] \in P})
=============================================================================

---------------------------- MODULE MCInflightBatch ----------------------------
(* Small instances of InflightBatch for TLC. *)
EXTENDS InflightBatch, TLC

CONSTANTS urgent      \* one of the requests

MCPriority == [r \in Requests |-> IF r = urgent THEN 2 ELSE 1]

\* Workers are interchangeable, and so are the requests of one priority.
InflightSymmetry ==
  Permutations(Workers) \cup Permutations(Requests \ {urgent})
=============================================================================

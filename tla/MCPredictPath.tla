---------------------------- MODULE MCPredictPath ----------------------------
(* Clients without a proxy in between: the two checks count by one address, *)
(* and compete for the same window.                                         *)
EXTENDS PredictPath, TLC

Direct == [c \in Callers |-> CHOOSE a \in Addresses : TRUE]
=============================================================================

--------------------------- MODULE MCModelDownload ---------------------------
(* Small instances of ModelDownload for TLC: every task downloads one model. *)
EXTENDS ModelDownload, TLC

MCModelOf == [t \in Tasks |-> CHOOSE m \in Models : TRUE]

StreamSymmetry == Permutations(Streams)
=============================================================================

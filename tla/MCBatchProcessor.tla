--------------------------- MODULE MCBatchProcessor ---------------------------
(* The model-checked instances of BatchProcessor. *)
EXTENDS BatchProcessor, TLC

BatchSymmetry == Permutations(Requests) \cup Permutations(Consumers)
=============================================================================

----------------------------- MODULE MCSessionPool -----------------------------
(* The model-checked instance of SessionPool. *)
EXTENDS SessionPool, TLC
=============================================================================

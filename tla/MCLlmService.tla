---------------------------- MODULE MCLlmService ----------------------------
(* A small instance of LlmService for TLC. *)
EXTENDS LlmService, TLC
=============================================================================

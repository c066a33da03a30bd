------------------------------- MODULE MCSpeech -------------------------------
(* A small instance of Speech for TLC. *)
EXTENDS Speech, TLC
=============================================================================

-------------------------- MODULE MCSessionTimers ---------------------------
(* SessionTimers for TLC. *)
EXTENDS SessionTimers, TLC
=============================================================================

---------------------------- MODULE MCTlsWorkers ----------------------------
(* TlsWorkers for TLC. *)
EXTENDS TlsWorkers, TLC
=============================================================================

----------------------------- MODULE MCTlsSend ------------------------------
(* TlsSend for TLC. *)
EXTENDS TlsSend
=============================================================================

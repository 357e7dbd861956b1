---------------------------- MODULE MCBackendCycle ----------------------------
(* BackendCycle for TLC. *)
EXTENDS BackendCycle
=============================================================================

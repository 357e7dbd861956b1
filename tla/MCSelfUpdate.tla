----------------------------- MODULE MCSelfUpdate -----------------------------
(* Small instances of SelfUpdate. *)
EXTENDS SelfUpdate
==============================================================================

----------------------------- MODULE MCHighImpact -----------------------------
(* Small instances of HighImpact. *)
EXTENDS HighImpact
==============================================================================

----------------------------- MODULE MCEventChain -----------------------------
(* Small instances of EventChain: two writers, two devices of one tenant.    *)
EXTENDS EventChain, TLC

CONSTANTS t1, d1, d2

OneTenant == d1 :> t1 @@ d2 :> t1

\* Writers are alike, and so are two devices of one tenant.
Alike == Permutations(Writers) \cup Permutations(Devices)
==============================================================================

---------------------------- MODULE MCRemoteSession ----------------------------
(* Small instances of RemoteSession. *)
EXTENDS RemoteSession
=================================================================================

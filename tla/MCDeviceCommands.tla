--------------------------- MODULE MCDeviceCommands ---------------------------
(* Small instances of DeviceCommands. *)
EXTENDS DeviceCommands
==============================================================================

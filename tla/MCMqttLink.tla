------------------------------ MODULE MCMqttLink ------------------------------
(* MqttLink with model values for the commands. *)
EXTENDS MqttLink
=============================================================================

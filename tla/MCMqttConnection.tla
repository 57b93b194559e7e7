-------------------------- MODULE MCMqttConnection --------------------------
(* MqttConnection for TLC: its constants are numbers and flags, given in the cfg. *)
EXTENDS MqttConnection, TLC
=============================================================================

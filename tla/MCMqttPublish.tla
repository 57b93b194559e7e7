--------------------------- MODULE MCMqttPublish ---------------------------
(* MqttPublish for TLC: symmetric application threads. *)
EXTENDS MqttPublish, TLC

Symmetry == Permutations(Caller \ {Yielder})
=============================================================================

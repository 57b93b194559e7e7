-------------------------- MODULE MCMqttSubscribe --------------------------
(* MqttSubscribe for TLC: threads, handlers and plain topics are interchangeable. *)
EXTENDS MqttSubscribe, TLC

Symmetry == Permutations(Caller \ {Yielder}) \cup Permutations(Handler)
            \cup Permutations(Topic \ Wildcard)
=============================================================================

-------------------------- MODULE MCRedisStreamBus --------------------------
(* RedisStreamBus for TLC. *)
EXTENDS RedisStreamBus, TLC

Symmetry == Permutations(Msgs) \cup Permutations(Consumers)
=============================================================================

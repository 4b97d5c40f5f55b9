--------------------------- MODULE MCRedisCircuit ---------------------------
(* Small instances of RedisCircuit for TLC; the .cfg files give the values. *)
EXTENDS RedisCircuit
============================================================================

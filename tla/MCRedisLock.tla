---- MODULE MCRedisLock ----
(* An instance of RedisLock for TLC. *)
EXTENDS RedisLock

(* Callers begin in the order of their numbers; the first locks every key,   *)
(* the others one key each.                                                  *)
Bounds ==
  /\ \A k, l \in Callers : k < l /\ pc[k] = "idle" => pc[l] = "idle"
  /\ \A k \in Callers : wants[k] \in {{}, IF k = 1 THEN Keys ELSE {CHOOSE x \in Keys : TRUE}}
====

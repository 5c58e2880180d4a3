---- MODULE MCSession ----
(* Instances of Session for TLC. *)
EXTENDS Session, TLC

Symmetry == Permutations(Caches)

(* Calls are interchangeable: they begin in the order of their numbers.  A   *)
(* session is logged out once.                                               *)
InOrder ==
  /\ \A k, l \in Calls : k < l /\ pc[k] = "idle" => pc[l] = "idle"
  /\ \A k, l \in Calls : kind[k] = "logout" /\ kind[l] = "logout" => k = l

(* Time begins with the first call, and passes while one at most awaits      *)
(* something, and that alone.                                                *)
Leisurely == now' # now =>
  /\ \E k \in Calls : kind[k] = "gen"
  /\ \A k \in Calls : todo[k] = {}
  /\ \A k, l \in Calls : pc[k] \in Awaits /\ pc[l] \in Awaits => k = l
====

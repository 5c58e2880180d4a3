---- MODULE MCAccounts ----
(* Calls, processes, pairs, emails and passwords are exchangeable. *)
EXTENDS Accounts, TLC

Symmetry ==
  Permutations(Calls) \union Permutations(Processes) \union Permutations(Pairs)
    \union Permutations(Emails) \union Permutations(Passwords)

(* Bound: calls are made where the keys of both types are intact, and a      *)
(* process that loads keys meanwhile loads them while no operation is awaited. *)
Bounds ==
  /\ (\E k \in Calls : pc[k] # "idle") => Intact = Types
  /\ (\E k \in Calls : pc[k] \in Awaits) =>
       \A p \in Processes : at[p] \in {"off", "checkPrivate", "started"}
====

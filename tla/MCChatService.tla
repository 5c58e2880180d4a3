---- MODULE MCChatService ----
(* An instance of ChatService for TLC. *)
EXTENDS ChatService, Integers

CONSTANT ann

(* Which call is which and who is who makes no difference to the code. TLC   *)
(* checks liveness without symmetry: calls are numbers and begin in their    *)
(* order, and ann makes the first one.                                       *)
InOrder ==
  \A k \in Calls :
    /\ op[k] # "none" => \A l \in Calls : l < k => op[l] # "none"
    /\ k = 1 /\ op[k] # "none" => by[k] = ann
====

---- MODULE MCRooms ----
(* An instance of Rooms for TLC. *)
EXTENDS Rooms, TLC

(* Sockets, instances, conversations and accounts are interchangeable.       *)
Symmetry ==
  Permutations(Sockets) \union Permutations(Instances)
  \union Permutations(Conversations) \union Permutations(Accounts)

(* Bounds: an instance is always up; conversations have one or two           *)
(* participants, and one of them an unknown one.                             *)
Bounds ==
  /\ up # {}
  /\ \A c \in Conversations : Cardinality(participants[c]) <= 2
  /\ \E c \in Conversations : \A d \in Conversations \ {c} : participants[d] \subseteq Accounts
====

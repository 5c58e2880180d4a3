---- MODULE MCEmojiReaction ----
(* An instance of EmojiReaction for TLC. *)
EXTENDS EmojiReaction, Naturals

(* Calls are interchangeable: they are made in the order of their numbers.   *)
InOrder ==
  \A k, l \in Calls : k < l /\ pc[k] = "idle" => pc[l] = "idle"
====

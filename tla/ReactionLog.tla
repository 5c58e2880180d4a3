---- MODULE ReactionLog ----
(***************************************************************************)
(* What users are promised about reactions, whatever the service does      *)
(* between two database calls: a toggle takes effect once or never, in one *)
(* step; it adds a reaction of its user or takes one back, and adds only   *)
(* if none is left of those the user had when it was made; and what was    *)
(* taken back, or was on a deleted message, does not come back.            *)
(***************************************************************************)
CONSTANTS
  Toggles,    \* also the reactions they add
  Users,
  Messages,
  None        \* no user, no message

VARIABLES
  open,       \* the toggles that were made and have had no effect so far
  user,       \* toggle -> its user
  message,    \* toggle -> the message reacted to
  before,     \* toggle -> the reactions of its user when it was made
  live,       \* the messages that are not deleted
  reactions   \* message -> the reactions to it

logVars == <<open, user, message, before, live, reactions>>

Init ==
  /\ open = {}
  /\ user = [k \in Toggles |-> None]
  /\ message = [k \in Toggles |-> None]
  /\ before = [k \in Toggles |-> {}]
  /\ live = Messages
  /\ reactions = [m \in Messages |-> {}]

Own(u, m) == {e \in reactions[m] : user[e] = u}

Make(k, u, m) ==
  /\ user[k] = None
  /\ open' = open \union {k}
  /\ user' = [user EXCEPT ![k] = u]
  /\ message' = [message EXCEPT ![k] = m]
  /\ before' = [before EXCEPT ![k] = Own(u, m)]
  /\ UNCHANGED <<live, reactions>>

Close(k) ==
  /\ k \in open
  /\ open' = open \ {k}
  /\ UNCHANGED <<user, message, before, live>>

Add(k) ==
  /\ Close(k)
  /\ message[k] \in live
  /\ before[k] \intersect reactions[message[k]] = {}
  /\ reactions' = [reactions EXCEPT ![message[k]] = @ \union {k}]

TakeBack(k) ==
  /\ Close(k)
  /\ \E e \in Own(user[k], message[k]) :
       reactions' = [reactions EXCEPT ![message[k]] = @ \ {e}]

(* It fails, or meets a message that is deleted or a reaction taken back. *)
Miss(k) == Close(k) /\ UNCHANGED reactions

Delete(m) ==
  /\ m \in live
  /\ live' = live \ {m}
  /\ reactions' = [reactions EXCEPT ![m] = {}]
  /\ UNCHANGED <<open, user, message, before>>

Next ==
  \/ \E k \in Toggles :
       \/ \E u \in Users, m \in Messages : Make(k, u, m)
       \/ Add(k) \/ TakeBack(k) \/ Miss(k)
  \/ \E m \in Messages : Delete(m)

Spec == Init /\ [][Next]_logVars
====

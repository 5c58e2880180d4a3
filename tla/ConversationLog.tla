---- MODULE ConversationLog ----
(***************************************************************************)
(* What a participant is promised about the content of conversations,      *)
(* whatever the service does between two database calls: a conversation    *)
(* opens with one message, a message becomes visible in one conversation   *)
(* in one step, never twice, disappears in one step and never comes back,  *)
(* and the conversation's activity always names the latest posted message. *)
(***************************************************************************)
CONSTANTS Conversations, Messages, None

VARIABLES
  visible,   \* conversation -> the messages a reader can be shown
  posted,    \* the messages that ever became visible
  latest     \* conversation -> the message posted last, None before it opens

logVars == <<visible, posted, latest>>

Init ==
  /\ visible = [c \in Conversations |-> {}]
  /\ posted = {}
  /\ latest = [c \in Conversations |-> None]

Show(c, m) ==
  /\ m \notin posted
  /\ posted' = posted \union {m}
  /\ visible' = [visible EXCEPT ![c] = @ \union {m}]
  /\ latest' = [latest EXCEPT ![c] = m]

Open(c, m) == latest[c] = None /\ Show(c, m)

Post(c, m) == latest[c] # None /\ Show(c, m)

Remove(c, m) ==
  /\ m \in visible[c]
  /\ visible' = [visible EXCEPT ![c] = @ \ {m}]
  /\ UNCHANGED <<posted, latest>>

Next == \E c \in Conversations, m \in Messages :
          Open(c, m) \/ Post(c, m) \/ Remove(c, m)

Spec == Init /\ [][Next]_logVars
====

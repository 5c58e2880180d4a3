---- MODULE Rooms ----
(***************************************************************************)
(* Who hears what: the rooms of the namespace chat.                        *)
(*                                                                         *)
(* A socket gets into the room of a conversation in one of two ways.       *)
(* handleConnection of gateways/chat.gateway.ts lists the conversations of *)
(* its user (getAllRelatedConservation, three awaits) and joins their      *)
(* rooms at the end.  And the handler of the event 'conversation.new'      *)
(* joins the sockets of the participants, but an event stays within the    *)
(* instance that committed the conversation, and so do the sockets it sees.*)
(*                                                                         *)
(* Instances share MongoDB and broadcast through Redis.  An error in       *)
(* handleConnection is an unhandled rejection, which stops the instance.   *)
(* A socket that is closed leaves its name to a later one.                 *)
(***************************************************************************)
EXTENDS FiniteSets, Naturals

CONSTANTS
  Sockets,
  Instances,
  Conversations,
  Users,      \* the ids a client may name as participants
  Accounts,   \* those of them that the user service knows
  None

ASSUME AccountsAssumption == Accounts \subseteq Users
ASSUME NoneAssumption == None \notin Sockets \union Instances \union Users
ASSUME FinitenessAssumption == IsFiniteSet(Conversations)

VARIABLES
  up,           \* the instances that run
  step,         \* socket -> the operation its handleConnection awaits
  open,         \* the sockets of the namespace, on any instance
  owner,        \* socket -> handshake.currentUserId
  host,         \* socket -> the instance it is connected to
  counted,      \* socket -> the count of the list
  items,        \* socket -> the items of the list
  conv,         \* conversation -> how far its creation got
  participants, \* conversation -> its document's participants
  creator,      \* conversation -> the user who creates it
  at,           \* conversation -> the instance that creates it
  room,         \* conversation -> the sockets of its room
  redirected    \* conversation -> the socket told to go there

sockVars == <<step, open, owner, host, counted, items>>
convVars == <<conv, participants, creator, at>>
vars == <<up, sockVars, convVars, room, redirected>>

Listing == {"count", "find", "users"}
Stored == {c \in Conversations : conv[c] # "none"}
Related(u) == {c \in Stored : u \in participants[c]}

Init ==
  /\ up = Instances
  /\ step = [s \in Sockets |-> "out"]
  /\ open = {}
  /\ owner = [s \in Sockets |-> None]
  /\ host = [s \in Sockets |-> None]
  /\ counted = [s \in Sockets |-> 0]
  /\ items = [s \in Sockets |-> {}]
  /\ conv = [c \in Conversations |-> "none"]
  /\ participants = [c \in Conversations |-> {}]
  /\ creator = [c \in Conversations |-> None]
  /\ at = [c \in Conversations |-> None]
  /\ room = [c \in Conversations |-> {}]
  /\ redirected = [c \in Conversations |-> None]

-----------------------------------------------------------------------------
Goto(s, from, to) == step[s] = from /\ step' = [step EXCEPT ![s] = to]

(* Nothing refers to the sockets of S any more.                              *)
Forget(S) ==
  /\ step' = [s \in Sockets |-> IF s \in S THEN "out" ELSE step[s]]
  /\ owner' = [s \in Sockets |-> IF s \in S THEN None ELSE owner[s]]
  /\ host' = [s \in Sockets |-> IF s \in S THEN None ELSE host[s]]
  /\ counted' = [s \in Sockets |-> IF s \in S THEN 0 ELSE counted[s]]
  /\ items' = [s \in Sockets |-> IF s \in S THEN {} ELSE items[s]]

(* The sockets of S leave the namespace and their rooms.                     *)
Leave(S) ==
  /\ open' = open \ S
  /\ room' = [c \in Conversations |-> room[c] \ S]
  /\ redirected' = [c \in Conversations |->
                      IF redirected[c] \in S THEN None ELSE redirected[c]]

(* The middleware has verified the token: the socket enters the namespace    *)
(* and handleConnection starts.  A token that is refused changes nothing.    *)
Admit(s, u, i) ==
  /\ i \in up
  /\ Goto(s, "out", "count")
  /\ open' = open \union {s}
  /\ owner' = [owner EXCEPT ![s] = u]
  /\ host' = [host EXCEPT ![s] = i]
  /\ UNCHANGED <<up, counted, items, convVars, room, redirected>>

CountDocuments(s) ==
  /\ Goto(s, "count", "find")
  /\ counted' = [counted EXCEPT ![s] = Cardinality(Related(owner[s]))]
  /\ UNCHANGED <<up, open, owner, host, items, convVars, room, redirected>>

(* A variant: the query reads a page of one document.                        *)
FindPage(s) ==
  /\ Goto(s, "find", "users")
  /\ \E P \in SUBSET Related(owner[s]) :
       Cardinality(P) <= 1 /\ items' = [items EXCEPT ![s] = P]
  /\ UNCHANGED <<up, open, owner, host, counted, convVars, room, redirected>>

FindDocuments(s) ==
  /\ Goto(s, "find", "users")
  /\ items' = [items EXCEPT ![s] = Related(owner[s])]
  /\ UNCHANGED <<up, open, owner, host, counted, convVars, room, redirected>>

(* A variant: a socket that is gone joins its rooms all the same.            *)
JoinThoughGone(s) ==
  /\ Goto(s, "users", "joined")
  /\ \A c \in items[s] : participants[c] \subseteq Accounts
  /\ room' = [c \in Conversations |-> IF c \in items[s] THEN room[c] \union {s} ELSE room[c]]
  /\ UNCHANGED <<up, open, owner, host, counted, items, convVars, redirected>>

(* Every participant of every item is known: the socket joins the rooms, to  *)
(* no effect if it has been disconnected meanwhile.  The count is dropped.   *)
LoadUsers(s) ==
  /\ step[s] = "users"
  /\ \A c \in items[s] : participants[c] \subseteq Accounts
  /\ \/ /\ s \in open
        /\ step' = [step EXCEPT ![s] = "joined"]
        /\ room' = [c \in Conversations |->
                      IF c \in items[s] THEN room[c] \union {s} ELSE room[c]]
        /\ counted' = [counted EXCEPT ![s] = 0]
        /\ UNCHANGED <<owner, host, items>>
     \/ /\ s \notin open
        /\ Forget({s})
        /\ UNCHANGED room
  /\ UNCHANGED <<up, open, convVars, redirected>>

(* The client leaves or times out; handleConnection goes on.                 *)
Disconnect(s) ==
  /\ s \in open
  /\ Leave({s})
  /\ \/ step[s] = "joined" /\ Forget({s})
     \/ step[s] \in Listing /\ UNCHANGED <<step, owner, host, counted, items>>
  /\ UNCHANGED <<up, convVars>>

(* An instance stops with its sockets, its handlers and its pending events.  *)
Stop(i) ==
  LET gone == {s \in Sockets : host[s] = i} IN
  /\ i \in up
  /\ up' = up \ {i}
  /\ Leave(gone)
  /\ Forget(gone)
  /\ conv' = [c \in Conversations |->
                IF conv[c] = "pending" /\ at[c] = i THEN "unannounced" ELSE conv[c]]
  /\ UNCHANGED <<participants, creator, at>>

(* A query fails, or 'User not found' is thrown for a participant.           *)
Reject(s) == step[s] \in Listing /\ Stop(host[s])

Restart(i) ==
  /\ i \notin up
  /\ up' = up \union {i}
  /\ UNCHANGED <<sockVars, convVars, room, redirected>>

-----------------------------------------------------------------------------
(* createNewConversation commits the transaction.                            *)
Open(c, u, T, i) ==
  /\ conv[c] = "none" /\ i \in up
  /\ conv' = [conv EXCEPT ![c] = "pending"]
  /\ participants' = [participants EXCEPT ![c] = T \union {u}]
  /\ creator' = [creator EXCEPT ![c] = u]
  /\ at' = [at EXCEPT ![c] = i]
  /\ UNCHANGED <<up, sockVars, room, redirected>>

(* The answer to the commit is lost: the method throws, without the event.   *)
Unanswered(c) ==
  /\ conv[c] = "pending"
  /\ conv' = [conv EXCEPT ![c] = "unannounced"]
  /\ UNCHANGED <<up, sockVars, participants, creator, at, room, redirected>>

(* The sockets the handler iterates over that belong to a user in U.         *)
LocalSockets(c, U) == {s \in open : host[s] = at[c] /\ owner[s] \in U}

(* Three variants: only sockets that have finished connecting are joined;    *)
(* all sockets of the creator are redirected; and the socket redirected is a *)
(* participant's instead of the creator's.                                   *)
AnnounceSettled(c) ==
  /\ conv[c] = "pending"
  /\ conv' = [conv EXCEPT ![c] = "announced"]
  /\ room' = [room EXCEPT ![c] = @ \union
                {s \in LocalSockets(c, participants[c]) : step[s] = "joined"}]
  /\ UNCHANGED <<up, sockVars, participants, creator, at, redirected>>

AnnounceToAll(c) ==
  /\ conv[c] = "pending"
  /\ conv' = [conv EXCEPT ![c] = "announced"]
  /\ room' = [room EXCEPT ![c] = @ \union LocalSockets(c, participants[c])]
  /\ redirected' = [redirected EXCEPT ![c] = LocalSockets(c, {creator[c]})]
  /\ UNCHANGED <<up, sockVars, participants, creator, at>>

AnnounceToLast(c) ==
  /\ conv[c] = "pending"
  /\ conv' = [conv EXCEPT ![c] = "announced"]
  /\ room' = [room EXCEPT ![c] = @ \union LocalSockets(c, participants[c])]
  /\ \E s \in LocalSockets(c, participants[c]) \union {None} :
       redirected' = [redirected EXCEPT ![c] = s]
  /\ UNCHANGED <<up, sockVars, participants, creator, at>>

(* The handler of 'conversation.new': it joins, broadcasts the first message *)
(* and redirects one socket of the creator.  Without one on this instance it *)
(* fails, after the broadcast.                                               *)
Announce(c) ==
  /\ conv[c] = "pending"
  /\ conv' = [conv EXCEPT ![c] = "announced"]
  /\ room' = [room EXCEPT ![c] = @ \union LocalSockets(c, participants[c])]
  /\ \/ \E s \in LocalSockets(c, {creator[c]}) : redirected' = [redirected EXCEPT ![c] = s]
     \/ LocalSockets(c, {creator[c]}) = {} /\ UNCHANGED redirected
  /\ UNCHANGED <<up, sockVars, participants, creator, at>>

-----------------------------------------------------------------------------
Next ==
  \/ \E s \in Sockets :
       \/ \E u \in Accounts, i \in Instances : Admit(s, u, i)
       \/ CountDocuments(s) \/ FindDocuments(s) \/ LoadUsers(s) \/ Reject(s)
       \/ Disconnect(s)
  \/ \E c \in Conversations :
       \/ \E u \in Accounts, T \in SUBSET Users, i \in Instances : Open(c, u, T, i)
       \/ Announce(c) \/ Unanswered(c)
  \/ \E i \in Instances : Stop(i) \/ Restart(i)

Spec == Init /\ [][Next]_vars

-----------------------------------------------------------------------------
(* The type invariant. *)
TypeOK ==
  /\ up \in SUBSET Instances
  /\ step \in [Sockets -> Listing \union {"out", "joined"}]
  /\ open \in SUBSET Sockets
  /\ owner \in [Sockets -> Accounts \union {None}]
  /\ host \in [Sockets -> Instances \union {None}]
  /\ counted \in [Sockets -> Nat]
  /\ items \in [Sockets -> SUBSET Conversations]
  /\ conv \in [Conversations -> {"none", "pending", "announced", "unannounced"}]
  /\ participants \in [Conversations -> SUBSET Users]
  /\ creator \in [Conversations -> Accounts \union {None}]
  /\ at \in [Conversations -> Instances \union {None}]
  /\ room \in [Conversations -> SUBSET Sockets]
  /\ redirected \in [Conversations -> Sockets \union {None}]

(* A room holds open sockets of participants and nobody else, whatever       *)
(* disconnects or stops while a list is being read.                          *)
RoomIsOfParticipants ==
  \A c \in Conversations : \A s \in room[c] : s \in open /\ owner[s] \in participants[c]

(* However the query of a connecting socket falls between the commit of a    *)
(* conversation and its event, the participants connected to the instance    *)
(* that created it are in its room once they are connected and it is         *)
(* announced.  Those of other instances are when their query came later.     *)
ParticipantsAreInRoom ==
  \A c \in Stored : \A s \in open :
    step[s] = "joined" /\ owner[s] \in participants[c] /\ s \notin room[c] =>
      c \notin items[s] /\ (conv[c] = "announced" => host[s] # at[c])

(* Only the creator is taken to the new conversation, on one socket, and     *)
(* that socket hears it.                                                     *)
RedirectedIsInRoom ==
  \A c \in Conversations : LET s == redirected[c] IN
    s # None => s \in room[c] /\ owner[s] = creator[c]

(* The list never says there are more conversations than it has.             *)
CountIsCovered ==
  \A s \in Sockets : step[s] = "users" => counted[s] <= Cardinality(items[s])

-----------------------------------------------------------------------------
(* The inductive invariant behind the safety properties.                     *)

(* A socket belongs to an account and a running instance from its admission  *)
(* on, and a list holds conversations of that account.                       *)
SocketInv ==
  \A s \in Sockets :
    /\ step[s] = "out" => s \notin open /\ host[s] = None /\ items[s] = {}
    /\ step[s] # "out" => owner[s] \in Accounts /\ host[s] \in up
    /\ step[s] = "joined" => s \in open
    /\ items[s] \subseteq Related(owner[s])

(* A conversation has rooms and redirections only once it is stored.         *)
StoredInv ==
  \A c \in Conversations :
    /\ conv[c] = "none" => room[c] = {} /\ redirected[c] = None
    /\ conv[c] = "pending" => redirected[c] = None
    /\ conv[c] # "none" => creator[c] \in participants[c]

(* An open socket of the creating instance that is not in the room of an     *)
(* announced conversation is about to get there: its query is still to come  *)
(* or has found the conversation.                                            *)
JoinInv ==
  \A c \in Stored : \A s \in open :
    s \notin room[c] /\ owner[s] \in participants[c] =>
      /\ step[s] = "joined" => c \notin items[s]
      /\ conv[c] = "announced" /\ host[s] = at[c] =>
           step[s] \in {"count", "find"} \/ (step[s] = "users" /\ c \in items[s])

(* Conversations are only added between the count and the query.             *)
CountInv ==
  \A s \in Sockets :
    step[s] = "find" => counted[s] <= Cardinality(Related(owner[s]))

Inv ==
  /\ TypeOK /\ SocketInv /\ StoredInv /\ JoinInv /\ CountInv
  /\ RoomIsOfParticipants /\ RedirectedIsInRoom /\ CountIsCovered
====

---- MODULE ChatService ----
(***************************************************************************)
(* services/chat.service.ts with the gateway handlers that end its calls.  *)
(*                                                                         *)
(* A call is one run of a service method for one user.  Between two awaits *)
(* the method runs alone (one JavaScript thread), at an await any other    *)
(* call of this or of another instance of the service may run: one action  *)
(* is one awaited operation with the synchronous code after it.            *)
(*                                                                         *)
(* A call creates at most one message and at most one conversation, so a   *)
(* document is named by the call that created it.  Clients only name       *)
(* conversations they take part in and messages they were shown.           *)
(***************************************************************************)
CONSTANTS
  Calls,      \* the calls that may be made; also names messages, conversations
  Users,      \* the user ids that clients may send
  Accounts,   \* the user ids the user service knows
  None        \* no document

ASSUME CallsAssumption == None \notin Calls

ASSUME AccountsAssumption == Accounts \subseteq Users

VARIABLES
  pc,             \* call -> the operation it awaits
  op,             \* call -> the method called
  by,             \* call -> the calling user (senderId of its message)
  conv,           \* call -> the conversation it works on
  ref,            \* call -> the message it replies to or deletes
  wanted,         \* call -> the participants createNewConversation asks for
  snap,           \* call -> the ids, then the messages, getConversation read
  before,         \* history: what existed when the call was made
  stored,         \* collection messages: the documents it holds
  members,        \* collection conversations: participants, {} if no document
  listed,         \* collection conversations: the array messages
  lastActivity,   \* collection conversations: the message that stamped it
  posted,         \* history: the messages a conversation ever listed
  queued,         \* the messages for which a crawl job is in Kafka
  announced,      \* message -> how the room was told of it
  retracted       \* the messages whose deletion the room was told of

callVars == <<op, by, conv, ref, wanted, before>>
dbVars == <<stored, members, listed, lastActivity, posted>>
outVars == <<queued, announced, retracted>>
vars == <<pc, op, by, conv, ref, wanted, snap, before, stored, members, listed,
          lastActivity, posted, queued, announced, retracted>>

Meetings == {"startMeeting", "endMeeting"}
Sends == {"send", "upload", "create"} \union Meetings
Ops == Sends \union {"delete", "get"}

SendSteps == {"checkReply", "uploadFile", "getCall", "createMessage",
              "pushMessage", "produce", "emit"}
OpenSteps == {"findConversation", "openConversation", "emitNew"}
DeleteSteps == {"findMessage", "deleteOne", "pullMessage", "emitDelete"}
ReadSteps == {"readIds", "populate"}
InFlight == SendSteps \union OpenSteps \union DeleteSteps \union ReadSteps
Ended == {"done", "failed"}

Conversations == {c \in Calls : members[c] # {}}

Visible(c) == listed[c] \intersect stored

Init ==
  /\ pc = [k \in Calls |-> "idle"]
  /\ op = [k \in Calls |-> "none"]
  /\ by = [k \in Calls |-> None]
  /\ conv = [k \in Calls |-> None]
  /\ ref = [k \in Calls |-> None]
  /\ wanted = [k \in Calls |-> {}]
  /\ snap = [k \in Calls |-> {}]
  /\ before = [k \in Calls |-> {}]
  /\ stored = {}
  /\ members = [c \in Calls |-> {}]
  /\ listed = [c \in Calls |-> {}]
  /\ lastActivity = [c \in Calls |-> None]
  /\ posted = {}
  /\ queued = {}
  /\ announced = [m \in Calls |-> "no"]
  /\ retracted = {}

-----------------------------------------------------------------------------
(* A client makes a call: its arguments, and the first operation it awaits. *)

Accept(k, o, u, c, m, first) ==
  /\ pc[k] = "idle"
  /\ pc' = [pc EXCEPT ![k] = first]
  /\ op' = [op EXCEPT ![k] = o]
  /\ by' = [by EXCEPT ![k] = u]
  /\ conv' = [conv EXCEPT ![k] = c]
  /\ ref' = [ref EXCEPT ![k] = m]
  /\ UNCHANGED <<snap, dbVars, outVars>>

AcceptIn(k, o, m, first) ==
  \E c \in Conversations, u \in Accounts :
    /\ u \in members[c]
    /\ m \in {None} \union {p \in posted : conv[p] = c}
    /\ Accept(k, o, u, c, m, first)
    /\ before' = [before EXCEPT ![k] = Visible(c)]
    /\ UNCHANGED wanted

SendMessage(k) == AcceptIn(k, "send", None, "createMessage")

ReplyTo(k, m) == m \in posted /\ AcceptIn(k, "send", m, "checkReply")

UploadImage(k) == AcceptIn(k, "upload", None, "uploadFile")

StartMeeting(k) == AcceptIn(k, "startMeeting", None, "getCall")

EndMeeting(k) == AcceptIn(k, "endMeeting", None, "createMessage")

Delete(k, m) == m \in posted /\ AcceptIn(k, "delete", m, "findMessage")

GetConversation(k) == AcceptIn(k, "get", None, "readIds")

(* The user existence test is never awaited: `some` iterates over a Promise, *)
(* which has no elements, so no unknown participant is ever refused.         *)
CreateNewConversation(k) ==
  \E u \in Accounts, W \in SUBSET Users :
    /\ W \ {u} # {}
    /\ Accept(k, "create", u, None, None, "findConversation")
    /\ wanted' = [wanted EXCEPT ![k] = W \union {u}]
    /\ before' = [before EXCEPT ![k] = Conversations]

(* The awaited operations take the call from one to the next.                *)

Goto(k, from, to) == pc[k] = from /\ pc' = [pc EXCEPT ![k] = to]

FindByParticipants(k, W) ==
  /\ \/ \E c \in Conversations :
          /\ members[c] = W
          /\ Goto(k, "findConversation", "createMessage")
          /\ conv' = [conv EXCEPT ![k] = c]
     \/ /\ \A c \in Conversations : members[c] # W
        /\ Goto(k, "findConversation", "openConversation")
        /\ UNCHANGED conv
  /\ UNCHANGED <<op, by, ref, wanted, before, snap, dbVars, outVars>>

-----------------------------------------------------------------------------
(* Variants of the operations that follow: mistakes the runs must find.      *)

(* find instead of findOne: an array, true even when it is empty. *)
FindAll(k) ==
  /\ Goto(k, "findConversation", "createMessage")
  /\ conv' = [conv EXCEPT ![k] = {c \in Conversations : members[c] = wanted[k]}]
  /\ UNCHANGED <<op, by, ref, wanted, before, snap, dbVars, outVars>>

(* The caller is left out of the participants that are looked up. *)
FindTargets(k) == FindByParticipants(k, wanted[k] \ {by[k]})

(* The $push is not awaited. *)
CreateThenProduce(k) ==
  /\ Goto(k, "createMessage", "produce")
  /\ stored' = stored \union {k}
  /\ UNCHANGED <<callVars, snap, members, listed, lastActivity, posted, outVars>>

(* The array is read with the call and written back whole. *)
PushOverwrites(k) ==
  /\ Goto(k, "pushMessage", IF op[k] \in Meetings THEN "emit" ELSE "produce")
  /\ listed' = [listed EXCEPT ![conv[k]] = before[k] \union {k}]
  /\ lastActivity' = [lastActivity EXCEPT ![conv[k]] = k]
  /\ posted' = posted \union {k}
  /\ UNCHANGED <<callVars, snap, stored, members, outVars>>

(* Nothing is emitted when the conversation existed. *)
EmitUnlessReused(k) ==
  /\ Goto(k, "emit", "done")
  /\ announced' = [announced EXCEPT ![k] = IF op[k] = "create" THEN @ ELSE "full"]
  /\ UNCHANGED <<callVars, snap, dbVars, queued, retracted>>

(* The sender is not part of the filter. *)
FindMessageOfAnyone(k) ==
  /\ Goto(k, "findMessage", IF ref[k] \in stored THEN "deleteOne" ELSE "failed")
  /\ UNCHANGED <<callVars, snap, dbVars, outVars>>

(* The deleteOne is not awaited. *)
FindThenPull(k) ==
  /\ Goto(k, "findMessage",
          IF ref[k] \in stored /\ by[ref[k]] = by[k] THEN "pullMessage" ELSE "failed")
  /\ UNCHANGED <<callVars, snap, dbVars, outVars>>

(* The $pull is sent before the document is deleted. *)
PullFirst(k) ==
  /\ Goto(k, "deleteOne", "pullMessage")
  /\ listed' = [listed EXCEPT ![conv[k]] = @ \ {ref[k]}]
  /\ UNCHANGED <<callVars, snap, stored, members, lastActivity, posted, outVars>>

(* The $pull is left out. *)
DeleteWithoutPull(k) ==
  /\ Goto(k, "deleteOne", "emitDelete")
  /\ stored' = stored \ {ref[k]}
  /\ UNCHANGED <<callVars, snap, members, listed, lastActivity, posted, outVars>>

-----------------------------------------------------------------------------

(* sendMessageToConversation and what precedes it in its callers. *)

CheckReply(k) ==
  /\ Goto(k, "checkReply", IF ref[k] \in stored THEN "createMessage" ELSE "failed")
  /\ UNCHANGED <<callVars, snap, dbVars, outVars>>

UploadFile(k) ==
  /\ Goto(k, "uploadFile", "createMessage")
  /\ UNCHANGED <<callVars, snap, dbVars, outVars>>

GetCall(k) ==
  /\ \/ Goto(k, "getCall", "createMessage")
     \/ Goto(k, "getCall", "done")      \* no such call: null, nothing is sent
  /\ UNCHANGED <<callVars, snap, dbVars, outVars>>

CreateMessage(k) ==
  /\ Goto(k, "createMessage", "pushMessage")
  /\ stored' = stored \union {k}
  /\ UNCHANGED <<callVars, snap, members, listed, lastActivity, posted, outVars>>

PushMessage(k) ==
  /\ Goto(k, "pushMessage", IF op[k] \in Meetings THEN "emit" ELSE "produce")
  /\ listed' = [listed EXCEPT ![conv[k]] = @ \union {k}]
  /\ lastActivity' = [lastActivity EXCEPT ![conv[k]] = k]
  /\ posted' = posted \union {k}
  /\ UNCHANGED <<callVars, snap, stored, members, outVars>>

Produce(k) ==
  /\ Goto(k, "produce", "emit")
  /\ queued' \in {queued, queued \union {k}}   \* a failed send is only logged
  /\ UNCHANGED <<callVars, snap, dbVars, announced, retracted>>

(* The event of createNewConversation carries body.message, its handler      *)
(* broadcasts body.content.                                                  *)
Emit(k) ==
  /\ Goto(k, "emit", "done")
  /\ announced' = [announced EXCEPT
                     ![k] = IF op[k] = "create" THEN "empty" ELSE "full"]
  /\ UNCHANGED <<callVars, snap, dbVars, queued, retracted>>

(* createNewConversation: reuse the conversation of these participants or    *)
(* open one, the message and the conversation in one transaction.            *)

FindConversation(k) == FindByParticipants(k, wanted[k])

OpenConversation(k) ==
  /\ Goto(k, "openConversation", "emitNew")
  /\ conv' = [conv EXCEPT ![k] = k]
  /\ stored' = stored \union {k}
  /\ members' = [members EXCEPT ![k] = wanted[k]]
  /\ listed' = [listed EXCEPT ![k] = {k}]
  /\ lastActivity' = [lastActivity EXCEPT ![k] = k]
  /\ posted' = posted \union {k}
  /\ UNCHANGED <<op, by, ref, wanted, before, snap, outVars>>

EmitNew(k) ==
  /\ Goto(k, "emitNew", "done")
  /\ announced' = [announced EXCEPT ![k] = "full"]
  /\ UNCHANGED <<callVars, snap, dbVars, queued, retracted>>

(* deleteMessage: three operations, no transaction. *)

FindMessage(k) ==
  /\ Goto(k, "findMessage",
          IF ref[k] \in stored /\ by[ref[k]] = by[k] THEN "deleteOne" ELSE "failed")
  /\ UNCHANGED <<callVars, snap, dbVars, outVars>>

DeleteOne(k) ==
  /\ Goto(k, "deleteOne", "pullMessage")
  /\ stored' = stored \ {ref[k]}
  /\ UNCHANGED <<callVars, snap, members, listed, lastActivity, posted, outVars>>

PullMessage(k) ==
  /\ Goto(k, "pullMessage", "emitDelete")
  /\ listed' = [listed EXCEPT ![conv[k]] = @ \ {ref[k]}]
  /\ UNCHANGED <<callVars, snap, stored, members, lastActivity, posted, outVars>>

EmitDelete(k) ==
  /\ Goto(k, "emitDelete", "done")
  /\ retracted' = retracted \union {ref[k]}
  /\ UNCHANGED <<callVars, snap, dbVars, queued, announced>>

(* getConversation: the conversation, then the messages it lists; populate   *)
(* drops the ids that have no document.                                      *)

ReadIds(k) ==
  /\ Goto(k, "readIds", "populate")
  /\ snap' = [snap EXCEPT ![k] = listed[conv[k]]]
  /\ UNCHANGED <<callVars, dbVars, outVars>>

Populate(k) ==
  /\ Goto(k, "populate", "done")
  /\ snap' = [snap EXCEPT ![k] = @ \intersect stored]
  /\ UNCHANGED <<callVars, dbVars, outVars>>

(* An operation fails, or its answer is lost, or the process stops: nothing  *)
(* that follows is run and nothing that was written is undone.               *)
Fail(k) ==
  /\ pc[k] \in InFlight
  /\ pc' = [pc EXCEPT ![k] = "failed"]
  /\ UNCHANGED <<callVars, snap, dbVars, outVars>>

-----------------------------------------------------------------------------
Request(k) ==
  \/ CreateNewConversation(k) \/ SendMessage(k) \/ UploadImage(k)
  \/ StartMeeting(k) \/ EndMeeting(k) \/ GetConversation(k)
  \/ \E m \in Calls : ReplyTo(k, m) \/ Delete(k, m)

Step(k) ==
  \/ CheckReply(k) \/ UploadFile(k) \/ GetCall(k) \/ CreateMessage(k)
  \/ PushMessage(k) \/ Produce(k) \/ Emit(k)
  \/ FindConversation(k) \/ OpenConversation(k) \/ EmitNew(k)
  \/ FindMessage(k) \/ DeleteOne(k) \/ PullMessage(k) \/ EmitDelete(k)
  \/ ReadIds(k) \/ Populate(k)

(* Every call of the instance has ended. *)
Quiet == (\A k \in Calls : pc[k] \in Ended) /\ UNCHANGED vars

Next == (\E k \in Calls : Request(k) \/ Step(k) \/ Fail(k)) \/ Quiet

Spec == Init /\ [][Next]_vars

(* Every awaited operation settles: the drivers time out, and an error ends  *)
(* the call.  Clients need not call, and nothing need fail.                  *)
FairSpec == Spec /\ \A k \in Calls : WF_vars(Step(k))

-----------------------------------------------------------------------------
(* The type invariant: what each variable of the calls, of the database and  *)
(* of the channels may hold; a deletion names a message, and a read a        *)
(* conversation.                                                             *)
TypeOK ==
  /\ pc \in [Calls -> InFlight \union Ended \union {"idle"}]
  /\ op \in [Calls -> Ops \union {"none"}]
  /\ by \in [Calls -> Accounts \union {None}]
  /\ conv \in [Calls -> Calls \union {None}]
  /\ ref \in [Calls -> Calls \union {None}]
  /\ wanted \in [Calls -> SUBSET Users]
  /\ snap \in [Calls -> SUBSET Calls]
  /\ before \in [Calls -> SUBSET Calls]
  /\ stored \in SUBSET Calls
  /\ members \in [Calls -> SUBSET Users]
  /\ listed \in [Calls -> SUBSET Calls]
  /\ lastActivity \in [Calls -> Calls \union {None}]
  /\ posted \in SUBSET Calls
  /\ queued \in SUBSET Calls
  /\ announced \in [Calls -> {"no", "full", "empty"}]
  /\ retracted \in SUBSET Calls
  /\ \A k \in Calls : /\ pc[k] \in DeleteSteps => ref[k] \in Calls
                      /\ pc[k] \in ReadSteps => conv[k] \in Calls

(* The two collections agree: a conversation lists a message that has no     *)
(* document only between the deleteOne and the $pull of a deleteMessage, or  *)
(* after one that was cut off there; a document no conversation lists is one *)
(* whose send is between its create and its $push, or was cut off there.     *)
Listed(m) == \E c \in Calls : m \in listed[c]
Dangling(m) == Listed(m) /\ m \notin stored
Orphan(m) == m \in stored /\ ~Listed(m)

CollectionsAgree ==
  \A m \in Calls :
    /\ Dangling(m) =>
         \E d \in Calls : /\ op[d] = "delete" /\ ref[d] = m
                          /\ pc[d] \in {"pullMessage", "failed"}
    /\ Orphan(m) => op[m] \in Sends /\ pc[m] \in {"pushMessage", "failed"}

(* createNewConversation looks the participants up before it writes: two     *)
(* conversations of the same participants exist only when both calls were    *)
(* under way at once, never because an existing one was not found.           *)
DuplicateOnlyByRace ==
  \A k, c \in Conversations : c \in before[k] => members[c] # members[k]

(* A deletion that was confirmed is final: neither collection holds the      *)
(* message, whatever sends, reads and other deletions were under way.        *)
ConfirmedDeleteIsFinal ==
  \A d \in Calls :
    op[d] = "delete" /\ pc[d] \in {"emitDelete", "done"} =>
      ref[d] \notin stored /\ ref[d] \notin listed[conv[d]]

(* The room and the crawler hear of a message only once it was listed, and   *)
(* of a deletion only once nobody can read the message.                      *)
PublishedAfterWrite ==
  /\ \A m \in Calls : m \in queued \/ announced[m] # "no" => m \in posted
  /\ \A c \in Calls : retracted \intersect Visible(c) = {}

(* getConversation reads the ids and the messages in two queries: it returns *)
(* every message that could be read when it was called and has not been      *)
(* deleted since.                                                            *)
ReadIsComplete ==
  \A k \in Calls :
    op[k] = "get" /\ pc[k] = "done" => before[k] \intersect stored \subseteq snap[k]

(* Only a deleteMessage of its own sender removes the document of a message. *)
OnlySenderRemoves ==
  [][\A m \in stored \ stored' :
       \E d \in Calls : /\ op[d] = "delete" /\ ref[d] = m /\ by[d] = by[m]
                        /\ pc[d] = "deleteOne"]_vars

(* Readers of conversations see what ConversationLog promises.               *)
Log == INSTANCE ConversationLog WITH
         Conversations <- Calls, Messages <- Calls,
         visible <- [c \in Calls |-> Visible(c)], latest <- lastActivity

LogSpec == Log!Spec

(* A message that is listed is announced to its room, unless its call fails. *)
ListedIsAnnounced ==
  \A m \in Calls : m \in posted ~> announced[m] # "no" \/ pc[m] = "failed"

(* The check of createNewConversation: every participant of a conversation   *)
(* is a user the user service knows.                                         *)
ParticipantsExist == \A c \in Conversations : members[c] \subseteq Accounts

(* The payload type of the send_message handler: every broadcast of a        *)
(* message carries its content.                                              *)
BroadcastHasContent == \A m \in Calls : announced[m] # "empty"

-----------------------------------------------------------------------------
(* The inductive invariant behind the safety properties.                     *)

BeforeWrite == {"idle", "checkReply", "uploadFile", "getCall", "createMessage",
                "findConversation", "openConversation"}

(* A call only awaits operations of its method, and from the moment it works *)
(* on a conversation, that conversation exists.                              *)
StepInv ==
  \A k \in Calls :
    /\ pc[k] = "idle" <=> op[k] = "none"
    /\ pc[k] \in SendSteps => op[k] \in Sends
    /\ pc[k] \in OpenSteps => op[k] = "create"
    /\ pc[k] \in DeleteSteps => op[k] = "delete"
    /\ pc[k] \in ReadSteps => op[k] = "get"
    /\ op[k] \notin {"none", "create"} \/ pc[k] \in SendSteps => conv[k] \in Conversations

(* A message is written, then listed, by its own call, in the conversation   *)
(* of that call; a posted message is listed there as long as it is stored.   *)
MessageInv ==
  \A m \in Calls :
    /\ pc[m] \in BeforeWrite \/ op[m] \notin Sends => m \notin stored \union posted
    /\ pc[m] = "pushMessage" => m \notin posted
    /\ pc[m] = "pushMessage" => m \in stored
    /\ pc[m] \in {"produce", "emit", "emitNew"} => m \in posted
    /\ m \in stored \ posted => pc[m] \in {"pushMessage", "failed"}
    /\ m \in posted => conv[m] \in Calls
    /\ m \in posted \intersect stored => m \in listed[conv[m]]
    /\ \A c \in Calls : m \in listed[c] => m \in posted /\ conv[m] = c
    /\ m \in queued \/ announced[m] # "no" => m \in posted

(* A deletion names a posted message of its conversation; past each of its   *)
(* operations, what that operation removed stays removed.                    *)
DeleteInv ==
  /\ \A d \in Calls : op[d] = "delete" =>
       /\ ref[d] \in posted
       /\ conv[d] = conv[ref[d]]
       /\ pc[d] = "deleteOne" => by[ref[d]] = by[d]
       /\ pc[d] \in {"pullMessage", "emitDelete", "done"} => ref[d] \notin stored
       /\ pc[d] \in {"emitDelete", "done"} => ref[d] \notin listed[conv[d]]
  /\ \A m \in Calls : Dangling(m) =>
       \E d \in Calls : /\ op[d] = "delete" /\ ref[d] = m
                        /\ pc[d] \in {"pullMessage", "failed"}
  /\ retracted \subseteq posted \ stored

(* What a reader could see when it called was posted in its conversation, and *)
(* stays in what it has read unless it is deleted.                            *)
ReadInv ==
  \A k \in Calls : op[k] = "get" =>
    /\ \A m \in before[k] : m \in posted /\ conv[m] = conv[k]
    /\ pc[k] \in {"populate", "done"} => before[k] \intersect stored \subseteq snap[k]

(* A conversation is opened by one create call, once, for its participants,  *)
(* none of the conversations that existed at the call having the same.       *)
ConversationInv ==
  \A k \in Calls :
    /\ members[k] = {} <=> lastActivity[k] = None
    /\ members[k] = {} => listed[k] = {}
    /\ members[k] # {} => op[k] = "create" /\ members[k] = wanted[k]
    /\ pc[k] \in {"idle", "findConversation", "openConversation"} => members[k] = {}
    /\ op[k] = "create" => wanted[k] # {} /\ before[k] \subseteq Conversations
    /\ op[k] = "create" /\ (pc[k] = "openConversation" \/ members[k] # {}) =>
         \A c \in before[k] : members[c] # wanted[k]

Inv == TypeOK /\ StepInv /\ MessageInv /\ DeleteInv /\ ReadInv /\ ConversationInv
====

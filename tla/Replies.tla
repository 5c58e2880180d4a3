---- MODULE Replies ----
(***************************************************************************)
(* What the handlers of controllers/app.controller.ts answer, and what the *)
(* serializer makes of the results of HTTP handlers, from what Requests    *)
(* has read.                                                               *)
(***************************************************************************)
EXTENDS Requests, Converter

(* An answer has up to seven levels, and what an HTTP handler returns has an *)
(* end somewhere.                                                            *)
ASSUME RepliesAssumption == Depth >= 6 /\ \A v \in HttpResults : IsValue(v)

-----------------------------------------------------------------------------
(* The documents that were read, as the database gives them.                 *)

(* {...f, ...g} *)
Spread(f, g) ==
  [k \in DOMAIN f \union DOMAIN g |-> IF k \in DOMAIN g THEN g[k] ELSE f[k]]

ArrayOf(F(_), S) == LET s == SetToSeq(S) IN Array([i \in DOMAIN s |-> F(s[i])])

(* What the user service answers has no empty field. *)
UserOf(u) ==
  IF u \in Accounts
  THEN Object([id |-> Text(u), name |-> Padded("Ann"), about |-> Object([quote |-> Text("hi")])])
  ELSE EmptyObject

PreviewOf(u) ==
  Object([_id |-> ObjectId("preview"), url |-> Text(u), title |-> Padded("A page")])

(* A message as the populated conversation holds it. *)
MessageOf(d) ==
  Object([_id |-> ObjectId(d.message), senderId |-> Text("ann"),
          body |-> IF d.kind = "IMAGE" THEN Text("photo_jpg_MESSAGE") ELSE Padded("hello"),
          contentType |-> Text(d.kind),
          mentions |-> Array(<<Object([_id |-> ObjectId("mention"), userId |-> Text("bob"),
                                       startIndex |-> Zero])>>),
          previewUrl |-> ArrayOf(PreviewOf, d.previews),
          replyInfo |-> Null,
          emojis |-> Array(<<Object([_id |-> ObjectId("emoji"), emoji |-> Text("like"),
                                     user |-> Text("bob")])>>),
          deleted_at |-> Null, createdAt |-> Date("then"), updatedAt |-> Date("then")])

(* Both methods take _id out of a message and put the two ids in as text. *)
WithIds(v) ==
  Object(Spread([k \in DOMAIN v.object \ {"_id"} |-> v.object[k]],
                [id |-> ConvertObjectIdToString(v.object["_id"])]))

Message(d) == WithIds(MessageOf(d))

ReadMessages(s) == ArrayOf(Message, s.messages)

Participants(s) == Array([i \in DOMAIN s.participants |-> UserOf(s.participants[i])])

ConversationOf(s) ==
  [_id |-> Text(s.conversation), id |-> Text(s.conversation), 
   type |-> Text(IF Len(s.participants) = 2 THEN "ONE_TO_ONE" ELSE "GROUP"),
   participants |-> Participants(s), lastActivity |-> Date("then"), createdAt |-> Date("then"),
   updatedAt |-> Date("then"), deleted_at |-> Null]

(* getUrlName: the parts of the key that the upload made. *)
AttachmentOf(d) ==
  Object(Spread(Message(d).object,
                [preview |-> MessageOf(d).object["body"], name |-> Text("photo"), type |-> Text("jpg")]))

PageOf(p) == PreviewOf(p[2])

Items(F(_), S) == Object([total |-> Number(Cardinality(S)), items |-> ArrayOf(F, S)])

(* The conversation a request for its detail read. *)
Only(S) == CHOOSE x \in S : TRUE

Detail(r) ==
  LET s == Only(seen[r])
  IN  Object(Spread(ConversationOf(s),
                    [messages |-> Map(ConvertToMessage, ReadMessages(s)),
                     attachments |-> Items(AttachmentOf, images[r]),
                     links |-> Items(PageOf, links[r])]))

DetailOf(r) == TrimObjectValues(Detail(r), NoOptions)

ListItem(s) == Object(Spread(ConversationOf(s), [messages |-> ReadMessages(s)]))

(* By their last activity, no two of which are at the same time. *)
Latest(S) ==
  LET times == {s.active : s \in S}
      n == Cardinality(times)
  IN  [i \in 1 .. n |-> CHOOSE s \in S : s.active = Nth(times, n + 1 - i)]

-----------------------------------------------------------------------------
(* The answers.                                                              *)

Metadata(code, message, error) ==
  Object([code |-> Text(code), message |-> Text(message), errMessage |-> Text(error)])

(* An error without a status of its own is "500", in quotes; findAllUsers    *)
(* misspells the name of its status.                                         *)
MetadataOf(r) ==
  CASE pc[r] = "done" -> Metadata("200", "OK", "")
    [] pc[r] = "notFound" -> Metadata("400", "User not found", "error")
    [] OTHER -> Metadata("'500'", "INTERNAL_SERVER_ERROR", "error")

DetailAnswer(r) ==
  Object([data |-> IF pc[r] = "done" THEN ConvertToConversation(DetailOf(r)) ELSE Undefined,
          metadata |-> MetadataOf(r)])

ListAnswer(r) ==
  LET found == IF pc[r] = "done" THEN Latest(seen[r]) ELSE <<>>
  IN  Object([conversation |->
                Array([i \in DOMAIN found |-> ConvertToConversation(ListItem(found[i]))]),
              total |-> IF pc[r] = "done" THEN Number(total[r]) ELSE Zero,
              metadata |-> MetadataOf(r)])

(* findAllUsers trims the friends and takes one from their number; lodash    *)
(* takes no friends for an empty list.                                       *)
FriendsAnswer(r) ==
  LET trimmed == TrimObjectValues(
                   TrimObjectValues(ArrayOf(UserOf, friends[r]), NoOptions), Serializer)
  IN  Object([onlineUsers |-> Map(ConvertToUser, trimmed),
              total |-> IF pc[r] = "done" THEN Number(Cardinality(friends[r]) - 1) ELSE Zero,
              metadata |-> MetadataOf(r)])

AllowanceAnswer(r) ==
  Object([isAllowed |-> Boolean(pc[r] = "done" /\ seen[r] # {}), metadata |-> MetadataOf(r)])

TokenAnswer(r) ==
  Object([token |-> IF pc[r] = "done" THEN Text("token") ELSE Empty,
          userId |-> Text(by[r]), conversationId |-> Text(target[r]), metadata |-> MetadataOf(r)])

AddAnswer(r) ==
  Object([conversationId |-> IF pc[r] = "done" THEN Text(target[r]) ELSE Empty,
          metadata |-> MetadataOf(r)])

Answer(r) ==
  CASE ask[r] = "detail" -> DetailAnswer(r)
    [] ask[r] = "list" -> ListAnswer(r)
    [] ask[r] = "friends" -> FriendsAnswer(r)
    [] ask[r] = "allowance" -> AllowanceAnswer(r)
    [] ask[r] = "token" -> TokenAnswer(r)
    [] ask[r] = "add" -> AddAnswer(r)
    [] ask[r] = "http" -> Serialize(result[r])

(* The declared answers. *)
IsAnswer(o, v) ==
  /\ CASE o = "detail" ->
            /\ HasFields(v, {}, {}, {"data", "metadata"})
            /\ v.object["data"] = Undefined \/ IsConversation(v.object["data"])
       [] o = "list" ->
            /\ HasFields(v, {}, {"total"}, {"conversation", "metadata"})
            /\ ListOf(IsConversation, v.object["conversation"])
       [] o = "friends" ->
            /\ HasFields(v, {}, {"total"}, {"onlineUsers", "metadata"})
            /\ ListOf(IsUser, v.object["onlineUsers"])
       [] o = "allowance" ->
            HasFields(v, {}, {}, {"isAllowed", "metadata"}) /\ IsBoolean(v.object["isAllowed"])
       [] o = "add" -> HasFields(v, {"conversationId"}, {}, {"metadata"})
       [] o = "token" -> HasFields(v, {"token", "userId", "conversationId"}, {}, {"metadata"})
  /\ IsMetadata(v.object["metadata"])

Answered(r) == pc[r] \in {"done"} \union Failures

-----------------------------------------------------------------------------
(* The encoder accepts every answer: the conversions leave no field of       *)
(* another type than the declared one, whatever was missing in the documents *)
(* and in what the user service answered, also after an error.               *)
AnswersHaveTheirType ==
  \A r \in Requests : Answered(r) /\ ask[r] # "http" => IsAnswer(ask[r], Answer(r))

(* The detail and the list convert a message by different ways, one of them  *)
(* twice and through the pipe: of what was read in one state they show the   *)
(* same messages and participants, but for blanks; and the detail shows and  *)
(* counts what was aggregated, no more and no less.                          *)
ViewsAgree ==
  \A r \in Requests : ask[r] = "detail" /\ pc[r] = "done" =>
    LET detail == Answer(r).object["data"].object
        item == ConvertToConversation(ListItem(Only(seen[r]))).object
        attachments == detail["attachments"].object
        linked == detail["links"].object
    IN  /\ \A k \in DOMAIN detail \ {"attachments", "links"} :
             detail[k] = Trims(item[k], NoOptions)
        /\ {v.object["id"].text : v \in ToSet(attachments["attachments"].array)} = Attached(r)
        /\ attachments["total"].number = Len(attachments["attachments"].array)
        /\ {v.object["url"].text : v \in ToSet(linked["links"].array)} = {p[2] : p \in links[r]}
        /\ linked["total"].number = Len(linked["links"].array)

(* An HTTP answer is clean at every depth: no password, no underscored key,  *)
(* nothing empty but arrays; and nothing is left for a second serializer.    *)
SerializedIsClean ==
  \A r \in Requests : ask[r] = "http" /\ pc[r] = "done" /\ IsJson(result[r]) =>
    /\ \A v \in Parts(Answer(r)) :
         /\ Is("object", v) => DOMAIN v.object \intersect ({"password"} \union Underscored) = {}
         /\ v # Answer(r) => ~IsRemove(v, Serializer)
    /\ IsJson(Answer(r)) => Serialize(Answer(r)) = Answer(r)
====

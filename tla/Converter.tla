---- MODULE Converter ----
(***************************************************************************)
(* utils/converter.ts: the objects of the database and of the user service *)
(* as the messages that gen/chat.service.ts declares.                      *)
(***************************************************************************)
EXTENDS TrimValues

NoFields == <<>>
Empty == Text("")
Zero == Number(0)
NoItems == Array(<<>>)

(* lodash get: the default stands for what is missing or undefined, not for  *)
(* null, and nothing is found in what is no object.                          *)
Get(v, k, default) ==
  IF Is("object", v) /\ k \in DOMAIN v.object /\ v.object[k] # Undefined
  THEN v.object[k] ELSE default

(* Texts and numbers that are taken over, by their names, and other fields.  *)
Converted(v, texts, numbers, others) ==
  Object([k \in texts \union numbers \union DOMAIN others |->
            CASE k \in DOMAIN others -> others[k]
              [] k \in numbers \ DOMAIN others -> Get(v, k, Zero)
              [] OTHER -> Get(v, k, Empty)])

Map(F(_), v) == Array([i \in DOMAIN v.array |-> F(v.array[i])])

(* new Date(), and what a date becomes: times that are texts are kept. *)
Now == Date("now")
IsoString(v) == IF Is("date", v) THEN Text(v.date) ELSE v

-----------------------------------------------------------------------------
AboutText == {"workRole", "company", "country", "school", "quote", "facebook", "twitter",
              "linkedin", "instagram"}
AboutNumbers == {"totalFollowers", "totalFollowing"}
UserText == {"id", "name", "avatar", "phoneNumber", "address", "location", "email", "gender",
             "status", "role"}
MentionText == {"userId", "displayName"}
UrlText == {"url", "thumbnailImage", "title", "description"}
Span == {"startIndex", "endIndex"}
EmojiText == {"emoji", "userId"}
ReplyText == {"messageId", "body", "senderName"}
MessageText == {"id", "senderId", "body", "contentType"}
AttachmentText == {"id", "preview", "senderId", "name", "type"}
ConversationText == {"id", "type"}

ConvertToUserAbout(v) == Converted(v, AboutText, AboutNumbers, NoFields)

ConvertToUser(v) ==
  Converted(v, UserText, {},
            [phoneVerifiedAt |-> Get(v, "phoneVerifiedAt", Null),
             emailVerifiedAt |-> Get(v, "emailVerifiedAt", Null),
             isPublic |-> Get(v, "isPublic", Boolean(FALSE)),
             about |-> ConvertToUserAbout(Get(v, "about", EmptyObject))])

ConvertToMention(v) == Converted(v, MentionText, Span, NoFields)

ConvertToUrl(v) == Converted(v, UrlText, Span, NoFields)

(* A variant of the operation that follows: the name the documents have. *)
ConvertToEmojiUser(v) == Converted(v, {"emoji"}, {}, [userId |-> Get(v, "user", Empty)])

(* The documents name the sender of an emoji user: its userId is empty. *)
ConvertToEmoji(v) == Converted(v, EmojiText, {}, NoFields)

ConvertToReplyInfo(v) ==
  Converted(v, ReplyText, {}, [isImage |-> Get(v, "isImage", Boolean(FALSE))])

-----------------------------------------------------------------------------
(* A variant of the operation that follows: the dates are left to the encoder. *)
ConvertToMessageDates(v) ==
  Converted(v, MessageText, {},
            [mentions |-> Map(ConvertToMention, Get(v, "mentions", NoItems)),
             previewUrl |-> Map(ConvertToUrl, Get(v, "previewUrl", NoItems)),
             emojis |-> Map(ConvertToEmoji, Get(v, "emojis", NoItems)),
             replyInfo |-> ConvertToReplyInfo(Get(v, "replyInfo", EmptyObject)),
             createdAt |-> Get(v, "createdAt", Now),
             updatedAt |-> Get(v, "updatedAt", Now)])

-----------------------------------------------------------------------------
ConvertToMessage(v) ==
  Converted(v, MessageText, {},
            [mentions |-> Map(ConvertToMention, Get(v, "mentions", NoItems)),
             previewUrl |-> Map(ConvertToUrl, Get(v, "previewUrl", NoItems)),
             emojis |-> Map(ConvertToEmoji, Get(v, "emojis", NoItems)),
             replyInfo |-> ConvertToReplyInfo(Get(v, "replyInfo", EmptyObject)),
             createdAt |-> IsoString(Get(v, "createdAt", Now)),
             updatedAt |-> IsoString(Get(v, "updatedAt", Now))])

ConvertToItem(v) == Converted(v, AttachmentText, {}, NoFields)

ConvertToAttachment(v) ==
  Converted(v, {}, {"total"}, [attachments |-> Map(ConvertToItem, Get(v, "items", NoItems))])

ConvertToLinks(v) ==
  Converted(v, {}, {"total"}, [links |-> Map(ConvertToUrl, Get(v, "items", NoItems))])

ConvertToConversation(v) ==
  Converted(v, ConversationText, {},
            [participants |-> Map(ConvertToUser, Get(v, "participants", NoItems)),
             messages |-> Map(ConvertToMessage, Get(v, "messages", NoItems)),
             lastActivity |-> IsoString(Get(v, "lastActivity", Now)),
             createdAt |-> IsoString(Get(v, "createdAt", Now)),
             updatedAt |-> IsoString(Get(v, "updatedAt", Now)),
             attachments |-> ConvertToAttachment(Get(v, "attachments", EmptyObject)),
             links |-> ConvertToLinks(Get(v, "links", EmptyObject))])

-----------------------------------------------------------------------------
(* The declared messages.  A text, number or boolean that is null is left    *)
(* out by the encoder; a list has no gaps.                                   *)
IsText(v) == Is("text", v) \/ Is("padded", v) \/ v = Null
IsNumber(v) == Is("number", v) \/ v = Null
IsBoolean(v) == Is("boolean", v) \/ v = Null

HasFields(v, texts, numbers, others) ==
  /\ Is("object", v)
  /\ DOMAIN v.object = texts \union numbers \union others
  /\ \A k \in texts : IsText(v.object[k])
  /\ \A k \in numbers : IsNumber(v.object[k])

ListOf(Type(_), v) ==
  /\ Is("array", v) /\ v.array \in Seq(ToSet(v.array))
  /\ \A i \in DOMAIN v.array : Type(v.array[i])

IsUserAbout(v) == HasFields(v, AboutText, AboutNumbers, {})

IsUser(v) ==
  /\ HasFields(v, UserText \union {"phoneVerifiedAt", "emailVerifiedAt"}, {}, {"isPublic", "about"})
  /\ IsBoolean(v.object["isPublic"])
  /\ IsUserAbout(v.object["about"])

IsMention(v) == HasFields(v, MentionText, Span, {})

IsUrl(v) == HasFields(v, UrlText, Span, {})

IsEmoji(v) == HasFields(v, EmojiText, {}, {})

IsReplyInfo(v) == HasFields(v, ReplyText, {}, {"isImage"}) /\ IsBoolean(v.object["isImage"])

IsMessage(v) ==
  /\ HasFields(v, MessageText \union {"createdAt", "updatedAt"}, {},
               {"mentions", "previewUrl", "emojis", "replyInfo"})
  /\ ListOf(IsMention, v.object["mentions"])
  /\ ListOf(IsUrl, v.object["previewUrl"])
  /\ ListOf(IsEmoji, v.object["emojis"])
  /\ IsReplyInfo(v.object["replyInfo"])

IsAttachment(v) == HasFields(v, AttachmentText, {}, {})

IsAttachments(v) ==
  /\ HasFields(v, {}, {"total"}, {"attachments"})
  /\ ListOf(IsAttachment, v.object["attachments"])

IsLinks(v) == HasFields(v, {}, {"total"}, {"links"}) /\ ListOf(IsUrl, v.object["links"])

IsConversation(v) ==
  /\ HasFields(v, ConversationText \union {"lastActivity", "createdAt", "updatedAt"}, {},
               {"participants", "messages", "attachments", "links"})
  /\ ListOf(IsUser, v.object["participants"])
  /\ ListOf(IsMessage, v.object["messages"])
  /\ IsAttachments(v.object["attachments"])
  /\ IsLinks(v.object["links"])

IsMetadata(v) == HasFields(v, {"message", "code", "errMessage"}, {}, {})
====

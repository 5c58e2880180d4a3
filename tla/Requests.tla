---- MODULE Requests ----
(***************************************************************************)
(* The requests that controllers/app.controller.ts handles, all but        *)
(* deletions, up to the awaited operations of the methods of               *)
(* services/chat.service.ts they call; Replies has the answers.            *)
(*                                                                         *)
(* A request is one run of a handler; one action is one awaited operation, *)
(* but for a message that is sent, whose parts ChatService has.  Between   *)
(* two of them messages are posted, deleted and crawled: here only what a  *)
(* reader can tell of that.  The order of messages and pages, which is     *)
(* that of the arrays in the documents, is left out.                       *)
(***************************************************************************)
EXTENDS FiniteSets, Integers, SequencesExt

CONSTANTS
  Requests,       \* the requests that are made
  Messages,       \* the ids of messages
  Conversations,  \* the ids of conversations
  Users,          \* the ids that participants can have
  Accounts,       \* the ids that the user service knows
  Lists,          \* who conversations are opened for: the caller, then the targets
  Urls,           \* the pages a message can show
  MaxCrawls,      \* bound: how often the crawler writes one message
  HttpResults,    \* the values that HTTP handlers return
  None            \* no user, no conversation, no value

(* Ids have twelve bytes, and a document has room for so much. *)
ASSUME RequestsAssumption ==
  /\ None \notin Users \union Conversations
  /\ \A S \in {Conversations, Messages, Accounts, Urls} : IsFiniteSet(S)
  /\ Accounts \subseteq Users
  /\ Lists \subseteq Seq(Users) \ {<<>>}
  /\ MaxCrawls \in Nat

VARIABLES
  kind,      \* message -> the contentType of its document, "none" without one
  previews,  \* message -> the pages in previewUrl of its document
  crawls,    \* history: how often previews was written
  members,   \* conversation -> the array participants, <<>> if it is not open
  listed,    \* conversation -> the ids in its array messages
  lastActivity,
  now,       \* the time
  pc,        \* request -> what it awaits
  ask,       \* request -> the handler
  by,        \* request -> the caller
  target,    \* request -> the conversation it names, found or opened
  wanted,    \* request -> the participants of the conversation it asks for
  total,     \* request -> the number of conversations it counted
  seen,      \* request -> the conversations it read
  images,    \* request -> the images aggregated
  links,     \* request -> the documents with a preview, unwound
  friends,   \* request -> what the user service gave
  result     \* request -> what the HTTP handler gave

storeVars == <<kind, previews, crawls, members, listed, lastActivity, now>>
askVars == <<ask, by, target, wanted>>
readVars == <<total, seen, images, links, friends, result>>
vars == <<storeVars, pc, askVars, readVars>>

Kinds == {"TEXT", "IMAGE"}
Handlers == {"detail", "list", "friends", "allowance", "token", "add", "http"}
Awaits == {"findOne", "aggregateImages", "aggregateLinks", "getUsers", "countDocuments", "find",
           "getFriends", "findAllowance", "genToken", "findExisting", "send", "create", "handle"}
Failures == {"failed", "notFound"}

Takes(u, c) == u \in ToSet(members[c])

Conversing(u) == {c \in Conversations : Takes(u, c)}

(* find ... populate: the listed messages that have a document. *)
DocumentOf(m) ==
  [message |-> m, kind |-> kind[m], previews |-> previews[m], crawl |-> crawls[m]]

Read(c) ==
  [conversation |-> c, participants |-> members[c], active |-> lastActivity[c],
   messages |-> {DocumentOf(m) : m \in {l \in listed[c] : kind[l] # "none"}}]

Init ==
  /\ kind = [m \in Messages |-> "none"]
  /\ previews = [m \in Messages |-> {}]
  /\ crawls = [m \in Messages |-> 0]
  /\ members = [c \in Conversations |-> <<>>]
  /\ listed = [c \in Conversations |-> {}]
  /\ lastActivity = [c \in Conversations |-> 0]
  /\ now = 0
  /\ pc = [r \in Requests |-> "idle"]
  /\ ask = [r \in Requests |-> "none"]
  /\ by = [r \in Requests |-> None]
  /\ target = [r \in Requests |-> None]
  /\ wanted = [r \in Requests |-> <<>>]
  /\ total = [r \in Requests |-> 0]
  /\ seen = [r \in Requests |-> {}]
  /\ images = [r \in Requests |-> {}]
  /\ links = [r \in Requests |-> {}]
  /\ friends = [r \in Requests |-> {}]
  /\ result = [r \in Requests |-> None]

-----------------------------------------------------------------------------
(* The writers. *)

IsListed(m) == \E c \in Conversations : m \in listed[c]

New(m) == kind[m] = "none" /\ ~IsListed(m)

Touch(c) == now' = now + 1 /\ lastActivity' = [lastActivity EXCEPT ![c] = now + 1]

OpenFor(a, c, m) ==
  /\ members[c] = <<>> /\ New(m)
  /\ members' = [members EXCEPT ![c] = a]
  /\ kind' = [kind EXCEPT ![m] = "TEXT"]
  /\ listed' = [listed EXCEPT ![c] = {m}]
  /\ Touch(c)
  /\ UNCHANGED <<previews, crawls>>

PostIn(k, c, m) ==
  /\ members[c] # <<>> /\ New(m)
  /\ kind' = [kind EXCEPT ![m] = k]
  /\ listed' = [listed EXCEPT ![c] = @ \union {m}]
  /\ Touch(c)
  /\ UNCHANGED <<previews, crawls, members>>

Open(c, m) == (\E a \in Lists : OpenFor(a, c, m)) /\ UNCHANGED <<pc, askVars, readVars>>

Post(c, m) == (\E k \in Kinds : PostIn(k, c, m)) /\ UNCHANGED <<pc, askVars, readVars>>

(* No reader can tell whether the id of a deleted message is still listed. *)
Delete(m) ==
  /\ kind[m] # "none"
  /\ kind' = [kind EXCEPT ![m] = "none"]
  /\ UNCHANGED <<previews, crawls, members, listed, lastActivity, now, pc, askVars, readVars>>

Crawl(m) ==
  /\ kind[m] = "TEXT" /\ crawls[m] < MaxCrawls
  /\ \E U \in (SUBSET Urls) \ {{}} : previews' = [previews EXCEPT ![m] = U]
  /\ crawls' = [crawls EXCEPT ![m] = @ + 1]
  /\ UNCHANGED <<kind, members, listed, lastActivity, now, pc, askVars, readVars>>

-----------------------------------------------------------------------------
(* A request arrives, and the first operation it awaits. *)
Ask(r, o, u, c, first) ==
  /\ pc[r] = "idle"
  /\ pc' = [pc EXCEPT ![r] = first]
  /\ ask' = [ask EXCEPT ![r] = o]
  /\ by' = [by EXCEPT ![r] = u]
  /\ target' = [target EXCEPT ![r] = c]
  /\ UNCHANGED <<storeVars, wanted, readVars>>

GetConversationDetail(r) ==
  \E u \in Users, c \in Conversations : Ask(r, "detail", u, c, "findOne")

GetRelatedConversations(r) == \E u \in Users : Ask(r, "list", u, None, "countDocuments")

GetOnlineUsers(r) == \E u \in Users : Ask(r, "friends", u, None, "getFriends")

CheckMeetingAllowance(r) ==
  \E u \in Users, c \in Conversations : Ask(r, "allowance", u, c, "findAllowance")

GetStreamToken(r) ==
  \E u \in Users, c \in Conversations : Ask(r, "token", u, c, "genToken")

AddNewConversation(r) ==
  \E a \in Lists :
    /\ pc[r] = "idle"
    /\ pc' = [pc EXCEPT ![r] = "findExisting"]
    /\ ask' = [ask EXCEPT ![r] = "add"]
    /\ by' = [by EXCEPT ![r] = Head(a)]
    /\ wanted' = [wanted EXCEPT ![r] = a]
    /\ UNCHANGED <<storeVars, target, readVars>>

HttpRequest(r) == Ask(r, "http", None, None, "handle")

Goto(r, from, to) == pc[r] = from /\ pc' = [pc EXCEPT ![r] = to]

(* The messages that a request read, and the ids of those still there. *)
Documents(r) == UNION {s.messages : s \in seen[r]}
There(r) == {m \in {d.message : d \in Documents(r)} : kind[m] # "none"}

-----------------------------------------------------------------------------
(* Variants of the operations that follow: mistakes the run must find.       *)

(* The $size is left out. *)
MatchesAnySize(a, c) == ToSet(a) \subseteq ToSet(members[c])

(* The $in is left out. *)
AggregateAllImages(r) ==
  /\ Goto(r, "aggregateImages", "aggregateLinks")
  /\ images' = [images EXCEPT ![r] = {DocumentOf(m) : m \in {l \in Messages : kind[l] = "IMAGE"}}]
  /\ UNCHANGED <<storeVars, askVars, total, seen, links, friends, result>>

(* A second preview is asked for: 'previewUrl.1'. *)
AggregateManyLinks(r) ==
  /\ Goto(r, "aggregateLinks", "getUsers")
  /\ links' = [links EXCEPT ![r] =
       {p \in There(r) \X Urls : p[2] \in previews[p[1]] /\ previews[p[1]] # {p[2]}}]
  /\ UNCHANGED <<storeVars, askVars, total, seen, images, friends, result>>

-----------------------------------------------------------------------------
(* getConversation: the conversation with its messages, two aggregations of  *)
(* these, and its participants.  Without a conversation the first            *)
(* aggregation cannot be built.                                              *)
FindOne(r) ==
  /\ \/ /\ Goto(r, "findOne", "aggregateImages")
        /\ Takes(by[r], target[r])
        /\ seen' = [seen EXCEPT ![r] = {Read(target[r])}]
     \/ /\ Goto(r, "findOne", "failed")
        /\ ~Takes(by[r], target[r])
        /\ UNCHANGED seen
  /\ UNCHANGED <<storeVars, askVars, total, images, links, friends, result>>

AggregateImages(r) ==
  /\ Goto(r, "aggregateImages", "aggregateLinks")
  /\ images' = [images EXCEPT ![r] = {DocumentOf(m) : m \in {l \in There(r) : kind[l] = "IMAGE"}}]
  /\ UNCHANGED <<storeVars, askVars, total, seen, links, friends, result>>

(* One document for each page of a message. *)
AggregateLinks(r) ==
  /\ Goto(r, "aggregateLinks", "getUsers")
  /\ links' = [links EXCEPT ![r] = {p \in There(r) \X Urls : p[2] \in previews[p[1]]}]
  /\ UNCHANGED <<storeVars, askVars, total, seen, images, friends, result>>

(* getAllRelatedConservation: the count, then the conversations. *)
CountDocuments(r) ==
  /\ Goto(r, "countDocuments", "find")
  /\ total' = [total EXCEPT ![r] = Cardinality(Conversing(by[r]))]
  /\ UNCHANGED <<storeVars, askVars, seen, images, links, friends, result>>

Find(r) ==
  /\ Goto(r, "find", "getUsers")
  /\ seen' = [seen EXCEPT ![r] = {Read(c) : c \in Conversing(by[r])}]
  /\ UNCHANGED <<storeVars, askVars, total, images, links, friends, result>>

(* An unknown participant is an empty object; only the list looks for it. *)
GetUsers(r) ==
  /\ Goto(r, "getUsers",
          IF ask[r] = "list" /\ \E s \in seen[r] : ~(ToSet(s.participants) \subseteq Accounts)
          THEN "notFound" ELSE "done")
  /\ UNCHANGED <<storeVars, askVars, readVars>>

(* No friends are decoded as an empty list or as nothing. *)
GetFriends(r) ==
  /\ \/ /\ Goto(r, "getFriends", "done")
        /\ \E F \in SUBSET Accounts : friends' = [friends EXCEPT ![r] = F]
     \/ Goto(r, "getFriends", "failed") /\ UNCHANGED friends     \* an errMessage
  /\ UNCHANGED <<storeVars, askVars, total, seen, images, links, result>>

FindAllowance(r) ==
  /\ Goto(r, "findAllowance", "done")
  /\ seen' = [seen EXCEPT ![r] = IF Takes(by[r], target[r]) THEN {Read(target[r])} ELSE {}]
  /\ UNCHANGED <<storeVars, askVars, total, images, links, friends, result>>

GenToken(r) ==
  /\ Goto(r, "genToken", "done")
  /\ UNCHANGED <<storeVars, askVars, readVars>>

(* createNewConversation: $size and $all find a conversation, which is sent  *)
(* the message; or a transaction opens one.                                  *)
Matches(a, c) == Len(members[c]) = Len(a) /\ ToSet(a) \subseteq ToSet(members[c])

FindExisting(r) ==
  /\ \/ \E c \in Conversations :
          /\ Goto(r, "findExisting", "send")
          /\ Matches(wanted[r], c)
          /\ target' = [target EXCEPT ![r] = c]
     \/ /\ Goto(r, "findExisting", "create")
        /\ \A c \in Conversations : ~Matches(wanted[r], c)
        /\ UNCHANGED target
  /\ UNCHANGED <<storeVars, ask, by, wanted, readVars>>

Send(r) ==
  /\ Goto(r, "send", "done")
  /\ \E m \in Messages : PostIn("TEXT", target[r], m)
  /\ UNCHANGED <<askVars, readVars>>

Create(r) ==
  /\ Goto(r, "create", "done")
  /\ \E c \in Conversations, m \in Messages :
       /\ OpenFor(wanted[r], c, m)
       /\ target' = [target EXCEPT ![r] = c]
  /\ UNCHANGED <<ask, by, wanted, readVars>>

Handle(r) ==
  /\ Goto(r, "handle", "done")
  /\ \E v \in HttpResults : result' = [result EXCEPT ![r] = v]
  /\ UNCHANGED <<storeVars, askVars, total, seen, images, links, friends>>

(* An operation fails and the handler catches its error. *)
Fail(r) ==
  /\ pc[r] \in Awaits
  /\ pc' = [pc EXCEPT ![r] = "failed"]
  /\ UNCHANGED <<storeVars, askVars, readVars>>

-----------------------------------------------------------------------------
Request(r) ==
  \/ GetConversationDetail(r) \/ GetRelatedConversations(r) \/ GetOnlineUsers(r)
  \/ CheckMeetingAllowance(r) \/ GetStreamToken(r) \/ AddNewConversation(r) \/ HttpRequest(r)

Step(r) ==
  \/ FindOne(r) \/ AggregateImages(r) \/ AggregateLinks(r) \/ CountDocuments(r) \/ Find(r)
  \/ GetUsers(r) \/ GetFriends(r) \/ FindAllowance(r) \/ GenToken(r)
  \/ FindExisting(r) \/ Send(r) \/ Create(r) \/ Handle(r)

Next ==
  \/ \E r \in Requests : Request(r) \/ Step(r) \/ Fail(r)
  \/ \E m \in Messages : Delete(m) \/ Crawl(m)
  \/ \E c \in Conversations, m \in Messages : Open(c, m) \/ Post(c, m)

Spec == Init /\ [][Next]_vars

-----------------------------------------------------------------------------
(* The type invariant. *)
Documented == [message : Messages, kind : Kinds, previews : SUBSET Urls, crawl : 0 .. MaxCrawls]

ReadSet ==
  [conversation : Conversations, participants : Lists, active : Nat, messages : SUBSET Documented]

TypeOK ==
  /\ kind \in [Messages -> Kinds \union {"none"}]
  /\ previews \in [Messages -> SUBSET Urls]
  /\ crawls \in [Messages -> 0 .. MaxCrawls]
  /\ members \in [Conversations -> Lists \union {<<>>}]
  /\ listed \in [Conversations -> SUBSET Messages]
  /\ lastActivity \in [Conversations -> Nat]
  /\ now \in Nat
  /\ \A c \in Conversations : lastActivity[c] = 0 <=> members[c] = <<>>
  /\ pc \in [Requests -> Awaits \union Failures \union {"idle", "done"}]
  /\ ask \in [Requests -> Handlers \union {"none"}]
  /\ by \in [Requests -> Users \union {None}]
  /\ target \in [Requests -> Conversations \union {None}]
  /\ wanted \in [Requests -> Lists \union {<<>>}]
  /\ total \in [Requests -> 0 .. Cardinality(Conversations)]
  /\ seen \in [Requests -> SUBSET ReadSet]
  /\ images \in [Requests -> SUBSET Documented]
  /\ links \in [Requests -> SUBSET (Messages \X Urls)]
  /\ friends \in [Requests -> SUBSET Accounts]
  /\ result \in [Requests -> HttpResults \union {None}]

(* getConversation aggregates the images and links after it has read the     *)
(* messages: an image or a page that was read is missing among those only if *)
(* the message was deleted, or crawled again, since; and they are of         *)
(* messages that were read.                                                  *)
Attached(r) == {d.message : d \in images[r]}

AggregatesMatch ==
  \A r \in Requests : ask[r] = "detail" /\ pc[r] = "done" =>
    /\ Attached(r) \subseteq {d.message : d \in {e \in Documents(r) : e.kind = "IMAGE"}}
    /\ \A p \in links[r] : \E d \in Documents(r) : d.message = p[1]
    /\ \A d \in Documents(r) :
         \/ kind[d.message] = "none"
         \/ /\ d.kind = "IMAGE" => d.message \in Attached(r)
            /\ crawls[d.message] = d.crawl => {d.message} \X d.previews \subseteq links[r]

(* createNewConversation answers with a conversation that everyone it was    *)
(* asked for takes part in, and nobody else, unless the targets repeat an id *)
(* or name the caller: then the number of participants is that of others.    *)
AddedIsWanted ==
  \A r \in Requests : ask[r] = "add" /\ pc[r] = "done" =>
    LET found == ToSet(members[target[r]]) IN
      /\ ToSet(wanted[r]) \subseteq found
      /\ IsInjective(wanted[r]) => found = ToSet(wanted[r])

-----------------------------------------------------------------------------
(* The inductive invariant, of which every part is checked by the run too.   *)

(* What is awaited belongs to the handler, and what the handler needs of the *)
(* request is there.                                                         *)
AskInv ==
  \A r \in Requests :
    /\ pc[r] = "idle" \/ ask[r] \in Handlers
    /\ pc[r] \in {"findOne", "aggregateImages", "aggregateLinks"} => ask[r] = "detail"
    /\ pc[r] \in {"countDocuments", "find"} => ask[r] = "list"
    /\ pc[r] = "getUsers" => ask[r] \in {"detail", "list"}
    /\ pc[r] \in {"findExisting", "send", "create"} => ask[r] = "add"
    /\ pc[r] = "getFriends" => ask[r] = "friends"
    /\ pc[r] = "findAllowance" => ask[r] = "allowance"
    /\ pc[r] = "genToken" => ask[r] = "token"
    /\ pc[r] = "handle" => ask[r] = "http"
    /\ pc[r] \in {"findOne", "findAllowance"} => target[r] \in Conversations
    /\ ask[r] = "add" => wanted[r] \in Lists

(* What a request has read when it is answered: a detail has one             *)
(* conversation, a list so many.                                             *)
ReadInv ==
  \A r \in Requests :
    /\ IsFiniteSet(seen[r])
    /\ ask[r] = "detail" /\ pc[r] \in {"aggregateImages", "aggregateLinks", "getUsers", "done"} =>
         \E s \in seen[r] : seen[r] = {s}
    /\ ask[r] = "http" /\ pc[r] = "done" => result[r] \in HttpResults

(* Only a conversation that is open lists messages. *)
ListedInv == \A c \in Conversations : members[c] = <<>> => listed[c] = {}

(* A message that was read keeps its place and its kind until it is deleted, *)
(* never to come back, and its pages until it is crawled again.              *)
Current(d) ==
  /\ IsListed(d.message)
  /\ kind[d.message] \in {d.kind, "none"}
  /\ d.crawl <= crawls[d.message]
  /\ d.crawl = crawls[d.message] => d.previews = previews[d.message]

SeenInv == \A r \in Requests : \A d \in Documents(r) : Current(d)

(* From either aggregation on, what it gave is what the messages called for. *)
ImagesInv ==
  \A r \in Requests :
    ask[r] = "detail" /\ pc[r] \in {"aggregateLinks", "getUsers", "done"} =>
      /\ Attached(r) \subseteq {d.message : d \in {e \in Documents(r) : e.kind = "IMAGE"}}
      /\ \A d \in Documents(r) :
           d.kind = "IMAGE" => kind[d.message] = "none" \/ d.message \in Attached(r)

LinksInv ==
  \A r \in Requests : ask[r] = "detail" /\ pc[r] \in {"getUsers", "done"} =>
    /\ \A p \in links[r] : \E d \in Documents(r) : d.message = p[1]
    /\ \A d \in Documents(r) : crawls[d.message] = d.crawl =>
         kind[d.message] = "none" \/ {d.message} \X d.previews \subseteq links[r]

(* A conversation keeps the participants it was found or opened for. *)
AddInv ==
  \A r \in Requests : ask[r] = "add" /\ pc[r] \in {"send", "done"} =>
    target[r] \in Conversations /\ Matches(wanted[r], target[r])

Inv ==
  TypeOK /\ AskInv /\ ReadInv /\ ListedInv /\ SeenInv /\ ImagesInv /\ LinksInv /\ AddInv
====

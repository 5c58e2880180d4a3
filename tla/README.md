# Verification of be-chat-service

The chat service is a NestJS application: clients talk to it over gRPC (through
a gateway), HTTP and socket.io; it keeps conversations, messages and reactions
in MongoDB, caches and socket broadcasts in Redis, jobs in Kafka, files in S3
and calls in Stream. Several instances may run. Within an instance one
JavaScript thread runs handlers; at every `await` any other handler of this or
of another instance may run. That is where the behaviours that are hard to test
come from, and what the modules here are about.

This directory holds TLA+ modules of the service, TLC configurations that check
them, and proofs for TLAPS of what holds for instances of any size.

## Inventory

Paths are below `src/src/`.

| Component | State | Operations | Interacts with |
|---|---|---|---|
| **chat service** `services/chat.service.ts` | collections `messages` (documents), `conversations` (`participants`, `messages`, `lastActivity`), `emojis` | send, upload, meeting, new conversation, delete, read, list, react | MongoDB, user service (gRPC), producer, S3, Stream; emits events in its own instance |
| **chat gateway** `gateways/chat.gateway.ts` | sockets, rooms | connect and disconnect, five client messages, four events | chat service, Redis adapter |
| **socket adapter** `adapters/redis.adapter.ts` | handshake of a socket | token middleware | auth service (gRPC), Redis |
| **transactions** `domains/transaction.domain.ts` | session | start, commit, abort | MongoDB |
| **producer** `queue/base/producer.base-queue.ts` | none | produce; errors are logged only | Kafka |
| **consumer** `queue/base/consumer.base-queue.ts` | map of consumers, offsets | run, commit | Kafka, crawler, stream sync |
| **crawler** `queue/craw-url.queue.ts`, `services/message.service.ts` | preview cache | crawl, update with retries, event | Redis, the web, MongoDB |
| **stream sync** `queue/sync-stream-user.queue.ts` | none | upsert with retries | Stream |
| **sessions** `services/session.service.ts` | session documents, two cache entries, a set per user, black lists | gen, delete, verifySession, verifyToken | MongoDB, Redis |
| **authentication** `services/auth.service.ts`, `user.service.ts`, strategies, guards | users | register, login, logout | sessions (not wired into `AppModule`) |
| **cache and locks** `domains/cache.domain.ts` | locks | withLock | Redlock (called by nothing yet) |
| **key pairs** `constraints/jwt.constraint.ts` | four files, the keys in memory | generate or read, when loaded | file system, signing of tokens |
| **trimming and conversion** `pipes/trim-object-value.pipe.ts`, `utils/converter.ts`, `utils/helper.ts`, the serializer | none | pure functions | answers of the service |
| **gRPC and HTTP controllers** `controllers` | none of their own | one call of a service each, answers with metadata | chat service, Stream |
| **notifications gateway**, **S3**, **repositories**, configuration, generated code | none of their own | forwarding | |

What is hard in them, and what makes each correct:

* *Chat service.* Methods are sequences of awaited operations without a
  transaction, except opening a conversation and reacting. Calls interleave, and
  an operation may fail, or succeed with its answer lost, or the process may stop,
  after which nothing more runs and nothing is undone. Correct means: documents
  and the arrays that list them agree up to calls in flight or cut off; a
  confirmed deletion is final; only a sender removes; a conversation is not
  opened twice by calls that do not overlap; nobody is told of what is not
  stored; what is listed gets announced; a read misses nothing but what was
  deleted meanwhile.
* *Reactions.* The lookup is outside the transaction that acts on it. Correct
  means: the two collections never disagree; a user's toggles that do not
  overlap leave one reaction at most and a view that equals what is stored;
  transactions end.
* *Rooms.* A socket gets into a room by the list read when it connects or by the
  event of a new conversation, and the two race. Correct means: no stranger and
  no closed socket in a room; a participant of the creating instance is not
  missed; only the creator is redirected.
* *Queue.* Swallowed errors, redelivery, offsets that pass a failed job, caches
  filled twice. Correct means: a committed offset passes only jobs that some
  handler finished; a preview is lost only with a logged error, and is stored and
  shown whole; every job in a partition is handled in the end.
* *Sessions.* A cache beside a database and black lists, written in no common
  transaction; a logout races verifications that write cache entries back;
  entries, documents and tokens have lifetimes of their own. Correct means: after
  a confirmed logout no token of the session is accepted; nothing is accepted
  after its session; no token is refused without a reason; collection and black
  list agree about a session that is over.
* *Locks.* A lock is a value in Redis with a lifetime, held by a function that
  does not know of it, and extended by a timer that may fire late or fail.
  Correct means: no two callers have a key within the time Redis granted it;
  nobody loses a key but to time or to its own release; a key does not stay
  taken.
* *Keys and accounts.* Files are looked for, generated and read back by processes
  that start together or stop in between; an email is looked up before the user is
  created, and the unique index comes later. Correct means: what one process
  signs every other accepts; an email has one account; a login lets in whom it
  should.
* *Answers.* A view is put together from several queries, trimmed and converted,
  by two ways that should agree; missing parts get defaults. Correct means: the
  parts of an answer agree, it has the declared type, and HTTP results carry
  nothing they should not.

All hazards are listed, each with its line and the properties that cover it, in
`PROJECT.json`. A hazard without a property has a note: where the code promises
nothing (a job that Kafka never got, a token banned by any error, what a
failed registration leaves), the event is in the model, and no property forbids it.

## Modules

| Module | Role | State |
|---|---|---|
| `ConversationLog` | abstract specification: what readers of conversations see | |
| `ChatService` | the service methods, one action per awaited operation | refines `ConversationLog` |
| `MCChatService` | the order of calls in its run | |
| `ChatServiceProofs` | theorems about `ChatService` | |
| `EmojiReaction` | reactions: lookup, transaction, broadcast | refines `ReactionLog` |
| `ReactionLog` | abstract specification: what readers see of reactions | |
| `MCEmojiReaction`, `EmojiReactionProofs` | bound of its run; theorems | |
| `Rooms` | sockets, instances, rooms | |
| `MCRooms`, `RoomsProofs` | symmetry and bound of its run; theorems | |
| `CrawlQueue` | producer, partitions, consumer group, crawler, stream sync | |
| `Session` | login, logout and verification over collection, caches and black lists | |
| `MCSession`, `SessionProofs` | order, pace and symmetry of its runs; theorems | |
| `MCCrawlQueue`, `CrawlQueueProofs` | addresses and symmetry of its runs; theorems | |
| `RedisLock` | withLock: acquisition, timer, extension, release, time | |
| `MCRedisLock`, `RedisLockProofs` | bounds of its run; theorems | |
| `KeyPair` | key files as processes find, make and read them | |
| `Accounts` | register and login, on top of `KeyPair` | extends `KeyPair` |
| `MCAccounts`, `AccountsProofs` | bounds of its run; theorems about both | |
| `TrimValues` | JSON values, `trimObjectValues`, the serializer | pure |
| `Converter` | the converters and the types they must produce | pure, extends `TrimValues` |
| `Requests` | the handlers up to their awaited operations, and the documents beside them | |
| `Replies` | what the handlers answer from what they read | extends `Requests`, `Converter` |
| `MCReplies`, `RepliesProofs` | HTTP results and bounds of its run; theorems about `Requests` and `Replies` | |

### ChatService

A *call* is one run of a service method for one user. It creates at most one
message and one conversation, so documents are named by the call that created
them. `pc` is the operation a call awaits; one action is that operation with the
synchronous code up to the next `await`. So `sendMessageToConversation` is
`CheckReply` (for replies), `CreateMessage`, `PushMessage`, `Produce` and the
caller's `Emit`; uploads and meetings go through `UploadFile` and `GetCall`
first and meetings skip Kafka; `createNewConversation` is `FindConversation`,
then either the same send or `OpenConversation` (one transaction) and `EmitNew`;
`deleteMessage` is `FindMessage`, `DeleteOne`, `PullMessage`, `EmitDelete`;
`getConversation` is `ReadIds` and `Populate`. `Fail` ends a call anywhere: a
failed operation, a lost answer (the operation was applied and the next one
fails) and a stopped process are all it, seen from the data.

`stored` is the collection of messages, `members`, `listed` and `lastActivity`
that of conversations, `queued` the jobs in Kafka, `announced` and `retracted`
what the room was told. `posted`, `before`, `wanted` hold history or arguments. A
user, a text, a file are abstracted to what the code tells apart; names of
messages and conversations that clients send are those they were shown.

`Visible(c)`, the listed ids that have a document, is what `populate` returns;
mapped to `visible` of `ConversationLog` it makes every step of the service one
of the log or no step at all (`LogSpec`): messages appear with the `$push`,
disappear with the `deleteOne`, and never come back.

### EmojiReaction

A call is one `send-emoji`. `FindEmoji` reads what is committed, outside the
session. `WriteEmoji` takes the snapshot and either locks the emoji it deletes
or creates one; `WriteMessage` locks the message, or matches nothing if it was
deleted; both are refused when another transaction holds the document or has
changed it since the snapshot (`stale`), and then only `Abort` is left. `Commit`
makes both visible, `CommitUnanswered` too but the method returns false, as after
`Abort`. `Emit` broadcasts. `Crash` drops the call and its locks. `DeleteMessage`
is the `deleteOne` of the other method, which waits for the lock. `tangled`
collects, as history, the pairs of user and message with overlapping or failed
toggles, the only ones for which the view may be wrong.

Readers see the array of a message that is not deleted; mapped to `reactions` of
`ReactionLog`, with the calls that are before or in their transaction as `open`,
every step of the service is one of that specification or none (`ReactionSpec`): a
toggle takes effect once or never, in one step, adds a reaction of its user or
takes one back, and adds only if nothing is left of what that user had when the
toggle was made. `known`, as history, is what that was.

### Rooms

`Admit` is a socket that passed the token middleware; `CountDocuments`,
`FindDocuments`, `LoadUsers` are the awaits of `handleConnection`, the last with
the joins. A disconnected socket's handler goes on, its joins have no effect. An
error there is nobody's to handle and stops the instance (`Reject`), as does
`Stop`. `Open` commits a conversation, `Announce` is the handler of
`conversation.new` on the instance that committed; between them lies an `await`.
`Unanswered` is a commit whose answer is lost, after which no event is emitted.
Which of several sockets of the creator is redirected is left open (the code
takes the last in the order of connection). The room `general` is left out: it
is joined together with the others, and nothing is sent to it.

### CrawlQueue

A *run* is one delivery of a job to `eachMessage`; `step` is where it is, `by`
the consumer that has it. `log` is what Kafka holds of each topic (one partition
each), `committed` the offsets of the group, `owner`, `members` and `position`
what the group and its consumers know of the assignment. `Deliver` hands the next
job of a partition to its owner if that is idle; `position` moves on whatever
becomes of the job, because `eachMessage` catches every error.

`crawWebData` handles the addresses of a message side by side, so each address of
a run has a step of its own in `fetch`: `Hit`, or `Miss`, `Crawl` and `Save`, or
`FetchFails`, which fails the job while the other addresses go on. When all are
done, `UpdateMessage` or up to `MaxRetries` times `UpdateFails` (each of which may
have been applied), then `Emit` and `Commit` or `CommitFails`. The last failed
attempt goes on to `Emit`, as the code does. `SyncUser` and `SyncFails` are the
other handler. `Expire` drops a cache entry, `DeleteMessage` is the removal by
the chat service.

`ConsumerService` starts one consumer per topic but subscribes each to both, so
the partition of a topic may belong to either; commits go through the one
registered under the topic, in the same process, and are refused unless that one
is a member of the group. `Rebalance` ends a generation: consumers at work are
left out, the others get the partitions, from the committed offsets. That a
handler goes on afterwards and commits later is where offsets move back; the
history variable `outlived` remembers such a handler. `Stop`
ends a process with all its runs. A consumer that has no registration yet is one
whose commits fail.

Left out: that a rebalance waits for handlers that end in time needs no action of
its own, since a rebalance after their commit is the same; and the partitions of
a topic share nothing but the cache.

### Session

A *call* is one run of `gen` (with which `login` and `register` end), of
`verifySession` as the two strategies call it, of `verifyToken`, or of `logout`,
which its guard lets through to `delete` when `verifySession` accepts the access
token. `pc` is what it awaits. `gen`, `delete` and the end of an expired session
start several operations with `Promise.all`: they are in `todo`, and each is an
action of its own, in any order but that of one connection (`Before`). The last
answer or the first error lets the call go on; after an error what was started
goes on without it. `Take` is such an operation with or without its answer,
`OperationFails` one without effect. `Fail` is the error of a single awaited
operation, again with or without effect, `Stop` the end of the process with what
it has not sent. `verifyToken` catches every error and bans the token (`Catch`).

`documents`, `expiresAt` and `issued` are the collection, `blackSessions` and
`blackTokens` the sets in Redis, `cache` the entries with the time they last to.
The code asks for a cache manager without saying what is behind it: a store all
instances share is `Caches` with one element, memory of each instance one element
each. `Cached` and `Until` are the cache manager's `get` and `set`, for which a
lifetime of 0 is none (`Never`). `past` is history: what was over when the call
began, a confirmed logout, the session, the token.

Time is counted in units that are long beside an operation: `Tick` waits for calls
that are about to write an entry whose lifetime was computed already. A clock that
moves on by a millisecond between `isExpired` and `Date.now()` is therefore not
distinguished from the instant of expiry itself. Left out: the Redis set of a
user's sessions, which nothing reads; users and passwords; the role checked after
`verifySession`; a session document whose user is gone.

### RedisLock

A *caller* is one run of `withLock`. `Begin` takes its keys; `Acquire` is the
script of Redlock, which sets all keys or none, and refuses at once: the options
for retries are read under `redis_lock` (cache.domain.ts:69) while the
configuration has `redisLock` (libs/config/index.ts:129), so there are none.
`AcquireFails` is an error before or after the script ran, after which Redlock
releases what it may have set (`GiveUp`). `Answer` starts the timer and the
function, `Finish` ends them, `Release` deletes the keys that still hold the
caller's value. `Tick` is time, for the keys (`left`), for the timer and for what
the lock object believes (`lock`); a timer may fire late.

`Fire` sends an extension if the lock object has not expired. `Extend` is its
script. In Redlock 5 it returns a new lock object and marks the old one as
expired; `withLock` drops the new one, so the next `Fire` fails without asking
Redis and clears the timer. A function that runs longer than about four thirds of
the lifetime therefore has no lock any more and is not told. `promised`, as
history, is what Redis granted the caller at the last acquisition or extension.

### KeyPair and Accounts

`KeyPair` is `generateKeyPair`, run twice when its module is loaded. Each check,
creation, write and read of a file is an action, because a process that stops or
another that looks may find a file that is missing or empty (`Blank`). `raced`
and `torn` collect, as history, the types of token whose keys two processes
generated or looked at together, and those whose public key a process stopped in
writing: an empty public key is read for good, since only existence is checked.
`KeysMatch` is about the other types.

`Accounts` adds `register` and `login` on the processes that have started. A call
is named by its number and is also the user it creates. `IsTakenEmail` and
`CreateUser` are two operations; the hash is made by the `save` hook. The unique
index is built by Mongoose when it has connected, which no operation waits for
(`BuildIndex`), and it is not built when there are duplicates already. `Gen`
signs both tokens with what the process has in memory; what becomes of them is
`Session`. `Fail` undoes nothing: a registration that fails in `gen` leaves its
user. `before` is history: the users there were when the call began.

### TrimValues, Converter, Requests and Replies

A JSON value is a record with its kind; a text is a name, a padded one has blanks
around it, so that trimming can be seen. `Level` lists what is in a value by how deep
it is, and `IsValue` asks that this ends within the bound `Depth` and that arrays have
no gaps: what JavaScript gives, circular values apart, which `isJson` turns away.
`Trimmed` is one call of `trims`, given what the calls for the parts make; `Trims`, the
recursion of `trimObjectValues` with its options, is the function on the parts of a
value that conforms to it. It is a function and not a recursive operator so that it
can be proved about. `Serialize` is what the interceptor does to HTTP results (gRPC answers do not pass it: `connectMicroservice` is called without
`inheritAppConfig`). `Get` is lodash's, whose default stands for what is missing
but not for null. The types in `Converter` are those `gen/chat.service.ts`
declares; `HasFields` and `ListOf` are what the gRPC encoder accepts, where a null is
left out. `Converted` is what all converters are made of: fields that are taken over
with an empty default, and other fields that the converter makes itself.

In `Requests` a *request* is one run of a handler of `AppController`, and `pc` the
operation it awaits. The detail reads the conversation (`FindOne`), then aggregates
images, then links, then asks for the participants; the list counts, then reads;
`AddNewConversation` looks for the participants with `$size` and `$all` on an
array that may repeat an id, and sends to what it found or opens a conversation.
`Open`, `Post`, `Delete` and `Crawl` are what others do to the documents meanwhile,
each as the one step it is for a reader: that sends and deletions are no more to
a reader is what `ChatService` shows by implementing `ConversationLog`. `seen`,
`images` and `links` are what was read. `participants` is a sequence here, where
`ChatService` has a set; messages and pages are sets, since their order is that of
the arrays in the documents and no handler changes it; only the list is sorted,
by `lastActivity`. The deletion is left to `ChatService`, whose answer has only the
id it was given.

`Replies` makes the answers of what was read: `DetailAnswer`, `ListAnswer` and so
on convert and trim as the service and the handler do, in the same order.

Four things this shows that are nobody's promise to keep, so that no finding is
made of them: `convertToEmoji` reads `userId` where documents have `user`, so the
sender of a reaction is always empty; `findAllUsers` counts one less than it
lists, so −1 for nobody; one participant the user service does not know makes the
whole list fail, where the detail shows an empty user; and a request that names
the caller among the targets, or repeats an id, can find a conversation of others.

## Runs

| Run | Instance | Shows |
|---|---|---|
| `chat_calls` | 3 calls of any method, 2 users, fair | the inductive invariant, no duplicate conversation without overlap, order of writes and publications, who may remove, agreement of the collections, finality of deletions, completeness of reads, refinement of the log, and that what is listed gets announced |
| `chat_unknown_participant` | 2 users, one unknown to the user service | finding: the check never refuses anybody |
| `chat_broadcast_content` | 2 calls | finding: a message sent by opening an existing conversation is broadcast without content |
| `emoji_toggles` | 3 toggles, 2 users, 1 message, fair | agreement, races, views, refinement of the log of reactions, ends of transactions |
| `rooms` | 2 sockets, 2 instances, 2 conversations, 2 accounts and an unknown user | membership of rooms, redirection, counts |
| `crawl_pages` | 1 message with 2 addresses, 2 page contents, 3 deliveries, 1 process | previews are whole; what is shown is stored, after redeliveries and failed updates too; lost previews are logged |
| `crawl_offsets` | 2 sync jobs, 4 deliveries, 1 process, fair | offsets pass handled jobs only and move back for one reason only; every job is handled |
| `session` | 3 calls, 1 session, 2 caches, one error or stop, lifetimes of 1 and 2 in 3 units of time | finality of logout, reasons of refusals, agreement of collection and black list, expiry |
| `session_access_token` | a login and one verification | finding: an access token outlives its lifetime |
| `redis_lock` | 3 callers, one of which locks both of 2 keys, lifetime 3, any may fail or stop, fair | exclusion, how a lock is lost, that a key is freed |
| `accounts` | 2 calls, 2 processes, 3 key pairs, 1 email, 2 passwords | the inductive invariant and with it who is let in; unique emails; tokens accepted by every process |
| `replies` | 1 request, 2 messages, 2 conversations, a known and an unknown user, 2 pages | the inductive invariant; parts of an answer agree; answers have their declared type; two views agree; participants of a new conversation; clean HTTP results |

The inductive invariants of `EmojiReaction`, `Rooms`, `CrawlQueue`, `Session` and
`RedisLock` are proved and are in no run, but the properties that follow from them are, since
each of those speaks of the code by itself.

Bounds. Two overlapping calls and one that precedes or follows them are three
calls; each additional call repeats a situation, and the proofs cover any number.
In `chat_calls` the calls begin in their order and ann makes the first (`InOrder`),
which loses nothing, as calls and users are alike.
Three toggles are two that race and one that meets their outcome; reactions to
different messages share nothing but the emoji collection. In `rooms` two sockets on the
same or on different instances cover every race of query, commit and event for
one of them and the reconnection of the other; `Bounds` keeps one instance up
and conversations to two participants.

In the crawl runs one process has two consumers, which suffices for an owner that
is not the one commits go through, and for a handler that outlives the loss of its
partition while the other consumer handles the same job. `MaxUpsets = 1` lets one
process stop or one partition be taken from a live owner, after which the group
still recovers freely; three deliveries of one job are more than it can need. `MaxRetries`
is 2 instead of the code's 3: there is a failed attempt that is not the last, and
one that is. `crawl_pages` has two contents, so that a page can change between two
crawls, and one message: a second one, with its own document, meets the first in the
cache and in the offsets only. That the commit of a later job passes a failed one, and
that jobs share the cache, is left to `crawl_offsets` and to the theorems. `crawl_offsets` uses jobs of the synchronisation, because the order of
deliveries is the same for both topics and the handler is shorter, and four
deliveries for two jobs: the upset repeats at most the two.

In `session` the first call makes the session, and the others are a logout and a
verification, or two verifications, at every relative time; with two caches an
entry survives on one what is dropped on the other. Time goes one unit beyond
the longer lifetime. `InOrder` lets the session be logged out once, and `Leisurely`
lets time begin with the login and pass while one call at most awaits something,
and nothing that was started together is open. A verification that writes its
entry back over a logout, and a third that begins afterwards, would be four calls
with the login: that is beyond the run and is what the theorem `LogoutFinal` covers.

In `redis_lock` the lifetime is three intervals of the timer, as in the code; a
third caller meets keys that the first lost and the second took. `Bounds` lets the
callers begin in the order of their numbers, the first with both keys and the others
with one and the same key; any of them may fail or stop. In `accounts` two calls race
for one email, or one registers and the other logs in, with the right or with
another password; two processes meet at the key files, and three pairs allow one
to be generated twice. Its `Bounds` makes calls only where the keys of both types are
intact, and lets a process load keys during a call only while no operation of that
call is awaited. In `replies` the stored documents are read by one request
at a time: requests share nothing but the database, whose changes by others are
actions of their own. `Depth` is 6, for the seven levels of an answer; HTTP results have
four levels at most, with parts that are empty, become so or are excluded below one
another. `Bounds` says which combinations of documents and requests
are left out, because they differ in nothing the answers show.

Fairness. `FairSpec` asks that each awaited operation settles, with a result or
an error, because the drivers of MongoDB, Kafka and gRPC time out; it asks
nothing of clients and never that something fails. A call's own step is fair, not
each action, so an error is always an acceptable answer. For the queue it asks
besides that the group assigns partitions nobody owns and that an idle owner gets
what is in its partitions, which is what Kafka's coordinator and the fetch loop of
kafkajs are for; it asks nothing of the producer, of expiry or of stops. For locks it
asks that time passes and that what was sent to Redis is settled, but not that a
function under a lock ever ends.

Runs end in a state where all calls have ended; `Quiet` allows it to go on for
ever there, so that any other deadlock is reported (so does `Quiet` of `Session`,
when no started operation is left either). The crawl runs switch the
check off: with every job handled and the deliveries used up nothing is left to do;
so does `replies`, when its request is answered and every name is used.

## Proofs

`ChatServiceProofs` proves for any sets of calls and users, assuming only that
`None` is not a call and that accounts are among the users:

* `Invariance`: `Inv` is inductive. `StepInv` says what a call at a step has done
  and knows; `MessageInv` where a message's id and document may be, by the step
  of its call; `DeleteInv` and `ReadInv` what deletions and reads rely on;
  `ConversationInv` when a conversation exists. The properties themselves are not
  inductive: that a dangling id belongs to a deletion, for instance, rests on a
  deletion only reaching `PullMessage` with the document gone, which rests on ids
  never being used twice.
* From it `CollectionsAlwaysAgree`, `NoUnseenDuplicate`, `DeleteIsFinal`,
  `WriteBeforePublish`, `CompleteReads`, the action property `RemovalBySender`,
  and `ImplementsLog`: each step maps to one of `ConversationLog` or to none.

`EmojiReactionProofs` proves `WritesAreOne` and `SecondReactionIsARace` for any
calls, users and messages. `LockInv` ties locks to open transactions, and says that
a call about to commit holds its message or the message is gone; `EmojiInv` that
the array and the documents agree and that a call finds only emojis of its own
user and message; `RaceInv` that a call which creates had found nothing of what
existed when it was made. `SettledViewMatches` rests on `ViewInv`: of a user and a
message outside `tangled` there is at most one reaction and one call in flight, and
that call knows from its lookup to its broadcast what is stored, because nobody else
can change it. `ImplementsLog` maps each step to one of `ReactionLog` or to none; a
commit adds, takes back or misses, by what `LockInv`, `EmojiInv` and `RaceInv` say of
the call that commits.

`RoomsProofs` proves `NoStranger`, `NobodyMissed`, `CreatorRedirected` and
`ListCovered` for any sockets, instances and users and finitely many
conversations. The heart is `JoinInv`: an open socket of the creating instance
outside the room of an announced conversation has its query still to come, or
has the conversation among its items.

`CrawlQueueProofs` proves `NothingSkipped`, `LossIsLogged`, `PreviewsAreWhole`,
`ShownIsStored` and the action property `BackOnlyAfterTimeout` for any processes, deliveries, jobs and
addresses, from the assumptions that the two kinds of jobs are disjoint and that
`None` is no content, preview or consumer. `PrefixInv` is the heart: behind
whatever was delivered, and behind what an owner is past, every job was handled,
except the one the owner works on; a commit, which names the offset of its own
delivery, then passes handled jobs only, and so does the next owner that starts
there. It needs `SerialInv`, that a consumer has one job at a time. `OwnerInv`
says that without a rebalance that left a busy consumer out only the owner has a
run of its partition, so that commits only move forward. `DataInv` follows what a
handler has got for its addresses up to the stored preview. For `ShownIsStored`,
`CurrentInv` says that a run which no rebalance passed over is of the job its owner
was last given, so that with `SerialInv` a partition has one such run in progress,
however many deliveries there were; `StillInv` that a run which was stopped, or has
tried to store, gets nothing more from its addresses. `ViewInv` then says that what is
shown and what is stored agree (`Agreed`, with its two exceptions), or that a handler
is about to show what it has stored, and that whatever emits has stored its preview or
failed its last attempt.

`SessionProofs` proves `LogoutIsFinal`, `RefusalHasReason`, `DeletedIsBanned` and
`ExpiredIsRefused` for any calls, sessions, caches and lifetimes, from the
assumptions that an access token lives at least a day and no longer than a refresh
token, and that `None` and `Never` are no values. None of the four is inductive.
`BanInv` says that a call which ends a session has the ban under way, done or
failed, so that an answer without error means it is done, and that who begins
afterwards gets no further than the black list; entries of caches play no part,
which is why writing them back does no harm. `EndInv` follows bans and deletions
back to a logout, to expiry or to an error. `EntryInv` bounds every entry by the
`expiresAt` of its session. Most of the proof goes through three facts about a
call: what it keeps (`Keeping`), where it comes from when it moves (`Moving`), and
what it is given when it begins (`Starting`).

`RedisLockProofs` proves `Exclusive` and the action property `LostByTimeOrOwner` for
any callers, keys and lifetimes of three intervals. `HoldInv` ties what a caller
holds to what Redis promised it: all keys it wants for as long as the promise
lasts, and none afterwards; `CallInv` says which callers may hold anything.

`AccountsProofs` proves `KeysMatch` of `KeyPair` for any processes and pairs. `MeetInv` makes two
processes at the files of one type, one of which generates, a race; `FileInv` then
lets the public key appear only behind its private key, and `LoadInv` ties what
was read to the files. `TokensAccepted` builds on it, for a step of `Accounts` is a
step of `KeyPair` or leaves the keys alone; `OneUserPerEmail` and `LoginAnswers` hold
for any calls, emails and passwords.

`RepliesProofs` proves `AggregatesMatch` and `AddedIsWanted` of `Requests` for any
requests, messages, pages and users and finitely many conversations, messages and
pages, from the assumptions that conversations are opened for lists of users that are
not empty and that `None` is none of the names. A message that a request has read
keeps its kind until it is deleted and its pages until it is crawled, and is never
posted again, for its id stays listed (`SeenInv`, with `ListedInv`). `ImagesInv` and
`LinksInv` say so much of each aggregation from its own step on: that the second is
made later than the first, of documents that changed in between, is why they are two.
`AddInv` keeps the match of participants that the lookup found or the opening made;
that nobody else is among them when no id was repeated is a lemma about sequences of
one length (`SameMembers`, from the theorems on finite sets).

It proves the three properties of the answers too, from the same inductive invariant:
`AnswersHaveTheirType`, `ViewsAgree` and `SerializedIsClean`. Of the state they need
`ReadInv`, that a request for a detail has read one conversation when it is answered,
and `TypeOK`, from which what was read is finite. The rest is about data:

* The theorems of induction over data cannot be used here, so the proofs go by a set
  of numbers, `UpFromZero`: a set that has 0 and with every number the next one has
  them all, since otherwise the least one it lacks (`WFMin`) has one before it. What
  is shown of all values that end within *n* levels is carried to those that end
  within *n* + 1, and a bound of `Depth` + 1 levels covers every value. In this way
  `LevelDef` and `TrimsDef` establish that the two recursive definitions conform to
  their equations.
* `LevelOfTrims` follows trimming down the levels: nothing is in a trimmed value but
  trimmed parts that stay, so that the keys of each are clean (`TrimsKeys`).
  `TrimsTwice` says that trimming again changes nothing. Together they are
  `SerializedIsClean`, for any values the HTTP handlers return that all end within
  `Depth`.
* `Fine(v, n)` bounds the height of a value, and the converters add at most a level
  to what they are given (`MessageFine`, `UserFine`), so that an answer ends within
  seven levels: the assumption that `Depth` is at least 6.
* Trimming without options and converting commute (`ConvertedPlain`, then
  `MappedPlain`, `UserPlain`, `MessagePlain`), and converting what is converted
  changes nothing (`MessageTwice`): a detail converts messages, trims the whole and
  converts again, a list converts once, and by these two lemmas they show the same
  (`ShownAre`). `ImagesShown` and `LinksShown` count what a detail shows of what was
  aggregated.
* Every converter gives its declared type when what it takes over has the types of
  the documents or is missing (`UserTyped`, `MessageTyped`), before and after
  trimming.

Of the documents this holds as far as `Replies` models them: ids, kinds, pages and
participants are any, while texts, dates, mentions and reactions stand for others of
their type.

Model-checked only: the four liveness properties (`ListedIsAnnounced`,
`LocksAreReleased`, `EveryJobIsHandled`, `KeyIsFreed`), which need fairness and
`ENABLED`. Every other property of the passing runs is a theorem.

## Findings

* `createNewConversation` does not await the check of its participants, so it
  never refuses (`chat_unknown_participant`). The conversation it lets in makes
  `getAllRelatedConservation` throw for each participant, and in
  `handleConnection` nobody handles that.
* It emits a body of another type than the handler expects
  (`chat_broadcast_content`).
* `gen` swaps the two lifetimes: the session's `expiresAt`, called
  `accessExpiresAt`, is that of the refresh token. The strategies ignore the
  expiry of the token itself, and `verifySession` renews the cache entry of an
  access token up to `expiresAt`. An access token, documented with 3 days, is
  accepted for 30 (`session_access_token`).

## Plan

1. Done: `ConversationLog`, `ChatService`, `ReactionLog`, `EmojiReaction`, `Rooms`,
   `CrawlQueue`, `Session`, `RedisLock`, `KeyPair`, `Accounts`, `TrimValues`,
   `Converter`, `Requests`, `Replies`, with their runs, and theorems for every safety
   property of them.
2. That the writers of `Requests` are `ConversationLog` too, which would make the
   premise of its atomic sends and deletions a theorem.
3. A composition of `CrawlQueue` with the sends of `ChatService`, through the set
   `queued`.

## Not modelled

* Generated stubs but for the declared types, configuration, dependency injection,
  logging and start-up: they keep no state that a run could change.
* The notifications gateway: its one synchronous handler has no interleaving, and
  nothing is sent to its rooms.
* HTTP controllers that forward one call, and repositories nothing wired uses.
* Clocks: `lastActivity` is taken before the update is applied, so of two sends the
  later update can carry the earlier time, and lists are sorted by it.
* Calls have no identity: a client that repeats a send whose answer was lost makes
  two messages, in the model as in the code.
* Deleting a message leaves the documents of its reactions behind; nothing reads them.

---- MODULE CrawlQueue ----
(***************************************************************************)
(* The jobs that go through Kafka: the previews of the addresses in a      *)
(* message (queue/craw-url.queue.ts) and the copies of users at Stream     *)
(* (queue/sync-stream-user.queue.ts).                                      *)
(*                                                                         *)
(* queue/base/consumer.base-queue.ts starts two consumers per process, one *)
(* for each topic, and subscribes each of them to both.  All are members   *)
(* of one group, so any of them may get the partition of either topic.     *)
(* Whoever gets a job, its offset is committed by hand, through the        *)
(* consumer registered under the topic of the job.  eachMessage swallows   *)
(* every error, which also passes the job.                                 *)
(*                                                                         *)
(* A topic has one partition here.  A consumer works on one job at a time; *)
(* a run is one delivery of a job, and goes on when the group has given    *)
(* the partition to somebody else meanwhile.                               *)
(***************************************************************************)
EXTENDS FiniteSets, Integers, Sequences

CONSTANTS
  Processes,
  Runs,         \* the deliveries, numbered
  CrawlJobs,    \* jobs of the crawler, one per message
  SyncJobs,     \* jobs of the synchronisation, one per user
  Urls,
  UrlsOf(_),    \* the addresses of a crawl job
  Contents,     \* what a page may say when it is crawled
  MaxRetries,   \* maxRetries: 3 in both handlers
  MaxUpsets,    \* bound: processes stopped and partitions taken from a live owner
  None

ASSUME JobsAssumption == CrawlJobs \intersect SyncJobs = {}
ASSUME UrlsAssumption == \A j \in CrawlJobs : UrlsOf(j) \subseteq Urls
ASSUME NoneAssumption == None \notin Contents \union (Processes \X {"crawl", "sync"})
                         /\ None \notin [Urls -> Contents \union {None}]
ASSUME RunsAssumption == Runs \subseteq Nat
ASSUME BoundsAssumption == MaxRetries \in Nat \ {0} /\ MaxUpsets \in Nat

Topics == {"crawl", "sync"}
Consumers == Processes \X Topics
Jobs == CrawlJobs \union SyncJobs
TopicOf(j) == IF j \in CrawlJobs THEN "crawl" ELSE "sync"

VARIABLES
  asked,      \* the jobs whose produce was called
  log,        \* topic -> the jobs of its partition
  committed,  \* topic -> the committed offset of the group
  members,    \* the consumers of the group's current generation
  owner,      \* topic -> the member its partition is assigned to
  position,   \* topic -> the offset its owner fetches next
  upsets,
  step,       \* run -> where its handler is
  topic, offset, by,  \* run -> what it was delivered, and to which consumer
  tries,      \* run -> the failed attempts of its write
  outlived,   \* run -> history: a rebalance ended while it was in progress
  fetch,      \* run -> address -> what its handler awaits for that address
  data,       \* run -> address -> what it has got
  cache,      \* address -> the value at preview:<md5>
  documents,  \* the messages that are not deleted
  preview,    \* message -> its previewUrl
  shown       \* message -> the preview last broadcast for it

groupVars == <<committed, members, owner, position, upsets>>
runVars == <<topic, offset, by, outlived>>
dataVars == <<cache, documents, preview, shown>>
vars == <<asked, log, groupVars, step, runVars, tries, fetch, data, dataVars>>

GivesUpAtOnce(r) == TRUE
GivesUp(r) == tries[r] + 1 >= MaxRetries

InProgress == {"handle", "emit", "commit"}
Handled == {"done", "failed"}
Awaited == {"get", "crawl", "set"}

JobOf(r) == log[topic[r]][offset[r] + 1]
RunsOf(j) == {r \in Runs : step[r] # "unused" /\ topic[r] = "crawl" /\ JobOf(r) = j}
RunsAt(t, o) == {r \in Runs : step[r] # "unused" /\ topic[r] = t /\ offset[r] = o}
Busy(c) == \E r \in Runs : by[r] = c /\ step[r] \in InProgress
FetchedAny(r) == \E u \in Urls : fetch[r][u] = "done"
Fetched(r) == \A u \in Urls : fetch[r][u] = "done"

Init ==
  /\ asked = {}
  /\ log = [t \in Topics |-> <<>>]
  /\ committed = [t \in Topics |-> 0]
  /\ members = {}
  /\ owner = [t \in Topics |-> None]
  /\ position = [t \in Topics |-> 0]
  /\ upsets = 0
  /\ step = [r \in Runs |-> "unused"]
  /\ topic = [r \in Runs |-> "crawl"]
  /\ offset = [r \in Runs |-> 0]
  /\ by = [r \in Runs |-> None]
  /\ tries = [r \in Runs |-> 0]
  /\ outlived = [r \in Runs |-> FALSE]
  /\ fetch = [r \in Runs |-> [u \in Urls |-> "done"]]
  /\ data = [r \in Runs |-> [u \in Urls |-> None]]
  /\ cache = [u \in Urls |-> None]
  /\ documents = CrawlJobs
  /\ preview = [j \in CrawlJobs |-> None]
  /\ shown = [j \in CrawlJobs |-> None]

-----------------------------------------------------------------------------
(* The producer, and the group.                                              *)

(* produce: a failure is logged and forgotten.  The producer is idempotent,  *)
(* so that a job is in the partition once.                                   *)
Produce(j) ==
  /\ j \notin asked
  /\ asked' = asked \union {j}
  /\ \/ log' = [log EXCEPT ![TopicOf(j)] = Append(@, j)]
     \/ UNCHANGED log
  /\ UNCHANGED <<groupVars, step, runVars, tries, fetch, data, dataVars>>

(* Where a new owner starts.                                                 *)
StartInPlace(t) == position[t]
StartAtBeginning(t) == 0
StartAt(t) == committed[t]

(* A rebalance ends.  A consumer that works on a job cannot rejoin in time   *)
(* and is left out.                                                          *)
Rebalance ==
  /\ \/ \E t \in Topics : owner[t] = None /\ UNCHANGED upsets
     \/ upsets < MaxUpsets /\ upsets' = upsets + 1
  /\ members' \in SUBSET {c \in Consumers : ~Busy(c)}
  /\ owner' \in [Topics -> members']
  /\ position' = [t \in Topics |-> StartAt(t)]
  /\ outlived' = [r \in Runs |-> outlived[r] \/ step[r] \in InProgress]
  /\ UNCHANGED <<asked, log, committed, step, topic, offset, by, tries, fetch, data, dataVars>>

(* A process ends, with its consumers and whatever its handlers await.       *)
Stop(p) ==
  LET Its == {r \in Runs : by[r] \in {p} \X Topics} IN
  /\ upsets < MaxUpsets
  /\ upsets' = upsets + 1
  /\ members' = members \ ({p} \X Topics)
  /\ owner' = [t \in Topics |-> IF owner[t] \in {p} \X Topics THEN None ELSE owner[t]]
  /\ step' = [r \in Runs |-> IF r \in Its /\ step[r] \in InProgress THEN "killed" ELSE step[r]]
  /\ fetch' = [r \in Runs |-> [u \in Urls |->
       IF r \in Its /\ fetch[r][u] # "done" THEN "lost" ELSE fetch[r][u]]]
  /\ UNCHANGED <<asked, log, committed, position, runVars, tries, data, dataVars>>

-----------------------------------------------------------------------------
(* eachMessage.                                                              *)

HasNextInStep(t) == position[t] < Len(log[t]) /\ position[t] = committed[t]
HasNext(t) == position[t] < Len(log[t])

(* The owner of a partition takes its next job; its position moves on        *)
(* whatever becomes of the job.                                              *)
Deliver(r, t) ==
  /\ step[r] = "unused" /\ \A q \in Runs : q < r => step[q] # "unused"
  /\ owner[t] # None
  /\ ~Busy(owner[t])
  /\ HasNext(t)
  /\ position' = [position EXCEPT ![t] = @ + 1]
  /\ step' = [step EXCEPT ![r] = "handle"]
  /\ topic' = [topic EXCEPT ![r] = t]
  /\ offset' = [offset EXCEPT ![r] = position[t]]
  /\ by' = [by EXCEPT ![r] = owner[t]]
  /\ fetch' = [fetch EXCEPT ![r] = [u \in Urls |->
       IF t = "crawl" /\ u \in UrlsOf(log[t][position[t] + 1]) THEN "get" ELSE "done"]]
  /\ UNCHANGED <<asked, log, committed, members, owner, upsets, outlived, tries, data, dataVars>>

CommitBefore(r) ==
  /\ <<by[r][1], topic[r]>> \in members
  /\ committed' = [committed EXCEPT ![topic[r]] = offset[r] - 1]

CommitPosition(r) ==
  /\ <<by[r][1], topic[r]>> \in members
  /\ committed' = [committed EXCEPT ![topic[r]] = position[topic[r]]]

(* commitOffset through the consumer of the topic in the same process, which *)
(* must have joined, and not have been left out since.                       *)
CommitOffset(r) ==
  /\ <<by[r][1], topic[r]>> \in members
  /\ committed' = [committed EXCEPT ![topic[r]] = offset[r] + 1]

Commit(r) ==
  /\ step[r] = "commit"
  /\ CommitOffset(r)
  /\ step' = [step EXCEPT ![r] = "done"]
  /\ UNCHANGED <<asked, log, members, owner, position, upsets, runVars, tries, fetch, data, dataVars>>

(* No consumer is registered, the coordinator refuses, or its answer is      *)
(* lost: the catch logs it.                                                  *)
CommitFails(r) ==
  /\ step[r] = "commit"
  /\ CommitOffset(r) \/ UNCHANGED committed
  /\ step' = [step EXCEPT ![r] = "failed"]
  /\ UNCHANGED <<asked, log, members, owner, position, upsets, runVars, tries, fetch, data, dataVars>>

-----------------------------------------------------------------------------
(* crawWebData: the addresses side by side, then the update and the event.   *)

Hit(r, u) ==
  /\ fetch[r][u] = "get"
  /\ cache[u] # None
  /\ data' = [data EXCEPT ![r][u] = cache[u]]
  /\ fetch' = [fetch EXCEPT ![r][u] = "done"]
  /\ UNCHANGED <<asked, log, groupVars, step, runVars, tries, dataVars>>

Miss(r, u) ==
  /\ fetch[r][u] = "get"
  /\ cache[u] = None
  /\ fetch' = [fetch EXCEPT ![r][u] = "crawl"]
  /\ UNCHANGED <<asked, log, groupVars, step, runVars, tries, data, dataVars>>

(* handleCrawUrl *)
Crawl(r, u) ==
  /\ fetch[r][u] = "crawl"
  /\ \E x \in Contents : data' = [data EXCEPT ![r][u] = x]
  /\ fetch' = [fetch EXCEPT ![r][u] = "set"]
  /\ UNCHANGED <<asked, log, groupVars, step, runVars, tries, dataVars>>

Save(r, u) ==
  /\ fetch[r][u] = "set"
  /\ cache' = [cache EXCEPT ![u] = data[r][u]]
  /\ fetch' = [fetch EXCEPT ![r][u] = "done"]
  /\ UNCHANGED <<asked, log, groupVars, step, runVars, tries, data, documents, preview, shown>>

(* One address fails, and the job with it.  The others go on, unheard.       *)
FetchFails(r, u) ==
  /\ fetch[r][u] \in Awaited
  /\ fetch' = [fetch EXCEPT ![r][u] = "lost"]
  /\ step' = [step EXCEPT ![r] = IF @ = "handle" THEN "failed" ELSE @]
  /\ UNCHANGED <<asked, log, groupVars, runVars, tries, data, dataVars>>

(* 'EX', 3600 *)
Expire(u) ==
  /\ cache[u] # None
  /\ cache' = [cache EXCEPT ![u] = None]
  /\ UNCHANGED <<asked, log, groupVars, step, runVars, tries, fetch, data, documents, preview, shown>>

SetPreviewIfAbsent(r) ==
  preview' = [preview EXCEPT ![JobOf(r)] = IF JobOf(r) \in documents /\ @ = None THEN data[r] ELSE @]

(* updateOne, which matches nothing when the message is deleted.             *)
SetPreview(r) ==
  preview' = [preview EXCEPT ![JobOf(r)] = IF JobOf(r) \in documents THEN data[r] ELSE @]

UpdateMessage(r) ==
  /\ step[r] = "handle" /\ topic[r] = "crawl" /\ Fetched(r)
  /\ SetPreview(r)
  /\ step' = [step EXCEPT ![r] = "emit"]
  /\ UNCHANGED <<asked, log, groupVars, runVars, tries, fetch, data, cache, documents, shown>>

(* A failed attempt, which may have been applied nevertheless.  The last one *)
(* is logged, and the handler goes on as after a successful one.             *)
UpdateFails(r) ==
  /\ step[r] = "handle" /\ topic[r] = "crawl" /\ Fetched(r)
  /\ SetPreview(r) \/ UNCHANGED preview
  /\ tries' = [tries EXCEPT ![r] = @ + 1]
  /\ step' = [step EXCEPT ![r] = IF GivesUp(r) THEN "emit" ELSE @]
  /\ UNCHANGED <<asked, log, groupVars, runVars, fetch, data, cache, documents, shown>>

Emit(r) ==
  /\ step[r] = "emit"
  /\ shown' = [shown EXCEPT ![JobOf(r)] = data[r]]
  /\ step' = [step EXCEPT ![r] = "commit"]
  /\ UNCHANGED <<asked, log, groupVars, runVars, tries, fetch, data, cache, documents, preview>>

(* chat.service.ts, meanwhile: deleteMessage.                                *)
DeleteMessage(j) ==
  /\ j \in documents
  /\ documents' = documents \ {j}
  /\ preview' = [preview EXCEPT ![j] = None]
  /\ UNCHANGED <<asked, log, groupVars, step, runVars, tries, fetch, data, cache, shown>>

-----------------------------------------------------------------------------
(* syncStreamUser: an upsert at Stream, tried MaxRetries times.              *)

SyncUser(r) ==
  /\ step[r] = "handle" /\ topic[r] = "sync"
  /\ step' = [step EXCEPT ![r] = "commit"]
  /\ UNCHANGED <<asked, log, groupVars, runVars, tries, fetch, data, dataVars>>

SyncFails(r) ==
  /\ step[r] = "handle" /\ topic[r] = "sync"
  /\ tries' = [tries EXCEPT ![r] = @ + 1]
  /\ step' = [step EXCEPT ![r] = IF GivesUp(r) THEN "commit" ELSE @]
  /\ UNCHANGED <<asked, log, groupVars, runVars, fetch, data, dataVars>>

-----------------------------------------------------------------------------
Fetch(r) ==
  \E u \in Urls : Hit(r, u) \/ Miss(r, u) \/ Crawl(r, u) \/ Save(r, u) \/ FetchFails(r, u)

(* One step of a handler.                                                    *)
Handle(r) ==
  \/ Fetch(r) \/ UpdateMessage(r) \/ UpdateFails(r) \/ Emit(r)
  \/ SyncUser(r) \/ SyncFails(r) \/ Commit(r) \/ CommitFails(r)

DeliverNext == \E r \in Runs, t \in Topics : Deliver(r, t)

Next ==
  \/ \E j \in Jobs : Produce(j)
  \/ \E j \in CrawlJobs : DeleteMessage(j)
  \/ \E u \in Urls : Expire(u)
  \/ \E p \in Processes : Stop(p)
  \/ Rebalance \/ DeliverNext
  \/ \E r \in Runs : Handle(r)

Spec == Init /\ [][Next]_vars

(* Every call is answered or times out, Kafka gives a partition nobody owns  *)
(* to somebody, and a free owner gets what is in its partitions in turn.     *)
Fairness ==
  /\ \A r \in Runs : WF_vars(Handle(r))
  /\ \A t \in Topics : WF_vars(\E r \in Runs : Deliver(r, t))
  /\ WF_vars((\E t \in Topics : owner[t] = None) /\ Rebalance)

FairSpec == Spec /\ Fairness

-----------------------------------------------------------------------------
(* The type invariant. *)
TypeOK ==
  /\ asked \in SUBSET Jobs
  /\ log \in [Topics -> Seq(Jobs)]
  /\ committed \in [Topics -> Nat]
  /\ members \in SUBSET Consumers
  /\ owner \in [Topics -> Consumers \union {None}]
  /\ position \in [Topics -> Nat]
  /\ upsets \in Nat
  /\ step \in [Runs -> InProgress \union Handled \union {"unused", "killed"}]
  /\ topic \in [Runs -> Topics]
  /\ offset \in [Runs -> Nat]
  /\ by \in [Runs -> Consumers \union {None}]
  /\ tries \in [Runs -> Nat]
  /\ outlived \in [Runs -> BOOLEAN]
  /\ fetch \in [Runs -> [Urls -> Awaited \union {"done", "lost"}]]
  /\ data \in [Runs -> [Urls -> Contents \union {None}]]
  /\ cache \in [Urls -> Contents \union {None}]
  /\ documents \in SUBSET CrawlJobs
  /\ preview \in [CrawlJobs -> [Urls -> Contents \union {None}] \union {None}]
  /\ shown \in [CrawlJobs -> [Urls -> Contents \union {None}] \union {None}]

(* Whatever stops, is rebalanced or commits late, the committed offset never *)
(* passes a job no handler has got to the end of, in success or failure.     *)
NothingSkipped ==
  \A t \in Topics : \A o \in 0 .. committed[t] - 1 :
    o < Len(log[t]) /\ \E r \in RunsAt(t, o) : step[r] \in Handled

(* A message that is there after its job was passed has its preview, or an   *)
(* error of its job was logged.                                              *)
LossIsLogged ==
  \A o \in 0 .. committed["crawl"] - 1 : LET j == log["crawl"][o + 1] IN
    j \in documents /\ preview[j] = None =>
      \E r \in RunsAt("crawl", o) : step[r] = "failed" \/ tries[r] >= MaxRetries

(* A preview is broadcast whole or not at all: a job one of whose addresses  *)
(* fails broadcasts and stores nothing, although the others go on.           *)
PreviewsAreWhole ==
  \A j \in CrawlJobs : \A p \in {preview[j], shown[j]} : p # None =>
    \A u \in Urls : p[u] # None <=> u \in UrlsOf(j)

(* What readers were last shown is stored.  There are two reasons to differ: *)
(* a process stopped after it had stored a newer preview and before it       *)
(* showed it, or the last attempt to store what was shown failed.            *)
Agreed(j) ==
  \/ shown[j] = None \/ shown[j] = preview[j]
  \/ \E r \in RunsOf(j) : step[r] = "killed" /\ preview[j] = data[r]
  \/ \E r \in RunsOf(j) : tries[r] >= MaxRetries /\ shown[j] = data[r]

(* When nobody works on a message any more, its readers see what is stored,  *)
(* or one of the two reasons holds, however often the job was delivered and  *)
(* its update tried, unless a rebalance did not wait for a handler of it.    *)
ShownIsStored ==
  \A j \in documents :
    (\A r \in RunsOf(j) : step[r] \notin InProgress /\ ~outlived[r]) => Agreed(j)

(* A commit moves the group back only if a rebalance once ended without      *)
(* waiting for a handler of that partition.                                  *)
BackOnlyAfterTimeout ==
  [][\A t \in Topics : committed'[t] < committed[t] =>
       \E r \in Runs : topic[r] = t /\ outlived[r]]_vars

(* Every job in a partition gets to the end of a handler: no failure of a    *)
(* page, of Redis, of MongoDB or of the commit keeps a consumer from the     *)
(* jobs behind it.                                                           *)
EveryJobIsHandled ==
  \A j \in Jobs :
    (\E i \in 1 .. Len(log[TopicOf(j)]) : log[TopicOf(j)][i] = j)
      ~> (\E r \in Runs : step[r] \in Handled /\ JobOf(r) = j)
-----------------------------------------------------------------------------
(* The inductive invariant behind the safety properties.                     *)

HandledAt(t, o) == \E r \in RunsAt(t, o) : step[r] \in Handled

(* A partition holds jobs of its topic, and runs were delivered from it.     *)
LogInv ==
  /\ \A t \in Topics : \A i \in 1 .. Len(log[t]) : TopicOf(log[t][i]) = t
  /\ \A r \in Runs : step[r] # "unused" => by[r] # None /\ offset[r] < Len(log[topic[r]])
  /\ \A r \in Runs : step[r] = "unused" =>
       /\ by[r] = None /\ tries[r] = 0 /\ ~outlived[r]
       /\ \A u \in Urls : fetch[r][u] = "done" /\ data[r][u] = None

(* A consumer has one job in progress, an owner among them.                  *)
SerialInv ==
  /\ \A r, q \in Runs :
       step[r] \in InProgress /\ step[q] \in InProgress /\ by[r] = by[q] => r = q
  /\ \A t \in Topics : owner[t] # None => owner[t] \in members

(* What was delivered, and what an owner is past, follows on jobs that were  *)
(* handled, but for the one the owner works on.                              *)
PrefixInv ==
  /\ \A r \in Runs : step[r] # "unused" =>
       \A o \in 0 .. offset[r] - 1 : HandledAt(topic[r], o)
  /\ \A t \in Topics : owner[t] # None =>
       /\ position[t] <= Len(log[t])
       /\ \A o \in 0 .. position[t] - 1 : HandledAt(t, o)
            \/ \E r \in RunsAt(t, o) : step[r] \in InProgress /\ by[r] = owner[t]

(* Until a rebalance ends without waiting, only the owner of a partition has *)
(* a run of it in progress, the last one it was given.                       *)
OwnerInv ==
  \A t \in Topics : (\E r \in Runs : topic[r] = t /\ outlived[r]) \/
    /\ owner[t] # None => committed[t] <= position[t]
    /\ \A r \in Runs : step[r] \in InProgress /\ topic[r] = t =>
         by[r] = owner[t] /\ committed[t] <= offset[r] /\ position[t] = offset[r] + 1

(* What a handler has got for its addresses, and what it has stored.         *)
DataInv ==
  /\ \A r \in Runs : step[r] # "unused" /\ topic[r] = "crawl" =>
       /\ \A u \in Urls :
            /\ u \notin UrlsOf(JobOf(r)) => fetch[r][u] = "done" /\ data[r][u] = None
            /\ u \in UrlsOf(JobOf(r)) /\ fetch[r][u] \in {"set", "done"} => data[r][u] # None
       /\ step[r] \in {"emit", "commit"} => Fetched(r)
       /\ step[r] \in {"emit", "commit", "done"} /\ tries[r] < MaxRetries
            /\ JobOf(r) \in documents => preview[JobOf(r)] # None
  /\ \A r \in Runs : step[r] = "emit" => topic[r] = "crawl"

(* A run that no rebalance passed over is of the job its owner was last      *)
(* given: a partition has one such run in progress.                          *)
CurrentInv ==
  \A r \in Runs : step[r] \in InProgress /\ ~outlived[r] =>
    by[r] = owner[topic[r]] /\ position[topic[r]] = offset[r] + 1

(* A handler that was stopped, or has tried to store, fetches nothing more.  *)
StillInv ==
  \A r \in Runs :
    /\ step[r] = "killed" => \A u \in Urls : fetch[r][u] \notin Awaited
    /\ topic[r] = "crawl" /\ tries[r] > 0 => Fetched(r)

(* Shown and stored agree, or a handler is about to show what it stored.     *)
AboutToShow(r, j) == step[r] \in {"handle", "emit"} /\ Fetched(r) /\ preview[j] = data[r]

ViewInv ==
  \A j \in documents : (\A r \in RunsOf(j) : ~outlived[r]) =>
    /\ Agreed(j) \/ \E r \in RunsOf(j) : AboutToShow(r, j)
    /\ \A r \in RunsOf(j) : step[r] = "emit" => preview[j] = data[r] \/ tries[r] >= MaxRetries

Inv ==
  /\ TypeOK /\ LogInv /\ SerialInv /\ PrefixInv /\ OwnerInv /\ DataInv
  /\ CurrentInv /\ StillInv /\ ViewInv
  /\ NothingSkipped /\ PreviewsAreWhole
====

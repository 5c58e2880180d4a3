---- MODULE CrawlQueueProofs ----
(***************************************************************************)
(* Proofs about CrawlQueue, for any processes, jobs, addresses, deliveries *)
(* and bounds.                                                             *)
(***************************************************************************)
EXTENDS CrawlQueue, TLAPS

-----------------------------------------------------------------------------
(* Partitions are only appended to, deliveries stay what they were, and a    *)
(* run that ended has ended.                                                 *)
LogGrows ==
  \A t \in Topics :
    /\ Len(log[t]) <= Len(log'[t])
    /\ \A i \in 1 .. Len(log[t]) : log'[t][i] = log[t][i]

RunsMoveOn ==
  \A r \in Runs : step'[r] = step[r] \/
    (step[r] \in InProgress /\ step'[r] \in InProgress \union Handled)

(* What most steps have in common: a handler goes on, or the log grows.      *)
HandlerStep == UNCHANGED <<groupVars, runVars>> /\ LogGrows /\ RunsMoveOn

CommitStep(r) ==
  /\ step[r] = "commit"
  /\ \/ committed' = [committed EXCEPT ![topic[r]] = offset[r] + 1]
     \/ UNCHANGED committed
  /\ \E x \in Handled : step' = [step EXCEPT ![r] = x]
  /\ UNCHANGED <<members, owner, position, upsets, runVars, log>>

LEMMA StepCases ==
  ASSUME Inv, [Next]_vars
  PROVE  \/ HandlerStep
         \/ Rebalance
         \/ \E p \in Processes : Stop(p)
         \/ \E r \in Runs, t \in Topics : Deliver(r, t)
         \/ \E r \in Runs : CommitStep(r)
<1>0. TypeOK
  BY DEF Inv
<1>2. log' = log => LogGrows
  BY <1>0 DEF LogGrows, TypeOK
<1>3. ASSUME NEW j \in Jobs, Produce(j) PROVE HandlerStep
  <2>1. ASSUME NEW t \in Topics, log' = [log EXCEPT ![t] = Append(@, j)] PROVE LogGrows
    <3>1. log \in [Topics -> Seq(Jobs)]
      BY <1>0 DEF TypeOK
    <3>2. Len(Append(log[t], j)) = Len(log[t]) + 1
          /\ \A i \in 1 .. Len(log[t]) : Append(log[t], j)[i] = log[t][i]
      BY <3>1
    <3> QED BY <2>1, <3>1, <3>2 DEF LogGrows
  <2>2. LogGrows
    BY <2>1, <1>2, <1>3 DEF Produce, TopicOf, Topics
  <2> QED BY <2>2, <1>3 DEF HandlerStep, Produce, RunsMoveOn
<1>4. ASSUME NEW j \in CrawlJobs, DeleteMessage(j) PROVE HandlerStep
  BY <1>2, <1>4 DEF HandlerStep, DeleteMessage, RunsMoveOn
<1>5. ASSUME NEW u \in Urls, Expire(u) PROVE HandlerStep
  BY <1>2, <1>5 DEF HandlerStep, Expire, RunsMoveOn
<1>6. ASSUME NEW r \in Runs, Handle(r) PROVE HandlerStep \/ CommitStep(r)
  <2>1. CASE Commit(r) \/ CommitFails(r)
    BY <2>1 DEF Commit, CommitFails, CommitOffset, CommitStep, Handled
  <2>2. CASE Fetch(r)
    BY <2>2, <1>0, <1>2 DEF Fetch, Hit, Miss, Crawl, Save, FetchFails, HandlerStep, RunsMoveOn,
      InProgress, Handled, TypeOK
  <2>3. CASE UpdateMessage(r) \/ UpdateFails(r) \/ Emit(r) \/ SyncUser(r) \/ SyncFails(r)
    BY <2>3, <1>0, <1>2 DEF UpdateMessage, UpdateFails, Emit, SyncUser, SyncFails, HandlerStep,
      RunsMoveOn, InProgress, Handled, TypeOK
  <2> QED BY <1>6, <2>1, <2>2, <2>3 DEF Handle
<1>7. CASE UNCHANGED vars
  BY <1>7, <1>2 DEF vars, HandlerStep, RunsMoveOn
<1> QED BY <1>3, <1>4, <1>5, <1>6, <1>7 DEF Next, DeliverNext

(* A job that was handled stays handled.                                     *)
LEMMA HandledStays ==
  ASSUME Inv, [Next]_vars
  PROVE  \A t \in Topics, o \in Nat : HandledAt(t, o) => HandledAt(t, o)'
<1> SUFFICES ASSUME NEW r \in Runs, step[r] \in Handled
             PROVE step'[r] = step[r] /\ topic'[r] = topic[r] /\ offset'[r] = offset[r]
  BY DEF HandledAt, RunsAt, Handled
<1> USE DEF Handled, InProgress
<1>1. CASE HandlerStep
  BY <1>1 DEF HandlerStep, RunsMoveOn, runVars
<1>2. CASE Rebalance
  BY <1>2 DEF Rebalance
<1>3. ASSUME NEW p \in Processes, Stop(p) PROVE step'[r] = step[r] /\ UNCHANGED runVars
  BY <1>3 DEF Stop
<1>4. ASSUME NEW q \in Runs, NEW t \in Topics, Deliver(q, t)
      PROVE step'[r] = step[r] /\ topic'[r] = topic[r] /\ offset'[r] = offset[r]
  BY <1>4 DEF Deliver, Inv, TypeOK
<1>5. ASSUME NEW q \in Runs, CommitStep(q) PROVE step'[r] = step[r] /\ UNCHANGED runVars
  BY <1>5 DEF CommitStep, Inv, TypeOK
<1> QED BY <1>1, <1>2, <1>3, <1>4, <1>5, StepCases DEF runVars

-----------------------------------------------------------------------------
(* Types.                                                                    *)

LEMMA TypeStep == Inv /\ [Next]_vars => TypeOK'
<1> SUFFICES ASSUME Inv, [Next]_vars PROVE TypeOK'
  OBVIOUS
<1>0. TypeOK /\ LogInv
  BY DEF Inv
<1> USE <1>0, BoundsAssumption DEF TypeOK, InProgress, Handled, Awaited
<1>1. ASSUME NEW j \in Jobs, Produce(j) PROVE TypeOK'
  <2>1. TopicOf(j) \in Topics /\ Append(log[TopicOf(j)], j) \in Seq(Jobs)
    BY DEF TopicOf, Topics
  <2>2. log' = [log EXCEPT ![TopicOf(j)] = Append(@, j)] \/ log' = log
    BY <1>1 DEF Produce
  <2>3. log' \in [Topics -> Seq(Jobs)]
    BY <2>1, <2>2
  <2> QED BY <1>1, <2>3 DEF Produce, groupVars, runVars, dataVars
<1>2. ASSUME NEW j \in CrawlJobs, DeleteMessage(j) PROVE TypeOK'
  BY <1>2 DEF DeleteMessage, groupVars, runVars
<1>3. ASSUME NEW u \in Urls, Expire(u) PROVE TypeOK'
  BY <1>3 DEF Expire, groupVars, runVars
<1>4. ASSUME NEW p \in Processes, Stop(p) PROVE TypeOK'
  BY <1>4 DEF Stop, runVars, dataVars
<1>5. CASE Rebalance
  BY <1>5 DEF Rebalance, StartAt, dataVars
<1>6. ASSUME NEW r \in Runs, NEW t \in Topics, Deliver(r, t) PROVE TypeOK'
  <2>1. owner[t] \in Consumers
    BY <1>6 DEF Deliver
  <2> QED BY <1>6, <2>1 DEF Deliver, dataVars
<1>7. ASSUME NEW r \in Runs, NEW u \in Urls,
             Hit(r, u) \/ Miss(r, u) \/ Crawl(r, u) \/ Save(r, u) \/ FetchFails(r, u)
      PROVE TypeOK'
  <2>1. CASE Hit(r, u)
    BY <2>1 DEF Hit, groupVars, runVars, dataVars
  <2>2. CASE Miss(r, u)
    BY <2>2 DEF Miss, groupVars, runVars, dataVars
  <2>3. CASE Crawl(r, u)
    BY <2>3 DEF Crawl, groupVars, runVars, dataVars
  <2>4. CASE Save(r, u)
    BY <2>4 DEF Save, groupVars, runVars, dataVars
  <2>5. CASE FetchFails(r, u)
    BY <2>5 DEF FetchFails, groupVars, runVars, dataVars
  <2> QED BY <1>7, <2>1, <2>2, <2>3, <2>4, <2>5
<1>8. ASSUME NEW r \in Runs, UpdateMessage(r) \/ UpdateFails(r) PROVE TypeOK'
  <2>1. preview' \in [CrawlJobs -> [Urls -> Contents \union {None}] \union {None}]
    <3>1. CASE UNCHANGED preview
      BY <3>1
    <3>2. CASE SetPreview(r)
      BY <3>2 DEF SetPreview
    <3> QED BY <1>8, <3>1, <3>2 DEF UpdateMessage, UpdateFails
  <2>2. CASE UpdateMessage(r)
    BY <2>1, <2>2 DEF UpdateMessage, groupVars, runVars
  <2>3. tries[r] + 1 \in Nat
    OBVIOUS
  <2>4. CASE UpdateFails(r)
    BY <2>1, <2>3, <2>4 DEF UpdateFails, groupVars, runVars
  <2> QED BY <1>8, <2>2, <2>4
<1>9. ASSUME NEW r \in Runs, Emit(r) PROVE TypeOK'
  BY <1>9 DEF Emit, groupVars, runVars
<1>10. ASSUME NEW r \in Runs, SyncUser(r) \/ SyncFails(r) PROVE TypeOK'
  <2>1. CASE SyncUser(r)
    BY <2>1 DEF SyncUser, groupVars, runVars, dataVars
  <2>2. CASE SyncFails(r)
    BY <2>2 DEF SyncFails, groupVars, runVars, dataVars
  <2> QED BY <1>10, <2>1, <2>2
<1>11. ASSUME NEW r \in Runs, Commit(r) \/ CommitFails(r) PROVE TypeOK'
  <2>1. committed' \in [Topics -> Nat]
    <3>1. committed' = [committed EXCEPT ![topic[r]] = offset[r] + 1] \/ committed' = committed
      BY <1>11 DEF Commit, CommitFails, CommitOffset
    <3>2. offset[r] + 1 \in Nat /\ committed \in [Topics -> Nat]
      OBVIOUS
    <3> QED BY <3>1, <3>2
  <2>2. CASE Commit(r)
    BY <2>1, <2>2 DEF Commit, runVars, dataVars
  <2>3. CASE CommitFails(r)
    BY <2>1, <2>3 DEF CommitFails, runVars, dataVars
  <2> QED BY <1>11, <2>2, <2>3
<1>12. CASE UNCHANGED vars
  BY <1>12 DEF vars, groupVars, runVars, dataVars
<1> QED
  BY <1>1, <1>2, <1>3, <1>4, <1>5, <1>6, <1>7, <1>8, <1>9, <1>10, <1>11, <1>12
  DEF Next, DeliverNext, Handle, Fetch

-----------------------------------------------------------------------------
(* Offsets.                                                                  *)

(* A job in a partition stays at its offset.                                 *)
LEMMA LogStays == ASSUME Inv, [Next]_vars PROVE LogGrows
<1>1. log' = log => LogGrows
  BY DEF LogGrows, Inv, TypeOK
<1> QED BY <1>1, StepCases DEF HandlerStep, Rebalance, Stop, Deliver, CommitStep

LEMMA SerialStep == Inv /\ [Next]_vars => SerialInv'
<1> SUFFICES ASSUME Inv, [Next]_vars PROVE SerialInv'
  OBVIOUS
<1>0. TypeOK /\ SerialInv
  BY DEF Inv
<1> USE <1>0 DEF SerialInv, InProgress, Handled
<1>1. CASE HandlerStep
  BY <1>1 DEF HandlerStep, RunsMoveOn, groupVars, runVars
<1>2. CASE Rebalance
  BY <1>2 DEF Rebalance
<1>3. ASSUME NEW p \in Processes, Stop(p) PROVE SerialInv'
  BY <1>3 DEF Stop, runVars, TypeOK
<1>4. ASSUME NEW r \in Runs, NEW t \in Topics, Deliver(r, t) PROVE SerialInv'
  BY <1>4 DEF Deliver, Busy, TypeOK
<1>5. ASSUME NEW r \in Runs, CommitStep(r) PROVE SerialInv'
  BY <1>5 DEF CommitStep, runVars, TypeOK
<1> QED BY <1>1, <1>2, <1>3, <1>4, <1>5, StepCases

LEMMA PrefixStep == Inv /\ [Next]_vars => PrefixInv'
<1> SUFFICES ASSUME Inv, [Next]_vars PROVE PrefixInv'
  OBVIOUS
<1>0. TypeOK /\ TypeOK' /\ LogInv /\ SerialInv /\ PrefixInv /\ NothingSkipped
  BY TypeStep DEF Inv
<1>a. \A t \in Topics, o \in Nat : HandledAt(t, o) => HandledAt(t, o)'
  BY HandledStays
<1>b. \A t \in Topics : Len(log[t]) \in Nat /\ Len(log'[t]) \in Nat /\ Len(log[t]) <= Len(log'[t])
  BY <1>0, LogStays DEF LogGrows, TypeOK
<1> DEFINE
  Past(t) == \A o \in 0 .. position[t] - 1 : HandledAt(t, o)
               \/ \E r \in RunsAt(t, o) : step[r] \in InProgress /\ by[r] = owner[t]
  RunsPart == \A r \in Runs : step[r] # "unused" =>
                \A o \in 0 .. offset[r] - 1 : HandledAt(topic[r], o)
  OwnerPart == \A t \in Topics : owner[t] # None => position[t] <= Len(log[t]) /\ Past(t)
<1>c. ASSUME UNCHANGED <<topic, offset>>,
             \A r \in Runs : step'[r] # "unused" => step[r] # "unused"
      PROVE RunsPart'
  BY <1>0, <1>a, <1>c DEF PrefixInv, TypeOK
<1>d. ASSUME NEW t \in Topics, owner[t] # None, UNCHANGED <<position, by, topic, offset>>,
             owner'[t] = owner[t],
             \A r \in Runs : step[r] \in InProgress /\ by[r] = owner[t] =>
               step'[r] \in InProgress \union Handled
      PROVE Past(t)'
  <2> SUFFICES ASSUME NEW o \in 0 .. position[t] - 1
               PROVE HandledAt(t, o)'
                     \/ (\E r \in RunsAt(t, o) : step[r] \in InProgress /\ by[r] = owner[t])'
    BY <1>d
  <2>1. CASE HandledAt(t, o)
    BY <2>1, <1>a, <1>0 DEF TypeOK
  <2>2. ASSUME NEW r \in RunsAt(t, o), step[r] \in InProgress, by[r] = owner[t]
        PROVE HandledAt(t, o)'
              \/ (\E q \in RunsAt(t, o) : step[q] \in InProgress /\ by[q] = owner[t])'
    BY <2>2, <1>d DEF HandledAt, RunsAt, InProgress, Handled
  <2> QED BY <2>1, <2>2, <1>0, <1>d DEF PrefixInv
<1>1. CASE HandlerStep
  <2>1. RunsPart'
    BY <1>1, <1>c DEF HandlerStep, RunsMoveOn, runVars, InProgress
  <2>2. OwnerPart'
    <3> SUFFICES ASSUME NEW t \in Topics, owner'[t] # None
                 PROVE position'[t] <= Len(log'[t]) /\ Past(t)'
      OBVIOUS
    <3>1. UNCHANGED <<owner, position, by, topic, offset>>
      BY <1>1 DEF HandlerStep, runVars, groupVars
    <3>2. \A r \in Runs : step[r] \in InProgress => step'[r] \in InProgress \union Handled
      BY <1>1 DEF HandlerStep, RunsMoveOn
    <3>3. Past(t)'
      BY <3>1, <3>2, <1>d
    <3>4. position[t] \in Nat /\ position[t] <= Len(log[t])
      BY <3>1, <1>0 DEF PrefixInv, TypeOK
    <3> QED BY <3>1, <3>3, <3>4, <1>b
  <2> QED BY <2>1, <2>2 DEF PrefixInv
<1>2. CASE Rebalance
  <2>1. RunsPart'
    BY <1>2, <1>c DEF Rebalance
  <2>2. OwnerPart'
    <3> SUFFICES ASSUME NEW t \in Topics
                 PROVE position'[t] <= Len(log'[t])
                       /\ \A o \in 0 .. position'[t] - 1 : HandledAt(t, o)'
      OBVIOUS
    <3>1. position'[t] = committed[t] /\ committed[t] \in Nat
      BY <1>2, <1>0 DEF Rebalance, StartAt, TypeOK
    <3>2. \A o \in 0 .. committed[t] - 1 : HandledAt(t, o) /\ o < Len(log[t])
      BY <1>0 DEF NothingSkipped, HandledAt
    <3>3. committed[t] <= Len(log[t])
      BY <3>1, <3>2, <1>b
    <3> QED BY <3>1, <3>2, <3>3, <1>a, <1>b
  <2> QED BY <2>1, <2>2 DEF PrefixInv
<1>3. ASSUME NEW p \in Processes, Stop(p) PROVE PrefixInv'
  <2>1. RunsPart'
    BY <1>3, <1>c, <1>0 DEF Stop, runVars, TypeOK, InProgress
  <2>2. OwnerPart'
    <3> SUFFICES ASSUME NEW t \in Topics, owner'[t] # None
                 PROVE position'[t] <= Len(log'[t]) /\ Past(t)'
      OBVIOUS
    <3>1. owner[t] = owner'[t] /\ owner[t] \notin {p} \X Topics
      BY <1>3 DEF Stop
    <3>2. Past(t)'
      BY <3>1, <1>3, <1>d, <1>0 DEF Stop, runVars, TypeOK
    <3> QED BY <3>1, <3>2, <1>3, <1>0 DEF Stop, PrefixInv
  <2> QED BY <2>1, <2>2 DEF PrefixInv
<1>4. ASSUME NEW r \in Runs, NEW t \in Topics, Deliver(r, t) PROVE PrefixInv'
  <2>0. Past(t) /\ position[t] \in Nat /\ Len(log[t]) \in Nat /\ position[t] < Len(log[t])
    BY <1>4, <1>0, <1>b DEF Deliver, HasNext, PrefixInv, TypeOK
  <2>1. \A o \in 0 .. position[t] - 1 : HandledAt(t, o)
    BY <2>0, <1>4 DEF Deliver, Busy, RunsAt
  <2>2. RunsPart'
    BY <2>1, <1>0, <1>a, <1>4 DEF Deliver, PrefixInv, TypeOK
  <2>3. ASSUME NEW s \in Topics, s # t, owner[s] # None PROVE Past(s)'
    <3> SUFFICES ASSUME NEW o \in 0 .. position[s] - 1
                 PROVE HandledAt(s, o)'
                       \/ (\E q \in RunsAt(s, o) : step[q] \in InProgress /\ by[q] = owner[s])'
      BY <2>3, <1>4, <1>0 DEF Deliver, TypeOK
    <3>1. CASE HandledAt(s, o)
      BY <3>1, <1>a, <1>0 DEF TypeOK
    <3>2. ASSUME NEW q \in RunsAt(s, o), step[q] \in InProgress, by[q] = owner[s]
          PROVE (\E x \in RunsAt(s, o) : step[x] \in InProgress /\ by[x] = owner[s])'
      BY <3>2, <1>4, <1>0 DEF Deliver, RunsAt, InProgress, TypeOK
    <3> QED BY <3>1, <3>2, <2>3, <1>0 DEF PrefixInv
  <2>4. Past(t)'
    <3>1. position'[t] = position[t] + 1
      BY <1>4, <1>0 DEF Deliver, TypeOK
    <3>2. r \in {q \in Runs : step'[q] # "unused" /\ topic'[q] = t /\ offset'[q] = position[t]}
          /\ step'[r] \in InProgress /\ by'[r] = owner'[t]
      <4>1. step'[r] = "handle" /\ topic'[r] = t /\ offset'[r] = position[t]
            /\ by'[r] = owner[t] /\ owner' = owner
        BY <1>4, <1>0 DEF Deliver, TypeOK
      <4> QED BY <4>1 DEF InProgress
    <3>3. ASSUME NEW o \in 0 .. position[t] PROVE o = position[t] \/ HandledAt(t, o)'
      BY <2>0, <2>1, <1>a
    <3>4. ASSUME NEW o \in 0 .. position[t]
          PROVE HandledAt(t, o)'
                \/ (\E q \in RunsAt(t, o) : step[q] \in InProgress /\ by[q] = owner[t])'
      BY <3>2, <3>3 DEF RunsAt
    <3> QED BY <3>1, <3>4, <2>0
  <2>5. OwnerPart'
    <3> SUFFICES ASSUME NEW s \in Topics, owner'[s] # None
                 PROVE position'[s] <= Len(log'[s]) /\ Past(s)'
      OBVIOUS
    <3>1. UNCHANGED <<owner, log>> /\ position' = [position EXCEPT ![t] = @ + 1]
      BY <1>4 DEF Deliver
    <3>2. position'[s] <= Len(log[s])
      BY <3>1, <2>0, <1>0 DEF PrefixInv, TypeOK
    <3> QED BY <3>1, <3>2, <2>3, <2>4
  <2> QED BY <2>2, <2>5 DEF PrefixInv
<1>5. ASSUME NEW r \in Runs, CommitStep(r) PROVE PrefixInv'
  <2>1. RunsPart'
    BY <1>5, <1>c, <1>0 DEF CommitStep, runVars, TypeOK, Handled
  <2>2. OwnerPart'
    <3> SUFFICES ASSUME NEW t \in Topics, owner'[t] # None
                 PROVE position'[t] <= Len(log'[t]) /\ Past(t)'
      OBVIOUS
    <3>1. UNCHANGED <<owner, position, by, topic, offset, log>>
      BY <1>5 DEF CommitStep, runVars
    <3>2. \A q \in Runs : step[q] \in InProgress => step'[q] \in InProgress \union Handled
      BY <1>5, <1>0 DEF CommitStep, TypeOK
    <3>3. Past(t)'
      BY <3>1, <3>2, <1>d
    <3> QED BY <3>1, <3>3, <1>0 DEF PrefixInv
  <2> QED BY <2>1, <2>2 DEF PrefixInv
<1> QED BY <1>1, <1>2, <1>3, <1>4, <1>5, StepCases

LEMMA SkippedStep == Inv /\ [Next]_vars => NothingSkipped'
<1> SUFFICES ASSUME Inv, [Next]_vars, NEW t \in Topics, NEW o \in 0 .. committed'[t] - 1
             PROVE o < Len(log'[t]) /\ HandledAt(t, o)'
  BY DEF NothingSkipped, HandledAt
<1>0. TypeOK /\ TypeOK' /\ LogInv /\ PrefixInv /\ NothingSkipped
  BY TypeStep DEF Inv
<1>1. Len(log[t]) \in Nat /\ Len(log'[t]) \in Nat /\ Len(log[t]) <= Len(log'[t])
  BY <1>0, LogStays DEF LogGrows, TypeOK
<1>2. ASSUME HandledAt(t, o), o < Len(log[t]) PROVE o < Len(log'[t]) /\ HandledAt(t, o)'
  BY <1>0, <1>1, <1>2, HandledStays DEF TypeOK
<1>3. CASE committed' = committed
  BY <1>0, <1>2, <1>3 DEF NothingSkipped, HandledAt
<1>4. ASSUME NEW r \in Runs, CommitStep(r) PROVE o < Len(log'[t]) /\ HandledAt(t, o)'
  <2>1. CASE topic[r] = t /\ committed'[t] = offset[r] + 1
    <3>1. offset[r] < Len(log[t]) /\ offset[r] \in Nat /\ o \in 0 .. offset[r]
      BY <1>0, <1>4, <2>1 DEF LogInv, CommitStep, TypeOK
    <3>2. CASE o = offset[r]
      <4>1. r \in {q \in Runs : step'[q] # "unused" /\ topic'[q] = t /\ offset'[q] = o}
            /\ step'[r] \in Handled
        BY <1>0, <1>4, <2>1, <3>2 DEF CommitStep, runVars, TypeOK, Handled
      <4> QED BY <4>1, <3>1, <3>2, <1>1 DEF HandledAt, RunsAt
    <3>3. CASE o \in 0 .. offset[r] - 1
      BY <3>1, <3>3, <1>0, <1>2, <1>4, <2>1 DEF PrefixInv, CommitStep
    <3> QED BY <3>1, <3>2, <3>3
  <2>2. CASE committed'[t] = committed[t]
    BY <2>2, <1>0, <1>2 DEF NothingSkipped, HandledAt
  <2> QED BY <1>0, <1>4, <2>1, <2>2 DEF CommitStep, TypeOK
<1> QED
  BY <1>3, <1>4, StepCases DEF HandlerStep, groupVars, Rebalance, Stop, Deliver

(* A partition of which a run outlived a rebalance.                          *)
Overrun(t) == \E r \in Runs : topic[r] = t /\ outlived[r]

LEMMA OverrunStays ==
  ASSUME Inv, [Next]_vars, NEW t \in Topics, Overrun(t)
  PROVE  Overrun(t)'
<1>0. TypeOK /\ LogInv
  BY DEF Inv
<1> PICK r \in Runs : topic[r] = t /\ outlived[r]
  BY DEF Overrun
<1>1. step[r] # "unused"
  BY <1>0 DEF LogInv
<1>2. topic'[r] = topic[r] /\ outlived'[r]
  BY <1>0, <1>1, StepCases
  DEF HandlerStep, runVars, Rebalance, Stop, Deliver, CommitStep, TypeOK
<1> QED BY <1>2 DEF Overrun

LEMMA OwnerStep == Inv /\ [Next]_vars => OwnerInv'
<1> SUFFICES ASSUME Inv, [Next]_vars, NEW t \in Topics, ~Overrun(t)'
             PROVE  /\ owner'[t] # None => committed'[t] <= position'[t]
                    /\ \A r \in Runs : step'[r] \in InProgress /\ topic'[r] = t =>
                         /\ by'[r] = owner'[t]
                         /\ committed'[t] <= offset'[r] /\ position'[t] = offset'[r] + 1
  BY DEF OwnerInv, Overrun
<1>0. TypeOK /\ TypeOK' /\ LogInv /\ SerialInv
  BY TypeStep DEF Inv
<1>a. /\ owner[t] # None => committed[t] <= position[t]
      /\ \A r \in Runs : step[r] \in InProgress /\ topic[r] = t =>
           by[r] = owner[t] /\ committed[t] <= offset[r] /\ position[t] = offset[r] + 1
  BY OverrunStays DEF Inv, OwnerInv, Overrun
<1>1. CASE HandlerStep
  BY <1>1, <1>a DEF HandlerStep, RunsMoveOn, groupVars, runVars
<1>2. CASE Rebalance
  <2>1. position'[t] = committed'[t] /\ committed[t] \in Nat /\ committed' = committed
    BY <1>2, <1>0 DEF Rebalance, StartAt, TypeOK
  <2>2. ASSUME NEW r \in Runs, step'[r] \in InProgress, topic'[r] = t PROVE FALSE
    BY <2>2, <1>2 DEF Rebalance, Overrun
  <2> QED BY <2>1, <2>2
<1>3. ASSUME NEW p \in Processes, Stop(p)
      PROVE  /\ owner'[t] # None => committed'[t] <= position'[t]
             /\ \A r \in Runs : step'[r] \in InProgress /\ topic'[r] = t =>
                  /\ by'[r] = owner'[t]
                  /\ committed'[t] <= offset'[r] /\ position'[t] = offset'[r] + 1
  <2>1. ASSUME NEW r \in Runs, step'[r] \in InProgress
        PROVE step[r] \in InProgress /\ by[r] \notin {p} \X Topics
    BY <2>1, <1>3 DEF Stop, InProgress
  <2> QED BY <2>1, <1>3, <1>a DEF Stop, runVars
<1>4. ASSUME NEW r \in Runs, NEW s \in Topics, Deliver(r, s)
      PROVE  /\ owner'[t] # None => committed'[t] <= position'[t]
             /\ \A q \in Runs : step'[q] \in InProgress /\ topic'[q] = t =>
                  /\ by'[q] = owner'[t]
                  /\ committed'[t] <= offset'[q] /\ position'[t] = offset'[q] + 1
  <2>1. /\ owner[s] # None /\ position' = [position EXCEPT ![s] = @ + 1]
        /\ step' = [step EXCEPT ![r] = "handle"] /\ topic' = [topic EXCEPT ![r] = s]
        /\ offset' = [offset EXCEPT ![r] = position[s]] /\ by' = [by EXCEPT ![r] = owner[s]]
        /\ owner' = owner /\ committed' = committed /\ ~Busy(owner[s])
    BY <1>4 DEF Deliver
  <2>2. committed[t] \in Nat /\ position[t] \in Nat
    BY <1>0 DEF TypeOK
  <2>3. ASSUME NEW q \in Runs, q # r, step'[q] \in InProgress, topic'[q] = t
        PROVE  /\ by'[q] = owner'[t] /\ t # s
               /\ committed'[t] <= offset'[q] /\ position'[t] = offset'[q] + 1
    <3>1. step[q] \in InProgress /\ topic[q] = t /\ UNCHANGED <<offset[q], by[q]>>
      BY <2>1, <2>3, <1>0 DEF TypeOK
    <3>2. by[q] = owner[t]
      BY <3>1, <1>a
    <3>3. t # s
      BY <3>1, <3>2, <2>1 DEF Busy
    <3> QED BY <3>1, <3>2, <3>3, <2>1, <1>a, <1>0 DEF TypeOK
  <2>4. ASSUME topic'[r] = t
        PROVE  /\ by'[r] = owner'[t]
               /\ committed'[t] <= offset'[r] /\ position'[t] = offset'[r] + 1
    BY <2>1, <2>2, <2>4, <1>0, <1>a DEF TypeOK
  <2>5. owner'[t] # None => committed'[t] <= position'[t]
    BY <2>1, <2>2, <1>0, <1>a DEF TypeOK
  <2> QED BY <2>3, <2>4, <2>5
<1>5. ASSUME NEW r \in Runs, CommitStep(r)
      PROVE  /\ owner'[t] # None => committed'[t] <= position'[t]
             /\ \A q \in Runs : step'[q] \in InProgress /\ topic'[q] = t =>
                  /\ by'[q] = owner'[t]
                  /\ committed'[t] <= offset'[q] /\ position'[t] = offset'[q] + 1
  <2>1. UNCHANGED <<owner, position, topic, offset, by>>
    BY <1>5 DEF CommitStep, runVars
  <2>2. step[r] \in InProgress /\ step'[r] \notin InProgress
        /\ \A q \in Runs : q # r => step'[q] = step[q]
    BY <1>5, <1>0 DEF CommitStep, InProgress, Handled, TypeOK
  <2>3. CASE committed'[t] = committed[t]
    BY <2>1, <2>2, <2>3, <1>a
  <2>4. CASE topic[r] = t /\ committed'[t] = offset[r] + 1
    <3>1. by[r] = owner[t] /\ position[t] = offset[r] + 1 /\ offset[r] \in Nat
      BY <2>2, <2>4, <1>a, <1>0 DEF TypeOK
    <3>2. ASSUME NEW q \in Runs, step'[q] \in InProgress, topic'[q] = t PROVE FALSE
      <4>1. q # r /\ step[q] \in InProgress /\ topic[q] = t
        BY <2>1, <2>2, <3>2
      <4>2. by[q] = by[r]
        BY <4>1, <3>1, <1>a
      <4> QED BY <4>1, <4>2, <2>2, <1>0 DEF SerialInv
    <3> QED BY <2>1, <2>4, <3>1, <3>2
  <2> QED BY <1>5, <1>0, <2>3, <2>4 DEF CommitStep, TypeOK
<1> QED BY <1>1, <1>2, <1>3, <1>4, <1>5, StepCases

LEMMA LogStep == Inv /\ [Next]_vars => LogInv'
<1> SUFFICES ASSUME Inv, [Next]_vars PROVE LogInv'
  OBVIOUS
<1>0. TypeOK /\ TypeOK' /\ LogInv
  BY TypeStep DEF Inv
<1>1. \A t \in Topics : \A i \in 1 .. Len(log'[t]) : TopicOf(log'[t][i]) = t
  <2>1. CASE log' = log
    BY <2>1, <1>0 DEF LogInv
  <2>2. ASSUME NEW j \in Jobs, log' = [log EXCEPT ![TopicOf(j)] = Append(@, j)]
        PROVE \A t \in Topics : \A i \in 1 .. Len(log'[t]) : TopicOf(log'[t][i]) = t
    <3> SUFFICES ASSUME NEW t \in Topics, NEW i \in 1 .. Len(log'[t]) PROVE TopicOf(log'[t][i]) = t
      OBVIOUS
    <3>1. log[t] \in Seq(Jobs)
      BY <1>0 DEF TypeOK
    <3>2. CASE t = TopicOf(j)
      <4>1. log'[t] = Append(log[t], j)
        BY <2>2, <3>2, <1>0 DEF TypeOK
      <4>2. (i \in 1 .. Len(log[t]) /\ log'[t][i] = log[t][i]) \/ log'[t][i] = j
        BY <3>1, <4>1
      <4> QED BY <4>2, <3>2, <1>0 DEF LogInv
    <3>3. CASE t # TopicOf(j)
      BY <2>2, <3>3, <1>0 DEF LogInv, TypeOK
    <3> QED BY <3>2, <3>3
  <2>3. log' = log \/ \E j \in Jobs : log' = [log EXCEPT ![TopicOf(j)] = Append(@, j)]
    BY DEF Next, Produce, DeleteMessage, Expire, Stop, Rebalance, DeliverNext, Deliver, Handle, Fetch,
      Hit, Miss, Crawl, Save, FetchFails, UpdateMessage, UpdateFails, Emit, SyncUser, SyncFails,
      Commit, CommitFails, vars
  <2> QED BY <2>1, <2>2, <2>3
<1>b. \A t \in Topics : Len(log[t]) \in Nat /\ Len(log'[t]) \in Nat /\ Len(log[t]) <= Len(log'[t])
  BY <1>0, LogStays DEF LogGrows, TypeOK
<1>2. \A r \in Runs : step'[r] # "unused" => by'[r] # None /\ offset'[r] < Len(log'[topic'[r]])
  <2>1. ASSUME NEW r \in Runs, step[r] # "unused", UNCHANGED <<topic[r], offset[r], by[r]>>
        PROVE by'[r] # None /\ offset'[r] < Len(log'[topic'[r]])
    BY <2>1, <1>0, <1>b DEF LogInv, TypeOK
  <2>2. CASE HandlerStep
    BY <2>1, <2>2 DEF HandlerStep, RunsMoveOn, runVars, InProgress
  <2>3. CASE Rebalance
    BY <2>1, <2>3 DEF Rebalance
  <2>4. ASSUME NEW p \in Processes, Stop(p)
        PROVE \A r \in Runs : step'[r] # "unused" => by'[r] # None /\ offset'[r] < Len(log'[topic'[r]])
    BY <2>1, <2>4 DEF Stop, runVars, InProgress
  <2>5. ASSUME NEW q \in Runs, NEW t \in Topics, Deliver(q, t)
        PROVE \A r \in Runs : step'[r] # "unused" => by'[r] # None /\ offset'[r] < Len(log'[topic'[r]])
    <3> SUFFICES ASSUME NEW r \in Runs, step'[r] # "unused"
                 PROVE by'[r] # None /\ offset'[r] < Len(log'[topic'[r]])
      OBVIOUS
    <3>1. /\ topic' = [topic EXCEPT ![q] = t] /\ step' = [step EXCEPT ![q] = "handle"]
          /\ offset' = [offset EXCEPT ![q] = position[t]] /\ by' = [by EXCEPT ![q] = owner[t]]
          /\ owner[t] # None /\ position[t] < Len(log[t]) /\ log' = log
      BY <2>5 DEF Deliver, HasNext
    <3>2. CASE r = q
      BY <3>1, <3>2, <1>0 DEF TypeOK
    <3>3. CASE r # q
      BY <3>1, <3>3, <2>1, <1>0 DEF TypeOK
    <3> QED BY <3>2, <3>3
  <2>6. ASSUME NEW q \in Runs, CommitStep(q)
        PROVE \A r \in Runs : step'[r] # "unused" => by'[r] # None /\ offset'[r] < Len(log'[topic'[r]])
    BY <2>1, <2>6, <1>0 DEF CommitStep, runVars, TypeOK
  <2> QED BY <2>2, <2>3, <2>4, <2>5, <2>6, StepCases
<1>3. \A r \in Runs : step'[r] = "unused" => step[r] = "unused" /\ UNCHANGED <<by[r], outlived[r]>>
  <2> SUFFICES ASSUME NEW r \in Runs, step'[r] = "unused"
               PROVE step[r] = "unused" /\ UNCHANGED <<by[r], outlived[r]>>
    OBVIOUS
  <2>1. CASE HandlerStep
    BY <2>1 DEF HandlerStep, RunsMoveOn, runVars, InProgress, Handled
  <2>2. CASE Rebalance
    BY <2>2, <1>0 DEF Rebalance, InProgress, TypeOK
  <2>3. ASSUME NEW p \in Processes, Stop(p) PROVE step[r] = "unused" /\ UNCHANGED <<by[r], outlived[r]>>
    BY <2>3 DEF Stop, runVars
  <2>4. ASSUME NEW q \in Runs, NEW t \in Topics, Deliver(q, t)
        PROVE step[r] = "unused" /\ UNCHANGED <<by[r], outlived[r]>>
    BY <2>4, <1>0 DEF Deliver, TypeOK
  <2>5. ASSUME NEW q \in Runs, CommitStep(q)
        PROVE step[r] = "unused" /\ UNCHANGED <<by[r], outlived[r]>>
    BY <2>5, <1>0 DEF CommitStep, runVars, Handled, TypeOK
  <2> QED BY <2>1, <2>2, <2>3, <2>4, <2>5, StepCases
<1>4. \A r \in Runs : step'[r] = "unused" => UNCHANGED <<tries[r], fetch[r], data[r]>>
  <2> SUFFICES ASSUME NEW r \in Runs, step'[r] = "unused"
               PROVE UNCHANGED <<tries[r], fetch[r], data[r]>>
    OBVIOUS
  <2>0. step[r] = "unused" /\ \A u \in Urls : fetch[r][u] = "done"
    BY <1>3, <1>0 DEF LogInv
  <2>1. ASSUME NEW p \in Processes, Stop(p) PROVE UNCHANGED <<tries[r], fetch[r], data[r]>>
    <3>1. fetch'[r] = [u \in Urls |-> fetch[r][u]]
      BY <2>1, <2>0 DEF Stop
    <3>2. fetch[r] = [u \in Urls |-> fetch[r][u]]
      BY <1>0 DEF TypeOK
    <3> QED BY <3>1, <3>2, <2>1 DEF Stop
  <2>2. ASSUME NEW q \in Runs, NEW u \in Urls,
               Hit(q, u) \/ Miss(q, u) \/ Crawl(q, u) \/ Save(q, u) \/ FetchFails(q, u)
        PROVE UNCHANGED <<tries[r], fetch[r], data[r]>>
    <3>1. q # r
      BY <2>0, <2>2 DEF Hit, Miss, Crawl, Save, FetchFails, Awaited
    <3>2. fetch'[r] = fetch[r]
      BY <3>1, <2>2, <1>0 DEF Hit, Miss, Crawl, Save, FetchFails, TypeOK
    <3>3. data'[r] = data[r]
      BY <3>1, <2>2, <1>0 DEF Hit, Miss, Crawl, Save, FetchFails, TypeOK
    <3> QED BY <3>2, <3>3, <2>2 DEF Hit, Miss, Crawl, Save, FetchFails
  <2>3. ASSUME NEW q \in Runs,
               \/ UpdateMessage(q) \/ UpdateFails(q) \/ Emit(q) \/ SyncUser(q) \/ SyncFails(q)
               \/ Commit(q) \/ CommitFails(q) \/ \E t \in Topics : Deliver(q, t)
        PROVE UNCHANGED <<tries[r], fetch[r], data[r]>>
    <3>1. q # r
      BY <2>0, <2>3, <1>0 DEF UpdateMessage, UpdateFails, Emit, SyncUser, SyncFails, Commit,
        CommitFails, Deliver, TypeOK
    <3>2. tries'[r] = tries[r]
      BY <3>1, <2>3, <1>0 DEF UpdateMessage, UpdateFails, Emit, SyncUser, SyncFails, Commit,
        CommitFails, Deliver, TypeOK
    <3>3. data'[r] = data[r]
      BY <2>3 DEF UpdateMessage, UpdateFails, Emit, SyncUser, SyncFails, Commit, CommitFails, Deliver
    <3>4. ASSUME NEW t \in Topics, Deliver(q, t) PROVE fetch'[r] = fetch[r]
      BY <3>1, <3>4, <1>0 DEF Deliver, TypeOK
    <3>5. fetch' = fetch \/ \E t \in Topics : Deliver(q, t)
      BY <2>3 DEF UpdateMessage, UpdateFails, Emit, SyncUser, SyncFails, Commit, CommitFails
    <3> QED BY <3>2, <3>3, <3>4, <3>5
  <2> QED
    BY <2>1, <2>2, <2>3 DEF Next, Produce, DeleteMessage, Expire, Rebalance, DeliverNext, Handle,
      Fetch, vars
<1> QED BY <1>0, <1>1, <1>2, <1>3, <1>4 DEF LogInv

-----------------------------------------------------------------------------
(* Previews.                                                                 *)

(* The job of a run of the crawler is a message, and stays the same.         *)
LEMMA JobStays ==
  ASSUME Inv, [Next]_vars, NEW r \in Runs, step[r] # "unused", topic[r] = "crawl",
         UNCHANGED <<topic[r], offset[r]>>
  PROVE  JobOf(r) \in CrawlJobs /\ JobOf(r)' = JobOf(r)
<1>1. TypeOK /\ LogInv
  BY DEF Inv
<1>2. offset[r] \in Nat /\ offset[r] < Len(log["crawl"]) /\ log["crawl"] \in Seq(Jobs)
  BY <1>1 DEF TypeOK, LogInv, Topics
<1>3. offset[r] + 1 \in 1 .. Len(log["crawl"])
  BY <1>2
<1>4. TopicOf(log["crawl"][offset[r] + 1]) = "crawl"
  BY <1>1, <1>3 DEF LogInv, Topics
<1>5. JobOf(r) \in CrawlJobs
  BY <1>4 DEF TopicOf, JobOf
<1>6. log'["crawl"][offset[r] + 1] = log["crawl"][offset[r] + 1]
  BY <1>3, LogStays DEF LogGrows, Topics
<1> QED BY <1>5, <1>6 DEF JobOf

(* DataInv, for one run.                                                     *)
RunData(r) ==
  /\ \A u \in Urls :
       /\ u \notin UrlsOf(JobOf(r)) => fetch[r][u] = "done" /\ data[r][u] = None
       /\ u \in UrlsOf(JobOf(r)) /\ fetch[r][u] \in {"set", "done"} => data[r][u] # None
  /\ step[r] \in {"emit", "commit"} => Fetched(r)
  /\ step[r] \in {"emit", "commit", "done"} /\ tries[r] < MaxRetries
       /\ JobOf(r) \in documents => preview[JobOf(r)] # None

LEMMA RunDataStays ==
  ASSUME Inv, [Next]_vars, NEW r \in Runs, step[r] # "unused", topic[r] = "crawl",
         UNCHANGED <<step[r], topic[r], offset[r], tries[r], fetch[r], data[r]>>,
         documents' \subseteq documents,
         \A j \in documents' : preview[j] # None => preview'[j] # None
  PROVE  RunData(r)'
<1>1. RunData(r)
  BY DEF Inv, DataInv, RunData
<1> QED BY <1>1, JobStays DEF RunData, Fetched

LEMMA WholeData ==
  ASSUME Inv, NEW r \in Runs, step[r] # "unused", topic[r] = "crawl", Fetched(r)
  PROVE  /\ data[r] \in [Urls -> Contents \union {None}] /\ data[r] # None
         /\ \A u \in Urls : data[r][u] # None <=> u \in UrlsOf(JobOf(r))
<1>1. data[r] \in [Urls -> Contents \union {None}] /\ data[r] # None
  BY NoneAssumption DEF Inv, TypeOK
<1> QED BY <1>1 DEF Inv, DataInv, Fetched

LEMMA DataStep == Inv /\ [Next]_vars => DataInv'
<1> SUFFICES ASSUME Inv, [Next]_vars PROVE DataInv'
  OBVIOUS
<1>0. TypeOK /\ TypeOK' /\ LogInv /\ DataInv
  BY TypeStep DEF Inv
<1> DEFINE Good == \A r \in Runs : step[r] # "unused" /\ topic[r] = "crawl" => RunData(r)
<1> USE DEF InProgress, Handled, Awaited
<1>a. Good' /\ (\A r \in Runs : step'[r] = "emit" => topic'[r] = "crawl") => DataInv'
  BY DEF DataInv, RunData
<1>b. \A r \in Runs : step[r] # "unused" /\ topic[r] = "crawl" => RunData(r)
  BY <1>0 DEF DataInv, RunData
<1>c. ASSUME UNCHANGED <<step, topic, offset, tries, fetch, data>>,
             documents' \subseteq documents,
             \A j \in documents' : preview[j] # None => preview'[j] # None
      PROVE DataInv'
  BY <1>0, <1>a, <1>c, RunDataStays DEF DataInv
<1>d. ASSUME NEW r \in Runs, UNCHANGED <<topic, offset, documents, tries>>,
             \A q \in Runs \ {r} : UNCHANGED <<step[q], fetch[q], data[q]>>,
             preview' = preview, step[r] # "unused",
             step'[r] # "emit", topic[r] = "crawl" => RunData(r)'
      PROVE DataInv'
  BY <1>0, <1>a, <1>d, RunDataStays DEF DataInv
<1>1. ASSUME NEW j \in Jobs, Produce(j) PROVE DataInv'
  BY <1>1, <1>c DEF Produce, runVars, dataVars
<1>2. ASSUME NEW j \in CrawlJobs, DeleteMessage(j) PROVE DataInv'
  BY <1>2, <1>c, <1>0 DEF DeleteMessage, runVars, TypeOK
<1>3. ASSUME NEW u \in Urls, Expire(u) PROVE DataInv'
  BY <1>3, <1>c DEF Expire, runVars
<1>4. CASE Rebalance
  BY <1>4, <1>c DEF Rebalance, dataVars
<1>5. ASSUME NEW p \in Processes, Stop(p) PROVE DataInv'
  <2>1. ASSUME NEW r \in Runs, step'[r] # "unused", topic'[r] = "crawl" PROVE RunData(r)'
    <3>1. step[r] # "unused" /\ topic[r] = "crawl" /\ UNCHANGED <<topic[r], offset[r]>>
      BY <1>5, <2>1 DEF Stop, runVars
    <3>2. JobOf(r)' = JobOf(r) /\ RunData(r)
      BY <3>1, JobStays, <1>b
    <3>3. \A u \in Urls : /\ fetch[r][u] = "done" => fetch'[r][u] = "done"
                          /\ fetch'[r][u] \in {"set", "done"} => fetch'[r][u] = fetch[r][u]
      BY <1>5 DEF Stop
    <3>4. UNCHANGED <<tries, data, documents, preview>>
          /\ (step'[r] \in {"emit", "commit", "done"} => step'[r] = step[r])
      BY <1>5 DEF Stop, dataVars
    <3> QED BY <3>2, <3>3, <3>4 DEF RunData, Fetched
  <2>2. \A r \in Runs : step'[r] = "emit" => step[r] = "emit" /\ topic'[r] = topic[r]
    BY <1>5 DEF Stop, runVars
  <2> QED BY <2>1, <2>2, <1>0, <1>a DEF DataInv
<1>6. ASSUME NEW r \in Runs, NEW t \in Topics, Deliver(r, t) PROVE DataInv'
  <2>1. /\ topic' = [topic EXCEPT ![r] = t] /\ step' = [step EXCEPT ![r] = "handle"]
        /\ offset' = [offset EXCEPT ![r] = position[t]] /\ log' = log
        /\ UNCHANGED <<tries, data, documents, preview>> /\ step[r] = "unused"
    BY <1>6 DEF Deliver, dataVars
  <2>2. fetch' = [fetch EXCEPT ![r] = [u \in Urls |->
          IF t = "crawl" /\ u \in UrlsOf(log[t][position[t] + 1]) THEN "get" ELSE "done"]]
    BY <1>6 DEF Deliver
  <2>3. ASSUME t = "crawl" PROVE RunData(r)'
    <3>1. JobOf(r)' = log[t][position[t] + 1] /\ step'[r] = "handle"
      BY <2>1, <1>0 DEF JobOf, TypeOK
    <3>2. \A u \in Urls : fetch'[r][u] = IF u \in UrlsOf(JobOf(r)') THEN "get" ELSE "done"
      BY <2>2, <2>3, <3>1, <1>0 DEF TypeOK
    <3>3. \A u \in Urls : data'[r][u] = None
      BY <2>1, <1>0 DEF LogInv
    <3> QED BY <3>1, <3>2, <3>3 DEF RunData
  <2>4. ASSUME NEW q \in Runs, q # r, step'[q] # "unused", topic'[q] = "crawl" PROVE RunData(q)'
    <3>1. UNCHANGED <<step[q], topic[q], offset[q], tries[q], data[q]>> /\ fetch'[q] = fetch[q]
      BY <2>1, <2>2, <2>4, <1>0 DEF TypeOK
    <3> QED BY <3>1, <2>1, <2>4, RunDataStays
  <2>5. topic'[r] = t /\ \A q \in Runs : step'[q] = "emit" => q # r /\ step[q] = "emit" /\ topic'[q] = topic[q]
    BY <2>1, <1>0 DEF TypeOK
  <2> QED BY <2>3, <2>4, <2>5, <1>0, <1>a DEF DataInv
<1>7. ASSUME NEW r \in Runs, NEW u \in Urls,
             Hit(r, u) \/ Miss(r, u) \/ Crawl(r, u) \/ Save(r, u) \/ FetchFails(r, u)
      PROVE DataInv'
  <2>1. fetch[r][u] \in Awaited /\ UNCHANGED <<topic, offset, tries, documents, preview>>
    BY <1>7 DEF Hit, Miss, Crawl, Save, FetchFails, runVars, dataVars
  <2>2. step[r] # "unused"
    BY <2>1, <1>0 DEF LogInv
  <2>3. fetch' = [fetch EXCEPT ![r] = fetch'[r]] /\ data' = [data EXCEPT ![r] = data'[r]]
        /\ step' = [step EXCEPT ![r] = step'[r]]
    BY <1>7, <1>0 DEF Hit, Miss, Crawl, Save, FetchFails, TypeOK
  <2>4. \A q \in Runs \ {r} : UNCHANGED <<step[q], fetch[q], data[q]>>
    BY <2>3, <1>0 DEF TypeOK
  <2>5. \A v \in Urls \ {u} : fetch'[r][v] = fetch[r][v] /\ data'[r][v] = data[r][v]
    <3>1. \E x : fetch' = [fetch EXCEPT ![r][u] = x]
      BY <1>7 DEF Hit, Miss, Crawl, Save, FetchFails
    <3>2. data' = data \/ \E x : data' = [data EXCEPT ![r][u] = x]
      BY <1>7 DEF Hit, Miss, Crawl, Save, FetchFails
    <3>3. \A v \in Urls \ {u} : fetch'[r][v] = fetch[r][v]
      BY <3>1, <1>0 DEF TypeOK
    <3>4. \A v \in Urls \ {u} : data'[r][v] = data[r][v]
      BY <3>2, <1>0 DEF TypeOK
    <3> QED BY <3>3, <3>4
  <2>7. step'[r] \in {"emit", "commit", "done"} => step'[r] = step[r]
    BY <1>7, <1>0 DEF Hit, Miss, Crawl, Save, FetchFails, TypeOK
  <2>8. ASSUME topic[r] = "crawl" PROVE RunData(r)' /\ step'[r] # "emit"
    <3>1. JobOf(r)' = JobOf(r) /\ RunData(r)
      BY <2>1, <2>2, <2>8, JobStays, <1>b
    <3>2. u \in UrlsOf(JobOf(r)) /\ step[r] \notin {"emit", "commit"}
      BY <3>1, <2>1 DEF RunData, Fetched
    <3>3. fetch'[r][u] \in {"set", "done"} => data'[r][u] # None
      <4>1. CASE Hit(r, u)
        BY <4>1, <1>0 DEF Hit, TypeOK
      <4>2. CASE Miss(r, u) \/ FetchFails(r, u)
        BY <4>2, <1>0 DEF Miss, FetchFails, TypeOK
      <4>3. CASE Crawl(r, u)
        BY <4>3, <1>0, NoneAssumption DEF Crawl, TypeOK
      <4>4. CASE Save(r, u)
        BY <4>4, <3>1, <3>2 DEF Save, RunData
      <4> QED BY <1>7, <4>1, <4>2, <4>3, <4>4
    <3> QED BY <3>1, <3>2, <3>3, <2>1, <2>5, <2>7 DEF RunData
  <2>9. step'[r] # "emit"
    BY <2>8, <2>7, <1>0 DEF DataInv
  <2> QED BY <2>1, <2>2, <2>4, <2>8, <2>9, <1>d
<1>8. ASSUME NEW r \in Runs, UpdateMessage(r) \/ UpdateFails(r) PROVE DataInv'
  <2>1. /\ step[r] = "handle" /\ topic[r] = "crawl" /\ Fetched(r)
        /\ UNCHANGED <<topic, offset, fetch, data, documents>>
        /\ \A q \in Runs \ {r} : UNCHANGED <<step[q], tries[q]>>
    BY <1>8, <1>0 DEF UpdateMessage, UpdateFails, runVars, TypeOK
  <2>2. JobOf(r) \in CrawlJobs /\ JobOf(r)' = JobOf(r) /\ RunData(r) /\ data[r] # None
    BY <2>1, JobStays, WholeData, <1>b
  <2>3. \A j \in CrawlJobs : preview[j] # None => preview'[j] # None
    BY <1>8, <2>2, <1>0 DEF UpdateMessage, UpdateFails, SetPreview, TypeOK
  <2>4. step'[r] = "emit" /\ tries'[r] < MaxRetries /\ JobOf(r) \in documents
          => preview'[JobOf(r)] # None
    <3>1. CASE UpdateMessage(r)
      BY <3>1, <2>2, <1>0 DEF UpdateMessage, SetPreview, TypeOK
    <3>2. CASE UpdateFails(r)
      BY <3>2, <2>1, <1>0, BoundsAssumption DEF UpdateFails, GivesUp, TypeOK
    <3> QED BY <1>8, <3>1, <3>2
  <2>5. step'[r] \in {"handle", "emit"}
    BY <1>8, <2>1, <1>0 DEF UpdateMessage, UpdateFails, TypeOK
  <2>6. RunData(r)'
    BY <2>1, <2>2, <2>4, <2>5 DEF RunData, Fetched
  <2>7. ASSUME NEW q \in Runs, q # r, step'[q] # "unused", topic'[q] = "crawl" PROVE RunData(q)'
    BY <2>1, <2>3, <2>7, <1>0, RunDataStays DEF TypeOK
  <2> QED BY <2>1, <2>6, <2>7, <1>0, <1>a DEF DataInv
<1>9. ASSUME NEW r \in Runs,
             Emit(r) \/ SyncUser(r) \/ SyncFails(r) \/ Commit(r) \/ CommitFails(r)
      PROVE DataInv'
  <2>1. /\ UNCHANGED <<topic, offset, fetch, data, documents, preview>> /\ step[r] # "unused"
        /\ \A q \in Runs \ {r} : UNCHANGED <<step[q], tries[q]>>
    BY <1>9, <1>0 DEF Emit, SyncUser, SyncFails, Commit, CommitFails, runVars, dataVars, TypeOK
  <2>2. step'[r] # "emit"
    BY <1>9, <1>0 DEF Emit, SyncUser, SyncFails, Commit, CommitFails, TypeOK
  <2>3. ASSUME topic[r] = "crawl" PROVE RunData(r)'
    <3>1. JobOf(r)' = JobOf(r) /\ RunData(r)
      BY <2>1, <2>3, JobStays, <1>b
    <3>2. /\ tries'[r] = tries[r] /\ step[r] \in {"emit", "commit"}
          /\ step'[r] \in {"commit", "done", "failed"}
      BY <1>9, <2>3, <1>0 DEF Emit, SyncUser, SyncFails, Commit, CommitFails, TypeOK
    <3> QED BY <2>1, <3>1, <3>2 DEF RunData, Fetched
  <2>4. ASSUME NEW q \in Runs, q # r, step'[q] # "unused", topic'[q] = "crawl" PROVE RunData(q)'
    BY <2>1, <2>4, RunDataStays
  <2> QED BY <2>1, <2>2, <2>3, <2>4, <1>0, <1>a DEF DataInv
<1>10. CASE UNCHANGED vars
  BY <1>10, <1>c DEF vars, runVars, dataVars
<1> QED
  BY <1>1, <1>2, <1>3, <1>4, <1>5, <1>6, <1>7, <1>8, <1>9, <1>10 DEF Next, DeliverNext, Handle, Fetch

LEMMA WholeStep == Inv /\ [Next]_vars => PreviewsAreWhole'
<1> SUFFICES ASSUME Inv, [Next]_vars PROVE PreviewsAreWhole'
  OBVIOUS
<1>0. TypeOK /\ LogInv /\ DataInv /\ PreviewsAreWhole
  BY DEF Inv
<1> DEFINE Whole(j, p) == p # None => \A u \in Urls : p[u] # None <=> u \in UrlsOf(j)
<1>1. ASSUME NEW j \in CrawlJobs PROVE Whole(j, preview[j]) /\ Whole(j, shown[j])
  BY <1>0 DEF PreviewsAreWhole
<1>2. ASSUME NEW r \in Runs, step[r] # "unused", topic[r] = "crawl", Fetched(r)
      PROVE Whole(JobOf(r), data[r])
  BY <1>2, WholeData
<1>3. ASSUME NEW j \in CrawlJobs PROVE Whole(j, preview'[j])
  <2>1. ASSUME NEW r \in Runs, UpdateMessage(r) \/ UpdateFails(r) PROVE Whole(j, preview'[j])
    <3>1. Whole(JobOf(r), data[r])
      BY <2>1, <1>2 DEF UpdateMessage, UpdateFails
    <3>2. preview'[j] = preview[j] \/ (j = JobOf(r) /\ preview'[j] = data[r])
      BY <2>1, <1>0 DEF UpdateMessage, UpdateFails, SetPreview, TypeOK
    <3> QED BY <3>1, <3>2, <1>1
  <2>2. ASSUME NEW i \in CrawlJobs, DeleteMessage(i) PROVE Whole(j, preview'[j])
    BY <2>2, <1>0, <1>1 DEF DeleteMessage, TypeOK
  <2>3. preview' = preview \/ (\E i \in CrawlJobs : DeleteMessage(i))
          \/ \E r \in Runs : UpdateMessage(r) \/ UpdateFails(r)
    BY DEF Next, Produce, Expire, Stop, Rebalance, DeliverNext, Deliver, Handle, Fetch,
      Hit, Miss, Crawl, Save, FetchFails, Emit, SyncUser, SyncFails, Commit, CommitFails, vars, dataVars
  <2> QED BY <2>1, <2>2, <2>3, <1>1
<1>4. ASSUME NEW j \in CrawlJobs PROVE Whole(j, shown'[j])
  <2>1. ASSUME NEW r \in Runs, Emit(r) PROVE Whole(j, shown'[j])
    <3>1. Whole(JobOf(r), data[r])
      BY <2>1, <1>2, <1>0 DEF Emit, DataInv
    <3>2. shown'[j] = shown[j] \/ (j = JobOf(r) /\ shown'[j] = data[r])
      BY <2>1, <1>0 DEF Emit, TypeOK
    <3> QED BY <3>1, <3>2, <1>1
  <2>2. shown' = shown \/ \E r \in Runs : Emit(r)
    BY DEF Next, Produce, DeleteMessage, Expire, Stop, Rebalance, DeliverNext, Deliver, Handle, Fetch,
      Hit, Miss, Crawl, Save, FetchFails, UpdateMessage, UpdateFails, SyncUser, SyncFails, Commit,
      CommitFails, vars, dataVars
  <2> QED BY <2>1, <2>2, <1>1
<1> QED BY <1>3, <1>4 DEF PreviewsAreWhole

-----------------------------------------------------------------------------
(* What readers are shown.                                                   *)

(* Only an owner has a current run, and it gets no other meanwhile.          *)
LEMMA CurrentStep == Inv /\ [Next]_vars => CurrentInv'
<1> SUFFICES ASSUME Inv, [Next]_vars, NEW q \in Runs, step'[q] \in InProgress, ~outlived'[q]
             PROVE  by'[q] = owner'[topic'[q]] /\ position'[topic'[q]] = offset'[q] + 1
  BY DEF CurrentInv
<1>0. TypeOK
  BY DEF Inv
<1>a. step[q] \in InProgress /\ ~outlived[q] =>
        by[q] = owner[topic[q]] /\ position[topic[q]] = offset[q] + 1
  BY DEF Inv, CurrentInv
<1> USE DEF InProgress, Handled
<1>1. CASE HandlerStep
  BY <1>1, <1>a DEF HandlerStep, RunsMoveOn, groupVars, runVars
<1>2. CASE Rebalance
  BY <1>2 DEF Rebalance
<1>3. ASSUME NEW p \in Processes, Stop(p)
      PROVE  by'[q] = owner'[topic'[q]] /\ position'[topic'[q]] = offset'[q] + 1
  <2>1. step[q] \in InProgress /\ by[q] \notin {p} \X Topics /\ UNCHANGED <<runVars, position>>
    BY <1>3 DEF Stop
  <2> QED BY <2>1, <1>3, <1>a, <1>0 DEF Stop, runVars, TypeOK
<1>4. ASSUME NEW r \in Runs, NEW t \in Topics, Deliver(r, t)
      PROVE  by'[q] = owner'[topic'[q]] /\ position'[topic'[q]] = offset'[q] + 1
  <2>1. /\ position' = [position EXCEPT ![t] = @ + 1] /\ step' = [step EXCEPT ![r] = "handle"]
        /\ topic' = [topic EXCEPT ![r] = t] /\ offset' = [offset EXCEPT ![r] = position[t]]
        /\ by' = [by EXCEPT ![r] = owner[t]] /\ UNCHANGED <<owner, outlived>> /\ ~Busy(owner[t])
    BY <1>4 DEF Deliver
  <2>2. CASE q = r
    BY <2>1, <2>2, <1>0 DEF TypeOK
  <2>3. CASE q # r
    <3>1. step[q] \in InProgress /\ ~outlived[q] /\ UNCHANGED <<topic[q], offset[q], by[q]>>
      BY <2>1, <2>3, <1>0 DEF TypeOK
    <3>2. topic[q] # t
      BY <3>1, <2>1, <1>a DEF Busy
    <3> QED BY <3>1, <3>2, <2>1, <1>a, <1>0 DEF TypeOK
  <2> QED BY <2>2, <2>3
<1>5. ASSUME NEW r \in Runs, CommitStep(r)
      PROVE  by'[q] = owner'[topic'[q]] /\ position'[topic'[q]] = offset'[q] + 1
  BY <1>5, <1>a, <1>0 DEF CommitStep, runVars, TypeOK
<1> QED BY <1>1, <1>2, <1>3, <1>4, <1>5, StepCases

(* A partition has one run in progress, but for those a rebalance passed     *)
(* over.                                                                     *)
LEMMA OneCurrent ==
  ASSUME Inv, NEW r \in Runs, NEW q \in Runs, topic[r] = topic[q], ~outlived[r], ~outlived[q],
         step[r] \in InProgress, step[q] \in InProgress
  PROVE  r = q
<1>1. by[r] = by[q]
  BY DEF Inv, CurrentInv
<1> QED BY <1>1 DEF Inv, SerialInv

(* A delivery stays one, and its failed attempts and the rebalances it       *)
(* outlived are not forgotten.                                               *)
LEMMA RunsStay ==
  ASSUME Inv, [Next]_vars
  PROVE  \A r \in Runs : step[r] # "unused" =>
           /\ step'[r] # "unused" /\ topic'[r] = topic[r] /\ offset'[r] = offset[r]
           /\ tries[r] \in Nat /\ tries'[r] >= tries[r]
           /\ outlived[r] => outlived'[r]
<1> SUFFICES ASSUME NEW r \in Runs, step[r] # "unused"
             PROVE  /\ step'[r] # "unused" /\ topic'[r] = topic[r] /\ offset'[r] = offset[r]
                    /\ tries[r] \in Nat /\ tries'[r] >= tries[r]
                    /\ outlived[r] => outlived'[r]
  OBVIOUS
<1>0. TypeOK
  BY DEF Inv
<1>1. step'[r] # "unused" /\ topic'[r] = topic[r] /\ offset'[r] = offset[r]
      /\ (outlived[r] => outlived'[r])
  <2> USE DEF Handled, InProgress
  <2>1. CASE HandlerStep
    BY <2>1 DEF HandlerStep, RunsMoveOn, runVars
  <2>2. CASE Rebalance
    BY <2>2 DEF Rebalance
  <2>3. ASSUME NEW p \in Processes, Stop(p) PROVE step'[r] # "unused" /\ UNCHANGED runVars
    BY <2>3 DEF Stop
  <2>4. ASSUME NEW q \in Runs, NEW t \in Topics, Deliver(q, t)
        PROVE  step'[r] # "unused" /\ topic'[r] = topic[r] /\ offset'[r] = offset[r]
               /\ outlived' = outlived
    BY <2>4, <1>0 DEF Deliver, TypeOK
  <2>5. ASSUME NEW q \in Runs, CommitStep(q) PROVE step'[r] # "unused" /\ UNCHANGED runVars
    BY <2>5, <1>0 DEF CommitStep, TypeOK
  <2> QED BY <2>1, <2>2, <2>3, <2>4, <2>5, StepCases DEF runVars
<1>2. tries[r] \in Nat /\ tries'[r] >= tries[r]
  <2>1. tries' = tries \/ \E q \in Runs : tries' = [tries EXCEPT ![q] = @ + 1]
    BY DEF Next, Produce, DeleteMessage, Expire, Stop, Rebalance, DeliverNext, Deliver, Handle,
      Fetch, Hit, Miss, Crawl, Save, FetchFails, UpdateMessage, UpdateFails, Emit, SyncUser,
      SyncFails, Commit, CommitFails, vars
  <2>2. tries \in [Runs -> Nat] /\ tries[r] \in Nat
    BY <1>0 DEF TypeOK
  <2>3. ASSUME NEW q \in Runs, tries' = [tries EXCEPT ![q] = @ + 1] PROVE tries'[r] >= tries[r]
    <3>1. tries'[r] = IF r = q THEN tries[r] + 1 ELSE tries[r]
      BY <2>2, <2>3
    <3> QED BY <2>2, <3>1
  <2> QED BY <2>1, <2>2, <2>3
<1> QED BY <1>1, <1>2

(* What a run has got is settled once it awaits nothing for its addresses.   *)
Settled(r) == \A u \in Urls : fetch[r][u] \notin Awaited

LEMMA SettledStays ==
  ASSUME Inv, [Next]_vars, NEW r \in Runs, step[r] # "unused", Settled(r)
  PROVE  data'[r] = data[r] /\ fetch'[r] = fetch[r]
<1>0. TypeOK
  BY DEF Inv
<1> USE DEF Settled, Awaited
<1>1. ASSUME NEW p \in Processes, Stop(p) PROVE data'[r] = data[r] /\ fetch'[r] = fetch[r]
  <2>1. fetch' = [q \in Runs |-> [u \in Urls |->
          IF q \in {x \in Runs : by[x] \in {p} \X Topics} /\ fetch[q][u] # "done"
          THEN "lost" ELSE fetch[q][u]]]
    BY <1>1 DEF Stop
  <2>2. fetch[r] \in [Urls -> Awaited \union {"done", "lost"}]
    BY <1>0 DEF TypeOK
  <2>3. \A u \in Urls : fetch[r][u] \in {"done", "lost"}
    BY <2>2
  <2>4. fetch'[r] = [u \in Urls |-> fetch[r][u]]
    BY <2>1, <2>3
  <2> QED BY <1>1, <2>2, <2>4 DEF Stop, dataVars
<1>2. ASSUME NEW q \in Runs, NEW t \in Topics, Deliver(q, t)
      PROVE  data'[r] = data[r] /\ fetch'[r] = fetch[r]
  BY <1>2, <1>0 DEF Deliver, TypeOK
<1>3. ASSUME NEW q \in Runs, NEW u \in Urls,
             Hit(q, u) \/ Miss(q, u) \/ Crawl(q, u) \/ Save(q, u) \/ FetchFails(q, u)
      PROVE  data'[r] = data[r] /\ fetch'[r] = fetch[r]
  <2>1. q # r
    BY <1>3 DEF Hit, Miss, Crawl, Save, FetchFails
  <2> QED BY <1>3, <2>1, <1>0 DEF Hit, Miss, Crawl, Save, FetchFails, TypeOK
<1> QED
  BY <1>1, <1>2, <1>3 DEF Next, Produce, DeleteMessage, Expire, Rebalance, DeliverNext, Handle,
    Fetch, UpdateMessage, UpdateFails, Emit, SyncUser, SyncFails, Commit, CommitFails, vars

(* How the step of a run changes but by its own update and event.            *)
LEMMA RunMoves ==
  ASSUME Inv, [Next]_vars, NEW r \in Runs, step[r] # "unused", topic[r] = "crawl",
         ~UpdateMessage(r), ~UpdateFails(r), ~Emit(r)
  PROVE  /\ step'[r] = "emit" => step[r] = "emit"
         /\ step[r] = "killed" <=> step'[r] = "killed" /\ step[r] \notin InProgress
         /\ step[r] \in {"handle", "emit"} /\ Fetched(r) => step'[r] \in {step[r], "killed"}
         /\ tries'[r] = tries[r]
<1>0. TypeOK
  BY DEF Inv
<1> USE DEF InProgress, Awaited
<1>1. ASSUME NEW p \in Processes, Stop(p)
      PROVE  /\ step'[r] = step[r] \/ (step[r] \in InProgress /\ step'[r] = "killed")
             /\ tries' = tries
  BY <1>1 DEF Stop
<1>2. ASSUME NEW q \in Runs, NEW t \in Topics, Deliver(q, t)
      PROVE  step'[r] = step[r] /\ tries' = tries
  BY <1>2, <1>0 DEF Deliver, TypeOK
<1>3. ASSUME NEW q \in Runs, NEW u \in Urls,
             Hit(q, u) \/ Miss(q, u) \/ Crawl(q, u) \/ Save(q, u) \/ FetchFails(q, u)
      PROVE  /\ step'[r] = step[r] \/ (~Fetched(r) /\ step[r] = "handle" /\ step'[r] = "failed")
             /\ tries' = tries
  <2>1. CASE q = r
    <3>1. ~Fetched(r) /\ tries' = tries
      BY <1>3, <2>1 DEF Hit, Miss, Crawl, Save, FetchFails, Fetched
    <3>2. step'[r] = step[r] \/ (step[r] = "handle" /\ step'[r] = "failed")
      BY <1>3, <2>1, <1>0 DEF Hit, Miss, Crawl, Save, FetchFails, TypeOK
    <3> QED BY <3>1, <3>2
  <2>2. CASE q # r
    BY <1>3, <2>2, <1>0 DEF Hit, Miss, Crawl, Save, FetchFails, TypeOK
  <2> QED BY <2>1, <2>2
<1>4. ASSUME NEW q \in Runs, q # r,
             \/ UpdateMessage(q) \/ UpdateFails(q) \/ Emit(q) \/ SyncUser(q) \/ SyncFails(q)
             \/ Commit(q) \/ CommitFails(q)
      PROVE  step'[r] = step[r] /\ tries'[r] = tries[r]
  BY <1>4, <1>0 DEF UpdateMessage, UpdateFails, Emit, SyncUser, SyncFails, Commit, CommitFails, TypeOK
<1>5. ASSUME SyncUser(r) \/ SyncFails(r) \/ Commit(r) \/ CommitFails(r)
      PROVE  step[r] = "commit" /\ step'[r] \in {"done", "failed"} /\ tries' = tries
  BY <1>5, <1>0 DEF SyncUser, SyncFails, Commit, CommitFails, TypeOK
<1> QED
  BY <1>1, <1>2, <1>3, <1>4, <1>5 DEF Next, Produce, DeleteMessage, Expire, Rebalance, DeliverNext,
    Handle, Fetch, vars

LEMMA StillStep == Inv /\ [Next]_vars => StillInv'
<1> SUFFICES ASSUME Inv, [Next]_vars, NEW r \in Runs
             PROVE  /\ step'[r] = "killed" => Settled(r)'
                    /\ topic'[r] = "crawl" /\ tries'[r] > 0 => Fetched(r)'
  BY DEF StillInv, Settled
<1>0. TypeOK /\ TypeOK' /\ LogInv /\ StillInv
  BY TypeStep DEF Inv
<1>1. ASSUME step'[r] = "killed" PROVE Settled(r)'
  <2>1. CASE step[r] = "killed"
    BY <2>1, <1>0, SettledStays DEF StillInv, Settled
  <2>2. CASE step[r] # "killed"
    <3>1. PICK p \in Processes : Stop(p)
      <4>1. ~HandlerStep /\ ~Rebalance
        BY <1>1, <2>2 DEF HandlerStep, Rebalance, RunsMoveOn, InProgress, Handled
      <4>2. \A q \in Runs, t \in Topics : ~Deliver(q, t)
        BY <1>1, <2>2, <1>0 DEF Deliver, TypeOK
      <4>3. \A q \in Runs : ~CommitStep(q)
        BY <1>1, <2>2, <1>0 DEF CommitStep, Handled, TypeOK
      <4> QED BY <4>1, <4>2, <4>3, StepCases
    <3> QED BY <1>1, <2>2, <3>1 DEF Stop, Settled, Awaited
  <2> QED BY <2>1, <2>2
<1>2. ASSUME topic'[r] = "crawl", tries'[r] > 0 PROVE Fetched(r)'
  <2>1. CASE step[r] = "unused"
    <3>1. tries'[r] = tries[r]
      BY <2>1, <1>0 DEF Next, Produce, DeleteMessage, Expire, Stop, Rebalance, DeliverNext, Deliver,
        Handle, Fetch, Hit, Miss, Crawl, Save, FetchFails, UpdateMessage, UpdateFails, Emit,
        SyncUser, SyncFails, Commit, CommitFails, vars, TypeOK
    <3> QED BY <1>2, <2>1, <3>1, <1>0 DEF LogInv
  <2>2. CASE step[r] # "unused"
    <3>1. topic[r] = "crawl"
      BY <1>2, <2>2, RunsStay
    <3>2. Fetched(r)
      <4>1. CASE UpdateMessage(r) \/ UpdateFails(r)
        BY <4>1 DEF UpdateMessage, UpdateFails
      <4>2. CASE Emit(r)
        BY <4>2, <3>1 DEF Inv, DataInv, Emit
      <4>3. CASE ~UpdateMessage(r) /\ ~UpdateFails(r) /\ ~Emit(r)
        BY <4>3, <1>2, <2>2, <3>1, <1>0, RunMoves DEF StillInv
      <4> QED BY <4>1, <4>2, <4>3
    <3>3. fetch'[r] = fetch[r]
      BY <2>2, <3>2, SettledStays DEF Settled, Fetched, Awaited
    <3> QED BY <3>2, <3>3 DEF Fetched
  <2> QED BY <2>1, <2>2
<1> QED BY <1>1, <1>2

(* Only a delivery of its job changes what is stored or shown of a message   *)
(* that is there.                                                            *)
LEMMA ViewChanges ==
  ASSUME Inv, [Next]_vars, NEW j \in documents'
  PROVE  /\ j \in documents /\ j \in CrawlJobs
         /\ preview'[j] = preview[j] \/ \E q \in Runs : JobOf(q) = j /\ (UpdateMessage(q) \/ UpdateFails(q))
         /\ shown'[j] = shown[j] \/ \E q \in Runs : JobOf(q) = j /\ Emit(q)
<1>0. TypeOK
  BY DEF Inv
<1>1. j \in documents /\ j \in CrawlJobs
  <2>1. documents' \subseteq documents
    BY DEF Next, Produce, DeleteMessage, Expire, Stop, Rebalance, DeliverNext, Deliver, Handle,
      Fetch, Hit, Miss, Crawl, Save, FetchFails, UpdateMessage, UpdateFails, Emit, SyncUser,
      SyncFails, Commit, CommitFails, vars, dataVars
  <2> QED BY <2>1, <1>0 DEF TypeOK
<1>2. preview'[j] = preview[j] \/ \E q \in Runs : JobOf(q) = j /\ (UpdateMessage(q) \/ UpdateFails(q))
  <2>1. preview' = preview \/ (\E i \in CrawlJobs : DeleteMessage(i))
          \/ \E r \in Runs : UpdateMessage(r) \/ UpdateFails(r)
    BY DEF Next, Produce, Expire, Stop, Rebalance, DeliverNext, Deliver, Handle, Fetch,
      Hit, Miss, Crawl, Save, FetchFails, Emit, SyncUser, SyncFails, Commit, CommitFails, vars, dataVars
  <2>2. ASSUME NEW i \in CrawlJobs, DeleteMessage(i) PROVE preview'[j] = preview[j]
    BY <2>2, <1>0, <1>1 DEF DeleteMessage, TypeOK
  <2>3. ASSUME NEW q \in Runs, UpdateMessage(q) \/ UpdateFails(q)
        PROVE preview'[j] = preview[j] \/ JobOf(q) = j
    BY <2>3, <1>0, <1>1 DEF UpdateMessage, UpdateFails, SetPreview, TypeOK
  <2> QED BY <2>1, <2>2, <2>3
<1>3. shown'[j] = shown[j] \/ \E q \in Runs : JobOf(q) = j /\ Emit(q)
  <2>1. shown' = shown \/ \E r \in Runs : Emit(r)
    BY DEF Next, Produce, DeleteMessage, Expire, Stop, Rebalance, DeliverNext, Deliver, Handle, Fetch,
      Hit, Miss, Crawl, Save, FetchFails, UpdateMessage, UpdateFails, SyncUser, SyncFails, Commit,
      CommitFails, vars, dataVars
  <2>2. ASSUME NEW q \in Runs, Emit(q) PROVE shown'[j] = shown[j] \/ JobOf(q) = j
    BY <2>2, <1>0, <1>1 DEF Emit, TypeOK
  <2> QED BY <2>1, <2>2
<1> QED BY <1>1, <1>2, <1>3

(* A message keeps the deliveries of its job; a new one has just begun.      *)
LEMMA RunsOfStay ==
  ASSUME Inv, [Next]_vars, NEW j \in CrawlJobs
  PROVE  /\ RunsOf(j) \subseteq RunsOf(j)'
         /\ \A r \in RunsOf(j)' \ RunsOf(j) : step'[r] = "handle"
<1>0. TypeOK
  BY DEF Inv
<1>1. ASSUME NEW r \in RunsOf(j) PROVE r \in RunsOf(j)'
  <2>1. r \in Runs /\ step[r] # "unused" /\ topic[r] = "crawl" /\ JobOf(r) = j
    BY DEF RunsOf
  <2> QED BY <2>1, RunsStay, JobStays DEF RunsOf
<1>2. ASSUME NEW r \in RunsOf(j)', r \notin RunsOf(j) PROVE step'[r] = "handle"
  <2>1. r \in Runs /\ step'[r] # "unused" /\ topic'[r] = "crawl" /\ JobOf(r)' = j
    BY DEF RunsOf
  <2>2. step[r] = "unused"
    <3>1. SUFFICES ASSUME step[r] # "unused" PROVE FALSE
      OBVIOUS
    <3>2. topic[r] = "crawl" /\ JobOf(r) = j
      BY <2>1, <3>1, RunsStay, JobStays
    <3> QED BY <1>2, <2>1, <3>1, <3>2 DEF RunsOf
  <2>3. CASE HandlerStep \/ Rebalance
    BY <2>1, <2>2, <2>3 DEF HandlerStep, Rebalance, RunsMoveOn, InProgress
  <2>4. CASE \E p \in Processes : Stop(p)
    BY <2>1, <2>2, <2>4 DEF Stop, InProgress
  <2>5. CASE \E q \in Runs, t \in Topics : Deliver(q, t)
    BY <2>1, <2>2, <2>5, <1>0 DEF Deliver, TypeOK
  <2>6. CASE \E q \in Runs : CommitStep(q)
    BY <2>1, <2>2, <2>6, <1>0 DEF CommitStep, TypeOK
  <2> QED BY <2>3, <2>4, <2>5, <2>6, StepCases
<1> QED BY <1>1, <1>2

(* Every step keeps what is shown and what is stored in agreement, or leaves *)
(* the handler that will show it, or one of the exceptions.                  *)
LEMMA ViewStep == Inv /\ [Next]_vars => ViewInv'
<1> SUFFICES ASSUME Inv, [Next]_vars, NEW j \in documents', \A r \in RunsOf(j)' : ~outlived'[r]
             PROVE  /\ Agreed(j)' \/ \E r \in RunsOf(j)' : AboutToShow(r, j)'
                    /\ \A r \in RunsOf(j)' : step'[r] = "emit" =>
                         preview'[j] = data'[r] \/ tries'[r] >= MaxRetries
  BY DEF ViewInv
<1>0. TypeOK /\ TypeOK' /\ MaxRetries \in Nat
  BY TypeStep, BoundsAssumption DEF Inv
<1>1. /\ j \in documents /\ j \in CrawlJobs
      /\ preview'[j] = preview[j] \/ \E q \in Runs : JobOf(q) = j /\ (UpdateMessage(q) \/ UpdateFails(q))
      /\ shown'[j] = shown[j] \/ \E q \in Runs : JobOf(q) = j /\ Emit(q)
  BY ViewChanges
<1>2. /\ RunsOf(j) \subseteq RunsOf(j)'
      /\ \A r \in RunsOf(j)' : step'[r] # "handle" => r \in RunsOf(j)
  BY <1>1, RunsOfStay
<1>3. \A r \in RunsOf(j) : /\ r \in Runs /\ step[r] # "unused" /\ topic[r] = "crawl"
                           /\ ~outlived[r] /\ JobOf(r) = j
  <2> SUFFICES ASSUME NEW r \in RunsOf(j) PROVE ~outlived[r]
    BY DEF RunsOf
  <2>1. r \in Runs /\ step[r] # "unused" /\ ~outlived'[r]
    BY <1>2 DEF RunsOf
  <2> QED BY <2>1, RunsStay
<1>4. /\ Agreed(j) \/ \E r \in RunsOf(j) : AboutToShow(r, j)
      /\ \A r \in RunsOf(j) : step[r] = "emit" => preview[j] = data[r] \/ tries[r] >= MaxRetries
  BY <1>1, <1>3 DEF Inv, ViewInv
<1>5. \A r, q \in RunsOf(j) : step[r] \in InProgress /\ step[q] \in InProgress => r = q
  BY <1>3, OneCurrent
(* The reasons to differ remain.                                             *)
<1>6. ASSUME NEW r \in RunsOf(j), step[r] = "killed" \/ tries[r] >= MaxRetries \/ Fetched(r)
      PROVE  data'[r] = data[r] /\ (Fetched(r) => Fetched(r)') /\ tries'[r] >= tries[r]
             /\ tries[r] \in Nat
  <2>1. tries[r] \in Nat /\ tries'[r] >= tries[r]
    BY <1>3, RunsStay
  <2>2. tries[r] >= MaxRetries => tries[r] > 0
    BY <2>1, BoundsAssumption
  <2>3. Settled(r)
    BY <1>3, <1>6, <2>2 DEF Inv, StillInv, Settled, Fetched, Awaited
  <2>4. data'[r] = data[r] /\ fetch'[r] = fetch[r]
    BY <1>3, <2>3, SettledStays
  <2> QED BY <2>1, <2>4 DEF Fetched
<1>7. ASSUME preview'[j] = preview[j], shown'[j] = shown[j], Agreed(j),
             \A r \in RunsOf(j) : step[r] = "killed" => step'[r] = "killed"
      PROVE  Agreed(j)'
  <2>1. CASE shown[j] = None \/ shown[j] = preview[j]
    BY <1>7, <2>1 DEF Agreed
  <2>2. ASSUME NEW r \in RunsOf(j), step[r] = "killed", preview[j] = data[r] PROVE Agreed(j)'
    BY <1>2, <1>6, <1>7, <2>2 DEF Agreed
  <2>3. ASSUME NEW r \in RunsOf(j), tries[r] >= MaxRetries, shown[j] = data[r] PROVE Agreed(j)'
    <3>1. data'[r] = data[r] /\ tries'[r] >= MaxRetries
      BY <1>0, <1>3, <1>6, <2>3 DEF TypeOK
    <3> QED BY <1>2, <1>7, <2>3, <3>1 DEF Agreed
  <2> QED BY <1>7, <2>1, <2>2, <2>3 DEF Agreed
<1>8. ASSUME NEW q \in RunsOf(j), UpdateMessage(q) \/ UpdateFails(q)
      PROVE  /\ Agreed(j)' \/ \E r \in RunsOf(j)' : AboutToShow(r, j)'
             /\ \A r \in RunsOf(j)' : step'[r] = "emit" =>
                  preview'[j] = data'[r] \/ tries'[r] >= MaxRetries
  <2>1. /\ step[q] = "handle" /\ Fetched(q) /\ step'[q] \in {"handle", "emit"}
        /\ \A r \in Runs : r # q => step'[r] = step[r]
        /\ UNCHANGED <<data, fetch, shown>> /\ Fetched(q)'
    BY <1>3, <1>8, <1>0 DEF UpdateMessage, UpdateFails, Fetched, TypeOK
  <2>2. \/ preview'[j] = data[q]
        \/ preview'[j] = preview[j] /\ (step'[q] = "emit" => tries'[q] >= MaxRetries)
    BY <1>1, <1>3, <1>8, <1>0 DEF UpdateMessage, UpdateFails, SetPreview, GivesUp, TypeOK
  <2>3. ASSUME NEW r \in RunsOf(j)', step'[r] = "emit" PROVE r = q
    BY <1>2, <1>3, <1>5, <2>1, <2>3 DEF InProgress
  <2>4. q \in RunsOf(j)'
    BY <1>2
  <2>5. CASE preview'[j] = data[q]
    <3>1. AboutToShow(q, j)'
      BY <2>1, <2>5 DEF AboutToShow
    <3> QED BY <2>1, <2>3, <2>4, <2>5, <3>1
  <2>6. CASE preview'[j] = preview[j] /\ (step'[q] = "emit" => tries'[q] >= MaxRetries)
    <3>1. Agreed(j) => Agreed(j)'
      BY <1>3, <1>7, <2>1, <2>6
    <3>2. ASSUME NEW r \in RunsOf(j), AboutToShow(r, j) PROVE AboutToShow(r, j)'
      <4>1. step'[r] \in {"handle", "emit"}
        BY <1>3, <2>1, <3>2 DEF AboutToShow
      <4> QED BY <1>6, <2>1, <2>6, <3>2, <4>1 DEF AboutToShow
    <3> QED BY <1>2, <1>4, <2>3, <2>6, <3>1, <3>2
  <2> QED BY <2>2, <2>5, <2>6
<1>9. ASSUME NEW q \in RunsOf(j), Emit(q)
      PROVE  /\ Agreed(j)' \/ \E r \in RunsOf(j)' : AboutToShow(r, j)'
             /\ \A r \in RunsOf(j)' : step'[r] = "emit" =>
                  preview'[j] = data'[r] \/ tries'[r] >= MaxRetries
  <2>1. /\ step[q] = "emit" /\ step'[q] = "commit" /\ shown'[j] = data[q]
        /\ \A r \in Runs : r # q => step'[r] = step[r]
        /\ UNCHANGED <<data, tries, preview>>
    BY <1>1, <1>3, <1>9, <1>0 DEF Emit, TypeOK
  <2>2. Agreed(j)'
    <3>1. preview[j] = data[q] \/ tries[q] >= MaxRetries
      BY <1>4, <2>1
    <3> QED BY <1>2, <2>1, <3>1 DEF Agreed
  <2>3. ASSUME NEW r \in RunsOf(j)', step'[r] = "emit" PROVE FALSE
    BY <1>2, <1>3, <1>5, <2>1, <2>3 DEF InProgress
  <2> QED BY <2>2, <2>3
<1>10. CASE \A q \in RunsOf(j) : ~UpdateMessage(q) /\ ~UpdateFails(q) /\ ~Emit(q)
  <2>1. preview'[j] = preview[j] /\ shown'[j] = shown[j]
    <3>1. ASSUME NEW q \in Runs, JobOf(q) = j, UpdateMessage(q) \/ UpdateFails(q) \/ Emit(q)
          PROVE  q \in RunsOf(j)
      BY <3>1 DEF UpdateMessage, UpdateFails, Emit, RunsOf, Inv, DataInv
    <3> QED BY <1>1, <1>10, <3>1
  <2>2. \A r \in RunsOf(j) :
          /\ step'[r] = "emit" => step[r] = "emit"
          /\ step[r] = "killed" => step'[r] = "killed"
          /\ step[r] \in {"handle", "emit"} /\ Fetched(r) => step'[r] \in {step[r], "killed"}
    BY <1>3, <1>10, RunMoves
  <2>3. Agreed(j) => Agreed(j)'
    BY <1>7, <2>1, <2>2
  <2>4. ASSUME NEW r \in RunsOf(j), AboutToShow(r, j)
        PROVE  Agreed(j)' \/ AboutToShow(r, j)'
    <3>1. data'[r] = data[r] /\ Fetched(r)'
      BY <1>6, <2>4 DEF AboutToShow
    <3>2. step'[r] \in {"handle", "emit", "killed"} /\ preview'[j] = data'[r]
      BY <2>1, <2>2, <2>4, <3>1 DEF AboutToShow
    <3> QED BY <1>2, <3>1, <3>2 DEF AboutToShow, Agreed
  <2>5. ASSUME NEW r \in RunsOf(j)', step'[r] = "emit"
        PROVE  preview'[j] = data'[r] \/ tries'[r] >= MaxRetries
    <3>1. r \in RunsOf(j) /\ step[r] = "emit"
      BY <1>2, <2>2, <2>5
    <3>2. Fetched(r)
      BY <1>3, <3>1 DEF Inv, DataInv
    <3>3. data'[r] = data[r] /\ tries'[r] >= tries[r] /\ tries[r] \in Nat /\ tries'[r] \in Nat
      BY <1>0, <1>3, <1>6, <3>1, <3>2 DEF TypeOK
    <3> QED BY <1>0, <1>4, <2>1, <3>1, <3>3
  <2> QED BY <1>2, <1>4, <2>3, <2>4, <2>5
<1> QED BY <1>8, <1>9, <1>10

-----------------------------------------------------------------------------
(* The theorems.                                                             *)

LEMMA InitInv == Init => Inv
<1> SUFFICES ASSUME Init PROVE Inv
  OBVIOUS
<1> USE DEF Init, InProgress, Handled, Awaited
<1>1. TypeOK
  BY DEF TypeOK, Topics
<1>2. LogInv /\ SerialInv /\ PrefixInv /\ OwnerInv /\ DataInv
  BY DEF LogInv, SerialInv, PrefixInv, OwnerInv, DataInv
<1>3. NothingSkipped /\ PreviewsAreWhole
  BY DEF NothingSkipped, PreviewsAreWhole
<1>4. CurrentInv /\ StillInv /\ ViewInv
  BY DEF CurrentInv, StillInv, ViewInv, Agreed, RunsOf
<1> QED BY <1>1, <1>2, <1>3, <1>4 DEF Inv

(* The inductive invariant: deliveries follow on handled jobs, owners and    *)
(* commits keep in step, and handlers have what they store.                  *)
THEOREM Invariance == Spec => []Inv
<1>1. Inv /\ [Next]_vars => Inv'
  BY TypeStep, LogStep, SerialStep, PrefixStep, OwnerStep, DataStep, SkippedStep, WholeStep,
     CurrentStep, StillStep, ViewStep DEF Inv
<1> QED BY InitInv, <1>1, PTL DEF Spec

(* Every variable has its type.                                              *)
THEOREM TypeCorrect == Spec => []TypeOK
<1>1. Inv => TypeOK
  BY DEF Inv
<1> QED BY <1>1, Invariance, PTL

(* The committed offset never passes a job whose handler has not got to its  *)
(* end (consumer.base-queue.ts, eachMessage and commitOffset).               *)
THEOREM NoJobSkipped == Spec => []NothingSkipped
<1>1. Inv => NothingSkipped
  BY DEF Inv
<1> QED BY <1>1, Invariance, PTL

(* A message whose job was passed has its preview, unless an error of the    *)
(* job was logged (craw-url.queue.ts and message.service.ts).                *)
THEOREM LossLogged == Spec => []LossIsLogged
<1>1. ASSUME Inv PROVE LossIsLogged
  <2> SUFFICES ASSUME NEW o \in 0 .. committed["crawl"] - 1,
                      log["crawl"][o + 1] \in documents, preview[log["crawl"][o + 1]] = None
               PROVE \E r \in RunsAt("crawl", o) : step[r] = "failed" \/ tries[r] >= MaxRetries
    BY DEF LossIsLogged
  <2>1. PICK r \in RunsAt("crawl", o) : step[r] \in Handled
    BY <1>1 DEF Inv, NothingSkipped, Topics
  <2>2. r \in Runs /\ topic[r] = "crawl" /\ offset[r] = o /\ step[r] # "unused"
    BY <2>1 DEF RunsAt
  <2>3. CASE step[r] = "done" /\ tries[r] < MaxRetries
    BY <1>1, <2>2, <2>3 DEF Inv, DataInv, JobOf
  <2>4. tries[r] \in Nat /\ MaxRetries \in Nat
    BY <1>1, <2>2, BoundsAssumption DEF Inv, TypeOK
  <2> QED BY <2>1, <2>3, <2>4 DEF Handled
<1> QED BY <1>1, Invariance, PTL

(* A preview is stored and broadcast for all the addresses of a message or   *)
(* for none (crawWebData).                                                   *)
THEOREM WholePreviews == Spec => []PreviewsAreWhole
<1>1. Inv => PreviewsAreWhole
  BY DEF Inv
<1> QED BY <1>1, Invariance, PTL

(* A commit moves the group back only after a rebalance that did not wait    *)
(* for a handler of the partition (commitOffset).                            *)
THEOREM NoSilentStepBack == Spec => BackOnlyAfterTimeout
<1>1. ASSUME Inv, [Next]_vars, NEW t \in Topics, committed'[t] < committed[t]
      PROVE Overrun(t)
  <2>0. TypeOK /\ OwnerInv
    BY <1>1 DEF Inv
  <2>1. committed' # committed
    BY <1>1, <2>0 DEF TypeOK
  <2>2. PICK r \in Runs : CommitStep(r)
    BY <1>1, <2>1, StepCases DEF HandlerStep, groupVars, Rebalance, Stop, Deliver
  <2>3. topic[r] = t /\ committed'[t] = offset[r] + 1
    <3>1. committed' = committed \/ committed' = [committed EXCEPT ![topic[r]] = offset[r] + 1]
      BY <2>2 DEF CommitStep
    <3>2. committed \in [Topics -> Nat] /\ committed'[t] # committed[t]
      BY <2>0, <1>1 DEF TypeOK
    <3> QED BY <3>1, <3>2
  <2>4. offset[r] \in Nat /\ committed[t] \in Nat /\ step[r] \in InProgress
    BY <2>0, <2>2 DEF TypeOK, CommitStep, InProgress
  <2> QED BY <2>0, <2>3, <2>4, <1>1 DEF OwnerInv, Overrun
<1>2. Inv /\ [Next]_vars =>
        [\A t \in Topics : committed'[t] < committed[t] =>
          \E r \in Runs : topic[r] = t /\ outlived[r]]_vars
  BY <1>1 DEF Overrun
<1> QED BY <1>2, Invariance, PTL DEF Spec, BackOnlyAfterTimeout

(* When nobody works on a message any more, its readers were last shown what *)
(* is stored, but for a run a rebalance passed over, a stop after a newer    *)
(* preview was stored, or a failed last attempt to store what was shown      *)
(* (crawWebData and updateMessageByCrawUrl).                                 *)
THEOREM ShownMatches == Spec => []ShownIsStored
<1>1. ASSUME Inv PROVE ShownIsStored
  <2> SUFFICES ASSUME NEW j \in documents,
                      \A r \in RunsOf(j) : step[r] \notin InProgress /\ ~outlived[r]
               PROVE  Agreed(j)
    BY DEF ShownIsStored
  <2>1. Agreed(j) \/ \E r \in RunsOf(j) : AboutToShow(r, j)
    BY <1>1 DEF Inv, ViewInv
  <2> QED BY <2>1 DEF AboutToShow, InProgress
<1> QED BY <1>1, Invariance, PTL
====

---- MODULE RedisLock ----
(***************************************************************************)
(* withLock of domains/cache.domain.ts: a function that runs under a lock  *)
(* in Redis, with a timer that extends the lock while the function runs.   *)
(*                                                                         *)
(* A caller is one run of withLock.  Times are what is left of them, in    *)
(* units that divide the lifetime of a lock.  A timer may fire late: the   *)
(* process can be busy.  Redlock's own attempts are part of one operation. *)
(***************************************************************************)
EXTENDS Integers

CONSTANTS
  Callers,    \* the runs of withLock
  Keys,       \* the keys that may be locked
  Ttl,        \* the lifetime of a lock
  Interval,   \* the time between two extensions
  None        \* no caller

ASSUME TtlAssumption == Interval \in Nat \ {0} /\ Ttl = 3 * Interval

ASSUME NoneAssumption == None \notin Callers

VARIABLES
  pc,        \* caller -> the operation it awaits
  wants,     \* caller -> the keys it locks
  lock,      \* caller -> what its lock object says is left of the lock
  timer,     \* caller -> what is left until the timer fires, Off if cleared
  sent,      \* caller -> extensions that were sent and are not done
  promised,  \* history: what is left of the time Redis granted a caller
  holder,    \* Redis: key -> the caller whose value it holds
  left       \* Redis: key -> what is left until it expires

callVars == <<pc, wants>>
redisVars == <<holder, left>>
vars == <<pc, wants, lock, timer, sent, promised, holder, left>>

Off == -1

Steps == {"idle", "acquire", "granted", "run", "giveUp", "release",
          "done", "refused", "stopped"}

(* Between the answer to acquire and the release. *)
Running(k) == pc[k] = "run"

Held(k) == {x \in Keys : holder[x] = k}

Less(n) == IF n > 0 THEN n - 1 ELSE n

Init ==
  /\ pc = [k \in Callers |-> "idle"]
  /\ wants = [k \in Callers |-> {}]
  /\ lock = [k \in Callers |-> 0]
  /\ timer = [k \in Callers |-> Off]
  /\ sent = [k \in Callers |-> 0]
  /\ promised = [k \in Callers |-> 0]
  /\ holder = [x \in Keys |-> None]
  /\ left = [x \in Keys |-> 0]

-----------------------------------------------------------------------------
Goto(k, from, to) == pc[k] = from /\ pc' = [pc EXCEPT ![k] = to]

(* Redis sets, renews and removes the keys of a caller in one script.        *)
SetKeys(k) ==
  /\ holder' = [x \in Keys |-> IF x \in wants[k] THEN k ELSE holder[x]]
  /\ left' = [x \in Keys |-> IF x \in wants[k] THEN Ttl ELSE left[x]]
  /\ promised' = [promised EXCEPT ![k] = Ttl]

RemoveKeys(k, X) ==
  /\ holder' = [x \in Keys |-> IF x \in X THEN None ELSE holder[x]]
  /\ left' = [x \in Keys |-> IF x \in X THEN 0 ELSE left[x]]
  /\ promised' = [promised EXCEPT ![k] = 0]

-----------------------------------------------------------------------------
(* Variants of the operations that follow: mistakes the runs must find.      *)

(* The keys are deleted whoever has them now. *)
ReleaseAll(k) ==
  /\ Goto(k, "release", "done")
  /\ RemoveKeys(k, wants[k])
  /\ UNCHANGED <<wants, lock, timer, sent>>

(* The keys are set again whoever has them now. *)
ExtendAnyway(k) ==
  /\ sent[k] > 0
  /\ sent' = [sent EXCEPT ![k] = @ - 1]
  /\ SetKeys(k)
  /\ lock' = [lock EXCEPT ![k] = 0]
  /\ UNCHANGED <<callVars, timer>>

(* The lock that extend returns is kept, and extended again. *)
ExtendAgain(k) ==
  /\ sent[k] > 0
  /\ sent' = [sent EXCEPT ![k] = @ - 1]
  /\ IF Held(k) = wants[k]
     THEN SetKeys(k) /\ lock' = [lock EXCEPT ![k] = Ttl] /\ UNCHANGED timer
     ELSE timer' = [timer EXCEPT ![k] = Off] /\ UNCHANGED <<lock, promised, redisVars>>
  /\ UNCHANGED callVars

-----------------------------------------------------------------------------
Begin(k) ==
  /\ Goto(k, "idle", "acquire")
  /\ \E X \in (SUBSET Keys) \ {{}} : wants' = [wants EXCEPT ![k] = X]
  /\ lock' = [lock EXCEPT ![k] = Ttl]
  /\ UNCHANGED <<timer, sent, promised, redisVars>>

(* The options for retries are read under keys the configuration does not    *)
(* have: whoever finds a key taken is refused at once, with isRetry too.     *)
Acquire(k) ==
  /\ \/ /\ \A x \in wants[k] : holder[x] = None
        /\ Goto(k, "acquire", "granted")
        /\ SetKeys(k)
     \/ /\ \E x \in wants[k] : holder[x] # None
        /\ Goto(k, "acquire", "refused")
        /\ UNCHANGED <<promised, redisVars>>
  /\ UNCHANGED <<wants, lock, timer, sent>>

(* The timer starts with the answer, and so does the function.               *)
Answer(k) ==
  /\ Goto(k, "granted", "run")
  /\ timer' = [timer EXCEPT ![k] = Interval]
  /\ UNCHANGED <<wants, lock, sent, promised, redisVars>>

AcquireFails(k) ==
  /\ Goto(k, "acquire", "refused") \/ Goto(k, "granted", "giveUp")
  /\ UNCHANGED <<wants, lock, timer, sent, promised, redisVars>>

(* Redlock gives a lock up that it was not told of. *)
GiveUp(k) ==
  /\ Goto(k, "giveUp", "refused")
  /\ RemoveKeys(k, Held(k)) \/ UNCHANGED <<promised, redisVars>>
  /\ UNCHANGED <<wants, lock, timer, sent>>

(* The timer: a lock that has expired by its own account is not extended,    *)
(* and the timer is cleared.                                                 *)
Fire(k) ==
  /\ timer[k] = 0
  /\ \/ /\ lock[k] > 0
        /\ sent' = [sent EXCEPT ![k] = @ + 1]
        /\ timer' = [timer EXCEPT ![k] = Interval]
     \/ /\ lock[k] = 0
        /\ timer' = [timer EXCEPT ![k] = Off]
        /\ UNCHANGED sent
  /\ UNCHANGED <<callVars, lock, promised, redisVars>>

-----------------------------------------------------------------------------
(* An extension that was sent is carried out, also after the release.  It    *)
(* returns a new lock, which is dropped: the old one then counts as expired, *)
(* so the next extension is refused before it is sent.                       *)
Extend(k) ==
  /\ sent[k] > 0
  /\ sent' = [sent EXCEPT ![k] = @ - 1]
  /\ \/ /\ Held(k) = wants[k]
        /\ SetKeys(k)
        /\ lock' = [lock EXCEPT ![k] = 0]
        /\ UNCHANGED timer
     \/ /\ Held(k) # wants[k]
        /\ timer' = [timer EXCEPT ![k] = Off]
        /\ UNCHANGED <<lock, promised, redisVars>>
  /\ UNCHANGED callVars

(* It fails, or its answer is lost: the timer is cleared, the function goes  *)
(* on.                                                                       *)
ExtendFails(k) ==
  /\ sent[k] > 0
  /\ sent' = [sent EXCEPT ![k] = @ - 1]
  /\ timer' = [timer EXCEPT ![k] = Off]
  /\ \/ Held(k) = wants[k] /\ SetKeys(k)
     \/ UNCHANGED <<promised, redisVars>>
  /\ UNCHANGED <<callVars, lock>>

(* The function returns or throws. *)
Finish(k) ==
  /\ Goto(k, "run", "release")
  /\ timer' = [timer EXCEPT ![k] = Off]
  /\ UNCHANGED <<wants, lock, sent, promised, redisVars>>

(* Only keys that still hold the value of the caller are deleted; an error   *)
(* is logged.                                                                *)
Release(k) ==
  /\ Goto(k, "release", "done")
  /\ RemoveKeys(k, Held(k)) \/ UNCHANGED <<promised, redisVars>>
  /\ UNCHANGED <<wants, lock, timer, sent>>

(* The process stops; what it sent may still be carried out. *)
Stop(k) ==
  /\ pc[k] \in {"acquire", "granted", "run", "giveUp", "release"}
  /\ pc' = [pc EXCEPT ![k] = "stopped"]
  /\ timer' = [timer EXCEPT ![k] = Off]
  /\ UNCHANGED <<wants, lock, sent, promised, redisVars>>

(* Time passes; Redis drops the keys whose time is up. *)
Tick ==
  /\ lock' = [k \in Callers |-> Less(lock[k])]
  /\ timer' = [k \in Callers |-> Less(timer[k])]
  /\ promised' = [k \in Callers |-> Less(promised[k])]
  /\ left' = [x \in Keys |-> Less(left[x])]
  /\ holder' = [x \in Keys |-> IF left[x] > 1 THEN holder[x] ELSE None]
  /\ UNCHANGED <<callVars, sent>>

-----------------------------------------------------------------------------
Step(k) ==
  \/ Acquire(k) \/ Answer(k) \/ AcquireFails(k) \/ GiveUp(k)
  \/ Fire(k) \/ Extend(k) \/ ExtendFails(k) \/ Release(k)

Next == Tick \/ \E k \in Callers : Begin(k) \/ Step(k) \/ Finish(k) \/ Stop(k)

Spec == Init /\ [][Next]_vars

(* Time passes, and what was sent to Redis is answered, with an error at the *)
(* worst.  Functions need not end.                                           *)
FairSpec == Spec /\ WF_vars(Tick) /\ \A k \in Callers : WF_vars(Step(k))
-----------------------------------------------------------------------------
(* The type invariant: whatever is left of a lifetime is at most Ttl, and a  *)
(* key has a holder as long as something of its time is left.                *)
TypeOK ==
  /\ pc \in [Callers -> Steps]
  /\ wants \in [Callers -> SUBSET Keys]
  /\ lock \in [Callers -> 0..Ttl]
  /\ timer \in [Callers -> Off..Interval]
  /\ sent \in [Callers -> Nat]
  /\ promised \in [Callers -> 0..Ttl]
  /\ holder \in [Keys -> Callers \union {None}]
  /\ left \in [Keys -> 0..Ttl]
  /\ \A x \in Keys : holder[x] # None <=> left[x] > 0

(* Of two functions that run under a common key, one at least has outlived   *)
(* what Redis granted it, at acquisition or by an extension: no release, no  *)
(* late extension and no expiry of anybody else shortens that time.          *)
Exclusive ==
  \A k, l \in Callers :
    k # l /\ Running(k) /\ Running(l) /\ wants[k] \intersect wants[l] # {} =>
      promised[k] = 0 \/ promised[l] = 0

(* A caller loses a key when its time is up or when it gives the key back    *)
(* itself, with all its others: never by what another caller does.           *)
LostByTimeOrOwner ==
  [][\A x \in Keys : holder[x] # None /\ holder'[x] # holder[x] =>
       \/ left[x] = 1 /\ holder'[x] = None
       \/ /\ pc[holder[x]] \in {"release", "giveUp"}
          /\ \A y \in Held(holder[x]) : holder'[y] = None]_vars

(* A key is free again in the end, though functions need not end, callers    *)
(* stop and releases fail: locks are not extended for ever.                  *)
KeyIsFreed == \A x \in Keys : []<>(holder[x] = None)

-----------------------------------------------------------------------------
(* The inductive invariant: a caller holds all its keys, as long as Redis    *)
(* granted it, or none; what its lock object says is never more than that.   *)
HoldInv ==
  \A k \in Callers :
    /\ \A x \in Keys : holder[x] = k => x \in wants[k] /\ left[x] = promised[k]
    /\ promised[k] > 0 => \A x \in wants[k] : holder[x] = k
    /\ pc[k] \in {"idle", "acquire"} => promised[k] = 0
    /\ pc[k] \in {"granted", "run"} => lock[k] <= promised[k]
    /\ pc[k] # "idle" => wants[k] # {}

(* Only a function that runs has a timer and sends extensions.               *)
CallInv ==
  \A k \in Callers :
    /\ pc[k] \in {"idle", "acquire", "granted", "giveUp", "refused"} => sent[k] = 0
    /\ pc[k] # "run" => timer[k] = Off

Inv == TypeOK /\ HoldInv /\ CallInv
====

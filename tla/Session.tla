---- MODULE Session ----
(***************************************************************************)
(* services/session.service.ts and its callers: services/auth.service.ts,  *)
(* the two strategies and the guard of the sign-out route.                 *)
(*                                                                         *)
(* A session is a document in MongoDB, an entry in the cache for each of   *)
(* its two tokens, and, when it is over, a member of a black list in       *)
(* Redis.  Tokens have a black list of their own.  None of the operations  *)
(* on the three stores are tied together: gen, delete and the end of an    *)
(* expired session start several at once (Promise.all), verifySession      *)
(* awaits one after the other.  A call is one run of one of these methods; *)
(* pc is what it awaits, todo what it has started together.                *)
(*                                                                         *)
(* The cache is shared by all instances, or each instance has its own,     *)
(* according to the store that CacheModule is given: Caches says which.    *)
(* Time is counted in a unit far longer than an operation takes.           *)
(***************************************************************************)
EXTENDS FiniteSets, Integers

CONSTANTS
  Calls,
  Sessions,
  Caches,
  AccessLife, RefreshLife,  \* accessTokenExpiresIn, refreshTokenExpiresIn
  MaxTime,                  \* bound
  MaxFailures,              \* bound: calls that meet an error or are stopped
  Never, None

ASSUME LivesAssumption ==
  AccessLife \in Nat \ {0} /\ RefreshLife \in Nat /\ AccessLife <= RefreshLife
ASSUME BoundsAssumption == MaxTime \in Nat /\ MaxFailures \in Nat

Types == {"access", "refresh"}
Life(t) == IF t = "access" THEN AccessLife ELSE RefreshLife

VARIABLES
  now,
  documents,    \* session -> whether the collection has it, or has it with deleted_at
  issued,       \* session -> when it was made
  expiresAt,    \* session -> expiresAt of its document
  cache,        \* cache, type, session -> until when the entry is there, 0 if it is not
  blackSessions,
  blackTokens,  \* of pairs of type and session, which is what a token stands for
  kind, session, type, at,  \* call -> what it is, and which cache it sees
  past,         \* call -> history: what was over when it began
  pc, todo,
  ttl,          \* call -> the lifetime it gives to the entry it writes back
  erred         \* call -> history: one of its operations failed

argVars == <<kind, session, type, at, past>>
storeVars == <<documents, cache, blackSessions, blackTokens>>
vars == <<now, issued, expiresAt, storeVars, argVars, pc, todo, ttl, erred>>

(* The methods a call may be a run of: gen; verifySession, as the guards     *)
(* call it; verifyToken; delete, behind the guard of the sign-out route.     *)
Kinds == {"gen", "session", "token", "logout"}
ASSUME NeverAssumption ==
  Never \notin Nat /\ None \notin Nat \union Sessions \union Caches \union Kinds

Groups == {"gen", "expire", "delete"}
Awaits == {"checkToken", "checkSession", "lookup", "find", "missing", "save", "catch"}
Ended == {"ok", "accepted", "refused", "failed", "stopped"}

GenOps == {"create", "cacheAccess", "cacheRefresh"}
ExpireOps == {"remove", "ban", "drop"}
DeleteOpsUnbanned == {"dropAccess", "dropRefresh", "remove", "banToken"}
DeleteOps == {"dropAccess", "dropRefresh", "ban", "remove", "banToken"}

(* What one call sends to the cache or to Redis is executed in that order.   *)
Before == {<<"cacheAccess", "cacheRefresh">>, <<"dropAccess", "dropRefresh">>,
           <<"ban", "banToken">>}

Cached(c, t, s) == IF cache[<<c, t, s>>] = Never THEN TRUE ELSE cache[<<c, t, s>>] > now
Until(d) == IF d = 0 THEN Never ELSE now + d

ExpiredAtOnce(s) == now >= expiresAt[s]
ExpiredInNoCase(s) == FALSE
Expired(s) == now > expiresAt[s]

RemainingAnew(s) == RefreshLife
Remaining(s) == expiresAt[s] - now

Init ==
  /\ now = 0
  /\ documents = [s \in Sessions |-> "none"]
  /\ issued = [s \in Sessions |-> 0]
  /\ expiresAt = [s \in Sessions |-> 0]
  /\ cache = [e \in Caches \X Types \X Sessions |-> 0]
  /\ blackSessions = {}
  /\ blackTokens = {}
  /\ kind = [k \in Calls |-> None]
  /\ session = [k \in Calls |-> None]
  /\ type = [k \in Calls |-> "access"]
  /\ at = [k \in Calls |-> None]
  /\ past = [k \in Calls |-> {}]
  /\ pc = [k \in Calls |-> "idle"]
  /\ todo = [k \in Calls |-> {}]
  /\ ttl = [k \in Calls |-> None]
  /\ erred = [k \in Calls |-> FALSE]

-----------------------------------------------------------------------------
(* Calls.                                                                    *)

Made(s) == \E k \in Calls : kind[k] = "gen" /\ session[k] = s
Given(s) == \E k \in Calls : kind[k] = "gen" /\ session[k] = s /\ pc[k] = "ok"
LoggedOut(s) == \E k \in Calls : kind[k] = "logout" /\ session[k] = s /\ pc[k] = "ok"
Past(s, t) == {p \in {"login", "session", "token"} :
  \/ p = "login" /\ LoggedOut(s)
  \/ p = "session" /\ Made(s) /\ now > expiresAt[s]
  \/ p = "token" /\ Made(s) /\ now > issued[s] + Life(t)}

Begin(k, m, s, t, c, step, ops) ==
  /\ pc[k] = "idle"
  /\ kind' = [kind EXCEPT ![k] = m]
  /\ session' = [session EXCEPT ![k] = s]
  /\ type' = [type EXCEPT ![k] = t]
  /\ at' = [at EXCEPT ![k] = c]
  /\ past' = [past EXCEPT ![k] = Past(s, t)]
  /\ pc' = [pc EXCEPT ![k] = step]
  /\ todo' = [todo EXCEPT ![k] = ops]
  /\ UNCHANGED <<now, storeVars, ttl, erred>>

(* gen, with which register and login end.  What it calls accessExpiresAt,   *)
(* and puts in the document, is the lifetime of the refresh token.           *)
Gen(k, s, c) ==
  /\ ~Made(s)
  /\ Begin(k, "gen", s, "access", c, "gen", GenOps)
  /\ issued' = [issued EXCEPT ![s] = now]
  /\ expiresAt' = [expiresAt EXCEPT ![s] = now + RefreshLife]

(* The strategies verify the signature of a token only (ignoreExpiration).   *)
VerifySession(k, s, t, c) ==
  /\ Given(s)
  /\ Begin(k, "session", s, t, c, "checkSession", {})
  /\ UNCHANGED <<issued, expiresAt>>

VerifyToken(k, s, t, c) ==
  /\ Given(s)
  /\ Begin(k, "token", s, t, c, "checkToken", {})
  /\ UNCHANGED <<issued, expiresAt>>

(* logout, which its guard lets through when verifySession does.             *)
Logout(k, s, c) ==
  /\ Given(s)
  /\ Begin(k, "logout", s, "access", c, "checkSession", {})
  /\ UNCHANGED <<issued, expiresAt>>

-----------------------------------------------------------------------------
(* A call meets an error.                                                    *)
Err(k) ==
  /\ erred[k] \/ Cardinality({q \in Calls : erred[q]}) < MaxFailures
  /\ erred' = [erred EXCEPT ![k] = TRUE]

(* Where it goes from one, and from a refusal: verifyToken catches both.     *)
Refused(k) == IF kind[k] = "token" THEN "catch" ELSE "refused"
Failed(k) == IF kind[k] = "token" /\ pc[k] # "catch" THEN "catch" ELSE "failed"

(* One awaited operation that succeeds.                                      *)
Goto(k, from, to) ==
  /\ pc[k] = from
  /\ pc' = [pc EXCEPT ![k] = to]
  /\ UNCHANGED <<now, issued, expiresAt, argVars, erred>>

Accept(k, from) ==
  /\ Goto(k, from, IF kind[k] = "logout" THEN "delete" ELSE "accepted")
  /\ todo' = [todo EXCEPT ![k] = IF kind[k] = "logout" THEN DeleteOps ELSE {}]

(* One of the operations a call has started together is answered.  The call  *)
(* goes on with the last answer, or with the first error.                    *)
Send(k, o) ==
  /\ o \in todo[k]
  /\ \A p \in todo[k] : <<p, o>> \notin Before
  /\ todo' = [todo EXCEPT ![k] = @ \ {o}]
  /\ UNCHANGED <<now, issued, expiresAt, argVars, ttl>>

Answered(k, o) ==
  /\ Send(k, o)
  /\ pc' = [pc EXCEPT ![k] =
       IF @ \notin Groups \/ todo[k] # {o} THEN @
       ELSE IF @ = "expire" THEN Refused(k) ELSE "ok"]
  /\ UNCHANGED erred

Rejected(k, o) ==
  /\ Send(k, o)
  /\ pc' = [pc EXCEPT ![k] = IF @ \in Groups THEN Failed(k) ELSE @]
  /\ Err(k)

(* It is executed, whether or not its answer arrives.                        *)
Take(k, o) == Answered(k, o) \/ Rejected(k, o)

-----------------------------------------------------------------------------
(* The operations that are started together.                                 *)

Create(k) ==
  /\ Take(k, "create")
  /\ documents' = [documents EXCEPT ![session[k]] = "stored"]
  /\ UNCHANGED <<cache, blackSessions, blackTokens>>

CacheEntry(k, t) ==
  /\ Take(k, IF t = "access" THEN "cacheAccess" ELSE "cacheRefresh")
  /\ cache' = [cache EXCEPT ![<<at[k], t, session[k]>>] = Until(Life(t))]
  /\ UNCHANGED <<documents, blackSessions, blackTokens>>

DropEntry(k, t) ==
  /\ Take(k, IF t = "access" THEN "dropAccess" ELSE "dropRefresh")
  /\ cache' = [cache EXCEPT ![<<at[k], t, session[k]>>] = 0]
  /\ UNCHANGED <<documents, blackSessions, blackTokens>>

(* The entry of the type that was verified, of a session that is expired.    *)
DropExpired(k) ==
  /\ Take(k, "drop")
  /\ cache' = [cache EXCEPT ![<<at[k], type[k], session[k]>>] = 0]
  /\ UNCHANGED <<documents, blackSessions, blackTokens>>

Ban(k) ==
  /\ Take(k, "ban")
  /\ blackSessions' = blackSessions \union {session[k]}
  /\ UNCHANGED <<documents, cache, blackTokens>>

BanToken(k) ==
  /\ Take(k, "banToken")
  /\ blackTokens' = blackTokens \union {<<type[k], session[k]>>}
  /\ UNCHANGED <<documents, cache, blackSessions>>

(* softDelete: documents are never removed, so its two queries are one here. *)
SoftDelete(k) ==
  /\ Take(k, "remove")
  /\ documents' = [documents EXCEPT ![session[k]] = IF @ = "stored" THEN "deleted" ELSE @]
  /\ UNCHANGED <<cache, blackSessions, blackTokens>>

(* An operation fails without effect.                                        *)
OperationFails(k) ==
  /\ \E o \in todo[k] : Rejected(k, o)
  /\ UNCHANGED storeVars

-----------------------------------------------------------------------------
(* verifyToken and verifySession.                                            *)

BannedUnlessCached(k) ==
  session[k] \in blackSessions /\ ~Cached(at[k], type[k], session[k])
Banned(k) == session[k] \in blackSessions

(* sismember of the token, then its signature and its exp.                   *)
CheckToken(k) ==
  /\ pc[k] = "checkToken"
  /\ \/ /\ <<type[k], session[k]>> \notin blackTokens
        /\ now < issued[session[k]] + Life(type[k])
        /\ Goto(k, "checkToken", "checkSession")
     \/ /\ \/ <<type[k], session[k]>> \in blackTokens
           \/ now >= issued[session[k]] + Life(type[k])
        /\ Goto(k, "checkToken", "catch")
  /\ UNCHANGED <<storeVars, todo, ttl>>

CheckSession(k) ==
  /\ Goto(k, "checkSession", IF Banned(k) THEN Refused(k) ELSE "lookup")
  /\ UNCHANGED <<storeVars, todo, ttl>>

Lookup(k) ==
  /\ pc[k] = "lookup"
  /\ \/ Cached(at[k], type[k], session[k]) /\ Accept(k, "lookup")
     \/ ~Cached(at[k], type[k], session[k]) /\ Goto(k, "lookup", "find") /\ UNCHANGED todo
  /\ UNCHANGED <<storeVars, ttl>>

(* The document with deleted_at: null, and what is done about it.            *)
Find(k) ==
  LET s == session[k] IN
  /\ pc[k] = "find"
  /\ \/ /\ documents[s] # "stored"
        /\ Goto(k, "find", "missing")
        /\ UNCHANGED <<todo, ttl>>
     \/ /\ documents[s] = "stored" /\ Expired(s)
        /\ Goto(k, "find", "expire")
        /\ todo' = [todo EXCEPT ![k] = ExpireOps]
        /\ UNCHANGED ttl
     \/ /\ documents[s] = "stored" /\ ~Expired(s)
        /\ Goto(k, "find", "save")
        /\ ttl' = [ttl EXCEPT ![k] = Remaining(s)]
        /\ UNCHANGED todo
  /\ UNCHANGED storeVars

BanMissing(k) ==
  /\ Goto(k, "missing", Refused(k))
  /\ blackSessions' = blackSessions \union {session[k]}
  /\ UNCHANGED <<documents, cache, blackTokens, todo, ttl>>

(* The entry is written back; a lifetime of 0 is none.                       *)
Save(k) ==
  /\ Accept(k, "save")
  /\ cache' = [cache EXCEPT ![<<at[k], type[k], session[k]>>] = Until(ttl[k])]
  /\ UNCHANGED <<documents, blackSessions, blackTokens, ttl>>

(* The catch of verifyToken: whatever the error was, the token is banned.    *)
Catch(k) ==
  /\ Goto(k, "catch", "refused")
  /\ blackTokens' = blackTokens \union {<<type[k], session[k]>>}
  /\ UNCHANGED <<documents, cache, blackSessions, todo, ttl>>

(* An awaited operation fails, without effect or with its answer lost.       *)
Fail(k) ==
  /\ pc[k] \in Awaits
  /\ \/ UNCHANGED storeVars
     \/ /\ pc[k] = "missing"
        /\ blackSessions' = blackSessions \union {session[k]}
        /\ UNCHANGED <<documents, cache, blackTokens>>
     \/ /\ pc[k] = "save"
        /\ cache' = [cache EXCEPT ![<<at[k], type[k], session[k]>>] = Until(ttl[k])]
        /\ UNCHANGED <<documents, blackSessions, blackTokens>>
     \/ /\ pc[k] = "catch"
        /\ blackTokens' = blackTokens \union {<<type[k], session[k]>>}
        /\ UNCHANGED <<documents, cache, blackSessions>>
  /\ pc' = [pc EXCEPT ![k] = Failed(k)]
  /\ Err(k)
  /\ UNCHANGED <<now, issued, expiresAt, argVars, todo, ttl>>

(* The process of a call stops, and with it what it has not yet sent.        *)
Stop(k) ==
  /\ pc[k] \in Groups \union Awaits \/ todo[k] # {}
  /\ pc' = [pc EXCEPT ![k] = IF @ \in Ended THEN @ ELSE "stopped"]
  /\ todo' = [todo EXCEPT ![k] = {}]
  /\ Err(k)
  /\ UNCHANGED <<now, issued, expiresAt, storeVars, argVars, ttl>>

(* A lifetime begins when it is given, but for what is much less than a unit.*)
Tick ==
  /\ now < MaxTime
  /\ \A k \in Calls : pc[k] # "save" /\ todo[k] \intersect {"cacheAccess", "cacheRefresh"} = {}
  /\ now' = now + 1
  /\ UNCHANGED <<issued, expiresAt, storeVars, argVars, pc, todo, ttl, erred>>

-----------------------------------------------------------------------------
Request(k) == \E s \in Sessions, c \in Caches :
  \/ Gen(k, s, c) \/ Logout(k, s, c)
  \/ \E t \in Types : VerifySession(k, s, t, c) \/ VerifyToken(k, s, t, c)

Operation(k) ==
  \/ Create(k) \/ Ban(k) \/ BanToken(k)
  \/ SoftDelete(k) \/ DropExpired(k) \/ OperationFails(k)
  \/ \E t \in Types : CacheEntry(k, t) \/ DropEntry(k, t)

Verification(k) ==
  \/ CheckToken(k) \/ CheckSession(k) \/ Lookup(k) \/ Find(k)
  \/ BanMissing(k) \/ Save(k) \/ Catch(k)

(* Nothing is under way.                                                     *)
Quiet ==
  /\ \A k \in Calls : pc[k] \in Ended \union {"idle"} /\ todo[k] = {}
  /\ UNCHANGED vars

Next ==
  \/ \E k \in Calls : Request(k) \/ Operation(k) \/ Verification(k) \/ Fail(k) \/ Stop(k)
  \/ Tick \/ Quiet

Spec == Init /\ [][Next]_vars

-----------------------------------------------------------------------------
Accepted(k) == pc[k] = "accepted" \/ (kind[k] = "logout" /\ pc[k] \in {"delete", "ok"})

(* A reason for a session, or a token, to be refused.                        *)
Ending(s) ==
  \/ \E q \in Calls : kind[q] = "logout" /\ session[q] = s /\ pc[q] \in {"delete", "ok", "failed", "stopped"}
  \/ now > expiresAt[s]
TokenEnding(t, s) ==
  \/ now >= issued[s] + Life(t)
  \/ \E q \in Calls : kind[q] = "token" /\ session[q] = s /\ type[q] = t /\ erred[q]

(* The type invariant. *)
TypeOK ==
  /\ now \in Nat
  /\ documents \in [Sessions -> {"none", "stored", "deleted"}]
  /\ issued \in [Sessions -> Nat]
  /\ expiresAt \in [Sessions -> Nat]
  /\ cache \in [Caches \X Types \X Sessions -> Nat \union {Never}]
  /\ blackSessions \in SUBSET Sessions
  /\ blackTokens \in SUBSET (Types \X Sessions)
  /\ kind \in [Calls -> Kinds \union {None}]
  /\ session \in [Calls -> Sessions \union {None}]
  /\ type \in [Calls -> Types]
  /\ at \in [Calls -> Caches \union {None}]
  /\ past \in [Calls -> SUBSET {"login", "session", "token"}]
  /\ pc \in [Calls -> {"idle"} \union Groups \union Awaits \union Ended]
  /\ todo \in [Calls -> SUBSET (GenOps \union ExpireOps \union DeleteOps)]
  /\ ttl \in [Calls -> Nat \union {None}]
  /\ erred \in [Calls -> BOOLEAN]

(* Once a logout is confirmed, nothing that begins later gets in with either *)
(* token of the session, though other calls have written its entries back    *)
(* meanwhile, or other instances still have them.                            *)
LogoutIsFinal == \A k \in Calls : "login" \in past[k] => ~Accepted(k)

(* A token of a session that is given is not refused for nothing: somebody   *)
(* began to log it out, the session or the token has expired, or an earlier  *)
(* verification of the token met an error, which bans it.                    *)
RefusalHasReason ==
  \A k \in Calls : pc[k] = "refused" /\ ~erred[k] =>
    Ending(session[k]) \/ (kind[k] = "token" /\ TokenEnding(type[k], session[k]))

(* Document and black list do not disagree about a session that is over,     *)
(* unless a call that ends it is under way or met an error.                  *)
DeletedIsBanned ==
  \A s \in Sessions : documents[s] = "deleted" =>
    s \in blackSessions \/ \E k \in Calls : session[k] = s /\ ("ban" \in todo[k] \/ erred[k])

(* No entry of the cache outlives the session it is of, except one written   *)
(* back in the very instant the session expires, which stays for ever.       *)
ExpiredIsRefused ==
  \A k \in Calls : Accepted(k) /\ "session" \in past[k] =>
    \E q \in Calls : session[q] = session[k] /\ type[q] = type[k] /\ ttl[q] = 0

(* config.yml, at accessTokenExpiresIn: an access token is good for so many  *)
(* days, and nobody gets in with one afterwards.                             *)
AccessTokenExpires ==
  \A k \in Calls : type[k] = "access" /\ "token" \in past[k] => ~Accepted(k)
-----------------------------------------------------------------------------
(* The inductive invariant behind the safety properties.                     *)

(* What a call is and where it can be.                                       *)
CallOK(k) ==
  /\ pc[k] = "idle" => kind[k] = None /\ session[k] = None /\ todo[k] = {} /\ past[k] = {}
  /\ erred[k] => pc[k] \in {"catch", "refused", "failed", "stopped"}
  /\ pc[k] # "idle" => kind[k] \in Kinds /\ session[k] \in Sessions /\ at[k] \in Caches
  /\ pc[k] \notin {"save"} \union Groups \union Ended \union {"catch"} => ttl[k] = None
  /\ pc[k] \notin Groups /\ todo[k] # {} => erred[k]
  /\ kind[k] = "gen" => pc[k] \in {"gen", "ok", "failed", "stopped"} /\ todo[k] \subseteq GenOps
  /\ kind[k] # "gen" => pc[k] # "gen" /\ todo[k] \subseteq DeleteOps \union ExpireOps
  /\ pc[k] \in {"checkToken", "catch"} => kind[k] = "token"
  /\ pc[k] = "delete" => kind[k] = "logout"
  /\ pc[k] = "ok" => kind[k] \in {"gen", "logout"}
CallInv == \A k \in Calls : CallOK(k)

(* A session is made once, and has a document from when it is given.         *)
GivenInv ==
  /\ \A k, l \in Calls : kind[k] = "gen" /\ kind[l] = "gen" /\ session[k] = session[l] => k = l
  /\ \A k \in Calls : kind[k] \in Kinds \ {"gen"} => Given(session[k])
  /\ \A k \in Calls : kind[k] = "gen" /\ pc[k] \in {"gen", "ok"} =>
       "create" \in todo[k] \/ documents[session[k]] # "none"
  /\ \A s \in Sessions : ~Made(s) =>
       documents[s] = "none" /\ expiresAt[s] = 0 /\ s \notin blackSessions /\ \A t \in Types : <<t, s>> \notin blackTokens

(* What is banned is being ended, or was.                                    *)
EndInv ==
  /\ \A s \in Sessions :
       /\ documents[s] = "deleted" \/ s \in blackSessions => Ending(s)
       /\ \A t \in Types : <<t, s>> \in blackTokens => Ending(s) \/ TokenEnding(t, s)
  /\ \A k \in Calls :
       /\ pc[k] \in {"missing", "expire"} => Ending(session[k])
       /\ todo[k] \intersect {"remove", "ban", "banToken"} # {} => Ending(session[k])
       /\ pc[k] = "catch" => Ending(session[k]) \/ TokenEnding(type[k], session[k])

(* A call that ends a session bans it, and is not confirmed before.          *)
BanOK(k) ==
  /\ pc[k] \in {"expire", "delete"} \/ (kind[k] = "logout" /\ pc[k] = "ok")
       \/ todo[k] \intersect {"remove", "ban"} # {}
     => "ban" \in todo[k] \/ session[k] \in blackSessions \/ erred[k]
  /\ kind[k] = "logout" /\ pc[k] = "ok" => session[k] \in blackSessions
  /\ "login" \in past[k] /\ kind[k] # "gen" => session[k] \in blackSessions
       /\ pc[k] \in {"checkToken", "checkSession", "catch", "refused", "failed", "stopped"}
BanInv == \A k \in Calls : BanOK(k)

(* Entries last as long as their session, or for ever.                       *)
EntryInv ==
  /\ \A c \in Caches, t \in Types, s \in Sessions :
       IF cache[<<c, t, s>>] = Never
       THEN \E q \in Calls : session[q] = s /\ type[q] = t /\ ttl[q] = 0
       ELSE cache[<<c, t, s>>] = 0 \/ cache[<<c, t, s>>] <= expiresAt[s]
  /\ \A k \in Calls :
       /\ todo[k] \intersect {"cacheAccess", "cacheRefresh"} # {} =>
            expiresAt[session[k]] = now + RefreshLife
       /\ pc[k] = "save" => ttl[k] # None /\ now + ttl[k] = expiresAt[session[k]]
       /\ "session" \in past[k] => kind[k] # "gen" /\ now > expiresAt[session[k]]

Inv ==
  /\ TypeOK /\ CallInv /\ GivenInv /\ EndInv /\ BanInv /\ EntryInv
  /\ LogoutIsFinal /\ RefusalHasReason /\ DeletedIsBanned /\ ExpiredIsRefused
====

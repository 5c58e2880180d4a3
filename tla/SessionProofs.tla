---- MODULE SessionProofs ----
(***************************************************************************)
(* Proofs about Session, for any calls, sessions, caches, lifetimes and    *)
(* bounds.                                                                 *)
(***************************************************************************)
EXTENDS Session, TLAPS

-----------------------------------------------------------------------------
(* What a step of a call that has begun leaves alone.                        *)
Moves(k) ==
  /\ UNCHANGED <<now, issued, expiresAt, argVars>>
  /\ \A q \in Calls \ {k} :
       pc'[q] = pc[q] /\ todo'[q] = todo[q] /\ ttl'[q] = ttl[q] /\ erred'[q] = erred[q]
  /\ erred[k] => erred'[k]

(* The operations that were started together.                                *)
TakeStep(k) ==
  \/ Create(k) \/ Ban(k) \/ BanToken(k) \/ SoftDelete(k) \/ DropExpired(k) \/ OperationFails(k)
  \/ \E t \in Types : CacheEntry(k, t) \/ DropEntry(k, t)

LEMMA StepCases ==
  ASSUME Next
  PROVE  \/ \E k \in Calls : Request(k)
         \/ \E k \in Calls : Operation(k) /\ \E o \in todo[k] : Take(k, o)
         \/ \E k \in Calls : Verification(k) \/ Fail(k) \/ Stop(k)
         \/ Tick
         \/ UNCHANGED vars
<1>1. ASSUME NEW k \in Calls, Operation(k) PROVE \E o \in todo[k] : Take(k, o)
  <2>1. ASSUME NEW o, Take(k, o) PROVE o \in todo[k]
    BY <2>1 DEF Take, Answered, Rejected, Send
  <2>2. CASE OperationFails(k)
    BY <2>2 DEF OperationFails, Take
  <2> QED BY <1>1, <2>1, <2>2 DEF Operation, Create, Ban, BanToken, SoftDelete, DropExpired,
        CacheEntry, DropEntry
<1> QED BY <1>1 DEF Next, Quiet

LEMMA MoveFrame ==
  ASSUME TypeOK, NEW k \in Calls,
         (\E o \in todo[k] : Take(k, o)) \/ Verification(k) \/ Fail(k) \/ Stop(k)
  PROVE  Moves(k)
<1> USE DEF TypeOK, Moves
<1>1. ASSUME NEW o \in todo[k], Take(k, o) PROVE Moves(k)
  BY <1>1 DEF Take, Answered, Rejected, Send, Err
<1>2. CASE CheckToken(k) \/ CheckSession(k) \/ Find(k) \/ BanMissing(k) \/ Catch(k)
  BY <1>2 DEF CheckToken, CheckSession, Find, BanMissing, Catch, Goto
<1>3. CASE Lookup(k) \/ Save(k)
  BY <1>3 DEF Lookup, Save, Accept, Goto
<1>4. CASE Fail(k) \/ Stop(k)
  BY <1>4 DEF Fail, Stop, Err
<1> QED BY <1>1, <1>2, <1>3, <1>4 DEF Verification

-----------------------------------------------------------------------------
(* Types.                                                                    *)

LEMMA TypeStep == Inv /\ Next => TypeOK'
<1> SUFFICES ASSUME Inv, Next PROVE TypeOK'
  OBVIOUS
<1>0. TypeOK /\ CallInv /\ EntryInv
  BY DEF Inv
<1> USE <1>0, LivesAssumption DEF TypeOK, Groups, Awaits, Ended, Types, GenOps, ExpireOps, DeleteOps
<1>1. ASSUME NEW k \in Calls, Request(k) PROVE TypeOK'
  <2>1. ASSUME NEW s \in Sessions, NEW t \in Types, NEW c \in Caches, NEW m \in Kinds,
               NEW step \in {"gen", "checkSession", "checkToken"}, NEW ops \in SUBSET GenOps,
               Begin(k, m, s, t, c, step, ops)
        PROVE  UNCHANGED <<now, storeVars, ttl, erred>>
               /\ kind' \in [Calls -> Kinds \union {None}]
               /\ session' \in [Calls -> Sessions \union {None}]
               /\ type' \in [Calls -> Types]
               /\ at' \in [Calls -> Caches \union {None}]
               /\ past' \in [Calls -> SUBSET {"login", "session", "token"}]
               /\ pc' \in [Calls -> {"idle"} \union Groups \union Awaits \union Ended]
               /\ todo' \in [Calls -> SUBSET (GenOps \union ExpireOps \union DeleteOps)]
    BY <2>1 DEF Begin, Past
  <2>2. PICK s \in Sessions, c \in Caches :
          \/ Gen(k, s, c) \/ Logout(k, s, c)
          \/ \E t \in Types : VerifySession(k, s, t, c) \/ VerifyToken(k, s, t, c)
    BY <1>1 DEF Request
  <2>3. CASE Gen(k, s, c)
    <3>1. issued' \in [Sessions -> Nat] /\ expiresAt' \in [Sessions -> Nat]
      BY <2>3 DEF Gen
    <3>2. Begin(k, "gen", s, "access", c, "gen", GenOps)
      BY <2>3 DEF Gen
    <3> QED BY <2>1, <3>1, <3>2 DEF Kinds, storeVars
  <2>4. CASE Logout(k, s, c)
    BY <2>1, <2>4 DEF Logout, Kinds, storeVars
  <2>5. ASSUME NEW t \in Types, VerifySession(k, s, t, c) \/ VerifyToken(k, s, t, c) PROVE TypeOK'
    BY <2>1, <2>5 DEF VerifySession, VerifyToken, Kinds, storeVars
  <2> QED BY <2>2, <2>3, <2>4, <2>5
<1>2. ASSUME NEW k \in Calls, Operation(k) /\ \E o \in todo[k] : Take(k, o) PROVE TypeOK'
  <2>1. ASSUME NEW o \in todo[k], Take(k, o)
        PROVE  /\ UNCHANGED <<now, issued, expiresAt, argVars, ttl>>
               /\ pc' \in [Calls -> {"idle"} \union Groups \union Awaits \union Ended]
               /\ todo' \in [Calls -> SUBSET (GenOps \union ExpireOps \union DeleteOps)]
               /\ erred' \in [Calls -> BOOLEAN]
    <3>1. Refused(k) \in {"refused", "catch"} /\ Failed(k) \in {"failed", "catch"}
      BY DEF Refused, Failed
    <3>2. Send(k, o)
      BY <2>1 DEF Take, Answered, Rejected
    <3>3. CASE Answered(k, o)
      BY <3>1, <3>2, <3>3 DEF Answered, Send
    <3>4. CASE Rejected(k, o)
      BY <3>1, <3>2, <3>4 DEF Rejected, Send, Err
    <3> QED BY <2>1, <3>3, <3>4 DEF Take
  <2>2. session[k] \in Sessions /\ at[k] \in Caches
    BY <1>2 DEF CallInv, CallOK
  <2>3. CASE Create(k) \/ Ban(k) \/ BanToken(k) \/ SoftDelete(k) \/ OperationFails(k)
    BY <1>2, <2>1, <2>2, <2>3 DEF Create, Ban, BanToken, SoftDelete, OperationFails, storeVars, argVars
  <2>4. CASE DropExpired(k)
    BY <1>2, <2>1, <2>2, <2>4 DEF DropExpired, argVars
  <2>5. ASSUME NEW t \in Types, CacheEntry(k, t) \/ DropEntry(k, t) PROVE TypeOK'
    <3>1. cache' \in [Caches \X Types \X Sessions -> Nat \union {Never}]
      <4>1. Until(Life(t)) \in Nat \union {Never}
        BY DEF Until, Life
      <4>2. \E v \in Nat \union {Never} : cache' = [cache EXCEPT ![<<at[k], t, session[k]>>] = v]
        BY <2>5, <4>1 DEF CacheEntry, DropEntry
      <4> QED BY <2>2, <4>2, t \in Types
    <3>2. UNCHANGED <<documents, blackSessions, blackTokens>>
      BY <2>5 DEF CacheEntry, DropEntry
    <3> QED BY <1>2, <2>1, <3>1, <3>2 DEF argVars
  <2> QED BY <1>2, <2>3, <2>4, <2>5 DEF Operation
<1>3. ASSUME NEW k \in Calls, Verification(k) PROVE TypeOK'
  <2>0. ASSUME pc[k] \in Awaits PROVE session[k] \in Sessions /\ at[k] \in Caches
    BY <2>0 DEF CallInv, CallOK
  <2>1. CASE CheckToken(k) \/ CheckSession(k)
    <3>1. /\ pc' = [pc EXCEPT ![k] = pc'[k]]
          /\ pc'[k] \in {"checkSession", "catch", "refused", "lookup"}
      BY <2>1 DEF CheckToken, CheckSession, Goto, Refused
    <3>2. UNCHANGED <<now, issued, expiresAt, argVars, storeVars, todo, ttl, erred>>
      BY <2>1 DEF CheckToken, CheckSession, Goto
    <3> QED BY <3>1, <3>2 DEF storeVars, argVars
  <2>2. CASE BanMissing(k) \/ Catch(k)
    BY <2>0, <2>2 DEF BanMissing, Catch, Goto, Refused, argVars
  <2>3. CASE Lookup(k)
    BY <2>0, <2>3 DEF Lookup, Accept, Goto, storeVars, argVars
  <2>4. CASE Save(k)
    <3>1. ttl[k] \in Nat
      BY <2>4 DEF Save, Accept, Goto, EntryInv
    <3> QED BY <2>0, <2>4, <3>1 DEF Save, Accept, Goto, Until, argVars
  <2>5. CASE Find(k)
    <3>1. ~Expired(session[k]) => Remaining(session[k]) \in Nat
      BY <2>0, <2>5 DEF Find, Expired, Remaining
    <3> QED BY <2>0, <2>5, <3>1 DEF Find, Goto, storeVars, argVars
  <2> QED BY <1>3, <2>1, <2>2, <2>3, <2>4, <2>5 DEF Verification
<1>4. ASSUME NEW k \in Calls, Fail(k) PROVE TypeOK'
  <2>1. session[k] \in Sessions /\ at[k] \in Caches /\ (pc[k] = "save" => ttl[k] \in Nat)
    BY <1>4 DEF Fail, CallInv, CallOK, EntryInv
  <2>2. /\ documents' \in [Sessions -> {"none", "stored", "deleted"}]
        /\ cache' \in [Caches \X Types \X Sessions -> Nat \union {Never}]
        /\ blackSessions' \in SUBSET Sessions
        /\ blackTokens' \in SUBSET (Types \X Sessions)
    <3>1. pc[k] = "save" => Until(ttl[k]) \in Nat \union {Never}
      BY <2>1 DEF Until
    <3>2. CASE UNCHANGED storeVars
      BY <3>2 DEF storeVars
    <3>3. CASE pc[k] = "save" /\ UNCHANGED <<documents, blackSessions, blackTokens>>
               /\ cache' = [cache EXCEPT ![<<at[k], type[k], session[k]>>] = Until(ttl[k])]
      <4>1. PICK v \in Nat \union {Never} : cache' = [cache EXCEPT ![<<at[k], type[k], session[k]>>] = v]
        BY <3>1, <3>3
      <4> QED BY <2>1, <3>3, <4>1
    <3>4. CASE UNCHANGED <<documents, cache>>
               /\ blackSessions' \in {blackSessions, blackSessions \union {session[k]}}
               /\ blackTokens' \in {blackTokens, blackTokens \union {<<type[k], session[k]>>}}
      BY <2>1, <3>4
    <3> QED BY <1>4, <3>2, <3>3, <3>4 DEF Fail
  <2>3. /\ pc' \in [Calls -> {"idle"} \union Groups \union Awaits \union Ended]
        /\ erred' \in [Calls -> BOOLEAN]
    BY <1>4 DEF Fail, Failed, Err
  <2> QED BY <1>4, <2>2, <2>3 DEF Fail, argVars
<1>5. ASSUME NEW k \in Calls, Stop(k) PROVE TypeOK'
  BY <1>5 DEF Stop, Err, storeVars, argVars
<1>6. CASE Tick
  BY <1>6 DEF Tick, storeVars, argVars
<1>7. CASE UNCHANGED vars
  BY <1>7 DEF vars, storeVars, argVars
<1> QED BY StepCases, <1>1, <1>2, <1>3, <1>4, <1>5, <1>6, <1>7

-----------------------------------------------------------------------------
(* What a call has been given, and where it has got to, stays.               *)

Keeps(k) ==
  /\ pc'[k] # "idle"
  /\ kind'[k] = kind[k] /\ session'[k] = session[k] /\ type'[k] = type[k]
  /\ at'[k] = at[k] /\ past'[k] = past[k]
  /\ erred[k] => erred'[k]
  /\ pc[k] \in Ended => pc'[k] = pc[k]
  /\ pc[k] = "delete" => pc'[k] \in {"delete", "ok", "failed", "stopped"}
  /\ todo'[k] \subseteq todo[k] \/ (todo'[k] = ExpireOps /\ pc[k] = "find" /\ pc'[k] = "expire")
       \/ (todo'[k] = DeleteOps /\ pc[k] \in {"lookup", "save"} /\ pc'[k] = "delete"
           /\ kind[k] = "logout")
  /\ "ban" \in todo[k] => "ban" \in todo'[k] \/ session[k] \in blackSessions' \/ erred'[k]
  /\ ttl'[k] = ttl[k] \/ pc[k] = "find"

LEMMA Keeping ==
  ASSUME Inv, Next, NEW k \in Calls, pc[k] # "idle"
  PROVE  Keeps(k)
<1>0. TypeOK /\ CallInv
  BY DEF Inv
<1> USE <1>0 DEF Keeps, Groups, Awaits, Ended
<1>1. ASSUME NEW q \in Calls, q # k,
             Request(q) \/ (\E o \in todo[q] : Take(q, o)) \/ Verification(q) \/ Fail(q) \/ Stop(q)
      PROVE  Keeps(k)
  <2>1. CASE Request(q)
    BY <1>1, <2>1 DEF TypeOK, Request, Gen, VerifySession, VerifyToken, Logout, Begin
  <2>2. CASE ~Request(q)
    BY <1>1, <2>2, MoveFrame DEF Moves, argVars
  <2> QED BY <2>1, <2>2
<1>2. CASE Request(k)
  BY <1>2 DEF Request, Gen, VerifySession, VerifyToken, Logout, Begin
<1>3. CASE Operation(k) /\ \E o \in todo[k] : Take(k, o)
  <2>0. Moves(k)
    BY <1>3, MoveFrame
  <2>1. PICK o \in todo[k] : Take(k, o)
    BY <1>3
  <2>2. Send(k, o) /\ todo'[k] = todo[k] \ {o} /\ ttl' = ttl
    BY <2>1 DEF Take, Answered, Rejected, Send, TypeOK
  <2>3. /\ pc[k] \notin Groups => pc'[k] = pc[k]
        /\ pc'[k] # "idle"
        /\ pc[k] = "delete" => pc'[k] \in {"delete", "ok", "failed"}
    <3>1. CASE Answered(k, o)
      BY <3>1 DEF Answered, Refused, TypeOK
    <3>2. CASE Rejected(k, o)
      BY <3>2 DEF Rejected, Failed, TypeOK, CallInv, CallOK
    <3> QED BY <2>1, <3>1, <3>2 DEF Take
  <2>4. "ban" \in todo[k] => "ban" \in todo'[k] \/ session[k] \in blackSessions' \/ erred'[k]
    <3>1. ASSUME NEW p, Take(k, p) PROVE todo'[k] = todo[k] \ {p}
      BY <3>1 DEF Take, Answered, Rejected, Send, TypeOK
    <3>2. CASE Ban(k)
      BY <3>2 DEF Ban
    <3>3. CASE OperationFails(k)
      BY <3>3 DEF OperationFails, Rejected, Err, TypeOK
    <3>4. CASE ~Ban(k) /\ ~OperationFails(k)
      <4>1. \E p \in {"create", "cacheAccess", "cacheRefresh", "dropAccess", "dropRefresh",
                      "drop", "banToken", "remove"} : Take(k, p)
        BY <1>3, <3>4 DEF Operation, Create, BanToken, SoftDelete, DropExpired, CacheEntry, DropEntry
      <4> QED BY <3>1, <4>1
    <3> QED BY <3>2, <3>3, <3>4
  <2> QED BY <2>0, <2>2, <2>3, <2>4 DEF Moves, argVars
<1>4. CASE Verification(k)
  <2>0. Moves(k)
    BY <1>4, MoveFrame
  <2>1. CASE CheckToken(k) \/ CheckSession(k) \/ BanMissing(k) \/ Catch(k)
    BY <2>0, <2>1 DEF CheckToken, CheckSession, BanMissing, Catch, Goto, Refused, Moves, argVars, TypeOK
  <2>2. CASE Lookup(k) \/ Save(k)
    BY <2>0, <2>2 DEF Lookup, Save, Accept, Goto, Moves, argVars, TypeOK, CallInv, CallOK
  <2>3. CASE Find(k)
    BY <2>0, <2>3 DEF Find, Goto, Moves, argVars, TypeOK, CallInv, CallOK
  <2> QED BY <1>4, <2>1, <2>2, <2>3 DEF Verification
<1>5. CASE Fail(k)
  BY <1>5 DEF Fail, Failed, Err, argVars, TypeOK
<1>6. CASE Stop(k)
  BY <1>6 DEF Stop, Err, argVars, TypeOK
<1>7. CASE Tick \/ UNCHANGED vars
  BY <1>7 DEF Tick, vars, argVars
<1> QED BY StepCases, <1>1, <1>2, <1>3, <1>4, <1>5, <1>6, <1>7

(* The session of a call that has begun is made, and stays so.               *)
LEMMA BegunIsMade ==
  ASSUME Inv, NEW k \in Calls, pc[k] # "idle"
  PROVE  session[k] \in Sessions /\ Made(session[k])
<1>1. kind[k] \in Kinds /\ session[k] \in Sessions
  BY DEF Inv, CallInv, CallOK
<1>2. CASE kind[k] = "gen"
  BY <1>1, <1>2 DEF Made
<1>3. CASE kind[k] # "gen"
  BY <1>1, <1>3 DEF Inv, GivenInv, Given, Made
<1> QED BY <1>1, <1>2, <1>3

LEMMA Stability ==
  ASSUME Inv, Next
  PROVE  /\ now' \in Nat /\ now' >= now
         /\ blackSessions \subseteq blackSessions'
         /\ \A s \in Sessions : Made(s) =>
              Made(s)' /\ issued'[s] = issued[s] /\ expiresAt'[s] = expiresAt[s]
         /\ \A s \in Sessions : Given(s) => Given(s)'
         /\ \A s \in Sessions : Made(s) /\ Ending(s) => Ending(s)'
         /\ \A s \in Sessions, t \in Types : Made(s) /\ TokenEnding(t, s) => TokenEnding(t, s)'
<1>0. TypeOK /\ CallInv
  BY DEF Inv
<1>1. now' \in Nat /\ now' >= now
  <2>1. CASE UNCHANGED now
    BY <1>0, <2>1 DEF TypeOK
  <2>2. CASE Tick
    BY <1>0, <2>2 DEF TypeOK, Tick
  <2>3. CASE \E k \in Calls : Request(k)
    BY <2>1, <2>3 DEF Request, Gen, VerifySession, VerifyToken, Logout, Begin
  <2> QED BY <1>0, <2>1, <2>2, <2>3, StepCases, MoveFrame DEF Moves, vars
<1>2. blackSessions \subseteq blackSessions'
  <2>1. ASSUME NEW k \in Calls, Request(k) \/ Stop(k) PROVE UNCHANGED blackSessions
    BY <2>1 DEF Request, Gen, VerifySession, VerifyToken, Logout, Begin, Stop, storeVars
  <2>2. ASSUME NEW k \in Calls, Operation(k) PROVE blackSessions \subseteq blackSessions'
    BY <2>2 DEF Operation, Create, Ban, BanToken, SoftDelete, DropExpired, OperationFails, CacheEntry,
      DropEntry, storeVars
  <2>3. ASSUME NEW k \in Calls, Verification(k) \/ Fail(k) PROVE blackSessions \subseteq blackSessions'
    BY <2>3 DEF Verification, CheckToken, CheckSession, Lookup, Find, BanMissing, Save, Catch, Fail, storeVars
  <2>4. CASE Tick \/ UNCHANGED vars
    BY <2>4 DEF Tick, vars, storeVars
  <2> QED BY <2>1, <2>2, <2>3, <2>4, StepCases
<1>3. ASSUME NEW s \in Sessions, Made(s)
      PROVE  issued'[s] = issued[s] /\ expiresAt'[s] = expiresAt[s]
  <2>1. ASSUME NEW k \in Calls, NEW r \in Sessions, NEW c \in Caches, Gen(k, r, c)
        PROVE  issued'[s] = issued[s] /\ expiresAt'[s] = expiresAt[s]
    BY <1>0, <1>3, <2>1 DEF Gen, TypeOK
  <2>2. CASE \E k \in Calls : Request(k)
    BY <2>1, <2>2 DEF Request, VerifySession, VerifyToken, Logout
  <2>3. CASE Tick \/ UNCHANGED vars
    BY <2>3 DEF Tick, vars
  <2> QED BY <1>0, <2>2, <2>3, StepCases, MoveFrame DEF Moves
<1>4. ASSUME NEW k \in Calls, kind[k] \in Kinds PROVE pc[k] # "idle"
  BY <1>0, <1>4, NeverAssumption DEF CallInv, CallOK
<1>5. ASSUME NEW k \in Calls, kind[k] \in Kinds PROVE Keeps(k)
  BY <1>4, <1>5, Keeping
<1>6. ASSUME NEW s \in Sessions, Made(s) PROVE Made(s)'
  BY <1>5, <1>6 DEF Made, Keeps, Kinds
<1>7. ASSUME NEW s \in Sessions, Given(s) PROVE Given(s)'
  BY <1>5, <1>7 DEF Given, Keeps, Kinds, Ended
<1>8. ASSUME NEW s \in Sessions, Made(s), Ending(s) PROVE Ending(s)'
  <2>1. CASE now > expiresAt[s]
    BY <1>0, <1>1, <1>3, <1>8, <2>1 DEF Ending, TypeOK
  <2>2. CASE ~(now > expiresAt[s])
    BY <1>5, <1>8, <2>2 DEF Ending, Keeps, Kinds, Ended
  <2> QED BY <2>1, <2>2
<1>9. ASSUME NEW s \in Sessions, NEW t \in Types, Made(s), TokenEnding(t, s) PROVE TokenEnding(t, s)'
  <2>1. CASE now >= issued[s] + Life(t)
    BY <1>0, <1>1, <1>3, <1>9, <2>1, LivesAssumption DEF TokenEnding, Life, TypeOK
  <2>2. CASE ~(now >= issued[s] + Life(t))
    BY <1>5, <1>9, <2>2 DEF TokenEnding, Keeps, Kinds
  <2> QED BY <2>1, <2>2
<1> QED BY <1>1, <1>2, <1>3, <1>6, <1>7, <1>8, <1>9

-----------------------------------------------------------------------------
(* What a call that begins is given.                                         *)
Starts(k) ==
  /\ pc[k] = "idle"
  /\ UNCHANGED <<now, storeVars, ttl, erred>>
  /\ \A q \in Calls \ {k} :
       /\ pc'[q] = pc[q] /\ todo'[q] = todo[q] /\ kind'[q] = kind[q]
       /\ session'[q] = session[q] /\ type'[q] = type[q] /\ at'[q] = at[q] /\ past'[q] = past[q]
  /\ session'[k] \in Sessions /\ type'[k] \in Types /\ at'[k] \in Caches
  /\ past'[k] = Past(session'[k], type'[k])
  /\ \/ /\ kind'[k] = "gen" /\ pc'[k] = "gen" /\ todo'[k] = GenOps
        /\ ~Made(session'[k])
        /\ expiresAt' = [expiresAt EXCEPT ![session'[k]] = now + RefreshLife]
     \/ /\ kind'[k] \in Kinds \ {"gen"} /\ todo'[k] = {}
        /\ pc'[k] = "checkSession" \/ (pc'[k] = "checkToken" /\ kind'[k] = "token")
        /\ Given(session'[k])
        /\ UNCHANGED expiresAt

LEMMA Starting ==
  ASSUME TypeOK, NEW k \in Calls, Request(k)
  PROVE  Starts(k)
<1>1. PICK s \in Sessions, c \in Caches :
        \/ Gen(k, s, c) \/ Logout(k, s, c)
        \/ \E t \in Types : VerifySession(k, s, t, c) \/ VerifyToken(k, s, t, c)
  BY DEF Request
<1>2. ASSUME NEW m, NEW t \in Types, NEW step, NEW ops, Begin(k, m, s, t, c, step, ops)
      PROVE  /\ pc[k] = "idle"
             /\ UNCHANGED <<now, storeVars, ttl, erred>>
             /\ \A q \in Calls \ {k} :
                  /\ pc'[q] = pc[q] /\ todo'[q] = todo[q] /\ kind'[q] = kind[q]
                  /\ session'[q] = session[q] /\ type'[q] = type[q] /\ at'[q] = at[q]
                  /\ past'[q] = past[q]
             /\ kind'[k] = m /\ session'[k] = s /\ type'[k] = t /\ at'[k] = c
             /\ past'[k] = Past(s, t) /\ pc'[k] = step /\ todo'[k] = ops
  BY <1>2 DEF Begin, TypeOK
<1> USE DEF Starts, Kinds
<1>7. "access" \in Types
  BY DEF Types
<1>3. CASE Gen(k, s, c)
  BY <1>2, <1>3, <1>7 DEF Gen
<1>4. CASE Logout(k, s, c)
  <2>1. Begin(k, "logout", s, "access", c, "checkSession", {}) /\ Given(s) /\ UNCHANGED expiresAt
    BY <1>4 DEF Logout
  <2>2. kind'[k] = "logout" /\ session'[k] = s /\ todo'[k] = {} /\ pc'[k] = "checkSession"
    BY <1>2, <1>7, <2>1
  <2> QED BY <1>2, <1>7, <2>1, <2>2
<1>5. ASSUME NEW t \in Types, VerifySession(k, s, t, c) PROVE Starts(k)
  <2>1. Begin(k, "session", s, t, c, "checkSession", {}) /\ Given(s) /\ UNCHANGED expiresAt
    BY <1>5 DEF VerifySession
  <2>2. kind'[k] = "session" /\ session'[k] = s /\ todo'[k] = {} /\ pc'[k] = "checkSession"
    BY <1>2, <2>1
  <2> QED BY <1>2, <2>1, <2>2
<1>6. ASSUME NEW t \in Types, VerifyToken(k, s, t, c) PROVE Starts(k)
  <2>1. Begin(k, "token", s, t, c, "checkToken", {}) /\ Given(s) /\ UNCHANGED expiresAt
    BY <1>6 DEF VerifyToken
  <2>2. kind'[k] = "token" /\ session'[k] = s /\ todo'[k] = {} /\ pc'[k] = "checkToken"
    BY <1>2, <2>1
  <2> QED BY <1>2, <2>1, <2>2
<1> QED BY <1>1, <1>3, <1>4, <1>5, <1>6

-----------------------------------------------------------------------------
(* What a call is, and where it can be.                                      *)
LEMMA CallStep == Inv /\ Next => CallInv'
<1> SUFFICES ASSUME Inv, Next, NEW l \in Calls PROVE CallOK(l)'
  BY DEF CallInv
<1>0. TypeOK /\ CallOK(l)
  BY DEF Inv, CallInv
<1> USE <1>0 DEF CallOK, Groups, Ended, Awaits, Kinds, GenOps, DeleteOps, ExpireOps
<1>1. CASE UNCHANGED <<pc, todo, ttl, erred, argVars>>
  BY <1>1 DEF argVars
<1>2. ASSUME NEW k \in Calls, k # l,
             Request(k) \/ (\E o \in todo[k] : Take(k, o)) \/ Verification(k) \/ Fail(k) \/ Stop(k)
      PROVE  CallOK(l)'
  <2>1. CASE Request(k)
    BY <1>2, <2>1, Starting DEF Starts
  <2>2. CASE ~Request(k)
    BY <1>2, <2>2, MoveFrame DEF Moves, argVars
  <2> QED BY <2>1, <2>2
<1>3. CASE Request(l)
  BY <1>3, Starting, NeverAssumption DEF Starts
<1>4. CASE \E o \in todo[l] : Take(l, o)
  <2>1. PICK o \in todo[l] : Take(l, o)
    BY <1>4
  <2>2. Moves(l) /\ Send(l, o) /\ todo'[l] = todo[l] \ {o} /\ ttl'[l] = ttl[l]
    BY <2>1, MoveFrame DEF Take, Answered, Rejected, Send, TypeOK
  <2>3. CASE Answered(l, o)
    <3>1. erred'[l] = erred[l] /\ pc'[l] = IF pc[l] \notin Groups \/ todo[l] # {o} THEN pc[l]
                                           ELSE IF pc[l] = "expire" THEN Refused(l) ELSE "ok"
      BY <2>3 DEF Answered, TypeOK
    <3>2. Refused(l) \in {"refused", "catch"} /\ (Refused(l) = "catch" => kind[l] = "token")
      BY DEF Refused
    <3> QED BY <2>2, <3>1, <3>2 DEF Moves, argVars
  <2>4. CASE Rejected(l, o)
    <3>1. erred'[l] /\ pc'[l] = IF pc[l] \in Groups THEN Failed(l) ELSE pc[l]
      BY <2>4 DEF Rejected, Err, TypeOK
    <3>2. Failed(l) \in {"failed", "catch"} /\ (Failed(l) = "catch" => kind[l] = "token")
      BY DEF Failed
    <3> QED BY <2>2, <3>1, <3>2 DEF Moves, argVars
  <2> QED BY <2>1, <2>3, <2>4 DEF Take
<1>5. CASE Verification(l)
  <2>0. Moves(l)
    BY <1>5, MoveFrame
  <2>1. CASE CheckToken(l) \/ CheckSession(l) \/ BanMissing(l) \/ Catch(l)
    BY <2>0, <2>1 DEF CheckToken, CheckSession, BanMissing, Catch, Goto, Refused, Moves, argVars, TypeOK
  <2>2. CASE Lookup(l) \/ Save(l)
    BY <2>0, <2>2 DEF Lookup, Save, Accept, Goto, Moves, argVars, TypeOK
  <2>3. CASE Find(l)
    BY <2>0, <2>3 DEF Find, Goto, Moves, argVars, TypeOK
  <2> QED BY <1>5, <2>1, <2>2, <2>3 DEF Verification
<1>6. CASE Fail(l)
  BY <1>6 DEF Fail, Failed, Err, argVars, TypeOK
<1>7. CASE Stop(l)
  BY <1>7 DEF Stop, Err, argVars, TypeOK
<1>8. CASE Tick \/ UNCHANGED vars
  BY <1>1, <1>8 DEF Tick, vars
<1> QED BY StepCases, <1>2, <1>3, <1>4, <1>5, <1>6, <1>7, <1>8

-----------------------------------------------------------------------------
(* Who changes the collection and the black lists.                           *)
Creates(k, s) == session[k] = s /\ "create" \in todo[k]
Removes(k, s) == session[k] = s /\ "remove" \in todo[k]
Bans(k, s) == session[k] = s /\ ("ban" \in todo[k] \/ pc[k] = "missing")
BansToken(k, t, s) == session[k] = s /\ type[k] = t /\ ("banToken" \in todo[k] \/ pc[k] = "catch")

LEMMA Stores ==
  ASSUME Inv, Next
  PROVE  /\ \A s \in Sessions :
              \/ documents'[s] = documents[s]
              \/ documents'[s] = "stored" /\ \E k \in Calls : Creates(k, s)
              \/ documents'[s] = "deleted" /\ documents[s] = "stored" /\ \E k \in Calls : Removes(k, s)
         /\ \A s \in Sessions : s \in blackSessions' =>
              s \in blackSessions \/ \E k \in Calls : Bans(k, s)
         /\ \A s \in Sessions, t \in Types : <<t, s>> \in blackTokens' =>
              <<t, s>> \in blackTokens \/ \E k \in Calls : BansToken(k, t, s)
<1> DEFINE Doc == \A s \in Sessions :
              \/ documents'[s] = documents[s]
              \/ documents'[s] = "stored" /\ \E k \in Calls : Creates(k, s)
              \/ documents'[s] = "deleted" /\ documents[s] = "stored" /\ \E k \in Calls : Removes(k, s)
           Black == \A s \in Sessions : s \in blackSessions' =>
              s \in blackSessions \/ \E k \in Calls : Bans(k, s)
           Tokens == \A s \in Sessions, t \in Types : <<t, s>> \in blackTokens' =>
              <<t, s>> \in blackTokens \/ \E k \in Calls : BansToken(k, t, s)
<1> HIDE DEF Doc, Black, Tokens
<1>0. documents \in [Sessions -> {"none", "stored", "deleted"}]
  BY DEF Inv, TypeOK
<1>1. UNCHANGED documents => Doc
  BY DEF Doc
<1>2. UNCHANGED blackSessions => Black
  BY DEF Black
<1>3. UNCHANGED blackTokens => Tokens
  BY DEF Tokens
<1>4. UNCHANGED storeVars => Doc /\ Black /\ Tokens
  BY <1>1, <1>2, <1>3 DEF storeVars
<1>5. ASSUME NEW k \in Calls, Request(k) \/ Stop(k) PROVE Doc /\ Black /\ Tokens
  BY <1>4, <1>5 DEF Request, Gen, VerifySession, VerifyToken, Logout, Begin, Stop
<1>6. ASSUME NEW k \in Calls, Operation(k) PROVE Doc /\ Black /\ Tokens
  <2>1. ASSUME NEW o, Take(k, o) PROVE o \in todo[k]
    BY <2>1 DEF Take, Answered, Rejected, Send
  <2>2. CASE Create(k)
    BY <1>0, <1>2, <1>3, <2>1, <2>2 DEF Create, Doc, Creates
  <2>3. CASE SoftDelete(k)
    BY <1>0, <1>2, <1>3, <2>1, <2>3 DEF SoftDelete, Doc, Removes
  <2>4. CASE Ban(k)
    BY <1>1, <1>3, <2>1, <2>4 DEF Ban, Black, Bans
  <2>5. CASE BanToken(k)
    BY <1>1, <1>2, <2>1, <2>5 DEF BanToken, Tokens, BansToken
  <2>6. CASE DropExpired(k) \/ OperationFails(k) \/ \E t \in Types : CacheEntry(k, t) \/ DropEntry(k, t)
    BY <1>1, <1>2, <1>3, <1>4, <2>6 DEF DropExpired, OperationFails, CacheEntry, DropEntry
  <2> QED BY <1>6, <2>2, <2>3, <2>4, <2>5, <2>6 DEF Operation
<1>7. ASSUME NEW k \in Calls, Verification(k) PROVE Doc /\ Black /\ Tokens
  <2>1. CASE CheckToken(k) \/ CheckSession(k) \/ Lookup(k) \/ Find(k) \/ Save(k)
    BY <1>1, <1>2, <1>3, <1>4, <2>1 DEF CheckToken, CheckSession, Lookup, Find, Save
  <2>2. CASE BanMissing(k)
    BY <1>1, <1>3, <2>2 DEF BanMissing, Goto, Black, Bans
  <2>3. CASE Catch(k)
    BY <1>1, <1>2, <2>3 DEF Catch, Goto, Tokens, BansToken
  <2> QED BY <1>7, <2>1, <2>2, <2>3 DEF Verification
<1>8. ASSUME NEW k \in Calls, Fail(k) PROVE Doc /\ Black /\ Tokens
  <2>1. CASE pc[k] = "missing" /\ blackSessions' = blackSessions \union {session[k]}
             /\ UNCHANGED <<documents, blackTokens>>
    BY <1>1, <1>3, <2>1 DEF Black, Bans
  <2>2. CASE pc[k] = "catch" /\ blackTokens' = blackTokens \union {<<type[k], session[k]>>}
             /\ UNCHANGED <<documents, blackSessions>>
    BY <1>1, <1>2, <2>2 DEF Tokens, BansToken
  <2> QED BY <1>1, <1>2, <1>3, <1>4, <1>8, <2>1, <2>2 DEF Fail
<1>9. ASSUME Tick \/ UNCHANGED vars PROVE Doc /\ Black /\ Tokens
  <2>1. UNCHANGED storeVars
    BY <1>9 DEF Tick, vars, storeVars
  <2> QED BY <1>4, <2>1
<1>10. Doc /\ Black /\ Tokens
  BY <1>5, <1>6, <1>7, <1>8, <1>9, StepCases
<1> QED BY <1>10 DEF Doc, Black, Tokens

(* A call that is under way began before, or in this step.                   *)
LEMMA BeganOrBegins ==
  ASSUME Inv, Next, NEW k \in Calls, pc'[k] # "idle"
  PROVE  (pc[k] # "idle" /\ Keeps(k)) \/ Starts(k)
<1>0. TypeOK /\ CallInv
  BY DEF Inv
<1>1. ASSUME pc[k] = "idle" PROVE Starts(k)
  <2>1. ASSUME NEW q \in Calls, q # k, Request(q) PROVE pc'[k] = "idle"
    BY <1>0, <1>1, <2>1, Starting DEF Starts
  <2>2. ASSUME NEW q \in Calls, Operation(q) /\ \E o \in todo[q] : Take(q, o) PROVE pc'[k] = "idle"
    <3>1. q # k
      BY <1>0, <1>1, <2>2 DEF CallInv, CallOK
    <3> QED BY <1>0, <1>1, <2>2, <3>1, MoveFrame DEF Moves
  <2>3. ASSUME NEW q \in Calls, Verification(q) \/ Fail(q) \/ Stop(q) PROVE pc'[k] = "idle"
    <3>1. q # k
      BY <1>0, <1>1, <2>3 DEF CallInv, CallOK, Verification, CheckToken, CheckSession, Lookup, Find,
        BanMissing, Save, Catch, Accept, Goto, Fail, Stop, Groups, Awaits
    <3> QED BY <1>0, <1>1, <2>3, <3>1, MoveFrame DEF Moves
  <2>4. CASE Tick \/ UNCHANGED vars
    BY <1>1, <2>4 DEF Tick, vars
  <2> QED BY <1>0, <1>1, <2>1, <2>2, <2>3, <2>4, StepCases, Starting
<1> QED BY <1>1, Keeping

LEMMA GivenStep == Inv /\ Next => GivenInv'
<1> SUFFICES ASSUME Inv, Next PROVE GivenInv'
  OBVIOUS
<1>0. TypeOK /\ CallInv /\ GivenInv
  BY DEF Inv
<1>a. CallInv'
  BY CallStep
<1>2. ASSUME NEW k \in Calls, kind'[k] \in Kinds
      PROVE  (pc[k] # "idle" /\ Keeps(k)) \/ Starts(k)
  BY <1>a, <1>2, BeganOrBegins, NeverAssumption DEF CallInv, CallOK
<1>3. ASSUME NEW k \in Calls, NEW l \in Calls, kind'[k] = "gen", kind'[l] = "gen", session'[k] = session'[l]
      PROVE  k = l
  <2>1. CASE Starts(k)
    BY <1>2, <1>3, <2>1 DEF Starts, Keeps, Made, Kinds
  <2>2. CASE Starts(l)
    BY <1>2, <1>3, <2>2 DEF Starts, Keeps, Made, Kinds
  <2>3. CASE ~Starts(k) /\ ~Starts(l)
    BY <1>0, <1>2, <1>3, <2>3 DEF Keeps, GivenInv, Kinds
  <2> QED BY <2>1, <2>2, <2>3
<1>4. ASSUME NEW k \in Calls, kind'[k] \in Kinds \ {"gen"} 
      PROVE  \E q \in Calls : kind'[q] = "gen" /\ session'[q] = session'[k] /\ pc'[q] = "ok"
  <2>1. session'[k] \in Sessions /\ Given(session'[k])
    <3>1. CASE Starts(k)
      BY <1>4, <3>1 DEF Starts
    <3>2. CASE pc[k] # "idle" /\ Keeps(k)
      BY <1>0, <1>4, <3>2 DEF Keeps, GivenInv, CallInv, CallOK
    <3> QED BY <1>2, <1>4, <3>1, <3>2
  <2>2. PICK q \in Calls : kind[q] = "gen" /\ session[q] = session'[k] /\ pc[q] = "ok"
    BY <2>1 DEF Given
  <2>3. Keeps(q)
    BY <2>2, Keeping
  <2>4. kind'[q] = "gen" /\ session'[q] = session'[k] /\ pc'[q] = "ok"
    BY <2>2, <2>3 DEF Keeps, Ended
  <2> QED BY <2>4
<1>5. ASSUME NEW k \in Calls, kind'[k] = "gen", pc'[k] \in {"gen", "ok"}
      PROVE  "create" \in todo'[k] \/ documents'[session'[k]] # "none"
  <2>1. CASE Starts(k)
    BY <1>5, <2>1 DEF Starts, Kinds, GenOps
  <2>2. CASE pc[k] # "idle" /\ Keeps(k)
    <3>1. kind[k] = "gen" /\ session'[k] = session[k] /\ session[k] \in Sessions
          /\ pc[k] \in {"gen", "ok"} /\ ~erred'[k]
      BY <1>0, <1>5, <1>a, <2>2 DEF Keeps, CallInv, CallOK, Ended
    <3>2. documents[session[k]] # "none" => documents'[session[k]] # "none"
      BY <3>1, Stores
    <3>3. "create" \in todo[k] => "create" \in todo'[k] \/ documents'[session[k]] = "stored"
      <4>1. ASSUME NEW q \in Calls, q # k,
                   Request(q) \/ (\E o \in todo[q] : Take(q, o)) \/ Verification(q) \/ Fail(q) \/ Stop(q)
            PROVE  todo'[k] = todo[k]
        BY <1>0, <4>1, MoveFrame, Starting DEF Moves, Starts
      <4>2. ASSUME NEW p, Take(k, p) PROVE todo'[k] = todo[k] \ {p}
        BY <1>0, <4>2 DEF Take, Answered, Rejected, Send, TypeOK
      <4>3. CASE Create(k)
        BY <1>0, <3>1, <4>3 DEF Create, TypeOK
      <4>4. CASE Operation(k) /\ ~Create(k)
        <5>1. CASE OperationFails(k)
          BY <1>0, <3>1, <5>1 DEF OperationFails, Rejected, Err, TypeOK
        <5>2. CASE ~OperationFails(k)
          <6>1. \E p \in {"ban", "cacheAccess", "cacheRefresh", "dropAccess", "dropRefresh",
                          "drop", "banToken", "remove"} : Take(k, p)
            BY <4>4, <5>2 DEF Operation, Ban, BanToken, SoftDelete, DropExpired, CacheEntry, DropEntry
          <6> QED BY <4>2, <6>1
        <5> QED BY <5>1, <5>2
      <4>5. CASE Verification(k) \/ Fail(k)
        BY <1>0, <3>1, <4>5 DEF Verification, CheckToken, CheckSession, Lookup, Find, BanMissing, Save,
          Catch, Accept, Goto, Fail, Awaits
      <4>6. CASE Stop(k)
        BY <1>0, <3>1, <4>6 DEF Stop, Err, TypeOK
      <4>7. CASE Tick \/ UNCHANGED vars
        BY <4>7 DEF Tick, vars
      <4>8. ~Request(k)
        BY <1>0, <2>2, Starting DEF Starts
      <4> QED BY <4>1, <4>3, <4>4, <4>5, <4>6, <4>7, <4>8, StepCases
    <3> QED BY <1>0, <3>1, <3>2, <3>3 DEF GivenInv
  <2> QED BY <1>2, <1>5, <2>1, <2>2 DEF Kinds
<1>6. ASSUME NEW s \in Sessions, ~Made(s)'
      PROVE  /\ documents'[s] = "none" /\ expiresAt'[s] = 0 /\ s \notin blackSessions'
             /\ \A t \in Types : <<t, s>> \notin blackTokens'
  <2>1. ~Made(s)
    BY <1>6, Stability
  <2>2. ASSUME NEW k \in Calls, session[k] = s PROVE pc[k] = "idle" /\ todo[k] = {}
    BY <1>0, <2>1, <2>2, BegunIsMade DEF CallInv, CallOK
  <2>3. /\ documents'[s] = documents[s] /\ (s \in blackSessions' => s \in blackSessions)
        /\ \A t \in Types : <<t, s>> \in blackTokens' => <<t, s>> \in blackTokens
    BY <2>2, Stores DEF Creates, Removes, Bans, BansToken
  <2>4. expiresAt'[s] = expiresAt[s]
    <3>1. ASSUME NEW k \in Calls, Request(k) PROVE expiresAt'[s] = expiresAt[s]
      <4>1. Starts(k)
        BY <1>0, <3>1, Starting
      <4>2. CASE kind'[k] = "gen"
        BY <1>0, <1>6, <4>1, <4>2 DEF Starts, Made, TypeOK, Kinds
      <4> QED BY <4>1, <4>2 DEF Starts
    <3>2. CASE Tick \/ UNCHANGED vars
      BY <3>2 DEF Tick, vars
    <3> QED BY <1>0, <3>1, <3>2, StepCases, MoveFrame DEF Moves
  <2> QED BY <1>0, <2>1, <2>3, <2>4 DEF GivenInv
<1>7. \A k \in Calls : kind'[k] \in Kinds \ {"gen"} =>
        \E q \in Calls : kind'[q] = "gen" /\ session'[q] = session'[k] /\ pc'[q] = "ok"
  BY <1>4
<1> QED BY <1>3, <1>5, <1>6, <1>7 DEF GivenInv, Given

-----------------------------------------------------------------------------
(* Where a call that has begun comes from when it moves, and why.            *)
Moved(k) ==
  \/ pc'[k] = pc[k]
  \/ pc'[k] \in {"failed", "stopped"}
  \/ pc'[k] = "catch" /\ kind[k] = "token" /\ erred'[k]
  \/ pc[k] = "checkToken" /\ pc'[k] = "checkSession"
  \/ pc[k] = "checkToken" /\ pc'[k] = "catch"
       /\ (<<type[k], session[k]>> \in blackTokens \/ now >= issued[session[k]] + Life(type[k]))
  \/ pc[k] = "checkSession" /\ session[k] \notin blackSessions /\ pc'[k] = "lookup"
  \/ pc[k] = "checkSession" /\ session[k] \in blackSessions /\ pc'[k] \in {"catch", "refused"}
  \/ pc[k] = "lookup" /\ Cached(at[k], type[k], session[k])
       /\ (pc'[k] = "accepted" \/ (pc'[k] = "delete" /\ todo'[k] = DeleteOps))
  \/ pc[k] = "lookup" /\ pc'[k] = "find"
  \/ pc[k] = "find" /\ documents[session[k]] # "stored" /\ pc'[k] = "missing"
  \/ pc[k] = "find" /\ now > expiresAt[session[k]] /\ pc'[k] = "expire" /\ todo'[k] = ExpireOps
  \/ pc[k] = "find" /\ ~(now > expiresAt[session[k]]) /\ pc'[k] = "save"
       /\ ttl'[k] = expiresAt[session[k]] - now
  \/ pc[k] \in {"missing", "expire"} /\ pc'[k] \in {"catch", "refused"}
  \/ pc[k] = "save" /\ (pc'[k] = "accepted" \/ (pc'[k] = "delete" /\ todo'[k] = DeleteOps))
  \/ pc[k] = "catch" /\ pc'[k] = "refused"
  \/ pc[k] \in {"gen", "delete"} /\ pc'[k] = "ok"

LEMMA Moving ==
  ASSUME Inv, Next, NEW k \in Calls, pc[k] # "idle"
  PROVE  Moved(k)
<1>0. TypeOK /\ CallInv
  BY DEF Inv
<1> USE <1>0 DEF Moved
<1>1. ASSUME NEW q \in Calls, q # k,
             Request(q) \/ (\E o \in todo[q] : Take(q, o)) \/ Verification(q) \/ Fail(q) \/ Stop(q)
      PROVE  pc'[k] = pc[k]
  BY <1>1, MoveFrame, Starting DEF Moves, Starts
<1>2. ~Request(k)
  BY Starting DEF Starts
<1>3. ASSUME NEW o, Take(k, o) PROVE Moved(k)
  <2>1. CASE Answered(k, o)
    BY <2>1 DEF Answered, Refused, Groups, TypeOK
  <2>2. CASE Rejected(k, o)
    BY <2>2 DEF Rejected, Failed, Err, TypeOK
  <2> QED BY <1>3, <2>1, <2>2 DEF Take
<1>4. CASE CheckToken(k)
  BY <1>4 DEF CheckToken, Goto, TypeOK
<1>5. CASE CheckSession(k) \/ BanMissing(k) \/ Catch(k)
  BY <1>5 DEF CheckSession, BanMissing, Catch, Goto, Refused, Banned, TypeOK
<1>6. CASE Lookup(k) \/ Save(k)
  BY <1>6 DEF Lookup, Save, Accept, Goto, TypeOK
<1>7. CASE Find(k)
  BY <1>7 DEF Find, Goto, Expired, Remaining, TypeOK
<1>8. CASE Fail(k)
  BY <1>8 DEF Fail, Failed, Err, TypeOK
<1>9. CASE Stop(k)
  BY <1>9 DEF Stop, TypeOK
<1>10. CASE Tick \/ UNCHANGED vars
  BY <1>10 DEF Tick, vars
<1> QED BY StepCases, <1>1, <1>2, <1>3, <1>4, <1>5, <1>6, <1>7, <1>8, <1>9, <1>10 DEF Verification

-----------------------------------------------------------------------------
(* What is banned is being ended, or was.                                    *)
LEMMA EndStep == Inv /\ Next => EndInv'
<1> SUFFICES ASSUME Inv, Next PROVE EndInv'
  OBVIOUS
<1>0. TypeOK /\ CallInv /\ GivenInv /\ EndInv
  BY DEF Inv
<1>a. ASSUME NEW k \in Calls, todo[k] # {} \/ pc[k] # "idle"
      PROVE  session[k] \in Sessions /\ type[k] \in Types /\ Made(session[k])
  BY <1>0, <1>a, BegunIsMade DEF CallInv, CallOK, TypeOK
<1>1. ASSUME NEW s \in Sessions, documents'[s] = "deleted" \/ s \in blackSessions' PROVE Ending(s)'
  <2>1. Made(s) /\ Ending(s)
    <3>1. CASE documents[s] = "deleted" \/ s \in blackSessions
      BY <1>0, <3>1 DEF GivenInv, EndInv
    <3>2. ASSUME NEW k \in Calls, Removes(k, s) \/ Bans(k, s) PROVE Made(s) /\ Ending(s)
      BY <1>0, <1>a, <3>2 DEF Removes, Bans, EndInv
    <3> QED BY <1>1, <3>1, <3>2, Stores
  <2> QED BY <2>1, Stability
<1>2. ASSUME NEW s \in Sessions, NEW t \in Types, <<t, s>> \in blackTokens'
      PROVE  Ending(s)' \/ TokenEnding(t, s)'
  <2>1. Made(s) /\ (Ending(s) \/ TokenEnding(t, s))
    <3>1. CASE <<t, s>> \in blackTokens
      BY <1>0, <3>1 DEF GivenInv, EndInv
    <3>2. ASSUME NEW k \in Calls, BansToken(k, t, s) PROVE Made(s) /\ (Ending(s) \/ TokenEnding(t, s))
      BY <1>0, <1>a, <3>2 DEF BansToken, EndInv
    <3> QED BY <1>2, <3>1, <3>2, Stores
  <2> QED BY <2>1, Stability
<1>3. ASSUME NEW k \in Calls, NEW s \in Sessions, NEW t \in Types, session'[k] = s, type'[k] = t
      PROVE  /\ pc'[k] \in {"missing", "expire"} => Ending(s)'
             /\ todo'[k] \intersect {"remove", "ban", "banToken"} # {} => Ending(s)'
             /\ pc'[k] = "catch" => Ending(s)' \/ TokenEnding(t, s)'
  <2>1. CASE pc'[k] = "idle" \/ Starts(k)
    BY <2>1, CallStep DEF CallInv, CallOK, Starts, GenOps, Groups
  <2>2. CASE pc[k] # "idle" /\ Keeps(k)
    <3>1. session[k] = s /\ type[k] = t /\ Made(s) /\ Moved(k)
      BY <1>3, <1>a, <2>2, Moving DEF Keeps
    <3>2. ASSUME Ending(s) PROVE Ending(s)'
      BY <3>1, <3>2, Stability
    <3>3. ASSUME TokenEnding(t, s) PROVE TokenEnding(t, s)'
      BY <3>1, <3>3, Stability
    <3>4. now > expiresAt[s] => Ending(s)
      BY DEF Ending
    <3>5. now >= issued[s] + Life(t) => TokenEnding(t, s)
      BY DEF TokenEnding
    <3>6. pc[k] = "find" => documents[s] \in {"stored", "deleted"}
      <4>1. CASE pc[k] = "find"
        <5>1. kind[k] \in Kinds \ {"gen"}
          BY <1>0, <4>1 DEF CallInv, CallOK
        <5>2. PICK g \in Calls : kind[g] = "gen" /\ session[g] = s /\ pc[g] = "ok"
          BY <1>0, <3>1, <5>1 DEF GivenInv, Given
        <5>3. todo[g] = {}
          BY <1>0, <5>2 DEF CallInv, CallOK, Groups
        <5> QED BY <1>0, <5>2, <5>3 DEF GivenInv, TypeOK
      <4> QED BY <4>1
    <3>7. documents[s] = "deleted" \/ s \in blackSessions => Ending(s)
      BY <1>0 DEF EndInv
    <3>8. pc'[k] \in {"missing", "expire"} => Ending(s)'
      <4>1. pc'[k] \in {"missing", "expire"} => Ending(s)
        BY <1>0, <3>1, <3>4, <3>6, <3>7 DEF Moved, EndInv
      <4> QED BY <3>2, <4>1
    <3>9. todo'[k] \intersect {"remove", "ban", "banToken"} # {} => Ending(s)'
      <4>1. CASE todo'[k] \subseteq todo[k]
        BY <1>0, <3>1, <3>2, <4>1 DEF EndInv
      <4>2. CASE pc'[k] = "expire"
        BY <3>8, <4>2
      <4>3. CASE pc'[k] = "delete" /\ kind[k] = "logout"
        <5>1. kind'[k] = "logout" /\ session'[k] = s /\ pc'[k] = "delete"
          BY <1>3, <2>2, <4>3 DEF Keeps
        <5> QED BY <5>1 DEF Ending
      <4> QED BY <2>2, <4>1, <4>2, <4>3 DEF Keeps
    <3>10. pc'[k] = "catch" => Ending(s)' \/ TokenEnding(t, s)'
      <4>1. CASE pc'[k] = "catch" /\ kind[k] = "token" /\ erred'[k]
        <5>1. kind'[k] = "token"
          BY <2>2, <4>1 DEF Keeps
        <5> QED BY <1>3, <4>1, <5>1 DEF TokenEnding
      <4>2. CASE pc'[k] = "catch" /\ ~(kind[k] = "token" /\ erred'[k])
        <5>1. Ending(s) \/ TokenEnding(t, s)
          BY <1>0, <3>1, <3>5, <3>7, <4>2 DEF Moved, EndInv
        <5> QED BY <3>2, <3>3, <5>1
      <4> QED BY <4>1, <4>2
    <3> QED BY <3>8, <3>9, <3>10
  <2> QED BY <2>1, <2>2, BeganOrBegins
<1>4. ASSUME NEW k \in Calls, pc'[k] # "idle" \/ todo'[k] # {}
      PROVE  session'[k] \in Sessions /\ type'[k] \in Types
  BY <1>4, CallStep, TypeStep DEF CallInv, CallOK, TypeOK
<1> QED BY <1>1, <1>2, <1>3, <1>4 DEF EndInv

-----------------------------------------------------------------------------
(* A call that ends a session bans it, and is not confirmed before.          *)
LEMMA BanStep == Inv /\ Next => BanInv'
<1> SUFFICES ASSUME Inv, Next, NEW k \in Calls PROVE BanOK(k)'
  BY DEF BanInv
<1>0. TypeOK /\ CallOK(k) /\ CallOK(k)' /\ BanInv /\ GivenInv
  BY CallStep DEF Inv, CallInv
<1>1. CASE pc'[k] = "idle"
  BY <1>0, <1>1, BeganOrBegins DEF BanOK, CallOK
<1>2. CASE Starts(k)
  <2>1. session'[k] \in Sessions /\ blackSessions \subseteq blackSessions'
    BY <1>2, Stability DEF Starts
  <2>2. ASSUME "login" \in past'[k] PROVE session'[k] \in blackSessions
    <3>1. PICK q \in Calls : kind[q] = "logout" /\ session[q] = session'[k] /\ pc[q] = "ok"
      BY <1>2, <2>2 DEF Starts, Past, LoggedOut
    <3> QED BY <1>0, <3>1 DEF BanInv, BanOK
  <2> QED BY <1>2, <2>1, <2>2 DEF Starts, BanOK, GenOps, Kinds
<1>3. CASE pc[k] # "idle" /\ Keeps(k)
  <2>0. Moved(k) /\ BanOK(k) /\ session[k] \in Sessions /\ blackSessions \subseteq blackSessions'
    BY <1>0, <1>3, Moving, Stability DEF BanInv, CallOK
  <2>1. ASSUME "ban" \in todo[k] \/ session[k] \in blackSessions \/ erred[k]
        PROVE  "ban" \in todo'[k] \/ session'[k] \in blackSessions' \/ erred'[k]
    BY <1>3, <2>0, <2>1 DEF Keeps
  <2>2. ASSUME pc'[k] \in {"expire", "delete"} \/ (kind'[k] = "logout" /\ pc'[k] = "ok")
                 \/ todo'[k] \intersect {"remove", "ban"} # {}
        PROVE  "ban" \in todo'[k] \/ session'[k] \in blackSessions' \/ erred'[k]
    <3>1. CASE todo'[k] = ExpireOps \/ todo'[k] = DeleteOps
      BY <3>1 DEF ExpireOps, DeleteOps
    <3>2. CASE todo'[k] \subseteq todo[k]
      <4>1. CASE todo[k] \intersect {"remove", "ban"} # {}
        BY <1>0, <2>0, <2>1, <4>1 DEF BanOK
      <4>2. CASE pc[k] \in {"expire", "delete"} \/ (kind[k] = "logout" /\ pc[k] = "ok")
        BY <2>0, <2>1, <4>2 DEF BanOK
      <4> QED BY <1>0, <1>3, <2>0, <2>2, <3>1, <3>2, <4>1, <4>2 DEF Moved, Keeps, CallOK
    <3> QED BY <1>3, <3>1, <3>2 DEF Keeps
  <2>3. ASSUME kind'[k] = "logout", pc'[k] = "ok" PROVE session'[k] \in blackSessions'
    BY <1>0, <2>2, <2>3 DEF CallOK, Groups
  <2>4. ASSUME "login" \in past'[k], kind'[k] # "gen"
        PROVE  /\ session'[k] \in blackSessions'
               /\ pc'[k] \in {"checkToken", "checkSession", "catch", "refused", "failed", "stopped"}
    BY <1>3, <2>0, <2>4 DEF Keeps, BanOK, Moved
  <2> QED BY <2>2, <2>3, <2>4 DEF BanOK
<1> QED BY <1>1, <1>2, <1>3, BeganOrBegins

-----------------------------------------------------------------------------
(* Who changes the cache, and when time passes.                              *)
Gives(k, t, s) ==
  session[k] = s /\ todo[k] \intersect {"cacheAccess", "cacheRefresh"} # {}
    /\ cache' # cache
WritesBack(k, t, s) == session[k] = s /\ type[k] = t /\ pc[k] = "save"

LEMMA CacheChanges ==
  ASSUME Inv, Next
  PROVE  \A c \in Caches, t \in Types, s \in Sessions :
           \/ cache'[<<c, t, s>>] \in {0, cache[<<c, t, s>>]}
           \/ cache'[<<c, t, s>>] = Until(Life(t)) /\ \E k \in Calls : Gives(k, t, s)
           \/ \E k \in Calls : WritesBack(k, t, s) /\ cache'[<<c, t, s>>] = Until(ttl[k])
<1> SUFFICES ASSUME NEW c \in Caches, NEW t \in Types, NEW s \in Sessions,
                    cache'[<<c, t, s>>] # cache[<<c, t, s>>]
             PROVE  \/ cache'[<<c, t, s>>] = 0
                    \/ cache'[<<c, t, s>>] = Until(Life(t)) /\ \E k \in Calls : Gives(k, t, s)
                    \/ \E k \in Calls : WritesBack(k, t, s) /\ cache'[<<c, t, s>>] = Until(ttl[k])
  OBVIOUS
<1>0. cache \in [Caches \X Types \X Sessions -> Nat \union {Never}]
  BY DEF Inv, TypeOK
<1>1. ASSUME NEW e, NEW v, cache' = [cache EXCEPT ![e] = v]
      PROVE  e = <<c, t, s>> /\ cache'[<<c, t, s>>] = v
  BY <1>0, <1>1
<1>2. cache' # cache
  OBVIOUS
<1>3. ASSUME NEW k \in Calls, Request(k) \/ Stop(k) PROVE FALSE
  BY <1>2, <1>3 DEF Request, Gen, VerifySession, VerifyToken, Logout, Begin, Stop, storeVars
<1>4. ASSUME NEW k \in Calls, NEW u \in Types, CacheEntry(k, u)
      PROVE  cache'[<<c, t, s>>] = Until(Life(t)) /\ Gives(k, t, s)
  <2>1. cache' = [cache EXCEPT ![<<at[k], u, session[k]>>] = Until(Life(u))]
    BY <1>4 DEF CacheEntry
  <2>2. u = t /\ session[k] = s /\ cache'[<<c, t, s>>] = Until(Life(u))
    BY <1>1, <2>1
  <2>3. todo[k] \intersect {"cacheAccess", "cacheRefresh"} # {}
    BY <1>4 DEF CacheEntry, Take, Answered, Rejected, Send
  <2> QED BY <1>2, <2>2, <2>3 DEF Gives
<1>5. ASSUME NEW k \in Calls, NEW u \in Types, DropEntry(k, u) PROVE cache'[<<c, t, s>>] = 0
  <2>1. cache' = [cache EXCEPT ![<<at[k], u, session[k]>>] = 0]
    BY <1>5 DEF DropEntry
  <2> QED BY <1>1, <2>1
<1>6. ASSUME NEW k \in Calls, DropExpired(k) PROVE cache'[<<c, t, s>>] = 0
  <2>1. cache' = [cache EXCEPT ![<<at[k], type[k], session[k]>>] = 0]
    BY <1>6 DEF DropExpired
  <2> QED BY <1>1, <2>1
<1>7. ASSUME NEW k \in Calls,
             Create(k) \/ Ban(k) \/ BanToken(k) \/ SoftDelete(k) \/ OperationFails(k)
      PROVE  FALSE
  BY <1>2, <1>7 DEF Create, Ban, BanToken, SoftDelete, OperationFails, storeVars
<1>8. ASSUME NEW k \in Calls, Save(k) \/ Fail(k)
      PROVE  WritesBack(k, t, s) /\ cache'[<<c, t, s>>] = Until(ttl[k])
  <2>1. pc[k] = "save" /\ cache' = [cache EXCEPT ![<<at[k], type[k], session[k]>>] = Until(ttl[k])]
    BY <1>2, <1>8 DEF Save, Accept, Goto, Fail, storeVars
  <2>2. type[k] = t /\ session[k] = s /\ cache'[<<c, t, s>>] = Until(ttl[k])
    BY <1>1, <2>1
  <2> QED BY <2>1, <2>2 DEF WritesBack
<1>9. ASSUME NEW k \in Calls,
             CheckToken(k) \/ CheckSession(k) \/ Lookup(k) \/ Find(k) \/ BanMissing(k) \/ Catch(k)
      PROVE  FALSE
  BY <1>2, <1>9 DEF CheckToken, CheckSession, Lookup, Find, BanMissing, Catch, storeVars
<1>10. ~Tick /\ ~UNCHANGED vars
  BY <1>2 DEF Tick, vars, storeVars
<1> QED BY StepCases, <1>3, <1>4, <1>5, <1>6, <1>7, <1>8, <1>9, <1>10 DEF Operation, Verification

LEMMA TimePasses ==
  ASSUME Inv, Next
  PROVE  now' = now \/ Tick
<1>1. ASSUME NEW k \in Calls, Request(k) PROVE now' = now
  BY <1>1, Starting DEF Starts, Inv
<1>2. CASE UNCHANGED vars
  BY <1>2 DEF vars
<1> QED BY StepCases, <1>1, <1>2, MoveFrame DEF Moves, Inv

LEMMA EntryStep == Inv /\ Next => EntryInv'
<1> SUFFICES ASSUME Inv, Next PROVE EntryInv'
  OBVIOUS
<1>0. TypeOK /\ CallInv /\ GivenInv /\ EntryInv
  BY DEF Inv
<1>1. ASSUME NEW q \in Calls, NEW s \in Sessions, NEW t \in Types,
             session[q] = s, type[q] = t, ttl[q] = 0
      PROVE  session'[q] = s /\ type'[q] = t /\ ttl'[q] = 0
  <2>1. ttl[q] # None
    BY <1>1, NeverAssumption
  <2>2. pc[q] # "idle" /\ pc[q] # "find"
    BY <1>0, <2>1 DEF CallInv, CallOK, Groups, Ended
  <2> QED BY <1>1, <2>2, Keeping DEF Keeps
<1>2. ASSUME NEW c \in Caches, NEW t \in Types, NEW s \in Sessions
      PROVE  IF cache'[<<c, t, s>>] = Never
             THEN \E q \in Calls : session'[q] = s /\ type'[q] = t /\ ttl'[q] = 0
             ELSE cache'[<<c, t, s>>] = 0 \/ cache'[<<c, t, s>>] <= expiresAt'[s]
  <2>0. cache[<<c, t, s>>] \in Nat \union {Never} /\ 0 # Never
    BY <1>0, NeverAssumption DEF TypeOK
  <2>1. CASE cache'[<<c, t, s>>] = 0
    BY <2>0, <2>1
  <2>2. CASE cache'[<<c, t, s>>] = cache[<<c, t, s>>]
    <3>1. CASE cache[<<c, t, s>>] = Never
      BY <1>0, <1>1, <2>2, <3>1 DEF EntryInv
    <3>2. CASE cache[<<c, t, s>>] # Never /\ Made(s)
      <4>1. expiresAt'[s] = expiresAt[s]
        BY <3>2, Stability
      <4> QED BY <1>0, <2>2, <3>2, <4>1 DEF EntryInv
    <3>3. CASE cache[<<c, t, s>>] # Never /\ ~Made(s)
      <4>1. expiresAt[s] = 0
        BY <1>0, <3>3 DEF GivenInv
      <4> QED BY <1>0, <2>0, <2>2, <3>3, <4>1 DEF EntryInv
    <3> QED BY <3>1, <3>2, <3>3
  <2>3. ASSUME NEW k \in Calls, Gives(k, t, s), cache'[<<c, t, s>>] = Until(Life(t))
        PROVE  cache'[<<c, t, s>>] # Never /\ cache'[<<c, t, s>>] <= expiresAt'[s]
    <3>1. pc[k] # "idle" /\ session[k] = s
      BY <1>0, <2>3 DEF Gives, CallInv, CallOK
    <3>2. expiresAt'[s] = expiresAt[s]
      BY <3>1, BegunIsMade, Stability
    <3>3. expiresAt[s] = now + RefreshLife
      BY <1>0, <2>3 DEF Gives, EntryInv
    <3>4. cache'[<<c, t, s>>] = now + Life(t) /\ Life(t) <= RefreshLife /\ Life(t) \in Nat
      BY <2>3, LivesAssumption DEF Until, Life, Types
    <3> QED BY <1>0, <3>2, <3>3, <3>4, LivesAssumption, NeverAssumption DEF TypeOK
  <2>4. ASSUME NEW k \in Calls, WritesBack(k, t, s), cache'[<<c, t, s>>] = Until(ttl[k])
        PROVE  IF cache'[<<c, t, s>>] = Never
               THEN \E q \in Calls : session'[q] = s /\ type'[q] = t /\ ttl'[q] = 0
               ELSE cache'[<<c, t, s>>] <= expiresAt'[s]
    <3>1. pc[k] = "save" /\ session[k] = s /\ type[k] = t /\ ttl[k] \in Nat
          /\ now + ttl[k] = expiresAt[s]
      BY <1>0, <2>4 DEF WritesBack, EntryInv, TypeOK
    <3>2. expiresAt'[s] = expiresAt[s]
      BY <3>1, BegunIsMade, Stability
    <3>3. CASE ttl[k] = 0
      BY <1>1, <2>4, <3>1, <3>3 DEF Until
    <3>4. CASE ttl[k] # 0
      BY <1>0, <2>4, <3>1, <3>2, <3>4, NeverAssumption DEF Until, TypeOK
    <3> QED BY <3>3, <3>4
  <2> QED BY <2>1, <2>2, <2>3, <2>4, CacheChanges
<1>3. ASSUME NEW k \in Calls
      PROVE  /\ todo'[k] \intersect {"cacheAccess", "cacheRefresh"} # {} =>
                  expiresAt'[session'[k]] = now' + RefreshLife
             /\ pc'[k] = "save" => ttl'[k] # None /\ now' + ttl'[k] = expiresAt'[session'[k]]
             /\ "session" \in past'[k] => kind'[k] # "gen" /\ now' > expiresAt'[session'[k]]
  <2>1. CASE pc'[k] = "idle"
    BY <2>1, CallStep DEF CallInv, CallOK
  <2>2. CASE Starts(k)
    <3>1. CASE kind'[k] = "gen"
      <4>1. expiresAt'[session'[k]] = now' + RefreshLife /\ "session" \notin past'[k]
        BY <1>0, <2>2, <3>1 DEF Starts, Past, TypeOK, Kinds
      <4> QED BY <2>2, <3>1, <4>1 DEF Starts, Kinds
    <3>2. CASE kind'[k] # "gen"
      BY <2>2, <3>2 DEF Starts, Past
    <3> QED BY <3>1, <3>2
  <2>3. CASE pc[k] # "idle" /\ Keeps(k)
    <3>1. session'[k] = session[k] /\ past'[k] = past[k] /\ kind'[k] = kind[k]
          /\ session[k] \in Sessions /\ Moved(k) /\ expiresAt'[session[k]] = expiresAt[session[k]]
      BY <2>3, BegunIsMade, Moving, Stability DEF Keeps
    <3>2. now \in Nat /\ now' \in Nat /\ now' >= now /\ expiresAt[session[k]] \in Nat
      BY <1>0, <3>1, Stability DEF TypeOK
    <3>3. ASSUME todo'[k] \intersect {"cacheAccess", "cacheRefresh"} # {}
          PROVE  expiresAt'[session'[k]] = now' + RefreshLife
      <4>1. todo[k] \intersect {"cacheAccess", "cacheRefresh"} # {}
        BY <2>3, <3>3 DEF Keeps, ExpireOps, DeleteOps
      <4>2. now' = now
        BY <4>1, TimePasses DEF Tick
      <4> QED BY <1>0, <3>1, <4>1, <4>2 DEF EntryInv
    <3>4. ASSUME pc'[k] = "save" PROVE ttl'[k] # None /\ now' + ttl'[k] = expiresAt'[session'[k]]
      <4>1. CASE pc[k] = "save"
        <5>1. now' = now /\ ttl'[k] = ttl[k]
          BY <2>3, <4>1, TimePasses DEF Tick, Keeps
        <5> QED BY <1>0, <3>1, <4>1, <5>1 DEF EntryInv
      <4>2. CASE pc[k] # "save"
        <5>1. pc[k] = "find" /\ ~(now > expiresAt[session[k]])
              /\ ttl'[k] = expiresAt[session[k]] - now
          BY <3>1, <3>4, <4>2 DEF Moved
        <5>2. now' = now
          BY <3>4, <4>2, TimePasses DEF Tick
        <5> QED BY <3>1, <3>2, <5>1, <5>2, NeverAssumption
      <4> QED BY <4>1, <4>2
    <3>5. ASSUME "session" \in past'[k] PROVE kind'[k] # "gen" /\ now' > expiresAt'[session'[k]]
      BY <1>0, <3>1, <3>2, <3>5 DEF EntryInv
    <3> QED BY <3>3, <3>4, <3>5
  <2> QED BY <2>1, <2>2, <2>3, BeganOrBegins
<1> QED BY <1>2, <1>3 DEF EntryInv

-----------------------------------------------------------------------------
(* The properties themselves.                                                *)
LEMMA LogoutStep == CallInv' /\ BanInv' => LogoutIsFinal'
<1> SUFFICES ASSUME CallInv', BanInv', NEW k \in Calls, "login" \in past'[k] PROVE ~Accepted(k)'
  BY DEF LogoutIsFinal
<1>1. CallOK(k)' /\ BanOK(k)'
  BY DEF CallInv, BanInv
<1>2. CASE kind'[k] = "gen"
  BY <1>1, <1>2 DEF CallOK, Accepted
<1>3. CASE kind'[k] # "gen"
  BY <1>1, <1>3 DEF BanOK, Accepted
<1> QED BY <1>2, <1>3

LEMMA RefusalStep ==
  ASSUME Inv, Next, NEW k \in Calls, pc'[k] = "refused", ~erred'[k],
         NEW s \in Sessions, NEW t \in Types, session'[k] = s, type'[k] = t
  PROVE  Ending(s)' \/ (kind'[k] = "token" /\ TokenEnding(t, s)')
<1>1. CASE Starts(k)
  BY <1>1 DEF Starts
<1>2. CASE pc[k] # "idle" /\ Keeps(k)
  <2>1. session[k] = s /\ type[k] = t /\ kind'[k] = kind[k] /\ ~erred[k] /\ Made(s) /\ Moved(k)
    BY <1>2, BegunIsMade, Moving DEF Keeps
  <2>2. Ending(s) \/ (kind[k] = "token" /\ TokenEnding(t, s))
    <3>1. CASE pc[k] = "refused"
      BY <2>1, <3>1 DEF Inv, RefusalHasReason
    <3>2. CASE pc[k] = "catch"
      BY <2>1, <3>2 DEF Inv, EndInv, CallInv, CallOK
    <3>3. CASE pc[k] \in {"missing", "expire"} \/ s \in blackSessions
      BY <2>1, <3>3 DEF Inv, EndInv
    <3> QED BY <2>1, <3>1, <3>2, <3>3 DEF Moved
  <2> QED BY <2>1, <2>2, Stability
<1> QED BY <1>1, <1>2, BeganOrBegins

LEMMA RefusalsStep == Inv /\ Next => RefusalHasReason'
<1> SUFFICES ASSUME Inv, Next PROVE RefusalHasReason'
  OBVIOUS
<1>1. \A k \in Calls : pc'[k] = "refused" => session'[k] \in Sessions /\ type'[k] \in Types
  BY CallStep, TypeStep DEF CallInv, CallOK, TypeOK
<1> QED BY <1>1, RefusalStep DEF RefusalHasReason

LEMMA DeletedStep == Inv /\ Next => DeletedIsBanned'
<1> SUFFICES ASSUME Inv, Next, NEW s \in Sessions, documents'[s] = "deleted"
             PROVE  s \in blackSessions' \/ \E k \in Calls : session'[k] = s /\ ("ban" \in todo'[k] \/ erred'[k])
  BY DEF DeletedIsBanned
<1>1. s \in blackSessions \/ \E k \in Calls : session[k] = s /\ ("ban" \in todo[k] \/ erred[k])
  <2>1. ASSUME NEW k \in Calls, Removes(k, s)
        PROVE  "ban" \in todo[k] \/ session[k] \in blackSessions \/ erred[k]
    BY <2>1 DEF Inv, BanInv, BanOK, Removes
  <2> QED BY <2>1, Stores DEF Inv, DeletedIsBanned, Removes
<1>2. ASSUME NEW k \in Calls, session[k] = s, "ban" \in todo[k] \/ erred[k]
      PROVE  s \in blackSessions' \/ (session'[k] = s /\ ("ban" \in todo'[k] \/ erred'[k]))
  <2>1. pc[k] # "idle"
    BY <1>2 DEF Inv, CallInv, CallOK
  <2> QED BY <1>2, <2>1, Keeping DEF Keeps
<1> QED BY <1>1, <1>2, Stability

LEMMA ExpiredStep == Inv /\ Next => ExpiredIsRefused'
<1> SUFFICES ASSUME Inv, Next, NEW k \in Calls, Accepted(k)', "session" \in past'[k]
             PROVE  \E q \in Calls : session'[q] = session'[k] /\ type'[q] = type'[k] /\ ttl'[q] = 0
  BY DEF ExpiredIsRefused
<1>0. TypeOK /\ CallInv /\ EntryInv
  BY DEF Inv
<1>1. pc[k] # "idle" /\ Keeps(k) /\ Moved(k)
  BY BeganOrBegins, Moving DEF Accepted, Starts
<1>2. session'[k] = session[k] /\ type'[k] = type[k] /\ now > expiresAt[session[k]]
      /\ kind[k] # "gen" /\ session[k] \in Sessions /\ type[k] \in Types /\ at[k] \in Caches
  BY <1>0, <1>1 DEF Keeps, EntryInv, CallInv, CallOK, TypeOK
<1>3. now \in Nat /\ expiresAt[session[k]] \in Nat
      /\ cache[<<at[k], type[k], session[k]>>] \in Nat \union {Never}
  BY <1>0, <1>2 DEF TypeOK
<1>4. \E q \in Calls : session[q] = session[k] /\ type[q] = type[k] /\ ttl[q] = 0
  <2>1. CASE Accepted(k)
    BY <1>1, <2>1 DEF Inv, ExpiredIsRefused, Keeps
  <2>2. CASE pc[k] = "lookup" /\ Cached(at[k], type[k], session[k])
    BY <1>0, <1>2, <1>3, <2>2 DEF Cached, EntryInv
  <2>3. pc[k] # "save"
    <3>1. CASE pc[k] = "save"
      <4>1. ttl[k] \in Nat /\ now + ttl[k] = expiresAt[session[k]]
        BY <1>0, <3>1 DEF EntryInv, TypeOK
      <4> QED BY <1>2, <1>3, <4>1
    <3> QED BY <3>1
  <2> QED BY <1>0, <1>1, <1>2, <2>1, <2>2, <2>3 DEF Moved, Keeps, Accepted, CallInv, CallOK
<1>5. PICK q \in Calls : session[q] = session[k] /\ type[q] = type[k] /\ ttl[q] = 0
  BY <1>4
<1>6. pc[q] # "idle" /\ pc[q] # "find"
  BY <1>0, <1>5, NeverAssumption DEF CallInv, CallOK, Groups, Ended
<1> QED BY <1>2, <1>5, <1>6, Keeping DEF Keeps

-----------------------------------------------------------------------------
(* The invariant holds in every reachable state.                             *)
THEOREM Invariance == Spec => []Inv
<1>1. Init => Inv
  <2> SUFFICES ASSUME Init PROVE Inv
    OBVIOUS
  <2> USE DEF Init
  <2>1. TypeOK
    BY DEF TypeOK, Types
  <2>2. CallInv /\ BanInv
    BY NeverAssumption DEF CallInv, CallOK, BanInv, BanOK, Groups, Ended, Kinds
  <2>3. GivenInv
    BY NeverAssumption DEF GivenInv, Kinds
  <2>4. EndInv /\ EntryInv
    BY NeverAssumption DEF EndInv, EntryInv
  <2>5. LogoutIsFinal /\ RefusalHasReason /\ DeletedIsBanned /\ ExpiredIsRefused
    BY DEF LogoutIsFinal, RefusalHasReason, DeletedIsBanned, ExpiredIsRefused, Accepted
  <2> QED BY <2>1, <2>2, <2>3, <2>4, <2>5 DEF Inv
<1>2. Inv /\ [Next]_vars => Inv'
  <2>1. CASE Inv /\ Next
    BY <2>1, TypeStep, CallStep, GivenStep, EndStep, BanStep, EntryStep, LogoutStep, RefusalsStep,
      DeletedStep, ExpiredStep DEF Inv
  <2>2. CASE Inv /\ UNCHANGED vars
    <3> USE <2>2 DEF vars, storeVars, argVars
    <3>1. TypeOK' /\ CallInv' /\ BanInv'
      BY DEF Inv, TypeOK, CallInv, CallOK, BanInv, BanOK
    <3>2. GivenInv' /\ EndInv'
      BY DEF Inv, GivenInv, EndInv, Given, Made, Ending, TokenEnding
    <3>3. EntryInv' /\ LogoutIsFinal' /\ RefusalHasReason'
      BY DEF Inv, EntryInv, LogoutIsFinal, RefusalHasReason, Accepted, Ending, TokenEnding
    <3>4. DeletedIsBanned' /\ ExpiredIsRefused'
      BY DEF Inv, DeletedIsBanned, ExpiredIsRefused, Accepted
    <3> QED BY <3>1, <3>2, <3>3, <3>4 DEF Inv
  <2> QED BY <2>1, <2>2
<1> QED BY <1>1, <1>2, PTL DEF Spec

(* Every variable keeps its type, a lifetime that is never negative among    *)
(* them (session.service.ts).                                                *)
THEOREM TypeCorrect == Spec => []TypeOK
<1>1. Inv => TypeOK
  BY DEF Inv
<1> QED BY <1>1, Invariance, PTL

(* After a confirmed logout neither token of the session lets a call in that *)
(* begins later, on any instance, whatever verifySession has written back to *)
(* the caches meanwhile (AuthService.logout, SessionService.delete).         *)
THEOREM LogoutFinal == Spec => []LogoutIsFinal
<1>1. Inv => LogoutIsFinal
  BY DEF Inv
<1> QED BY <1>1, Invariance, PTL

(* A token that was given is refused only if its session is being logged out *)
(* or has expired, or it has itself expired or was banned by an error        *)
(* (verifySession, verifyToken).                                             *)
THEOREM RefusalsHaveReasons == Spec => []RefusalHasReason
<1>1. Inv => RefusalHasReason
  BY DEF Inv
<1> QED BY <1>1, Invariance, PTL

(* A deleted document means a session on the black list, but for a call that *)
(* has the ban under way or met an error (delete, verifySession).            *)
THEOREM DeletedSessionsAreBanned == Spec => []DeletedIsBanned
<1>1. Inv => DeletedIsBanned
  BY DEF Inv
<1> QED BY <1>1, Invariance, PTL

(* No call that begins after the end of its session is let in, unless an     *)
(* entry was written back with a lifetime of 0 (verifySession, saveEx).      *)
THEOREM ExpiredSessionsAreRefused == Spec => []ExpiredIsRefused
<1>1. Inv => ExpiredIsRefused
  BY DEF Inv
<1> QED BY <1>1, Invariance, PTL
====

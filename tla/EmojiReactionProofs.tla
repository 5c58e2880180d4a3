---- MODULE EmojiReactionProofs ----
(* Proofs about EmojiReaction for any number of calls, users and messages. *)
EXTENDS EmojiReaction, TLAPS

(* Types, with what a call knows of itself: a failing call needs its user    *)
(* and message to be recorded as tangled.                                    *)
LEMMA TypeStep ==
  ASSUME TypeOK, CallInv, [Next]_vars
  PROVE  TypeOK' /\ CallInv'
<1> USE NoneAssumption DEF Goto, InFlight, InTransaction, dataVars, txnVars
<1>1. ASSUME NEW k \in Calls, NEW u \in Users, NEW m \in Messages, SendEmoji(k, u, m)
      PROVE  TypeOK' /\ CallInv'
  BY <1>1 DEF TypeOK, CallInv, SendEmoji, Reactions
<1>2. ASSUME NEW k \in Calls, FindEmoji(k) PROVE TypeOK' /\ CallInv'
  BY <1>2 DEF TypeOK, CallInv, FindEmoji, Reactions
<1>3. ASSUME NEW k \in Calls, WriteEmoji(k) PROVE TypeOK' /\ CallInv'
  BY <1>3 DEF TypeOK, CallInv, WriteEmoji
<1>4. ASSUME NEW k \in Calls, WriteMessage(k) PROVE TypeOK' /\ CallInv'
  BY <1>4 DEF TypeOK, CallInv, WriteMessage
<1>5. ASSUME NEW k \in Calls, pc[k] \in InFlight
      PROVE  Pair(k) \in Users \X Messages
  BY <1>5 DEF CallInv, Pair
<1>6. ASSUME NEW k \in Calls, Goto(k, "commit", "emit"), Apply(k),
             UNCHANGED <<by, on, found>>
      PROVE  /\ CallInv'
             /\ pc' \in [Calls -> InFlight \union {"idle", "done", "crashed"}]
             /\ emojis' \in SUBSET Calls /\ live' \in SUBSET Messages
             /\ refs' \in [Messages -> SUBSET Calls]
             /\ emojiLock' \in [Calls -> Calls \union {None}]
             /\ msgLock' \in [Messages -> Calls \union {None}]
             /\ stale' \in [Calls -> SUBSET Messages]
  <2>1. emojiLock' \in [Calls -> Calls \union {None}] /\ msgLock' \in [Messages -> Calls \union {None}]
    BY <1>6 DEF TypeOK, Apply, Release
  <2>2. on[k] \in Messages /\ found[k] \in Calls \union {None}
    BY <1>6 DEF TypeOK, CallInv
  <2>3. refs' \in [Messages -> SUBSET Calls] /\ stale' \in [Calls -> SUBSET Messages]
    <3>1. CASE msgLock[on[k]] = k
      BY <1>6, <2>2, <3>1 DEF TypeOK, Apply, Changed
    <3>2. CASE msgLock[on[k]] # k
      BY <1>6, <3>2 DEF TypeOK, Apply
    <3> QED
      BY <3>1, <3>2
  <2>4. emojis' \in SUBSET Calls /\ live' \in SUBSET Messages
    BY <1>6 DEF TypeOK, Apply
  <2>5. CallInv' /\ pc' \in [Calls -> InFlight \union {"idle", "done", "crashed"}]
    BY <1>6 DEF TypeOK, CallInv
  <2> QED
    BY <2>1, <2>3, <2>4, <2>5
<1>7. ASSUME NEW k \in Calls, Commit(k) PROVE TypeOK' /\ CallInv'
  BY <1>6, <1>7 DEF TypeOK, Commit
<1>8. ASSUME NEW k \in Calls, CommitUnanswered(k) PROVE TypeOK' /\ CallInv'
  <2>1. /\ Goto(k, "commit", "emit") /\ Apply(k) /\ Failing(k)
        /\ UNCHANGED <<by, on, found, shown, known>>
    BY <1>8 DEF CommitUnanswered
  <2>2. isNew' \in [Calls -> BOOLEAN] /\ tangled' \in SUBSET (Users \X Messages)
    BY <1>5, <2>1 DEF TypeOK, Failing
  <2> QED
    BY <1>6, <2>1, <2>2 DEF TypeOK
<1>9. ASSUME NEW k \in Calls, Abort(k) PROVE TypeOK' /\ CallInv'
  BY <1>5, <1>9 DEF TypeOK, CallInv, Abort, Failing, Release
<1>10. ASSUME NEW k \in Calls, Emit(k) PROVE TypeOK' /\ CallInv'
  BY <1>10 DEF TypeOK, CallInv, Emit
<1>11. ASSUME NEW k \in Calls, Crash(k) PROVE TypeOK' /\ CallInv'
  BY <1>5, <1>11 DEF TypeOK, CallInv, Crash, Release
<1>12. ASSUME NEW m \in Messages, DeleteMessage(m) PROVE TypeOK' /\ CallInv'
  BY <1>12 DEF TypeOK, CallInv, DeleteMessage, Changed
<1>13. CASE UNCHANGED vars
  BY <1>13 DEF TypeOK, CallInv, vars
<1> QED
  BY <1>1, <1>2, <1>3, <1>4, <1>7, <1>8, <1>9, <1>10, <1>11, <1>12, <1>13
  DEF Next, Step, Quiet

(* An open transaction holds what it has written, and only that. *)
LEMMA LockStep ==
  ASSUME TypeOK, CallInv, LockInv, [Next]_vars
  PROVE  LockInv'
<1> USE NoneAssumption DEF Goto, InFlight, InTransaction, dataVars, txnVars, TypeOK, LockInv
<1>1. ASSUME NEW k \in Calls, NEW u \in Users, NEW m \in Messages, SendEmoji(k, u, m)
      PROVE  LockInv'
  BY <1>1 DEF SendEmoji
<1>2. ASSUME NEW k \in Calls, FindEmoji(k) PROVE LockInv'
  BY <1>2 DEF FindEmoji
<1>3. ASSUME NEW k \in Calls, WriteEmoji(k) PROVE LockInv'
  BY <1>3 DEF WriteEmoji
<1>4. ASSUME NEW k \in Calls, WriteMessage(k) PROVE LockInv'
  BY <1>4 DEF WriteMessage, CallInv
<1>5. ASSUME NEW k \in Calls, Release(k), UNCHANGED <<on, live>>,
             NEW s, pc' = [pc EXCEPT ![k] = s], s # "commit"
      PROVE  LockInv'
  BY <1>5 DEF Release
<1>6. ASSUME NEW k \in Calls, Commit(k) \/ CommitUnanswered(k) PROVE LockInv'
  BY <1>5, <1>6 DEF Commit, CommitUnanswered, Apply
<1>7. ASSUME NEW k \in Calls, Abort(k) \/ Crash(k) PROVE LockInv'
  <2>1. CASE Abort(k)
    BY <1>5, <2>1 DEF Abort
  <2>2. CASE Crash(k)
    BY <1>5, <2>2 DEF Crash
  <2> QED
    BY <1>7, <2>1, <2>2
<1>8. ASSUME NEW k \in Calls, Emit(k) PROVE LockInv'
  BY <1>8 DEF Emit
<1>9. ASSUME NEW m \in Messages, DeleteMessage(m) PROVE LockInv'
  BY <1>9 DEF DeleteMessage
<1>10. CASE UNCHANGED vars
  BY <1>10 DEF vars
<1> QED
  BY <1>1, <1>2, <1>3, <1>4, <1>6, <1>7, <1>8, <1>9, <1>10 DEF Next, Step, Quiet

(* A commit applies both writes of a call to the documents of its message. *)
LEMMA ApplyEmoji ==
  ASSUME TypeOK, CallInv, LockInv, EmojiInv, NEW k \in Calls,
         Goto(k, "commit", "emit"), Apply(k), UNCHANGED <<by, on, found>>
  PROVE  EmojiInv'
<1> USE NoneAssumption DEF Goto, TypeOK, Apply, Answered
<1>1. \A e \in emojis' : pc'[e] \in Answered /\ found'[e] = None
  BY DEF EmojiInv
<1>2. \A l \in Calls : found[l] # None =>
        pc'[found[l]] \in Answered /\ by[found[l]] = by[l] /\ on[found[l]] = on[l]
  BY DEF EmojiInv
<1>3. ASSUME NEW m \in live PROVE refs'[m] = {e \in emojis' : on[e] = m}
  <2>1. refs[m] = {e \in emojis : on[e] = m} /\ m \in Messages
    BY <1>3 DEF EmojiInv
  <2>2. CASE on[k] = m
    <3>1. msgLock[m] = k
      BY <1>3, <2>2 DEF LockInv
    <3>2. refs'[m] = IF found[k] = None THEN refs[m] \union {k} ELSE refs[m] \ {found[k]}
      BY <2>1, <2>2, <3>1
    <3> QED
      BY <2>1, <2>2, <3>2
  <2>3. CASE on[k] # m
    <3>1. refs'[m] = refs[m]
      BY <2>1, <2>3
    <3>2. found[k] # None => on[found[k]] # m
      BY <2>3 DEF EmojiInv
    <3> QED
      BY <2>1, <2>3, <3>1, <3>2
  <2> QED
    BY <2>2, <2>3
<1> QED
  BY <1>1, <1>2, <1>3 DEF EmojiInv

(* Documents and array agree, and a call finds only its own reactions. *)
LEMMA EmojiStep ==
  ASSUME TypeOK, CallInv, LockInv, EmojiInv, [Next]_vars
  PROVE  EmojiInv'
<1> USE NoneAssumption DEF Goto, InFlight, InTransaction, dataVars, txnVars, TypeOK,
        EmojiInv, Answered
<1>1. ASSUME NEW k \in Calls, NEW u \in Users, NEW m \in Messages, SendEmoji(k, u, m)
      PROVE  EmojiInv'
  BY <1>1 DEF SendEmoji, CallInv
<1>2. ASSUME NEW k \in Calls, FindEmoji(k) PROVE EmojiInv'
  <2>1. found'[k] # None => found'[k] \in Reactions(by[k], on[k])
    BY <1>2 DEF FindEmoji
  <2>2. \A e \in Reactions(by[k], on[k]) : e \in emojis /\ by[e] = by[k] /\ on[e] = on[k]
    BY DEF Reactions
  <2>3. \A l \in Calls \ {k} : found'[l] = found[l]
    BY <1>2 DEF FindEmoji
  <2>4. \A l \in Calls : pc[l] \in Answered => pc'[l] = pc[l] /\ l # k
    BY <1>2 DEF FindEmoji
  <2>5. UNCHANGED <<by, on, live, refs, emojis>>
    BY <1>2 DEF FindEmoji
  <2> QED
    BY <2>1, <2>2, <2>3, <2>4, <2>5
<1>3. ASSUME NEW k \in Calls, WriteEmoji(k) \/ WriteMessage(k) PROVE EmojiInv'
  BY <1>3 DEF WriteEmoji, WriteMessage
<1>4. ASSUME NEW k \in Calls, Commit(k) \/ CommitUnanswered(k) PROVE EmojiInv'
  BY <1>4, ApplyEmoji DEF Commit, CommitUnanswered
<1>5. ASSUME NEW k \in Calls, Abort(k) \/ Crash(k) \/ Emit(k) PROVE EmojiInv'
  <2>1. UNCHANGED <<by, on, found, live, refs, emojis>>
    BY <1>5 DEF Abort, Crash, Emit
  <2>2. \A l \in Calls : pc[l] \in Answered => pc'[l] \in Answered
    BY <1>5 DEF Abort, Crash, Emit
  <2> QED
    BY <2>1, <2>2
<1>6. ASSUME NEW m \in Messages, DeleteMessage(m) PROVE EmojiInv'
  BY <1>6 DEF DeleteMessage
<1>7. CASE UNCHANGED vars
  BY <1>7 DEF vars
<1> QED
  BY <1>1, <1>2, <1>3, <1>4, <1>5, <1>6, <1>7 DEF Next, Step, Quiet

(* A call that creates had found nothing of what existed when it was made. *)
LEMMA RaceStep ==
  ASSUME TypeOK, CallInv, LockInv, EmojiInv, RaceInv, [Next]_vars
  PROVE  RaceInv'
<1> USE NoneAssumption DEF Goto, InFlight, InTransaction, dataVars, txnVars, TypeOK, Answered
<1>1. ASSUME NEW k \in Calls, NEW u \in Users, NEW m \in Messages, SendEmoji(k, u, m)
      PROVE  RaceInv'
  <2>1. /\ known' = [known EXCEPT ![k] = Reactions(u, m)] /\ pc[k] = "idle"
        /\ pc' = [pc EXCEPT ![k] = "findEmoji"] /\ UNCHANGED <<found, live, emojis>>
        /\ by' = [by EXCEPT ![k] = u] /\ on' = [on EXCEPT ![k] = m]
    BY <1>1 DEF SendEmoji
  <2>2. \A e \in Reactions(u, m) : pc[e] \in Answered /\ by[e] = u /\ on[e] = m /\ e # k
    BY <2>1 DEF Reactions, EmojiInv
  <2>3. \A l \in Calls : \A e \in known[l] : e # k
    BY <2>1 DEF RaceInv
  <2>4. \A l \in Calls : \A e \in known'[l] : pc'[e] \in Answered /\ by'[e] = by'[l] /\ on'[e] = on'[l]
    BY <2>1, <2>2, <2>3 DEF RaceInv
  <2>5. k \notin emojis
    BY <2>1 DEF EmojiInv
  <2> QED
    BY <2>1, <2>4, <2>5 DEF RaceInv
<1>2. ASSUME NEW k \in Calls, FindEmoji(k) PROVE RaceInv'
  <2>1. ASSUME found'[k] = None, on[k] \in live, NEW e \in emojis
        PROVE  by[e] # by[k] \/ on[e] # on[k]
    BY <1>2, <2>1 DEF FindEmoji, Reactions, EmojiInv
  <2> QED
    BY <1>2, <2>1 DEF FindEmoji, RaceInv
<1>3. ASSUME NEW k \in Calls, WriteEmoji(k) \/ WriteMessage(k) PROVE RaceInv'
  BY <1>3 DEF WriteEmoji, WriteMessage, RaceInv
<1>4. ASSUME NEW k \in Calls, Commit(k) \/ CommitUnanswered(k) PROVE RaceInv'
  <2>1. Apply(k) /\ Goto(k, "commit", "emit") /\ UNCHANGED <<by, on, found, known>>
    BY <1>4 DEF Commit, CommitUnanswered
  <2>2. \A l \in Calls : k \notin known[l]
    BY <2>1 DEF RaceInv
  <2> QED
    BY <2>1, <2>2 DEF RaceInv, Apply
<1>5. ASSUME NEW k \in Calls, Abort(k) \/ Crash(k) \/ Emit(k) PROVE RaceInv'
  <2>1. UNCHANGED <<by, on, found, live, emojis, known>>
    BY <1>5 DEF Abort, Crash, Emit
  <2>2. \A l \in Calls : pc[l] \in Answered => pc'[l] \in Answered
    BY <1>5 DEF Abort, Crash, Emit
  <2>3. \A l \in Calls : pc'[l] \in {"writeEmoji", "writeMessage", "commit"} => pc'[l] = pc[l]
    BY <1>5 DEF Abort, Crash, Emit
  <2> QED
    BY <2>1, <2>2, <2>3 DEF RaceInv
<1>6. ASSUME NEW m \in Messages, DeleteMessage(m) PROVE RaceInv'
  BY <1>6 DEF DeleteMessage, RaceInv
<1>7. CASE UNCHANGED vars
  BY <1>7 DEF vars, RaceInv
<1> QED
  BY <1>1, <1>2, <1>3, <1>4, <1>5, <1>6, <1>7 DEF Next, Step, Quiet

(* Of a stored message the array tells no more than the documents do.        *)
LEMMA ReactionsAreDocuments ==
  ASSUME TypeOK, EmojiInv, NEW u \in Users, NEW m \in live
  PROVE  Reactions(u, m) = {e \in emojis : by[e] = u /\ on[e] = m}
BY DEF Reactions, TypeOK, EmojiInv

(* What ViewInv says of one user and one message.                            *)
View(u, m) ==
  /\ \A d, e \in Reactions(u, m) : d = e
  /\ \A k, l \in InFlightFor(u, m) : k = l
  /\ \A k \in InFlightFor(u, m) : Knows(k, Reactions(u, m))
  /\ InFlightFor(u, m) = {} => (shown[<<u, m>>] <=> Reactions(u, m) # {})

(* A commit of another user's or another message's call leaves the reactions. *)
LEMMA ApplyElsewhere ==
  ASSUME TypeOK, CallInv, EmojiInv, EmojiInv', TypeOK', NEW k \in Calls,
         Goto(k, "commit", "emit"), Apply(k), UNCHANGED <<by, on, found>>,
         NEW u \in Users, NEW m \in live, Pair(k) # <<u, m>>
  PROVE  Reactions(u, m)' = Reactions(u, m)
<1>1. live' = live /\ emojis' = IF found[k] = None THEN emojis \union {k} ELSE emojis \ {found[k]}
  BY DEF Apply
<1>2. found[k] # None => by[found[k]] = by[k] /\ on[found[k]] = on[k]
  BY DEF EmojiInv
<1>3. by[k] # u \/ on[k] # m
  BY DEF Pair
<1>4. Reactions(u, m) = {e \in emojis : by[e] = u /\ on[e] = m}
  BY ReactionsAreDocuments
<1>5. Reactions(u, m)' = {e \in emojis' : by[e] = u /\ on[e] = m}
  BY <1>1 DEF Reactions, TypeOK, EmojiInv
<1> QED
  BY <1>1, <1>2, <1>3, <1>4, <1>5

(* A user whose toggles of a message neither overlap nor fail is shown what  *)
(* is stored.                                                                *)
LEMMA ViewStep ==
  ASSUME TypeOK, CallInv, LockInv, EmojiInv, ViewInv, EmojiInv', TypeOK', [Next]_vars
  PROVE  ViewInv'
<1> USE NoneAssumption DEF Goto, InFlight, InTransaction, dataVars, txnVars
<1>0. tangled \subseteq tangled' /\ live' \subseteq live /\ live \subseteq Messages
  BY DEF Next, Step, Quiet, vars, SendEmoji, FindEmoji, WriteEmoji, WriteMessage, Commit, Apply,
     Abort, CommitUnanswered, Failing, Emit, Crash, DeleteMessage, TypeOK
<1> SUFFICES ASSUME NEW u \in Users, NEW m \in live', <<u, m>> \notin tangled'
             PROVE  View(u, m)'
  BY DEF ViewInv, View
<1>a. m \in live /\ m \in Messages /\ View(u, m) /\ <<u, m>> \notin tangled
  BY <1>0 DEF ViewInv, View
<1>b. /\ Reactions(u, m) = {e \in emojis : by[e] = u /\ on[e] = m}
      /\ Reactions(u, m)' = {e \in emojis' : by'[e] = u /\ on'[e] = m}
  <2>1. Reactions(u, m) = {e \in emojis : by[e] = u /\ on[e] = m}
    BY <1>a, ReactionsAreDocuments
  <2>2. Reactions(u, m)' = {e \in emojis' : by'[e] = u /\ on'[e] = m}
    BY <1>a DEF Reactions, TypeOK, EmojiInv
  <2> QED
    BY <2>1, <2>2
<1> DEFINE Onward(k) == \/ pc'[k] = pc[k]
                        \/ pc[k] = "writeEmoji" /\ pc'[k] = "writeMessage"
                        \/ pc[k] = "writeMessage" /\ pc'[k] = "commit"
(* Steps that touch neither the calls nor the reactions of the two. *)
<1>c. ASSUME Reactions(u, m)' = Reactions(u, m), InFlightFor(u, m)' = InFlightFor(u, m),
             \A k \in Calls : k \in InFlightFor(u, m) =>
               /\ isNew'[k] = isNew[k] /\ found'[k] = found[k]
               /\ Onward(k),
             shown'[<<u, m>>] = shown[<<u, m>>]
      PROVE  View(u, m)'
  <2>1. ASSUME NEW k \in InFlightFor(u, m) PROVE Knows(k, Reactions(u, m))'
    BY <1>a, <1>c, <2>1 DEF View, Knows, InFlightFor
  <2> QED
    BY <1>a, <1>c, <2>1 DEF View
<1>1. ASSUME NEW k \in Calls, NEW v \in Users, NEW n \in Messages, SendEmoji(k, v, n)
      PROVE  View(u, m)'
  <2>1. /\ by' = [by EXCEPT ![k] = v] /\ on' = [on EXCEPT ![k] = n] /\ pc[k] = "idle"
        /\ pc' = [pc EXCEPT ![k] = "findEmoji"]
        /\ UNCHANGED <<found, isNew, live, refs, emojis, shown>>
        /\ \A l \in Calls : l # k => UNCHANGED <<by[l], on[l], pc[l]>>
        /\ by'[k] = v /\ on'[k] = n /\ pc'[k] = "findEmoji"
    BY <1>1 DEF SendEmoji, TypeOK
  <2>2. k \notin emojis
    BY <2>1 DEF EmojiInv, Answered
  <2>3. Reactions(u, m)' = Reactions(u, m)
    BY <1>b, <2>1, <2>2 DEF TypeOK
  <2>4. CASE <<v, n>> = <<u, m>>
    <3>1. InFlightFor(u, m) = {}
      BY <1>1, <2>4 DEF SendEmoji, InFlightFor
    <3>2. InFlightFor(u, m)' \subseteq {k}
      BY <2>1, <3>1 DEF InFlightFor, Pair
    <3>3. k \in InFlightFor(u, m)' /\ pc'[k] = "findEmoji"
      BY <2>1, <2>4 DEF InFlightFor, Pair
    <3> QED
      BY <1>a, <2>3, <3>2, <3>3 DEF View, Knows
  <2>5. CASE <<v, n>> # <<u, m>>
    <3>1. InFlightFor(u, m)' = InFlightFor(u, m) /\ k \notin InFlightFor(u, m)
      BY <2>1, <2>5 DEF InFlightFor, Pair
    <3> QED
      BY <1>a, <2>1, <2>3, <3>1, <1>c
  <2> QED
    BY <2>4, <2>5
<1>2. ASSUME NEW k \in Calls, FindEmoji(k) PROVE View(u, m)'
  <2>1. /\ pc[k] = "findEmoji" /\ pc' = [pc EXCEPT ![k] = "writeEmoji"]
        /\ UNCHANGED <<by, on, live, refs, emojis, shown>>
        /\ \A l \in Calls : l # k => UNCHANGED <<found[l], isNew[l], pc[l]>>
        /\ pc'[k] = "writeEmoji"
    BY <1>2 DEF FindEmoji, TypeOK
  <2>2. Reactions(u, m)' = Reactions(u, m) /\ InFlightFor(u, m)' = InFlightFor(u, m)
    BY <1>b, <2>1 DEF InFlightFor, Pair
  <2>3. CASE Pair(k) # <<u, m>>
    <3>1. k \notin InFlightFor(u, m)
      BY <2>3 DEF InFlightFor
    <3> QED
      BY <1>a, <2>1, <2>2, <3>1, <1>c
  <2>4. CASE Pair(k) = <<u, m>>
    <3>1. k \in InFlightFor(u, m)
      BY <2>1, <2>4 DEF InFlightFor
    <3>2. by[k] = u /\ on[k] = m
      BY <2>4 DEF Pair
    <3>3. isNew'[k] <=> Reactions(u, m) = {}
      BY <1>2, <3>2 DEF FindEmoji, TypeOK
    <3>4. (found'[k] = None /\ Reactions(u, m) = {}) \/ found'[k] \in Reactions(u, m)
      BY <1>2, <3>2 DEF FindEmoji, TypeOK
    <3>5. None \notin Reactions(u, m)
      BY DEF Reactions, TypeOK
    <3>6. Knows(k, Reactions(u, m))'
      BY <1>a, <2>1, <2>2, <3>3, <3>4, <3>5 DEF Knows, View
    <3> QED
      BY <1>a, <2>2, <3>1, <3>6 DEF View
  <2> QED
    BY <2>3, <2>4
<1>3. ASSUME NEW k \in Calls, WriteEmoji(k) \/ WriteMessage(k) PROVE View(u, m)'
  <2>1. /\ UNCHANGED <<by, on, found, isNew, live, refs, emojis, shown>>
        /\ \A l \in Calls : Onward(l)
    BY <1>3 DEF WriteEmoji, WriteMessage, TypeOK
  <2>2. Reactions(u, m)' = Reactions(u, m) /\ InFlightFor(u, m)' = InFlightFor(u, m)
    BY <1>b, <2>1 DEF InFlightFor, Pair
  <2> QED
    BY <1>a, <2>1, <2>2, <1>c
<1>4. ASSUME NEW k \in Calls, Commit(k) \/ CommitUnanswered(k), Pair(k) # <<u, m>>
      PROVE  View(u, m)'
  <2>1. /\ pc[k] = "commit" /\ UNCHANGED <<by, on, found, live, shown>>
        /\ \A l \in Calls : l # k => UNCHANGED <<isNew[l], pc[l]>>
        /\ Goto(k, "commit", "emit") /\ Apply(k)
    BY <1>4 DEF Commit, CommitUnanswered, Apply, Failing, TypeOK
  <2>2. Reactions(u, m)' = Reactions(u, m)
    BY <1>4, <1>a, <2>1, ApplyElsewhere
  <2>3. InFlightFor(u, m)' = InFlightFor(u, m) /\ k \notin InFlightFor(u, m)
    BY <1>4, <2>1 DEF InFlightFor, Pair
  <2> QED
    BY <1>a, <2>1, <2>2, <2>3, <1>c
<1>5. ASSUME NEW k \in Calls, Commit(k), Pair(k) = <<u, m>> PROVE View(u, m)'
  <2>1. /\ pc[k] = "commit" /\ pc'[k] = "emit" /\ pc' = [pc EXCEPT ![k] = "emit"]
        /\ UNCHANGED <<by, on, found, isNew>>
        /\ emojis' = IF found[k] = None THEN emojis \union {k} ELSE emojis \ {found[k]}
    BY <1>5 DEF Commit, Apply, TypeOK
  <2>2. by[k] = u /\ on[k] = m /\ k \in InFlightFor(u, m)
    BY <1>5, <2>1 DEF Pair, InFlightFor
  <2>3. InFlightFor(u, m)' = InFlightFor(u, m)
    BY <2>1 DEF InFlightFor, Pair, TypeOK
  <2>4. /\ isNew[k] <=> found[k] = None
        /\ Reactions(u, m) = IF found[k] = None THEN {} ELSE {found[k]}
    BY <1>a, <2>1, <2>2 DEF View, Knows
  <2>5. Reactions(u, m)' = IF found[k] = None THEN {k} ELSE {}
    BY <1>b, <2>1, <2>2, <2>4
  <2>6. Knows(k, Reactions(u, m))'
    BY <2>1, <2>4, <2>5 DEF Knows
  <2> QED
    BY <1>a, <2>2, <2>3, <2>5, <2>6 DEF View
<1>6. ASSUME NEW k \in Calls, CommitUnanswered(k) PROVE View(u, m)'
  BY <1>4, <1>6 DEF CommitUnanswered, Failing
<1>7. ASSUME NEW k \in Calls, Abort(k) \/ Crash(k) PROVE View(u, m)'
  <2>1. /\ UNCHANGED <<by, on, found, live, refs, emojis, shown>> /\ pc[k] \in InFlight
        /\ \A l \in Calls : l # k => UNCHANGED <<isNew[l], pc[l]>>
    BY <1>7 DEF Abort, Crash, Failing, TypeOK
  <2>2. Pair(k) # <<u, m>>
    BY <1>7 DEF Abort, Crash, Failing
  <2>3. Reactions(u, m)' = Reactions(u, m)
    BY <1>b, <2>1
  <2>4. InFlightFor(u, m)' = InFlightFor(u, m) /\ k \notin InFlightFor(u, m)
    BY <2>1, <2>2 DEF InFlightFor, Pair
  <2> QED
    BY <1>a, <2>1, <2>3, <2>4, <1>c
<1>8. ASSUME NEW k \in Calls, Emit(k) PROVE View(u, m)'
  <2>1. /\ pc[k] = "emit" /\ pc'[k] = "done" /\ UNCHANGED <<by, on, found, isNew, live, refs, emojis>>
        /\ \A l \in Calls : l # k => UNCHANGED pc[l]
        /\ shown' = [shown EXCEPT ![Pair(k)] = isNew[k]]
    BY <1>8 DEF Emit, TypeOK
  <2>2. Reactions(u, m)' = Reactions(u, m)
    BY <1>b, <2>1
  <2>3. CASE Pair(k) # <<u, m>>
    <3>1. InFlightFor(u, m)' = InFlightFor(u, m) /\ k \notin InFlightFor(u, m)
      BY <2>1, <2>3 DEF InFlightFor, Pair
    <3>2. shown'[<<u, m>>] = shown[<<u, m>>]
      BY <1>a, <2>1, <2>3 DEF TypeOK
    <3> QED
      BY <1>a, <2>1, <2>2, <3>1, <3>2, <1>c
  <2>4. CASE Pair(k) = <<u, m>>
    <3>1. k \in InFlightFor(u, m)
      BY <2>1, <2>4 DEF InFlightFor
    <3>2. InFlightFor(u, m)' = {}
      BY <1>a, <2>1, <3>1 DEF View, InFlightFor, Pair
    <3>3. isNew[k] <=> Reactions(u, m) # {}
      BY <1>a, <2>1, <3>1 DEF View, Knows
    <3>4. shown'[<<u, m>>] = isNew[k]
      BY <1>a, <2>1, <2>4 DEF TypeOK
    <3> QED
      BY <1>a, <2>2, <3>2, <3>3, <3>4 DEF View
  <2> QED
    BY <2>3, <2>4
<1>9. ASSUME NEW n \in Messages, DeleteMessage(n) PROVE View(u, m)'
  <2>1. UNCHANGED <<pc, by, on, found, isNew, emojis, shown>>
    BY <1>9 DEF DeleteMessage
  <2>2. Reactions(u, m)' = Reactions(u, m) /\ InFlightFor(u, m)' = InFlightFor(u, m)
    BY <1>b, <2>1 DEF InFlightFor, Pair
  <2> QED
    BY <1>a, <2>1, <2>2, <1>c
<1>10. CASE UNCHANGED vars
  BY <1>10, <1>a DEF vars, View, Reactions, InFlightFor, Pair, Knows
<1> QED
  BY <1>1, <1>2, <1>3, <1>4, <1>5, <1>6, <1>7, <1>8, <1>9, <1>10 DEF Next, Step, Quiet

-----------------------------------------------------------------------------
(* The inductive invariant holds in every state the toggles can reach. *)
THEOREM Invariance == Spec => []Inv
<1>1. Init => Inv
  BY NoneAssumption DEF Init, Inv, TypeOK, CallInv, LockInv, EmojiInv, RaceInv,
     ViewInv, InFlightFor, Reactions, InFlight, InTransaction
<1>2. Inv /\ [Next]_vars => Inv'
  BY TypeStep, LockStep, EmojiStep, RaceStep, ViewStep DEF Inv
<1> QED
  BY <1>1, <1>2, PTL DEF Spec

(* Every variable of the toggle keeps its type. *)
THEOREM TypeCorrect == Spec => []TypeOK
<1>1. Inv => TypeOK
  BY DEF Inv
<1> QED
  BY <1>1, Invariance, PTL

(* sendEmojiToConversation writes the documents and the array as one,        *)
(* whatever conflicts with it, fails or crashes.                             *)
THEOREM WritesAreOne == Spec => []RefsMatchDocuments
<1>1. Inv => RefsMatchDocuments
  BY DEF Inv, TypeOK, EmojiInv, RefsMatchDocuments
<1> QED
  BY <1>1, Invariance, PTL

(* A user gets a second reaction to a message only by toggles that overlap:  *)
(* sendEmojiToConversation never adds to one that was there when it began.   *)
THEOREM SecondReactionIsARace == Spec => []TwoReactionsOnlyByRace
<1>1. Inv => TwoReactionsOnlyByRace
  <2> SUFFICES ASSUME Inv, NEW m \in live, NEW d \in refs[m], NEW e \in refs[m],
                      d # e, by[d] = by[e], d \in known[e]
               PROVE  FALSE
    BY DEF TwoReactionsOnlyByRace
  <2>1. /\ d \in emojis /\ e \in emojis /\ on[d] = m /\ on[e] = m
        /\ e \in Calls
    BY DEF Inv, TypeOK, EmojiInv
  <2> QED
    BY <2>1 DEF Inv, RaceInv
<1> QED
  BY <1>1, Invariance, PTL

(* When a user's toggles of a message neither overlapped nor failed and none *)
(* is in flight, the room shows what the service has stored.                 *)
THEOREM SettledViewMatches == Spec => []SettledViewIsStored
<1>1. ASSUME Inv PROVE SettledViewIsStored
  <2> SUFFICES ASSUME NEW u \in Users, NEW m \in live, <<u, m>> \notin tangled,
                      ~\E k \in Calls : pc[k] \in InFlight /\ Pair(k) = <<u, m>>
               PROVE  shown[<<u, m>>] = (Reactions(u, m) # {})
    BY DEF SettledViewIsStored
  <2>1. InFlightFor(u, m) = {}
    BY DEF InFlightFor
  <2>2. shown[<<u, m>>] <=> Reactions(u, m) # {}
    BY <1>1, <2>1 DEF Inv, ViewInv
  <2>3. shown[<<u, m>>] \in BOOLEAN
    BY <1>1 DEF Inv, TypeOK
  <2> QED
    BY <2>2, <2>3
<1> QED
  BY <1>1, Invariance, PTL

-----------------------------------------------------------------------------
(* The refinement of ReactionLog. *)

Undecided == {k \in Calls : pc[k] \in InTransaction}

Shown == [m \in Messages |-> IF m \in live THEN refs[m] ELSE {}]

LEMMA Unmoved ==
  ASSUME UNCHANGED <<by, on, known, live, refs>>, Undecided' = Undecided
  PROVE  UNCHANGED Log!logVars
BY DEF Undecided, Log!logVars

(* A call that leaves its transaction with nothing written has missed.       *)
LEMMA Missed ==
  ASSUME TypeOK, NEW k \in Calls, pc[k] \in InTransaction, NEW s, s \notin InTransaction,
         pc' = [pc EXCEPT ![k] = s], UNCHANGED <<by, on, known, live, refs>>
  PROVE  Log!Miss(k)
<1>1. k \in Undecided /\ Undecided' = Undecided \ {k}
  BY DEF Undecided, TypeOK
<1> QED
  BY <1>1 DEF Undecided, Log!Miss, Log!Close

(* A commit adds the call's own reaction, takes one of its user's back, or    *)
(* finds the message deleted or the reaction taken back already.             *)
LEMMA Committed ==
  ASSUME Inv, NEW k \in Calls, Goto(k, "commit", "emit"), Apply(k),
         UNCHANGED <<by, on, found, known>>
  PROVE  Log!Add(k) \/ Log!TakeBack(k) \/ Log!Miss(k)
<1> USE NoneAssumption DEF Inv, Goto, InTransaction
<1>1. pc[k] = "commit" /\ pc' = [pc EXCEPT ![k] = "emit"] /\ live' = live
  BY DEF Apply
<1>2. k \in Undecided /\ Undecided' = Undecided \ {k}
  BY <1>1 DEF Undecided, TypeOK
<1>3. Log!Close(k)
  BY <1>1, <1>2 DEF Log!Close, Undecided
<1>4. on[k] \in Messages /\ by[k] \in Users
  BY <1>1 DEF CallInv
<1>5. CASE msgLock[on[k]] # k
  <2>1. refs' = refs
    BY <1>5 DEF Apply
  <2> QED
    BY <1>1, <2>1, Missed DEF TypeOK
<1>6. CASE msgLock[on[k]] = k
  <2>1. on[k] \in live /\ refs[on[k]] = {e \in emojis : on[e] = on[k]}
    BY <1>4, <1>6 DEF LockInv, EmojiInv
  <2>2. refs' = [refs EXCEPT ![on[k]] = IF found[k] = None THEN @ \union {k} ELSE @ \ {found[k]}]
    BY <1>6 DEF Apply
  <2>3. Shown[on[k]] = refs[on[k]]
    BY <1>4, <2>1 DEF Shown
  <2>4. CASE found[k] = None
    <3>1. known[k] \intersect emojis = {}
      BY <1>1, <2>1, <2>4 DEF RaceInv
    <3>2. known[k] \intersect Shown[on[k]] = {}
      BY <2>1, <2>3, <3>1
    <3>3. Shown' = [Shown EXCEPT ![on[k]] = @ \union {k}]
      <4>1. refs' = [refs EXCEPT ![on[k]] = refs[on[k]] \union {k}]
        BY <2>2, <2>4
      <4>2. \A m \in Messages : (IF m \in live THEN refs'[m] ELSE {})
                = IF m = on[k] THEN Shown[on[k]] \union {k} ELSE Shown[m]
        BY <1>4, <2>1, <2>3, <4>1 DEF Shown, TypeOK
      <4> QED
        BY <1>1, <1>4, <4>2 DEF Shown
    <3> QED
      BY <1>3, <2>1, <3>2, <3>3 DEF Log!Add, Shown
  <2>5. CASE found[k] # None /\ found[k] \in refs[on[k]]
    <3>1. by[found[k]] = by[k]
      BY <2>5 DEF EmojiInv
    <3>2. found[k] \in Log!Own(by[k], on[k])
      BY <2>3, <2>5, <3>1 DEF Log!Own, Shown
    <3>3. Shown' = [Shown EXCEPT ![on[k]] = @ \ {found[k]}]
      <4>1. refs' = [refs EXCEPT ![on[k]] = refs[on[k]] \ {found[k]}]
        BY <2>2, <2>5
      <4>2. \A m \in Messages : (IF m \in live THEN refs'[m] ELSE {})
                = IF m = on[k] THEN Shown[on[k]] \ {found[k]} ELSE Shown[m]
        BY <1>4, <2>1, <2>3, <4>1 DEF Shown, TypeOK
      <4> QED
        BY <1>1, <1>4, <4>2 DEF Shown
    <3> QED
      BY <1>3, <3>2, <3>3 DEF Log!TakeBack, Shown
  <2>6. CASE found[k] # None /\ found[k] \notin refs[on[k]]
    <3>1. refs' = refs
      BY <1>4, <2>2, <2>6 DEF TypeOK
    <3> QED
      BY <1>1, <3>1, Missed
  <2> QED
    BY <2>4, <2>5, <2>6
<1> QED
  BY <1>5, <1>6

LEMMA LogStep ==
  ASSUME Inv, [Next]_vars
  PROVE  Log!Next \/ UNCHANGED Log!logVars
<1> USE NoneAssumption DEF Goto, InTransaction, InFlight
<1>0. TypeOK /\ CallInv
  BY DEF Inv
<1>1. ASSUME NEW k \in Calls, NEW u \in Users, NEW m \in Messages, SendEmoji(k, u, m)
      PROVE  Log!Make(k, u, m)
  <2>1. by[k] = None
    BY <1>0, <1>1 DEF SendEmoji, CallInv
  <2>2. Undecided' = Undecided \union {k}
    BY <1>0, <1>1 DEF SendEmoji, Undecided, TypeOK
  <2>3. Reactions(u, m) = Log!Own(u, m)
    <3>1. m \in live => Reactions(u, m) = {e \in refs[m] : by[e] = u}
      BY DEF Inv, EmojiInv, TypeOK, Reactions
    <3>2. m \notin live => Reactions(u, m) = {}
      BY DEF Reactions
    <3> QED
      BY <3>1, <3>2 DEF Log!Own
  <2> QED
    BY <1>1, <2>1, <2>2, <2>3 DEF SendEmoji, dataVars, Log!Make, Undecided
<1>2. ASSUME NEW k \in Calls, FindEmoji(k) \/ WriteEmoji(k) \/ WriteMessage(k) \/ Emit(k)
      PROVE  UNCHANGED Log!logVars
  <2>1. UNCHANGED <<by, on, known, live, refs>>
    BY <1>2 DEF FindEmoji, WriteEmoji, WriteMessage, Emit, dataVars
  <2>2. Undecided' = Undecided
    BY <1>0, <1>2 DEF FindEmoji, WriteEmoji, WriteMessage, Emit, Undecided, TypeOK
  <2> QED
    BY <2>1, <2>2, Unmoved
<1>3. ASSUME NEW k \in Calls, Commit(k) \/ CommitUnanswered(k)
      PROVE  Log!Add(k) \/ Log!TakeBack(k) \/ Log!Miss(k)
  BY <1>3, Committed DEF Commit, CommitUnanswered
<1>4. ASSUME NEW k \in Calls, Abort(k)
      PROVE  Log!Miss(k)
  BY <1>0, <1>4, Missed DEF Abort, dataVars
<1>5. ASSUME NEW k \in Calls, Crash(k)
      PROVE  Log!Miss(k) \/ UNCHANGED Log!logVars
  <2>1. /\ pc' = [pc EXCEPT ![k] = "crashed"]
        /\ UNCHANGED <<by, on, known, live, refs>>
    BY <1>5 DEF Crash, dataVars
  <2>2. CASE pc[k] \in InTransaction
    BY <1>0, <2>1, <2>2, Missed
  <2>3. CASE pc[k] = "emit"
    <3>1. Undecided' = Undecided
      BY <1>0, <2>1, <2>3 DEF Undecided, TypeOK
    <3> QED
      BY <2>1, <3>1, Unmoved
  <2> QED
    BY <1>5, <2>2, <2>3 DEF Crash
<1>6. ASSUME NEW m \in Messages, DeleteMessage(m)
      PROVE  Log!Delete(m)
  <2>1. Shown' = [Shown EXCEPT ![m] = {}]
    BY <1>0, <1>6 DEF DeleteMessage, Shown, TypeOK
  <2> QED
    BY <1>6, <2>1 DEF DeleteMessage, Log!Delete, Shown
<1>7. CASE UNCHANGED vars
  BY <1>7, Unmoved DEF vars, Undecided
<1> QED
  BY <1>1, <1>2, <1>3, <1>4, <1>5, <1>6, <1>7 DEF Next, Step, Quiet, Log!Next

(* sendEmojiToConversation is, for those who read reactions, one step that   *)
(* happens once or never, whatever runs, fails or crashes beside it.         *)
THEOREM ImplementsLog == Spec => ReactionSpec
<1>1. Init => Log!Init
  BY DEF Init, Log!Init, InTransaction
<1>2. Inv /\ [Next]_vars => [Log!Next]_(Log!logVars)
  BY LogStep
<1> QED
  BY <1>1, <1>2, Invariance, PTL DEF Spec, ReactionSpec, Log!Spec
====

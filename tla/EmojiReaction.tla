---- MODULE EmojiReaction ----
(***************************************************************************)
(* sendEmojiToConversation of services/chat.service.ts inside              *)
(* TransactionDomain.startTransaction: a toggle of one user's reaction to  *)
(* a message, and the broadcast that tells the room of the outcome.        *)
(*                                                                         *)
(* The lookup runs outside the session and reads what is committed.  The   *)
(* two writes run in a MongoDB transaction whose snapshot is taken by the  *)
(* first one; a write to a document that another transaction is writing,   *)
(* or that changed since the snapshot, is refused (WriteConflict).         *)
(* Meanwhile messages are deleted by deleteMessage of ChatService.         *)
(*                                                                         *)
(* A call creates at most one emoji document, which is named by the call.  *)
(***************************************************************************)
CONSTANTS
  Calls,      \* the calls that may be made; also names emoji documents
  Users,
  Messages,
  None        \* no call, no document

ASSUME NoneAssumption == None \notin Calls \union Messages

VARIABLES
  pc,         \* call -> the operation it awaits
  by,         \* call -> the user who reacts
  on,         \* call -> the message reacted to
  found,      \* call -> the emoji the lookup returned, None if it was empty
  isNew,      \* call -> the variable isNewEmoji, then the value returned
  live,       \* collection messages: the documents it holds
  refs,       \* collection messages: the array emojis
  emojis,     \* collection emojis: the documents it holds
  emojiLock,  \* emoji -> the open transaction that deletes it
  msgLock,    \* message -> the open transaction that updates it
  stale,      \* call -> the messages changed since its snapshot
  shown,      \* <<user, message>> -> does the room show a reaction
  known,      \* history: the user's reactions when the call was made
  tangled     \* history: the <<user, message>> whose toggles overlapped or failed

dataVars == <<live, refs, emojis>>
txnVars == <<emojiLock, msgLock, stale>>
vars == <<pc, by, on, found, isNew, live, refs, emojis, emojiLock, msgLock, stale,
          shown, known, tangled>>

InTransaction == {"findEmoji", "writeEmoji", "writeMessage", "commit"}
InFlight == InTransaction \union {"emit"}

Pair(k) == <<by[k], on[k]>>

Init ==
  /\ pc = [k \in Calls |-> "idle"]
  /\ by = [k \in Calls |-> None]
  /\ on = [k \in Calls |-> None]
  /\ found = [k \in Calls |-> None]
  /\ isNew = [k \in Calls |-> FALSE]
  /\ live = Messages
  /\ refs = [m \in Messages |-> {}]
  /\ emojis = {}
  /\ emojiLock = [e \in Calls |-> None]
  /\ msgLock = [m \in Messages |-> None]
  /\ stale = [k \in Calls |-> {}]
  /\ shown = [p \in Users \X Messages |-> FALSE]
  /\ known = [k \in Calls |-> {}]
  /\ tangled = {}

-----------------------------------------------------------------------------
Goto(k, from, to) == pc[k] = from /\ pc' = [pc EXCEPT ![k] = to]

(* The user's emojis that a stored message m refers to.                      *)
Reactions(u, m) ==
  {e \in emojis : by[e] = u /\ m \in live /\ e \in refs[m]}

(* A client toggles a reaction on a message it was shown, deleted or not.    *)
SendEmoji(k, u, m) ==
  /\ Goto(k, "idle", "findEmoji")
  /\ by' = [by EXCEPT ![k] = u]
  /\ on' = [on EXCEPT ![k] = m]
  /\ known' = [known EXCEPT ![k] = Reactions(u, m)]
  /\ tangled' = IF \E l \in Calls : pc[l] \in InFlight /\ Pair(l) = <<u, m>>
                THEN tangled \union {<<u, m>>} ELSE tangled
  /\ UNCHANGED <<found, isNew, dataVars, txnVars, shown>>

(* Two variants: the lookup compares the wrong ids and returns nothing; and  *)
(* it leaves out the user.                                                   *)
FindNothing(k) ==
  /\ Goto(k, "findEmoji", "writeEmoji")
  /\ isNew' = [isNew EXCEPT ![k] = TRUE]
  /\ UNCHANGED <<by, on, found, dataVars, txnVars, shown, known, tangled>>

FindAnybody(k) ==
  /\ Goto(k, "findEmoji", "writeEmoji")
  /\ LET R == UNION {Reactions(u, on[k]) : u \in Users}
     IN  /\ isNew' = [isNew EXCEPT ![k] = R = {}]
         /\ \/ R = {} /\ found' = [found EXCEPT ![k] = None]
            \/ \E e \in R : found' = [found EXCEPT ![k] = e]
  /\ UNCHANGED <<by, on, dataVars, txnVars, shown, known, tangled>>

(* The aggregate; of an array that is not empty the first element is used.   *)
FindEmoji(k) ==
  /\ Goto(k, "findEmoji", "writeEmoji")
  /\ LET R == Reactions(by[k], on[k])
     IN  /\ isNew' = [isNew EXCEPT ![k] = R = {}]
         /\ \/ R = {} /\ found' = [found EXCEPT ![k] = None]
            \/ \E e \in R : found' = [found EXCEPT ![k] = e]
  /\ UNCHANGED <<by, on, dataVars, txnVars, shown, known, tangled>>

(* A variant: the emoji is written without the session.                      *)
WriteEmojiOutside(k) ==
  /\ Goto(k, "writeEmoji", "writeMessage")
  /\ stale' = [stale EXCEPT ![k] = {}]
  /\ emojis' = IF found[k] = None THEN emojis \union {k} ELSE emojis \ {found[k]}
  /\ UNCHANGED <<by, on, found, isNew, live, refs, emojiLock, msgLock, shown, known, tangled>>

(* The first write takes the snapshot.  Creating conflicts with nobody;      *)
(* deleting what is gone from the snapshot does nothing.                     *)
WriteEmoji(k) ==
  /\ Goto(k, "writeEmoji", "writeMessage")
  /\ stale' = [stale EXCEPT ![k] = {}]
  /\ \/ /\ found[k] \notin emojis
        /\ UNCHANGED emojiLock
     \/ /\ found[k] \in emojis /\ emojiLock[found[k]] = None
        /\ emojiLock' = [emojiLock EXCEPT ![found[k]] = k]
  /\ UNCHANGED <<by, on, found, isNew, dataVars, msgLock, shown, known, tangled>>

(* updateOne: locks the message, or matches nothing when it was deleted      *)
(* before the snapshot.                                                      *)
WriteMessage(k) ==
  /\ Goto(k, "writeMessage", "commit")
  /\ on[k] \notin stale[k]
  /\ \/ /\ on[k] \notin live
        /\ UNCHANGED msgLock
     \/ /\ on[k] \in live /\ msgLock[on[k]] = None
        /\ msgLock' = [msgLock EXCEPT ![on[k]] = k]
  /\ UNCHANGED <<by, on, found, isNew, dataVars, emojiLock, stale, shown, known, tangled>>

Release(k) ==
  /\ emojiLock' = [e \in Calls |-> IF emojiLock[e] = k THEN None ELSE emojiLock[e]]
  /\ msgLock' = [m \in Messages |-> IF msgLock[m] = k THEN None ELSE msgLock[m]]

Changed(m) ==
  stale' = [l \in Calls |-> IF pc[l] = "writeMessage" THEN stale[l] \union {m} ELSE stale[l]]

(* Both writes become visible at once: the emoji is created or deleted, and  *)
(* the array of the message, when it matched, gains or loses it.             *)
Apply(k) ==
  /\ emojis' = IF found[k] = None THEN emojis \union {k} ELSE emojis \ {found[k]}
  /\ IF msgLock[on[k]] = k
     THEN /\ refs' = [refs EXCEPT ![on[k]] =
                        IF found[k] = None THEN @ \union {k} ELSE @ \ {found[k]}]
          /\ Changed(on[k])
     ELSE UNCHANGED <<refs, stale>>
  /\ Release(k)
  /\ UNCHANGED live

Commit(k) ==
  /\ Goto(k, "commit", "emit")
  /\ Apply(k)
  /\ UNCHANGED <<by, on, found, isNew, shown, known, tangled>>

(* Errors of the lookup, of a write (a conflict among them) or of the commit *)
(* abort the transaction and make the method return false; a commit may have *)
(* been applied although its answer was lost.                                *)
Failing(k) ==
  /\ isNew' = [isNew EXCEPT ![k] = FALSE]
  /\ tangled' = tangled \union {Pair(k)}

(* A variant: the transaction is left open.                                  *)
LeaveOpen(k) ==
  /\ pc[k] \in InTransaction
  /\ pc' = [pc EXCEPT ![k] = "emit"]
  /\ Failing(k)
  /\ UNCHANGED <<by, on, found, dataVars, txnVars, shown, known>>

Abort(k) ==
  /\ pc[k] \in InTransaction
  /\ pc' = [pc EXCEPT ![k] = "emit"]
  /\ Failing(k)
  /\ Release(k)
  /\ UNCHANGED <<by, on, found, dataVars, stale, shown, known>>

CommitUnanswered(k) ==
  /\ Goto(k, "commit", "emit")
  /\ Apply(k)
  /\ Failing(k)
  /\ UNCHANGED <<by, on, found, shown, known>>

(* A variant: the emoji that was found is broadcast, not the one stored now. *)
EmitFound(k) ==
  /\ Goto(k, "emit", "done")
  /\ shown' = [shown EXCEPT ![Pair(k)] = found[k] # None]
  /\ UNCHANGED <<by, on, found, isNew, dataVars, txnVars, known, tangled>>

(* The handler broadcasts the emoji, or an empty content for false.          *)
Emit(k) ==
  /\ Goto(k, "emit", "done")
  /\ shown' = [shown EXCEPT ![Pair(k)] = isNew[k]]
  /\ UNCHANGED <<by, on, found, isNew, dataVars, txnVars, known, tangled>>

(* The process stops: the server drops its transaction, nothing is sent.     *)
Crash(k) ==
  /\ pc[k] \in InFlight
  /\ pc' = [pc EXCEPT ![k] = "crashed"]
  /\ tangled' = tangled \union {Pair(k)}
  /\ Release(k)
  /\ UNCHANGED <<by, on, found, isNew, dataVars, stale, shown, known>>

(* deleteOne of deleteMessage: outside transactions, waits for the lock.     *)
DeleteMessage(m) ==
  /\ m \in live /\ msgLock[m] = None
  /\ live' = live \ {m}
  /\ refs' = [refs EXCEPT ![m] = {}]
  /\ Changed(m)
  /\ UNCHANGED <<pc, by, on, found, isNew, emojis, emojiLock, msgLock, shown, known, tangled>>

-----------------------------------------------------------------------------
Step(k) == FindEmoji(k) \/ WriteEmoji(k) \/ WriteMessage(k) \/ Commit(k)
           \/ Abort(k) \/ CommitUnanswered(k) \/ Emit(k)

Quiet == (\A k \in Calls : pc[k] \in {"done", "crashed"}) /\ UNCHANGED vars

Next ==
  \/ \E k \in Calls :
       \/ \E u \in Users, m \in Messages : SendEmoji(k, u, m)
       \/ Step(k) \/ Crash(k)
  \/ \E m \in Messages : DeleteMessage(m)
  \/ Quiet

Spec == Init /\ [][Next]_vars

(* Every operation of a transaction is answered, with a result or an error.  *)
FairSpec == Spec /\ \A k \in Calls : WF_vars(Step(k))

-----------------------------------------------------------------------------
(* The type invariant. *)
TypeOK ==
  /\ pc \in [Calls -> InFlight \union {"idle", "done", "crashed"}]
  /\ by \in [Calls -> Users \union {None}]
  /\ on \in [Calls -> Messages \union {None}]
  /\ found \in [Calls -> Calls \union {None}]
  /\ isNew \in [Calls -> BOOLEAN]
  /\ live \in SUBSET Messages
  /\ refs \in [Messages -> SUBSET Calls]
  /\ emojis \in SUBSET Calls
  /\ emojiLock \in [Calls -> Calls \union {None}]
  /\ msgLock \in [Messages -> Calls \union {None}]
  /\ stale \in [Calls -> SUBSET Messages]
  /\ shown \in [Users \X Messages -> BOOLEAN]
  /\ known \in [Calls -> SUBSET Calls]
  /\ tangled \in SUBSET (Users \X Messages)

(* The two writes are one: the array of a stored message holds exactly the   *)
(* documents of the reactions to it, whatever failed, crashed or conflicted. *)
RefsMatchDocuments ==
  \A m \in live : refs[m] = {e \in emojis : on[e] = m}

(* The lookup is not part of the transaction, so a user can have two         *)
(* reactions to a message; but only when neither call began after the other  *)
(* one's reaction was there.                                                 *)
TwoReactionsOnlyByRace ==
  \A m \in live : \A d, e \in refs[m] : d # e /\ by[d] = by[e] => d \notin known[e]

(* When a user's toggles of a message came one after the other and none      *)
(* failed, the room ends up showing what is stored, whatever other users did *)
(* meanwhile.                                                                *)
SettledViewIsStored ==
  \A u \in Users, m \in live :
    \/ <<u, m>> \in tangled
    \/ \E k \in Calls : pc[k] \in InFlight /\ Pair(k) = <<u, m>>
    \/ shown[<<u, m>>] = (Reactions(u, m) # {})

(* Each toggle takes effect once or never, in one step that readers see      *)
(* whole: the lookup before the transaction, its two writes, conflicts,      *)
(* failures and crashes make a step of ReactionLog or none.                  *)
Log == INSTANCE ReactionLog WITH
  Toggles <- Calls, user <- by, message <- on, before <- known,
  open <- {k \in Calls : pc[k] \in InTransaction},
  reactions <- [m \in Messages |-> IF m \in live THEN refs[m] ELSE {}]

ReactionSpec == Log!Spec

(* A transaction ends: a message it has written is free again.               *)
LocksAreReleased == \A m \in Messages : msgLock[m] # None ~> msgLock[m] = None

-----------------------------------------------------------------------------
(* The inductive invariant behind the safety properties.                     *)

Answered == {"emit", "done", "crashed"}

CallInv ==
  \A k \in Calls :
    /\ pc[k] # "idle" => by[k] \in Users /\ on[k] \in Messages
    /\ pc[k] = "idle" => by[k] = None
    /\ pc[k] \in {"idle", "findEmoji"} => found[k] = None

(* An open transaction holds what it has written, and only that.             *)
LockInv ==
  /\ \A m \in Messages : msgLock[m] # None =>
       m \in live /\ pc[msgLock[m]] = "commit" /\ on[msgLock[m]] = m
  /\ \A e \in Calls : emojiLock[e] # None => pc[emojiLock[e]] \in {"writeMessage", "commit"}
  /\ \A k \in Calls : pc[k] = "commit" => msgLock[on[k]] = k \/ on[k] \notin live

(* An emoji is created once, when its call commits, and refers to a user and *)
(* a message; a call finds only emojis of its own user and message.          *)
EmojiInv ==
  /\ \A e \in emojis : pc[e] \in Answered /\ found[e] = None
  /\ \A m \in Messages : refs[m] = {e \in emojis : on[e] = m} \/ m \notin live
  /\ \A k \in Calls : found[k] # None =>
       /\ pc[found[k]] \in Answered
       /\ by[found[k]] = by[k] /\ on[found[k]] = on[k]

(* A call that creates had found nothing of what there was when it was made. *)
RaceInv ==
  /\ \A k \in Calls : \A e \in known[k] :
       pc[e] \in Answered /\ by[e] = by[k] /\ on[e] = on[k]
  /\ \A k \in Calls :
       (pc[k] \in {"writeEmoji", "writeMessage", "commit"} /\ found[k] = None) \/ k \in emojis =>
         on[k] \notin live \/ known[k] \intersect emojis = {}

(* Of a user and a message whose toggles neither overlapped nor failed, at    *)
(* most one call is in flight, which knows what is stored; what it is about  *)
(* to broadcast, or what the room shows, follows from that.                  *)
InFlightFor(u, m) == {k \in Calls : pc[k] \in InFlight /\ Pair(k) = <<u, m>>}

Knows(k, R) ==
  /\ pc[k] \in {"writeEmoji", "writeMessage", "commit"} =>
       /\ isNew[k] <=> found[k] = None
       /\ R = IF found[k] = None THEN {} ELSE {found[k]}
  /\ pc[k] = "emit" => (isNew[k] <=> R # {})

ViewInv ==
  \A u \in Users, m \in live : <<u, m>> \notin tangled =>
    /\ \A d, e \in Reactions(u, m) : d = e
    /\ \A k, l \in InFlightFor(u, m) : k = l
    /\ \A k \in InFlightFor(u, m) : Knows(k, Reactions(u, m))
    /\ InFlightFor(u, m) = {} => (shown[<<u, m>>] <=> Reactions(u, m) # {})

Inv == TypeOK /\ CallInv /\ LockInv /\ EmojiInv /\ RaceInv /\ ViewInv
====

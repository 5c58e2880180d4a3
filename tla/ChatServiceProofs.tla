---- MODULE ChatServiceProofs ----
(* Proofs about ChatService for any number of calls and users. *)
EXTENDS ChatService, TLAPS

(* The type invariant is preserved by a client's call, whatever it asks. *)
LEMMA RequestType ==
  ASSUME TypeOK, NEW k \in Calls, Request(k)
  PROVE  TypeOK'
<1> USE CallsAssumption, AccountsAssumption
<1>1. ASSUME NEW o \in Ops, NEW u \in Accounts, NEW c \in Calls \union {None},
             NEW m \in Calls \union {None}, NEW first \in InFlight,
             first \in DeleteSteps => m \in Calls,
             first \in ReadSteps => c \in Calls,
             Accept(k, o, u, c, m, first),
             before' \in [Calls -> SUBSET Calls], wanted' \in [Calls -> SUBSET Users]
      PROVE  TypeOK'
  BY <1>1 DEF TypeOK, Accept, dbVars, outVars
<1>2. ASSUME NEW o \in Ops, NEW m \in Calls \union {None}, NEW first \in InFlight,
             first \in DeleteSteps => m \in Calls,
             AcceptIn(k, o, m, first)
      PROVE  TypeOK'
  <2>1. PICK c \in Conversations, u \in Accounts :
           /\ Accept(k, o, u, c, m, first)
           /\ before' = [before EXCEPT ![k] = Visible(c)]
           /\ UNCHANGED wanted
    BY <1>2 DEF AcceptIn
  <2>2. c \in Calls /\ Visible(c) \in SUBSET Calls
    BY DEF Conversations, TypeOK, Visible
  <2> QED
    BY <1>1, <1>2, <2>1, <2>2 DEF TypeOK
<1>3. CASE CreateNewConversation(k)
  <2>1. PICK u \in Accounts, W \in SUBSET Users :
           /\ Accept(k, "create", u, None, None, "findConversation")
           /\ wanted' = [wanted EXCEPT ![k] = W \union {u}]
           /\ before' = [before EXCEPT ![k] = Conversations]
    BY <1>3 DEF CreateNewConversation
  <2>2. before' \in [Calls -> SUBSET Calls]
    BY <2>1 DEF TypeOK, Conversations
  <2>3. wanted' \in [Calls -> SUBSET Users]
    BY <2>1 DEF TypeOK
  <2>4. /\ "create" \in Ops
        /\ "findConversation" \in InFlight \ (DeleteSteps \union ReadSteps)
    BY DEF Ops, Sends, InFlight, OpenSteps, DeleteSteps, ReadSteps
  <2> QED
    BY <1>1, <2>1, <2>2, <2>3, <2>4
<1> QED
  BY <1>2, <1>3 DEF Request, SendMessage, UploadImage, StartMeeting, EndMeeting,
     GetConversation, ReplyTo, Delete, Ops, Sends, Meetings, InFlight, SendSteps,
     DeleteSteps, ReadSteps

(* The type invariant is preserved by every awaited operation and failure. *)
LEMMA StepType ==
  ASSUME TypeOK, NEW k \in Calls, Step(k) \/ Fail(k)
  PROVE  TypeOK'
<1> USE DEF Goto, callVars, dbVars, outVars, InFlight, SendSteps, OpenSteps,
            DeleteSteps, ReadSteps, Ended
<1>1. CASE CheckReply(k) \/ UploadFile(k) \/ GetCall(k) \/ Fail(k)
  BY <1>1 DEF TypeOK, CheckReply, UploadFile, GetCall, Fail
<1>2. CASE CreateMessage(k)
  BY <1>2 DEF TypeOK, CreateMessage
<1>3. CASE PushMessage(k)
  BY <1>3 DEF TypeOK, PushMessage
<1>4. CASE Produce(k)
  BY <1>4 DEF TypeOK, Produce
<1>5. CASE Emit(k) \/ EmitNew(k)
  BY <1>5 DEF TypeOK, Emit, EmitNew
<1>6. CASE FindConversation(k)
  BY <1>6 DEF TypeOK, FindConversation, FindByParticipants, Conversations
<1>7. CASE OpenConversation(k)
  BY <1>7 DEF TypeOK, OpenConversation
<1>8. CASE FindMessage(k)
  BY <1>8 DEF TypeOK, FindMessage
<1>9. CASE DeleteOne(k)
  BY <1>9 DEF TypeOK, DeleteOne
<1>10. CASE PullMessage(k)
  BY <1>10 DEF TypeOK, PullMessage
<1>11. CASE EmitDelete(k)
  BY <1>11 DEF TypeOK, EmitDelete
<1>12. CASE ReadIds(k)
  BY <1>12 DEF TypeOK, ReadIds
<1>13. CASE Populate(k)
  BY <1>13 DEF TypeOK, Populate
<1> QED
  BY <1>1, <1>2, <1>3, <1>4, <1>5, <1>6, <1>7, <1>8, <1>9, <1>10, <1>11, <1>12,
     <1>13 DEF Step

(* The variables keep their types in every behaviour of the service. *)
THEOREM TypeCorrect == Spec => []TypeOK
<1>1. Init => TypeOK
  BY DEF Init, TypeOK, DeleteSteps, ReadSteps
<1>2. TypeOK /\ [Next]_vars => TypeOK'
  <2> SUFFICES ASSUME TypeOK, [Next]_vars PROVE TypeOK'
    OBVIOUS
  <2>1. CASE UNCHANGED vars
    BY <2>1 DEF TypeOK, vars
  <2> QED
    BY <2>1, RequestType, StepType DEF Next, Quiet
<1> QED
  BY <1>1, <1>2, PTL DEF Spec

-----------------------------------------------------------------------------
(* The inductive invariant: each of its parts after a client's call, and     *)
(* after an awaited operation or a failure.                                  *)

(* What AcceptIn leaves: a new call on an existing conversation, with a      *)
(* message of that conversation when it names one.                           *)
LEMMA RequestInv ==
  ASSUME Inv, NEW k \in Calls, Request(k)
  PROVE  StepInv' /\ MessageInv' /\ DeleteInv' /\ ReadInv' /\ ConversationInv'
<1> USE CallsAssumption
<1> USE DEF dbVars, outVars, SendSteps, OpenSteps, DeleteSteps, ReadSteps, Ops,
            Sends, Meetings, BeforeWrite, Conversations
<1>1. ASSUME NEW o \in Ops \ {"create"}, NEW m \in Calls \union {None},
             NEW first \in InFlight, AcceptIn(k, o, m, first),
             \/ o \in Sends /\ first \in SendSteps \intersect BeforeWrite
             \/ o = "delete" /\ first = "findMessage" /\ m \in posted
             \/ o = "get" /\ first = "readIds"
      PROVE  StepInv' /\ MessageInv' /\ DeleteInv' /\ ReadInv' /\ ConversationInv'
  <2>1. PICK c \in Conversations, u \in Accounts :
           /\ m \in {None} \union {p \in posted : conv[p] = c}
           /\ Accept(k, o, u, c, m, first)
           /\ before' = [before EXCEPT ![k] = Visible(c)]
           /\ UNCHANGED wanted
    BY <1>1 DEF AcceptIn
  <2>2. StepInv'
    BY <1>1, <2>1 DEF Inv, TypeOK, Accept, StepInv
  <2>3. MessageInv'
    BY <1>1, <2>1 DEF Inv, TypeOK, Accept, MessageInv
  <2>4. DeleteInv'
    BY <1>1, <2>1 DEF Inv, TypeOK, Accept, StepInv, MessageInv, DeleteInv, Dangling, Listed
  <2>5. ReadInv'
    BY <1>1, <2>1 DEF Inv, TypeOK, Accept, MessageInv, ReadInv, Visible
  <2>6. ConversationInv'
    BY <1>1, <2>1 DEF Inv, TypeOK, Accept, StepInv, ConversationInv
  <2> QED
    BY <2>2, <2>3, <2>4, <2>5, <2>6
<1>2. CASE CreateNewConversation(k)
  <2>1. PICK u \in Accounts, W \in SUBSET Users :
           /\ Accept(k, "create", u, None, None, "findConversation")
           /\ wanted' = [wanted EXCEPT ![k] = W \union {u}]
           /\ before' = [before EXCEPT ![k] = Conversations]
    BY <1>2 DEF CreateNewConversation
  <2>2. StepInv'
    BY <2>1 DEF Inv, TypeOK, Accept, StepInv
  <2>3. MessageInv'
    BY <2>1 DEF Inv, TypeOK, Accept, MessageInv
  <2>4. DeleteInv'
    BY <2>1 DEF Inv, TypeOK, Accept, StepInv, MessageInv, DeleteInv, Dangling, Listed
  <2>5. ReadInv'
    BY <2>1 DEF Inv, TypeOK, Accept, MessageInv, ReadInv
  <2>6. ConversationInv'
    BY <2>1 DEF Inv, TypeOK, Accept, StepInv, ConversationInv
  <2> QED
    BY <2>2, <2>3, <2>4, <2>5, <2>6
<1> QED
  BY <1>1, <1>2 DEF Request, SendMessage, UploadImage, StartMeeting, EndMeeting,
     GetConversation, ReplyTo, Delete, InFlight

(* A call awaits operations of its method only, on an existing conversation. *)
LEMMA StepInvStep ==
  ASSUME Inv, NEW k \in Calls, Step(k) \/ Fail(k)
  PROVE  StepInv'
<1> USE CallsAssumption
<1> USE DEF Goto, callVars, dbVars, outVars, InFlight, SendSteps, OpenSteps,
            DeleteSteps, ReadSteps, Sends, Meetings, BeforeWrite,
            Inv, TypeOK, StepInv, ConversationInv, Conversations
<1>1. CASE CheckReply(k)
  BY <1>1 DEF CheckReply
<1>2. CASE UploadFile(k)
  BY <1>2 DEF UploadFile
<1>3. CASE GetCall(k)
  BY <1>3 DEF GetCall
<1>4. CASE CreateMessage(k)
  BY <1>4 DEF CreateMessage
<1>5. CASE PushMessage(k)
  BY <1>5 DEF PushMessage
<1>6. CASE Produce(k)
  BY <1>6 DEF Produce
<1>7. CASE Emit(k)
  BY <1>7 DEF Emit
<1>8. CASE FindConversation(k)
  BY <1>8 DEF FindConversation, FindByParticipants
<1>9. CASE OpenConversation(k)
  BY <1>9 DEF OpenConversation
<1>10. CASE EmitNew(k)
  BY <1>10 DEF EmitNew
<1>11. CASE FindMessage(k)
  BY <1>11 DEF FindMessage
<1>12. CASE DeleteOne(k)
  BY <1>12 DEF DeleteOne
<1>13. CASE PullMessage(k)
  BY <1>13 DEF PullMessage
<1>14. CASE EmitDelete(k)
  BY <1>14 DEF EmitDelete
<1>15. CASE ReadIds(k)
  BY <1>15 DEF ReadIds
<1>16. CASE Populate(k)
  BY <1>16 DEF Populate
<1>17. CASE Fail(k)
  BY <1>17 DEF Fail
<1> QED
  BY <1>1, <1>2, <1>3, <1>4, <1>5, <1>6, <1>7, <1>8, <1>9,
     <1>10, <1>11, <1>12, <1>13, <1>14, <1>15, <1>16, <1>17 DEF Step

(* A message is written and listed by its own call, in its conversation. *)
LEMMA MessageInvStep ==
  ASSUME Inv, NEW k \in Calls, Step(k) \/ Fail(k)
  PROVE  MessageInv'
<1> USE CallsAssumption
<1> USE DEF Goto, callVars, dbVars, outVars, InFlight, SendSteps, OpenSteps,
            DeleteSteps, ReadSteps, Sends, Meetings, BeforeWrite,
            Inv, TypeOK, StepInv, MessageInv, DeleteInv, ConversationInv, Conversations
<1>1. CASE CheckReply(k)
  BY <1>1 DEF CheckReply
<1>2. CASE UploadFile(k)
  BY <1>2 DEF UploadFile
<1>3. CASE GetCall(k)
  BY <1>3 DEF GetCall
<1>4. CASE CreateMessage(k)
  BY <1>4 DEF CreateMessage
<1>5. CASE PushMessage(k)
  BY <1>5 DEF PushMessage
<1>6. CASE Produce(k)
  BY <1>6 DEF Produce
<1>7. CASE Emit(k)
  BY <1>7 DEF Emit
<1>8. CASE FindConversation(k)
  BY <1>8 DEF FindConversation, FindByParticipants
<1>9. CASE OpenConversation(k)
  BY <1>9 DEF OpenConversation
<1>10. CASE EmitNew(k)
  BY <1>10 DEF EmitNew
<1>11. CASE FindMessage(k)
  BY <1>11 DEF FindMessage
<1>12. CASE DeleteOne(k)
  BY <1>12 DEF DeleteOne
<1>13. CASE PullMessage(k)
  BY <1>13 DEF PullMessage
<1>14. CASE EmitDelete(k)
  BY <1>14 DEF EmitDelete
<1>15. CASE ReadIds(k)
  BY <1>15 DEF ReadIds
<1>16. CASE Populate(k)
  BY <1>16 DEF Populate
<1>17. CASE Fail(k)
  BY <1>17 DEF Fail
<1> QED
  BY <1>1, <1>2, <1>3, <1>4, <1>5, <1>6, <1>7, <1>8, <1>9,
     <1>10, <1>11, <1>12, <1>13, <1>14, <1>15, <1>16, <1>17 DEF Step

(* What a deletion removed stays removed, and what it has not is accounted for. *)
LEMMA DeleteInvStep ==
  ASSUME Inv, NEW k \in Calls, Step(k) \/ Fail(k)
  PROVE  DeleteInv'
<1> USE CallsAssumption
<1> USE DEF Goto, callVars, dbVars, outVars, InFlight, SendSteps, OpenSteps,
            DeleteSteps, ReadSteps, Sends, Meetings, BeforeWrite,
            Inv, TypeOK, StepInv, MessageInv, DeleteInv, Dangling, Listed, ConversationInv
<1>1. CASE CheckReply(k)
  BY <1>1 DEF CheckReply
<1>2. CASE UploadFile(k)
  BY <1>2 DEF UploadFile
<1>3. CASE GetCall(k)
  BY <1>3 DEF GetCall
<1>4. CASE CreateMessage(k)
  BY <1>4 DEF CreateMessage
<1>5. CASE PushMessage(k)
  BY <1>5 DEF PushMessage
<1>6. CASE Produce(k)
  BY <1>6 DEF Produce
<1>7. CASE Emit(k)
  BY <1>7 DEF Emit
<1>8. CASE FindConversation(k)
  BY <1>8, SMTT(30) DEF FindConversation, FindByParticipants
<1>9. CASE OpenConversation(k)
  BY <1>9 DEF OpenConversation
<1>10. CASE EmitNew(k)
  <2>1. ASSUME NEW m \in Calls, Dangling(m)'
        PROVE  \E d \in Calls : /\ op'[d] = "delete" /\ ref'[d] = m
                                /\ pc'[d] \in {"pullMessage", "failed"}
    <3>1. PICK d \in Calls : /\ op[d] = "delete" /\ ref[d] = m
                            /\ pc[d] \in {"pullMessage", "failed"}
      BY <1>10, <2>1 DEF EmitNew
    <3> QED
      BY <1>10, <3>1 DEF EmitNew
  <2> QED
    BY <1>10, <2>1 DEF EmitNew
<1>11. CASE FindMessage(k)
  <2>1. ASSUME NEW m \in Calls, Dangling(m)'
        PROVE  \E d \in Calls : /\ op'[d] = "delete" /\ ref'[d] = m
                                /\ pc'[d] \in {"pullMessage", "failed"}
    <3>1. PICK d \in Calls : /\ op[d] = "delete" /\ ref[d] = m
                            /\ pc[d] \in {"pullMessage", "failed"}
      BY <1>11, <2>1 DEF FindMessage
    <3> QED
      BY <1>11, <3>1 DEF FindMessage
  <2> QED
    BY <1>11, <2>1 DEF FindMessage
<1>12. CASE DeleteOne(k)
  BY <1>12 DEF DeleteOne
<1>13. CASE PullMessage(k)
  <2>1. \A m \in Calls : Dangling(m)' => Dangling(m) /\ m # ref[k]
    BY <1>13 DEF PullMessage
  <2> QED
    BY <1>13, <2>1 DEF PullMessage
<1>14. CASE EmitDelete(k)
  BY <1>14 DEF EmitDelete
<1>15. CASE ReadIds(k)
  BY <1>15 DEF ReadIds
<1>16. CASE Populate(k)
  BY <1>16, SMTT(30) DEF Populate
<1>17. CASE Fail(k)
  BY <1>17 DEF Fail
<1> QED
  BY <1>1, <1>2, <1>3, <1>4, <1>5, <1>6, <1>7, <1>8, <1>9,
     <1>10, <1>11, <1>12, <1>13, <1>14, <1>15, <1>16, <1>17 DEF Step

(* A read keeps what was there when it was called and was not deleted. *)
LEMMA ReadInvStep ==
  ASSUME Inv, NEW k \in Calls, Step(k) \/ Fail(k)
  PROVE  ReadInv'
<1> USE CallsAssumption
<1> USE DEF Goto, callVars, dbVars, outVars, InFlight, SendSteps, OpenSteps,
            DeleteSteps, ReadSteps, Sends, Meetings, BeforeWrite,
            Inv, TypeOK, StepInv, MessageInv, DeleteInv, ReadInv
<1>1. CASE CheckReply(k)
  BY <1>1 DEF CheckReply
<1>2. CASE UploadFile(k)
  BY <1>2 DEF UploadFile
<1>3. CASE GetCall(k)
  BY <1>3 DEF GetCall
<1>4. CASE CreateMessage(k)
  BY <1>4 DEF CreateMessage
<1>5. CASE PushMessage(k)
  BY <1>5 DEF PushMessage
<1>6. CASE Produce(k)
  BY <1>6 DEF Produce
<1>7. CASE Emit(k)
  BY <1>7 DEF Emit
<1>8. CASE FindConversation(k)
  BY <1>8 DEF FindConversation, FindByParticipants
<1>9. CASE OpenConversation(k)
  BY <1>9 DEF OpenConversation
<1>10. CASE EmitNew(k)
  BY <1>10 DEF EmitNew
<1>11. CASE FindMessage(k)
  BY <1>11 DEF FindMessage
<1>12. CASE DeleteOne(k)
  BY <1>12 DEF DeleteOne
<1>13. CASE PullMessage(k)
  BY <1>13 DEF PullMessage
<1>14. CASE EmitDelete(k)
  BY <1>14 DEF EmitDelete
<1>15. CASE ReadIds(k)
  BY <1>15 DEF ReadIds
<1>16. CASE Populate(k)
  BY <1>16 DEF Populate
<1>17. CASE Fail(k)
  BY <1>17 DEF Fail
<1> QED
  BY <1>1, <1>2, <1>3, <1>4, <1>5, <1>6, <1>7, <1>8, <1>9,
     <1>10, <1>11, <1>12, <1>13, <1>14, <1>15, <1>16, <1>17 DEF Step

(* A conversation is opened once, for participants that had none. *)
LEMMA ConversationInvStep ==
  ASSUME Inv, NEW k \in Calls, Step(k) \/ Fail(k)
  PROVE  ConversationInv'
<1> USE CallsAssumption
<1> USE DEF Goto, callVars, dbVars, outVars, InFlight, SendSteps, OpenSteps,
            DeleteSteps, ReadSteps, Sends, Meetings, BeforeWrite,
            Inv, TypeOK, StepInv, ConversationInv, Conversations
<1>1. CASE CheckReply(k)
  BY <1>1 DEF CheckReply
<1>2. CASE UploadFile(k)
  BY <1>2 DEF UploadFile
<1>3. CASE GetCall(k)
  BY <1>3 DEF GetCall
<1>4. CASE CreateMessage(k)
  BY <1>4 DEF CreateMessage
<1>5. CASE PushMessage(k)
  BY <1>5 DEF PushMessage
<1>6. CASE Produce(k)
  BY <1>6 DEF Produce
<1>7. CASE Emit(k)
  BY <1>7 DEF Emit
<1>8. CASE FindConversation(k)
  BY <1>8 DEF FindConversation, FindByParticipants
<1>9. CASE OpenConversation(k)
  BY <1>9 DEF OpenConversation
<1>10. CASE EmitNew(k)
  BY <1>10 DEF EmitNew
<1>11. CASE FindMessage(k)
  BY <1>11 DEF FindMessage
<1>12. CASE DeleteOne(k)
  BY <1>12 DEF DeleteOne
<1>13. CASE PullMessage(k)
  BY <1>13 DEF PullMessage
<1>14. CASE EmitDelete(k)
  BY <1>14 DEF EmitDelete
<1>15. CASE ReadIds(k)
  BY <1>15 DEF ReadIds
<1>16. CASE Populate(k)
  BY <1>16 DEF Populate
<1>17. CASE Fail(k)
  BY <1>17 DEF Fail
<1> QED
  BY <1>1, <1>2, <1>3, <1>4, <1>5, <1>6, <1>7, <1>8, <1>9,
     <1>10, <1>11, <1>12, <1>13, <1>14, <1>15, <1>16, <1>17 DEF Step

-----------------------------------------------------------------------------
(* The inductive invariant holds in every behaviour of the service. *)
THEOREM Invariance == Spec => []Inv
<1>1. Init => Inv
  BY DEF Init, Inv, TypeOK, StepInv, MessageInv, DeleteInv, ReadInv, ConversationInv,
     Dangling, Listed, SendSteps, OpenSteps, DeleteSteps, ReadSteps, Sends, Meetings
<1>2. Inv /\ [Next]_vars => Inv'
  <2> SUFFICES ASSUME Inv, [Next]_vars PROVE Inv'
    OBVIOUS
  <2>1. CASE UNCHANGED vars
    BY <2>1 DEF vars, Inv, TypeOK, StepInv, MessageInv, DeleteInv, ReadInv,
       ConversationInv, Dangling, Listed, Conversations
  <2>2. ASSUME NEW k \in Calls, Request(k)
        PROVE  Inv'
    BY <2>2, RequestType, RequestInv DEF Inv
  <2>3. ASSUME NEW k \in Calls, Step(k) \/ Fail(k)
        PROVE  Inv'
    BY <2>3, StepType, StepInvStep, MessageInvStep, DeleteInvStep, ReadInvStep,
       ConversationInvStep DEF Inv
  <2> QED
    BY <2>1, <2>2, <2>3 DEF Next, Quiet
<1> QED
  BY <1>1, <1>2, PTL DEF Spec

-----------------------------------------------------------------------------
(* What follows from the inductive invariant. *)

(* Only a deletion cut in two leaves an id without a document, only a send    *)
(* cut in two a document without a conversation.                             *)
THEOREM CollectionsAlwaysAgree == Spec => []CollectionsAgree
<1>1. Inv => CollectionsAgree
  BY DEF Inv, TypeOK, StepInv, MessageInv, DeleteInv, Dangling, Orphan, Listed, Sends, CollectionsAgree
<1> QED
  BY <1>1, Invariance, PTL


(* Two conversations of the same participants were opened at the same time.  *)
THEOREM NoUnseenDuplicate == Spec => []DuplicateOnlyByRace
<1>1. Inv => DuplicateOnlyByRace
  BY DEF Inv, TypeOK, ConversationInv, Conversations, DuplicateOnlyByRace
<1> QED
  BY <1>1, Invariance, PTL


(* Nothing brings back a message whose deletion was confirmed.               *)
THEOREM DeleteIsFinal == Spec => []ConfirmedDeleteIsFinal
<1>1. Inv => ConfirmedDeleteIsFinal
  BY DEF Inv, TypeOK, DeleteInv, ConfirmedDeleteIsFinal
<1> QED
  BY <1>1, Invariance, PTL


(* No message is announced before, or shown after, its document says so.     *)
THEOREM WriteBeforePublish == Spec => []PublishedAfterWrite
<1>1. Inv => PublishedAfterWrite
  BY DEF Inv, TypeOK, MessageInv, DeleteInv, Visible, PublishedAfterWrite
<1> QED
  BY <1>1, Invariance, PTL


(* getConversation misses only what was deleted while it ran.                *)
THEOREM CompleteReads == Spec => []ReadIsComplete
<1>1. Inv => ReadIsComplete
  BY DEF Inv, TypeOK, ReadInv, ReadIsComplete
<1> QED
  BY <1>1, Invariance, PTL


(* A message's document is removed by a deletion of its sender only. *)
THEOREM RemovalBySender == Spec => OnlySenderRemoves
<1>1. Inv /\ [Next]_vars =>
        [\A m \in stored \ stored' :
           \E d \in Calls : /\ op[d] = "delete" /\ ref[d] = m /\ by[d] = by[m]
                            /\ pc[d] = "deleteOne"]_vars
  <2> SUFFICES ASSUME Inv, [Next]_vars, NEW m \in stored \ stored'
               PROVE  \E d \in Calls : /\ op[d] = "delete" /\ ref[d] = m
                                       /\ by[d] = by[m] /\ pc[d] = "deleteOne"
    OBVIOUS
  <2> USE DEF Goto, dbVars
  <2>1. CASE UNCHANGED vars
    BY <2>1 DEF vars
  <2>2. ASSUME NEW k \in Calls, Request(k)
        PROVE  FALSE
    BY <2>2 DEF Request, CreateNewConversation, SendMessage, UploadImage, StartMeeting,
       EndMeeting, GetConversation, ReplyTo, Delete, AcceptIn, Accept
  <2>3. ASSUME NEW k \in Calls, Step(k) \/ Fail(k)
        PROVE  DeleteOne(k)
    BY <2>3 DEF Step, Fail, CheckReply, UploadFile, GetCall, CreateMessage, PushMessage,
       Produce, Emit, FindConversation, FindByParticipants, OpenConversation, EmitNew,
       FindMessage, PullMessage, EmitDelete, ReadIds, Populate
  <2>4. ASSUME NEW k \in Calls, DeleteOne(k)
        PROVE  /\ op[k] = "delete" /\ ref[k] = m /\ by[k] = by[m]
               /\ pc[k] = "deleteOne"
    BY <2>4 DEF DeleteOne, Inv, StepInv, DeleteInv, DeleteSteps
  <2> QED
    BY <2>1, <2>2, <2>3, <2>4 DEF Next, Quiet
<1> QED
  BY <1>1, Invariance, PTL DEF Spec, OnlySenderRemoves

-----------------------------------------------------------------------------
(* The service implements ConversationLog. *)

LEMMA LogStep ==
  ASSUME Inv, NEW k \in Calls, Request(k) \/ Step(k) \/ Fail(k)
  PROVE  Log!Next \/ UNCHANGED Log!logVars
<1> USE CallsAssumption
<1> USE DEF Goto, dbVars, Inv, TypeOK, Visible, Log!logVars, Log!Next
<1>1. CASE Request(k)
  BY <1>1 DEF Request, CreateNewConversation, SendMessage, UploadImage, StartMeeting,
     EndMeeting, GetConversation, ReplyTo, Delete, AcceptIn, Accept
<1>2. CASE CheckReply(k) \/ UploadFile(k) \/ GetCall(k) \/ Produce(k) \/ Emit(k)
           \/ FindConversation(k) \/ EmitNew(k) \/ FindMessage(k) \/ EmitDelete(k)
           \/ ReadIds(k) \/ Populate(k) \/ Fail(k)
  BY <1>2 DEF CheckReply, UploadFile, GetCall, Produce, Emit, FindConversation,
     FindByParticipants, EmitNew, FindMessage, EmitDelete, ReadIds, Populate, Fail
<1>3. CASE CreateMessage(k)
  <2>1. \A c \in Calls : Visible(c)' = Visible(c)
    BY <1>3 DEF CreateMessage, MessageInv, BeforeWrite
  <2> QED
    BY <1>3, <2>1 DEF CreateMessage
<1>4. CASE PushMessage(k)
  <2>1. PICK c \in Calls : c = conv[k]
    BY <1>4 DEF PushMessage, StepInv, Conversations, SendSteps
  <2>2. lastActivity[c] # None /\ k \in stored \ posted
    BY <1>4, <2>1 DEF PushMessage, StepInv, MessageInv, ConversationInv, Conversations,
       SendSteps
  <2>3. \A d \in Calls : Visible(d)' = IF d = c THEN Visible(d) \union {k} ELSE Visible(d)
    BY <1>4, <2>1, <2>2 DEF PushMessage
  <2>4. Log!Post(c, k)
    BY <1>4, <2>1, <2>2, <2>3 DEF PushMessage, Log!Post, Log!Show
  <2> QED
    BY <2>4
<1>5. CASE OpenConversation(k)
  <2>1. /\ lastActivity[k] = None /\ listed[k] = {}
        /\ k \notin stored \union posted
        /\ \A c \in Calls : k \notin listed[c]
    BY <1>5 DEF OpenConversation, ConversationInv, MessageInv, BeforeWrite
  <2>2. \A d \in Calls : Visible(d)' = IF d = k THEN Visible(d) \union {k} ELSE Visible(d)
    BY <1>5, <2>1 DEF OpenConversation
  <2>3. Log!Open(k, k)
    BY <1>5, <2>1, <2>2 DEF OpenConversation, Log!Open, Log!Show
  <2> QED
    BY <2>3
<1>6. CASE DeleteOne(k)
  <2>1. PICK c \in Calls, m \in Calls : m = ref[k] /\ c = conv[m]
    BY <1>6 DEF DeleteOne, StepInv, DeleteInv, DeleteSteps, MessageInv
  <2>2. m \in posted /\ \A d \in Calls : m \in listed[d] => d = c
    BY <1>6, <2>1 DEF DeleteOne, StepInv, DeleteInv, DeleteSteps, MessageInv
  <2>3. CASE m \in stored
    <3>1. m \in Visible(c)
      BY <2>1, <2>2, <2>3 DEF MessageInv
    <3>2. \A d \in Calls : Visible(d)' = IF d = c THEN Visible(d) \ {m} ELSE Visible(d)
      BY <1>6, <2>1, <2>2 DEF DeleteOne
    <3>3. Log!Remove(c, m)
      BY <1>6, <3>1, <3>2 DEF DeleteOne, Log!Remove
    <3> QED
      BY <3>3
  <2>4. CASE m \notin stored
    BY <1>6, <2>1, <2>4 DEF DeleteOne
  <2> QED
    BY <2>3, <2>4
<1>7. CASE PullMessage(k)
  <2>1. op[k] = "delete" /\ ref[k] \notin stored
    BY <1>7 DEF PullMessage, StepInv, DeleteInv, DeleteSteps
  <2>2. \A c \in Calls : Visible(c)' = Visible(c)
    BY <1>7, <2>1 DEF PullMessage
  <2> QED
    BY <1>7, <2>2 DEF PullMessage
<1> QED
  BY <1>1, <1>2, <1>3, <1>4, <1>5, <1>6, <1>7 DEF Step

(* Every behaviour of the service is, for its readers, one of the log. *)
THEOREM ImplementsLog == Spec => LogSpec
<1>1. Init => Log!Init
  BY DEF Init, Log!Init, Visible
<1>2. Inv /\ [Next]_vars => [Log!Next]_(Log!logVars)
  <2> SUFFICES ASSUME Inv, [Next]_vars PROVE Log!Next \/ UNCHANGED Log!logVars
    OBVIOUS
  <2>1. CASE UNCHANGED vars
    BY <2>1 DEF vars, Visible, Log!logVars
  <2> QED
    BY <2>1, LogStep DEF Next, Quiet
<1> QED
  BY <1>1, <1>2, Invariance, PTL DEF Spec, LogSpec, Log!Spec
====

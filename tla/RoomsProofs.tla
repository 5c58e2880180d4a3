---- MODULE RoomsProofs ----
(* Proofs about Rooms for any number of sockets, instances and users, and    *)
(* finitely many conversations.                                              *)
EXTENDS Rooms, FiniteSetTheorems, TLAPS

(* The conversations of a user are finitely many and can be counted. *)
LEMMA RelatedIsFinite ==
  ASSUME NEW u
  PROVE  IsFiniteSet(Related(u)) /\ Cardinality(Related(u)) \in Nat
<1>1. Related(u) \subseteq Conversations
  BY DEF Related, Stored
<1> QED
  BY <1>1, FinitenessAssumption, FS_Subset, FS_CardinalityType

(* An instance that stops, by itself or by an unhandled rejection, was up. *)
LEMMA RunningStops ==
  ASSUME SocketInv
  PROVE  /\ \A s \in Sockets : Reject(s) => \E i \in up : Stop(i)
         /\ \A i \in Instances : Stop(i) => i \in up
  BY DEF SocketInv, Reject, Stop, Listing

(* The type invariant is preserved by every step. *)
LEMMA TypeStep ==
  ASSUME TypeOK, SocketInv, [Next]_vars
  PROVE  TypeOK'
<1> USE AccountsAssumption, NoneAssumption, FinitenessAssumption 
    DEF TypeOK, Listing, Stored, Related, sockVars, convVars
<1>1. ASSUME NEW s \in Sockets, NEW u \in Accounts, NEW i \in Instances, Admit(s, u, i)
      PROVE  TypeOK'
  BY <1>1 DEF Admit, Goto
<1>2. ASSUME NEW s \in Sockets, CountDocuments(s)
      PROVE  TypeOK'
  <2>1. Cardinality(Related(owner[s])) \in Nat
    BY RelatedIsFinite
  <2> HIDE DEF Related
  <2> QED
    BY <1>2, <2>1 DEF CountDocuments, Goto
<1>3. ASSUME NEW s \in Sockets, FindDocuments(s)
      PROVE  TypeOK'
  BY <1>3 DEF FindDocuments, Goto
<1>4. ASSUME NEW s \in Sockets, LoadUsers(s)
      PROVE  TypeOK'
  BY <1>4 DEF LoadUsers, Goto, Forget
<1>5. ASSUME NEW s \in Sockets, Disconnect(s)
      PROVE  TypeOK'
  BY <1>5 DEF Disconnect, Leave, Forget
<1>6. ASSUME NEW c \in Conversations, NEW u \in Accounts, NEW T \in SUBSET Users,
             NEW i \in Instances, Open(c, u, T, i)
      PROVE  TypeOK'
  BY <1>6 DEF Open
<1>7. ASSUME NEW c \in Conversations, Announce(c)
      PROVE  TypeOK'
  BY <1>7 DEF Announce, LocalSockets
<1>8. ASSUME NEW c \in Conversations, Unanswered(c)
      PROVE  TypeOK'
  BY <1>8 DEF Unanswered
<1>9. ASSUME NEW i \in up, Stop(i)
      PROVE  TypeOK'
  BY <1>9 DEF Stop, Leave, Forget
<1>10. ASSUME NEW i \in Instances, Restart(i)
      PROVE  TypeOK'
  BY <1>10 DEF Restart
<1>11. CASE UNCHANGED vars
  BY <1>11 DEF vars
<1> QED
  BY <1>1, <1>2, <1>3, <1>4, <1>5, <1>6, <1>7, <1>8, <1>9, <1>10, <1>11, RunningStops DEF Next

(* A socket has an account and a running instance, and lists what is related. *)
LEMMA SocketStep ==
  ASSUME TypeOK, SocketInv, [Next]_vars
  PROVE  SocketInv'
<1> USE AccountsAssumption, NoneAssumption, FinitenessAssumption 
    DEF TypeOK, Listing, Stored, Related, sockVars, convVars, SocketInv
<1>1. ASSUME NEW s \in Sockets, NEW u \in Accounts, NEW i \in Instances, Admit(s, u, i)
      PROVE  SocketInv'
  BY <1>1 DEF Admit, Goto
<1>2. ASSUME NEW s \in Sockets, CountDocuments(s)
      PROVE  SocketInv'
  BY <1>2 DEF CountDocuments, Goto
<1>3. ASSUME NEW s \in Sockets, FindDocuments(s)
      PROVE  SocketInv'
  BY <1>3 DEF FindDocuments, Goto
<1>4. ASSUME NEW s \in Sockets, LoadUsers(s)
      PROVE  SocketInv'
  BY <1>4 DEF LoadUsers, Goto, Forget
<1>5. ASSUME NEW s \in Sockets, Disconnect(s)
      PROVE  SocketInv'
  BY <1>5 DEF Disconnect, Leave, Forget
<1>6. ASSUME NEW c \in Conversations, NEW u \in Accounts, NEW T \in SUBSET Users,
             NEW i \in Instances, Open(c, u, T, i)
      PROVE  SocketInv'
  BY <1>6 DEF Open
<1>7. ASSUME NEW c \in Conversations, Announce(c)
      PROVE  SocketInv'
  BY <1>7 DEF Announce, LocalSockets
<1>8. ASSUME NEW c \in Conversations, Unanswered(c)
      PROVE  SocketInv'
  BY <1>8 DEF Unanswered
<1>9. ASSUME NEW i \in up, Stop(i)
      PROVE  SocketInv'
  BY <1>9 DEF Stop, Leave, Forget
<1>10. ASSUME NEW i \in Instances, Restart(i)
      PROVE  SocketInv'
  BY <1>10 DEF Restart
<1>11. CASE UNCHANGED vars
  BY <1>11 DEF vars
<1> QED
  BY <1>1, <1>2, <1>3, <1>4, <1>5, <1>6, <1>7, <1>8, <1>9, <1>10, <1>11, RunningStops DEF Next

(* Rooms and redirections come after the commit. *)
LEMMA StoredStep ==
  ASSUME TypeOK, SocketInv, StoredInv, [Next]_vars
  PROVE  StoredInv'
<1> USE AccountsAssumption, NoneAssumption, FinitenessAssumption 
    DEF TypeOK, Listing, Stored, Related, sockVars, convVars, SocketInv, StoredInv
<1>1. ASSUME NEW s \in Sockets, NEW u \in Accounts, NEW i \in Instances, Admit(s, u, i)
      PROVE  StoredInv'
  BY <1>1 DEF Admit, Goto
<1>2. ASSUME NEW s \in Sockets, CountDocuments(s)
      PROVE  StoredInv'
  BY <1>2 DEF CountDocuments, Goto
<1>3. ASSUME NEW s \in Sockets, FindDocuments(s)
      PROVE  StoredInv'
  BY <1>3 DEF FindDocuments, Goto
<1>4. ASSUME NEW s \in Sockets, LoadUsers(s)
      PROVE  StoredInv'
  BY <1>4 DEF LoadUsers, Goto, Forget
<1>5. ASSUME NEW s \in Sockets, Disconnect(s)
      PROVE  StoredInv'
  BY <1>5 DEF Disconnect, Leave, Forget
<1>6. ASSUME NEW c \in Conversations, NEW u \in Accounts, NEW T \in SUBSET Users,
             NEW i \in Instances, Open(c, u, T, i)
      PROVE  StoredInv'
  BY <1>6 DEF Open
<1>7. ASSUME NEW c \in Conversations, Announce(c)
      PROVE  StoredInv'
  BY <1>7 DEF Announce, LocalSockets
<1>8. ASSUME NEW c \in Conversations, Unanswered(c)
      PROVE  StoredInv'
  BY <1>8 DEF Unanswered
<1>9. ASSUME NEW i \in up, Stop(i)
      PROVE  StoredInv'
  BY <1>9 DEF Stop, Leave, Forget
<1>10. ASSUME NEW i \in Instances, Restart(i)
      PROVE  StoredInv'
  BY <1>10 DEF Restart
<1>11. CASE UNCHANGED vars
  BY <1>11 DEF vars
<1> QED
  BY <1>1, <1>2, <1>3, <1>4, <1>5, <1>6, <1>7, <1>8, <1>9, <1>10, <1>11, RunningStops DEF Next

(* Rooms hold open sockets of participants. *)
LEMMA RoomStep ==
  ASSUME TypeOK, SocketInv, StoredInv, RoomIsOfParticipants, [Next]_vars
  PROVE  RoomIsOfParticipants'
<1> USE AccountsAssumption, NoneAssumption, FinitenessAssumption 
    DEF TypeOK, Listing, Stored, Related, sockVars, convVars, SocketInv, StoredInv, RoomIsOfParticipants
<1>1. ASSUME NEW s \in Sockets, NEW u \in Accounts, NEW i \in Instances, Admit(s, u, i)
      PROVE  RoomIsOfParticipants'
  BY <1>1 DEF Admit, Goto
<1>2. ASSUME NEW s \in Sockets, CountDocuments(s)
      PROVE  RoomIsOfParticipants'
  BY <1>2 DEF CountDocuments, Goto
<1>3. ASSUME NEW s \in Sockets, FindDocuments(s)
      PROVE  RoomIsOfParticipants'
  BY <1>3 DEF FindDocuments, Goto
<1>4. ASSUME NEW s \in Sockets, LoadUsers(s)
      PROVE  RoomIsOfParticipants'
  BY <1>4 DEF LoadUsers, Goto, Forget
<1>5. ASSUME NEW s \in Sockets, Disconnect(s)
      PROVE  RoomIsOfParticipants'
  BY <1>5 DEF Disconnect, Leave, Forget
<1>6. ASSUME NEW c \in Conversations, NEW u \in Accounts, NEW T \in SUBSET Users,
             NEW i \in Instances, Open(c, u, T, i)
      PROVE  RoomIsOfParticipants'
  BY <1>6 DEF Open
<1>7. ASSUME NEW c \in Conversations, Announce(c)
      PROVE  RoomIsOfParticipants'
  BY <1>7 DEF Announce, LocalSockets
<1>8. ASSUME NEW c \in Conversations, Unanswered(c)
      PROVE  RoomIsOfParticipants'
  BY <1>8 DEF Unanswered
<1>9. ASSUME NEW i \in up, Stop(i)
      PROVE  RoomIsOfParticipants'
  BY <1>9 DEF Stop, Leave, Forget
<1>10. ASSUME NEW i \in Instances, Restart(i)
      PROVE  RoomIsOfParticipants'
  BY <1>10 DEF Restart
<1>11. CASE UNCHANGED vars
  BY <1>11 DEF vars
<1> QED
  BY <1>1, <1>2, <1>3, <1>4, <1>5, <1>6, <1>7, <1>8, <1>9, <1>10, <1>11, RunningStops DEF Next

(* No participant's socket on the creating instance is missed. *)
LEMMA JoinStep ==
  ASSUME TypeOK, SocketInv, StoredInv, JoinInv, [Next]_vars
  PROVE  JoinInv'
<1> USE AccountsAssumption, NoneAssumption, FinitenessAssumption 
    DEF TypeOK, Listing, Stored, Related, sockVars, convVars, SocketInv, StoredInv, JoinInv
<1>1. ASSUME NEW s \in Sockets, NEW u \in Accounts, NEW i \in Instances, Admit(s, u, i)
      PROVE  JoinInv'
  BY <1>1 DEF Admit, Goto
<1>2. ASSUME NEW s \in Sockets, CountDocuments(s)
      PROVE  JoinInv'
  BY <1>2 DEF CountDocuments, Goto
<1>3. ASSUME NEW s \in Sockets, FindDocuments(s)
      PROVE  JoinInv'
  BY <1>3 DEF FindDocuments, Goto
<1>4. ASSUME NEW s \in Sockets, LoadUsers(s)
      PROVE  JoinInv'
  BY <1>4 DEF LoadUsers, Goto, Forget
<1>5. ASSUME NEW s \in Sockets, Disconnect(s)
      PROVE  JoinInv'
  BY <1>5 DEF Disconnect, Leave, Forget
<1>6. ASSUME NEW c \in Conversations, NEW u \in Accounts, NEW T \in SUBSET Users,
             NEW i \in Instances, Open(c, u, T, i)
      PROVE  JoinInv'
  BY <1>6 DEF Open
<1>7. ASSUME NEW c \in Conversations, Announce(c)
      PROVE  JoinInv'
  BY <1>7 DEF Announce, LocalSockets
<1>8. ASSUME NEW c \in Conversations, Unanswered(c)
      PROVE  JoinInv'
  BY <1>8 DEF Unanswered
<1>9. ASSUME NEW i \in up, Stop(i)
      PROVE  JoinInv'
  BY <1>9 DEF Stop, Leave, Forget
<1>10. ASSUME NEW i \in Instances, Restart(i)
      PROVE  JoinInv'
  BY <1>10 DEF Restart
<1>11. CASE UNCHANGED vars
  BY <1>11 DEF vars
<1> QED
  BY <1>1, <1>2, <1>3, <1>4, <1>5, <1>6, <1>7, <1>8, <1>9, <1>10, <1>11, RunningStops DEF Next

(* The socket redirected is the creator's and in the room. *)
LEMMA RedirectStep ==
  ASSUME TypeOK, SocketInv, StoredInv, RoomIsOfParticipants, RedirectedIsInRoom, [Next]_vars
  PROVE  RedirectedIsInRoom'
<1> USE AccountsAssumption, NoneAssumption, FinitenessAssumption 
    DEF TypeOK, Listing, Stored, Related, sockVars, convVars, SocketInv, StoredInv,
        RoomIsOfParticipants, RedirectedIsInRoom
<1>1. ASSUME NEW s \in Sockets, NEW u \in Accounts, NEW i \in Instances, Admit(s, u, i)
      PROVE  RedirectedIsInRoom'
  BY <1>1 DEF Admit, Goto
<1>2. ASSUME NEW s \in Sockets, CountDocuments(s)
      PROVE  RedirectedIsInRoom'
  BY <1>2 DEF CountDocuments, Goto
<1>3. ASSUME NEW s \in Sockets, FindDocuments(s)
      PROVE  RedirectedIsInRoom'
  BY <1>3 DEF FindDocuments, Goto
<1>4. ASSUME NEW s \in Sockets, LoadUsers(s)
      PROVE  RedirectedIsInRoom'
  BY <1>4 DEF LoadUsers, Goto, Forget
<1>5. ASSUME NEW s \in Sockets, Disconnect(s)
      PROVE  RedirectedIsInRoom'
  BY <1>5 DEF Disconnect, Leave, Forget
<1>6. ASSUME NEW c \in Conversations, NEW u \in Accounts, NEW T \in SUBSET Users,
             NEW i \in Instances, Open(c, u, T, i)
      PROVE  RedirectedIsInRoom'
  BY <1>6 DEF Open
<1>7. ASSUME NEW c \in Conversations, Announce(c)
      PROVE  RedirectedIsInRoom'
  BY <1>7 DEF Announce, LocalSockets
<1>8. ASSUME NEW c \in Conversations, Unanswered(c)
      PROVE  RedirectedIsInRoom'
  BY <1>8 DEF Unanswered
<1>9. ASSUME NEW i \in up, Stop(i)
      PROVE  RedirectedIsInRoom'
  BY <1>9 DEF Stop, Leave, Forget
<1>10. ASSUME NEW i \in Instances, Restart(i)
      PROVE  RedirectedIsInRoom'
  BY <1>10 DEF Restart
<1>11. CASE UNCHANGED vars
  BY <1>11 DEF vars
<1> QED
  BY <1>1, <1>2, <1>3, <1>4, <1>5, <1>6, <1>7, <1>8, <1>9, <1>10, <1>11, RunningStops DEF Next

(* The conversations of a user only become more. *)
LEMMA RelatedGrows ==
  ASSUME TypeOK, NEW u, [Next]_vars
  PROVE  /\ Related(u) \subseteq Related(u)'
         /\ Cardinality(Related(u)) <= Cardinality(Related(u)')
<1>1. \A c \in Stored : c \in Stored' /\ participants'[c] = participants[c]
  <2> USE DEF sockVars, convVars, Stored, TypeOK
  <2>1. CASE UNCHANGED <<conv, participants>>
    BY <2>1
  <2>2. ASSUME NEW c \in Conversations, NEW v \in Accounts, NEW T \in SUBSET Users,
               NEW i \in Instances, Open(c, v, T, i)
        PROVE  \A d \in Stored : d \in Stored' /\ participants'[d] = participants[d]
    BY <2>2 DEF Open
  <2>3. ASSUME NEW c \in Conversations, Announce(c) \/ Unanswered(c)
        PROVE  \A d \in Stored : d \in Stored' /\ participants'[d] = participants[d]
    BY <2>3 DEF Announce, Unanswered
  <2>4. ASSUME NEW i, Stop(i)
        PROVE  \A d \in Stored : d \in Stored' /\ participants'[d] = participants[d]
    BY <2>4 DEF Stop
  <2>5. ASSUME NEW s \in Sockets,
               CountDocuments(s) \/ FindDocuments(s) \/ LoadUsers(s) \/ Disconnect(s)
        PROVE  UNCHANGED <<conv, participants>>
    BY <2>5 DEF CountDocuments, FindDocuments, LoadUsers, Disconnect
  <2>6. ASSUME NEW s \in Sockets, NEW v \in Accounts, NEW i \in Instances, Admit(s, v, i)
        PROVE  UNCHANGED <<conv, participants>>
    BY <2>6 DEF Admit
  <2>7. ASSUME NEW i \in Instances, Restart(i) PROVE UNCHANGED <<conv, participants>>
    BY <2>7 DEF Restart
  <2>8. CASE UNCHANGED vars
    BY <2>1, <2>8 DEF vars
  <2> QED
    BY <2>1, <2>2, <2>3, <2>4, <2>5, <2>6, <2>7, <2>8 DEF Next, Reject
<1>2. Related(u) \subseteq Related(u)'
  BY <1>1 DEF Related
<1>3. IsFiniteSet(Related(u)')
  <2>1. Related(u)' \subseteq Conversations
    BY DEF Related, Stored
  <2> QED
    BY <2>1, FinitenessAssumption, FS_Subset
<1> QED
  BY <1>2, <1>3, FS_Subset

(* The count of a list stays below the number of documents it will find. *)
LEMMA CountStep ==
  ASSUME TypeOK, CountInv, CountIsCovered, [Next]_vars
  PROVE  CountInv' /\ CountIsCovered'
<1> DEFINE Bounded(s) ==
      /\ step[s] = "find" => counted[s] <= Cardinality(Related(owner[s]))
      /\ step[s] = "users" => counted[s] <= Cardinality(items[s])
<1> SUFFICES ASSUME NEW s \in Sockets PROVE Bounded(s)'
  BY DEF CountInv, CountIsCovered
<1>1. Bounded(s)
  BY DEF CountInv, CountIsCovered
<1>2. PICK u : u = owner[s]
  OBVIOUS
<1>3. /\ Cardinality(Related(u)) \in Nat /\ Cardinality(Related(u)') \in Nat
      /\ Cardinality(Related(u)) <= Cardinality(Related(u)')
  <2>1. IsFiniteSet(Related(u)')
    <3>1. Related(u)' \subseteq Conversations
      BY DEF Related, Stored
    <3> QED
      BY <3>1, FinitenessAssumption, FS_Subset
  <2> QED
    BY <2>1, RelatedIsFinite, RelatedGrows, FS_CardinalityType
<1>4. CASE CountDocuments(s)
  BY <1>2, <1>3, <1>4 DEF CountDocuments, Goto, TypeOK
<1>5. CASE FindDocuments(s)
  BY <1>1, <1>2, <1>5 DEF FindDocuments, Goto, TypeOK
<1>6. CASE step'[s] \notin {"find", "users"}
  BY <1>6
<1>7. CASE step'[s] = step[s] /\ counted'[s] = counted[s] /\ owner'[s] = owner[s]
           /\ items'[s] = items[s]
  BY <1>1, <1>2, <1>3, <1>7 DEF TypeOK
<1> HIDE DEF Bounded
<1> USE DEF TypeOK, sockVars, convVars, Goto
<1>8. ASSUME NEW t \in Sockets, NEW v \in Accounts, NEW i \in Instances, Admit(t, v, i)
      PROVE  Bounded(s)'
  BY <1>6, <1>7, <1>8 DEF Admit
<1>9. ASSUME NEW t \in Sockets, CountDocuments(t) \/ FindDocuments(t) PROVE Bounded(s)'
  BY <1>4, <1>5, <1>7, <1>9 DEF CountDocuments, FindDocuments
<1>10. ASSUME NEW t \in Sockets, LoadUsers(t) PROVE Bounded(s)'
  BY <1>6, <1>7, <1>10 DEF LoadUsers, Forget
<1>11. ASSUME NEW t \in Sockets, Disconnect(t) PROVE Bounded(s)'
  BY <1>6, <1>7, <1>11 DEF Disconnect, Forget
<1>12. ASSUME NEW i, Stop(i) PROVE Bounded(s)'
  BY <1>6, <1>7, <1>12 DEF Stop, Forget
<1>13. ASSUME NEW c \in Conversations,
              \/ Announce(c) \/ Unanswered(c)
              \/ \E v \in Accounts, T \in SUBSET Users, i \in Instances : Open(c, v, T, i)
       PROVE  Bounded(s)'
  BY <1>7, <1>13 DEF Announce, Unanswered, Open
<1>14. ASSUME NEW i \in Instances, Restart(i) PROVE Bounded(s)'
  BY <1>7, <1>14 DEF Restart
<1>15. CASE UNCHANGED vars
  BY <1>7, <1>15 DEF vars
<1> QED
  BY <1>8, <1>9, <1>10, <1>11, <1>12, <1>13, <1>14, <1>15 DEF Next, Reject

-----------------------------------------------------------------------------
(* The inductive invariant holds in every state that can be reached. *)
THEOREM Invariance == Spec => []Inv
<1>1. Init => Inv
  BY NoneAssumption, FS_EmptySet DEF Init, Inv, TypeOK, SocketInv, StoredInv, JoinInv,
     CountInv, RoomIsOfParticipants, RedirectedIsInRoom, CountIsCovered, Stored, Listing
<1>2. Inv /\ [Next]_vars => Inv'
  BY TypeStep, SocketStep, StoredStep, RoomStep, JoinStep, RedirectStep, CountStep DEF Inv
<1> QED
  BY <1>1, <1>2, PTL DEF Spec

(* Every variable keeps its type. *)
THEOREM TypeCorrect == Spec => []TypeOK
<1>1. Inv => TypeOK
  BY DEF Inv
<1> QED
  BY <1>1, Invariance, PTL

(* Neither a late join nor an event puts a stranger, or a socket that is     *)
(* gone, into a room.                                                        *)
THEOREM NoStranger == Spec => []RoomIsOfParticipants
<1>1. Inv => RoomIsOfParticipants
  BY DEF Inv
<1> QED
  BY <1>1, Invariance, PTL

(* However the list of handleConnection and the event interleave, a          *)
(* participant connected to the creating instance is not missed.             *)
THEOREM NobodyMissed == Spec => []ParticipantsAreInRoom
<1>1. Inv => ParticipantsAreInRoom
  BY DEF Inv, JoinInv, ParticipantsAreInRoom
<1> QED
  BY <1>1, Invariance, PTL

(* The redirected socket is the creator's and hears the conversation. *)
THEOREM CreatorRedirected == Spec => []RedirectedIsInRoom
<1>1. Inv => RedirectedIsInRoom
  BY DEF Inv
<1> QED
  BY <1>1, Invariance, PTL

(* A list is never shorter than its count. *)
THEOREM ListCovered == Spec => []CountIsCovered
<1>1. Inv => CountIsCovered
  BY DEF Inv
<1> QED
  BY <1>1, Invariance, PTL

====

---- MODULE AccountsProofs ----
(***************************************************************************)
(* The invariants of Accounts, for any calls, processes, pairs, emails and *)
(* passwords, and those of KeyPair, on which they rest.                    *)
(***************************************************************************)
EXTENDS Accounts, TLAPS

-----------------------------------------------------------------------------
(* The key files. *)

LEMMA KeyInitInv == KeyInit => KeyInv
  BY FilesAssumption
     DEF KeyInit, KeyInv, KeyTypeOK, MeetInv, FileInv, LoadInv, Loaded, Started, Whole, Intact,
         Types, Values, Generating, Looking

(* One lemma for each operation. *)

LEMMA StartInv == ASSUME KeyInv, NEW p \in Processes, Start(p) PROVE KeyInv'
  BY FilesAssumption, SMTT(60)
     DEF Start, GoOn, Meet, fileVars, memoryVars, Types, Values, Generating, Looking, KeyInv, KeyTypeOK,
         MeetInv, FileInv, LoadInv, Loaded, Started, Whole, Intact

LEMMA LoadInvariant == ASSUME KeyInv, NEW p \in Processes, Load(p) PROVE KeyInv'
<1> USE FilesAssumption DEF GoOn, fileVars, memoryVars, Types, Values, Generating, Looking
<1>0. KeyTypeOK /\ MeetInv /\ FileInv /\ LoadInv
  BY DEF KeyInv
<1>1. KeyTypeOK'
  <2> USE <1>0 DEF KeyTypeOK
  <2>1. CASE CheckPrivate(p)
    BY <2>1 DEF CheckPrivate
  <2>2. CASE CheckPublic(p)
    BY <2>2 DEF CheckPublic
  <2>3. CASE CreatePrivate(p)
    <3>1. PICK a \in Pairs : new' = [new EXCEPT ![p] = a]
      BY <2>3 DEF CreatePrivate
    <3> QED BY <2>3, <3>1 DEF CreatePrivate
  <2>4. CASE WritePrivate(p)
    BY <2>4 DEF WritePrivate
  <2>5. CASE CreatePublic(p)
    BY <2>5 DEF CreatePublic
  <2>6. CASE WritePublic(p)
    BY <2>6 DEF WritePublic
  <2>7. CASE ReadPrivate(p)
    BY <2>7 DEF ReadPrivate
  <2>8. CASE ReadPublic(p)
    BY <2>8 DEF ReadPublic
  <2> QED BY <2>1, <2>2, <2>3, <2>4, <2>5, <2>6, <2>7, <2>8 DEF Load
<1> USE DEF Load, CheckPrivate, CheckPublic, CreatePrivate, WritePrivate, CreatePublic,
            WritePublic, ReadPrivate, ReadPublic
<1>2. Intact' \subseteq Intact
  BY DEF Intact, Meet
<1>3. MeetInv'
  BY <1>0, SMTT(60) DEF KeyTypeOK, MeetInv, Meet
<1>4. FileInv'
  <2> SUFFICES ASSUME NEW t \in Intact' PROVE FileInv!(t)'
    BY DEF FileInv
  <2>1. t \in Intact /\ t \in Types
    BY <1>2 DEF Intact
  <2> QED BY <1>0, <2>1, SMTT(60)
         DEF KeyTypeOK, MeetInv, FileInv, LoadInv, Loaded, Whole, Started, Intact, Meet
<1>5. LoadInv'
  <2> SUFFICES ASSUME NEW q \in Processes, NEW t \in Intact' PROVE LoadInv!(q, t)'
    BY DEF LoadInv
  <2>1. t \in Intact /\ t \in Types
    BY <1>2 DEF Intact
  <2> QED BY <1>0, <2>1, SMTT(60)
         DEF KeyTypeOK, MeetInv, FileInv, LoadInv, Loaded, Whole, Started, Intact, Meet
<1> QED BY <1>1, <1>3, <1>4, <1>5 DEF KeyInv

LEMMA StopKeyInv == ASSUME KeyInv, NEW p \in Processes, Stop(p) PROVE KeyInv'
<1> USE FilesAssumption
    DEF Stop, fileVars, memoryVars, Types, Values, Generating, Looking
<1>0. KeyTypeOK /\ MeetInv /\ FileInv /\ LoadInv
  BY DEF KeyInv
<1>1. KeyTypeOK'
  BY <1>0 DEF KeyTypeOK
<1>2. Intact' \subseteq Intact
  BY DEF Intact
<1>3. MeetInv'
  BY <1>0 DEF KeyTypeOK, MeetInv
<1>4. FileInv'
  <2> SUFFICES ASSUME NEW t \in Intact' PROVE FileInv!(t)'
    BY DEF FileInv
  <2>1. t \in Intact /\ t \in Types
    BY <1>2 DEF Intact
  <2> QED BY <1>0, <2>1 DEF KeyTypeOK, MeetInv, FileInv, LoadInv, Loaded, Whole, Started, Intact
<1>5. LoadInv'
  <2> SUFFICES ASSUME NEW q \in Processes, NEW t \in Intact' PROVE LoadInv!(q, t)'
    BY DEF LoadInv
  <2>1. t \in Intact /\ t \in Types
    BY <1>2 DEF Intact
  <2> QED BY <1>0, <2>1 DEF KeyTypeOK, MeetInv, FileInv, LoadInv, Loaded, Whole, Started, Intact
<1> QED BY <1>1, <1>3, <1>4, <1>5 DEF KeyInv

LEMMA KeyStepInv == KeyInv /\ [KeyNext]_keyVars => KeyInv'
<1> SUFFICES ASSUME KeyInv, [KeyNext]_keyVars PROVE KeyInv'
  OBVIOUS
<1>1. CASE KeyNext
  BY <1>1, StartInv, LoadInvariant, StopKeyInv DEF KeyNext
<1>2. CASE UNCHANGED keyVars
  BY <1>2 DEF keyVars, KeyInv, KeyTypeOK, MeetInv, FileInv, LoadInv, Loaded, Started, Whole, Intact
<1> QED BY <1>1, <1>2

LEMMA MatchFromInv == KeyInv => KeysMatch
  BY DEF KeyInv, LoadInv, Loaded, Whole, KeysMatch

(* The inductive invariant of the key files: complete pairs are never        *)
(* touched again and processes only keep keys of complete pairs.             *)
THEOREM KeyInvariance == KeySpec => []KeyInv
  BY KeyInitInv, KeyStepInv, PTL DEF KeySpec

(* Processes of one directory sign and check with one pair, for any number   *)
(* of them starting and stopping anywhere, unless two met while one          *)
(* generated or one stopped in writing the public key.                       *)
THEOREM OnePair == KeySpec => []KeysMatch
  BY KeyInvariance, MatchFromInv, PTL
-----------------------------------------------------------------------------
(* The users. *)

LEMMA InitInv == Init => Inv
<1> SUFFICES ASSUME Init PROVE Inv
  OBVIOUS
<1> USE NoneAssumption DEF Init
<1>1. KeyInv
  BY KeyInitInv
<1>2. TypeOK
  BY <1>1 DEF KeyInv, TypeOK, Awaits, Values
<1>3. UserInv /\ LoginIsRight /\ SignedInv
  BY DEF UserInv, LoginIsRight, SignedInv, Awaits, Twins, UsersOf
<1> QED BY <1>1, <1>2, <1>3 DEF Inv

-----------------------------------------------------------------------------
(* The keys: a step of Accounts is a step of KeyPair or leaves it alone.     *)

LEMMA KeysStep == [Next]_vars => [KeyNext]_keyVars
  BY DEF Next, vars, KeyNext, Register, Login, Request, Step, IsTakenEmail, CreateUser,
     GetByUsername, ComparePassword, Gen, Fail, BuildIndex, StartOrLoad, StopProcess

LEMMA KeyPart == Inv /\ [Next]_vars => KeyInv'
  BY KeysStep, KeyStepInv DEF Inv

(* The files of a complete pair are not written again. *)
LEMMA WholeStays ==
  ASSUME KeyInv, KeyNext, NEW t \in Intact', Whole(t)
  PROVE  t \in Intact /\ Whole(t)' /\ private'[t] = private[t]
<1> PICK p \in Processes : Start(p) \/ Load(p) \/ Stop(p)
  BY DEF KeyNext
<1> USE FilesAssumption DEF KeyInv, KeyTypeOK, Whole, fileVars, GoOn
<1>1. t \in Intact
  BY DEF Intact, Start, Load, Stop, CheckPrivate, CheckPublic, CreatePrivate, WritePrivate,
     CreatePublic, WritePublic, ReadPrivate, ReadPublic
<1>2. CASE CreatePrivate(p) \/ WritePrivate(p) \/ CreatePublic(p) \/ WritePublic(p)
  <2>1. type[p] # t
    BY <1>1, <1>2 DEF FileInv, CreatePrivate, WritePrivate, CreatePublic, WritePublic
  <2>2. private'[t] = private[t] /\ public'[t] = public[t]
    BY <1>2, <2>1 DEF Intact, CreatePrivate, WritePrivate, CreatePublic, WritePublic
  <2> QED BY <1>1, <2>2
<1>3. CASE Start(p) \/ Stop(p) \/ CheckPrivate(p) \/ CheckPublic(p) \/ ReadPrivate(p)
           \/ ReadPublic(p)
  BY <1>1, <1>3 DEF Start, Stop, CheckPrivate, CheckPublic, ReadPrivate, ReadPublic
<1> QED BY <1>2, <1>3 DEF Load

-----------------------------------------------------------------------------
(* The users. *)

LEMMA HashInjective == ASSUME NEW v, NEW w, Hash(v) = Hash(w) PROVE v = w
<1>1. Hash(v).bcrypt = v /\ Hash(w).bcrypt = w
  BY DEF Hash
<1> QED BY <1>1

LEMMA RequestPart ==
  ASSUME Inv, NEW k \in Calls, Register(k) \/ Login(k)
  PROVE  TypeOK' /\ UserInv' /\ LoginIsRight' /\ SignedInv'
<1> USE NoneAssumption DEF Inv, Awaits
<1>1. PICK o \in {"register", "login"}, first \in {"isTakenEmail", "getByUsername"} :
        Request(k, o, first) /\ (first = "isTakenEmail" <=> o = "register")
  BY DEF Register, Login
<1> USE <1>1 DEF Request, keyVars, userVars
<1>2. TypeOK'
  BY DEF TypeOK, KeyTypeOK
<1>3. UserInv'
  <2>1. \A q \in Calls : q # k =>
          /\ pc'[q] = pc[q] /\ op'[q] = op[q] /\ proc'[q] = proc[q] /\ email'[q] = email[q]
          /\ password'[q] = password[q] /\ before'[q] = before[q]
    BY DEF TypeOK
  <2>2. /\ pc'[k] = first /\ op'[k] = o /\ email'[k] \in Emails /\ password'[k] \in Passwords
        /\ proc'[k] \in Processes /\ at[proc'[k]] = "started" /\ before'[k] = users
    BY DEF TypeOK, Started
  <2>3. \A u \in users : u # k
    BY DEF TypeOK, UserInv
  <2>4. TypeOK /\ UserInv
    OBVIOUS
  <2>5. users' = users /\ hash' = hash /\ indexed' = indexed /\ owner' = owner /\ at' = at
    BY <1>1
  <2> HIDE <1>1 DEF Request, Inv
  <2>6. \/ first = "isTakenEmail" /\ o = "register"
        \/ first = "getByUsername" /\ o = "login"
    BY <1>1
  <2> QED BY <2>1, <2>2, <2>3, <2>4, <2>5, <2>6 DEF TypeOK, UserInv, Twins, UsersOf, Started
<1>4. LoginIsRight'
  BY DEF TypeOK, UserInv, LoginIsRight, Twins, UsersOf
<1>5. SignedInv'
  BY DEF TypeOK, SignedInv, Intact, Whole
<1> QED BY <1>2, <1>3, <1>4, <1>5

LEMMA StepPart ==
  ASSUME Inv, NEW k \in Calls, Step(k) \/ Fail(k)
  PROVE  TypeOK' /\ UserInv' /\ LoginIsRight' /\ SignedInv'
<1> USE NoneAssumption
    DEF Inv, Awaits, Step, Goto, IsTakenEmail, CreateUser, GetByUsername, ComparePassword,
        Gen, Fail, keyVars, userVars, argVars
<1>1. TypeOK'
  <2>1. UNCHANGED keyVars /\ KeyTypeOK /\ TypeOK
    BY DEF TypeOK
  <2>2. KeyTypeOK'
    BY <2>1 DEF KeyTypeOK
  <2>3. signed' \in [Calls -> [Types -> Values]]
    <3>1. signer \in [Processes -> [Types -> Values]] /\ signed \in [Calls -> [Types -> Values]]
      BY <2>1 DEF TypeOK, KeyTypeOK
    <3>2. pc[k] = "gen" => signer[proc[k]] \in [Types -> Values]
      BY <3>1 DEF UserInv
    <3> QED BY <3>1, <3>2
  <2>4. hash' \in [Calls -> {Hash(w) : w \in Passwords \union {None}}]
    BY <2>1 DEF TypeOK
  <2>5. users' \in SUBSET Calls /\ owner' \in [Calls -> Calls \union {None}] /\ UNCHANGED <<argVars, indexed>>
    BY <2>1 DEF TypeOK, UsersOf
  <2>6. pc' \in [Calls -> Awaits \union {"idle", "taken", "refused", "done", "failed"}]
    BY <2>1 DEF TypeOK
  <2> QED BY <2>1, <2>2, <2>3, <2>4, <2>5, <2>6 DEF TypeOK
<1>2. UserInv'
  BY DEF TypeOK, UserInv, Twins, UsersOf, Hash, Started
<1>3. LoginIsRight'
  <2> SUFFICES ASSUME NEW q \in Calls, op'[q] = "login" PROVE LoginIsRight!(q)'
    BY DEF LoginIsRight
  <2>1. UNCHANGED argVars /\ op[q] = "login" /\ LoginIsRight!(q) /\ users \subseteq users'
    BY DEF LoginIsRight
  <2>2. CASE pc'[q] = pc[q]
    BY <2>1, <2>2 DEF Twins, TypeOK, UserInv, UsersOf
  <2>3. CASE pc'[q] # pc[q]
    <3>1. q = k
      BY <2>3 DEF TypeOK
    <3>2. pc'[q] = "done" => email[owner'[q]] = email[q] /\ password[owner'[q]] = password[q]
      <4> SUFFICES ASSUME pc'[q] = "done" PROVE email[owner'[q]] = email[q] /\ password[owner'[q]] = password[q]
        OBVIOUS
      <4>1. pc[q] = "gen" /\ owner' = owner
        BY <2>3, <3>1 DEF TypeOK
      <4>2. owner[q] \in UsersOf(email[q]) /\ hash[owner[q]] = Hash(password[q])
        BY <2>1, <4>1 DEF UserInv
      <4>3. hash[owner[q]] = Hash(password[owner[q]])
        BY <4>2 DEF UserInv, UsersOf, TypeOK
      <4> QED BY <4>1, <4>2, <4>3, HashInjective DEF UsersOf
    <3>3. pc'[q] = "refused" =>
            \A u \in before[q] : email[u] = email[q] /\ password[u] = password[q] =>
              \E v \in users : Twins(u, v)
      BY <2>3, <3>1 DEF TypeOK, UserInv, UsersOf, Hash, Twins
    <3> QED BY <2>1, <3>2, <3>3 DEF Twins
  <2> QED BY <2>2, <2>3
<1>4. SignedInv'
  BY DEF TypeOK, UserInv, SignedInv, Intact, Whole, KeyInv, LoadInv, Loaded
<1> QED BY <1>1, <1>2, <1>3, <1>4

LEMMA ProcessPart ==
  ASSUME Inv, NEW p \in Processes, StartOrLoad(p) \/ StopProcess(p)
  PROVE  TypeOK' /\ UserInv' /\ LoginIsRight' /\ SignedInv'
<1> USE DEF Inv, Awaits, accountVars, argVars, userVars
<1>1. KeyNext
  BY DEF StartOrLoad, StopProcess, KeyNext
<1>2. TypeOK'
  BY <1>1, KeyStepInv DEF TypeOK, KeyInv, StartOrLoad, StopProcess
<1>3. UserInv'
  <2>1. \A q \in Processes : Started(q) /\ ~Started(q)' => StopProcess(p) /\ q = p
    BY DEF StartOrLoad, StopProcess, Start, Load, Stop, Started, GoOn, KeyInv, KeyTypeOK,
       CheckPrivate, CheckPublic, CreatePrivate, WritePrivate, CreatePublic, WritePublic,
       ReadPrivate, ReadPublic
  <2> QED BY <2>1 DEF TypeOK, UserInv, Twins, UsersOf, StartOrLoad, StopProcess
<1>4. LoginIsRight'
  BY DEF TypeOK, LoginIsRight, Twins, StartOrLoad, StopProcess
<1>5. SignedInv'
  <2> SUFFICES ASSUME NEW k \in Calls, pc'[k] = "done", NEW t \in Intact'
               PROVE  Whole(t)' /\ signed'[k][t] = private'[t]
    BY DEF SignedInv
  <2>1. pc[k] = "done" /\ signed' = signed
    BY DEF TypeOK, StartOrLoad, StopProcess
  <2>2. t \in Intact
    BY <1>1, WholeStays DEF Intact, KeyNext, Start, Load, Stop, GoOn, CheckPrivate,
       CheckPublic, CreatePrivate, WritePrivate, CreatePublic, WritePublic, ReadPrivate,
       ReadPublic
  <2> QED BY <1>1, <2>1, <2>2, WholeStays DEF SignedInv
<1> QED BY <1>2, <1>3, <1>4, <1>5

LEMMA IndexPart ==
  ASSUME Inv, BuildIndex
  PROVE  TypeOK' /\ UserInv' /\ LoginIsRight' /\ SignedInv'
<1> USE DEF Inv, BuildIndex, keyVars, argVars
<1>1. TypeOK'
  BY DEF TypeOK, KeyTypeOK
<1>2. UserInv' /\ LoginIsRight' /\ SignedInv'
  BY DEF UserInv, LoginIsRight, SignedInv, Twins, UsersOf, Intact, Whole, Started
<1> QED BY <1>1, <1>2

LEMMA StepInv == Inv /\ [Next]_vars => Inv'
<1> SUFFICES ASSUME Inv, [Next]_vars PROVE Inv'
  OBVIOUS
<1>1. KeyInv'
  BY KeyPart
<1>2. CASE Next
  BY <1>1, <1>2, RequestPart, StepPart, ProcessPart, IndexPart DEF Next, Inv
<1>3. CASE UNCHANGED vars
  BY <1>1, <1>3 DEF vars, accountVars, argVars, userVars, keyVars, Inv, TypeOK, KeyTypeOK,
     UserInv, LoginIsRight, SignedInv, Twins, UsersOf, Intact, Whole, Started
<1> QED BY <1>2, <1>3

(* The inductive invariant of the accounts and of the keys under them.       *)
THEOREM Invariance == Spec => []Inv
  BY InitInv, StepInv, PTL DEF Spec

(* No login is answered for another user or password, or refused to a user   *)
(* who was registered, unless the email has two users.                       *)
THEOREM LoginAnswers == Spec => []LoginIsRight
<1>1. Inv => LoginIsRight
  BY DEF Inv
<1> QED BY <1>1, Invariance, PTL

(* Two users of one email come only from registrations that were under way   *)
(* at once while the index was not built.                                    *)
THEOREM OneUserPerEmail == Spec => []EmailsAreUnique
<1>1. Inv => EmailsAreUnique
  BY DEF Inv, UserInv, EmailsAreUnique, Twins
<1> QED BY <1>1, Invariance, PTL

(* A token verifies at every process started before or after it was signed,  *)
(* however many start and stop.                                              *)
THEOREM TokensAccepted == Spec => []TokensVerify
<1>1. Inv => TokensVerify
  BY DEF Inv, SignedInv, KeyInv, LoadInv, Loaded, TokensVerify, Intact
<1> QED BY <1>1, Invariance, PTL
====

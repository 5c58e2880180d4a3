---- MODULE Accounts ----
(***************************************************************************)
(* Registration and login: services/auth.service.ts with the users of      *)
(* services/user.service.ts and models/schema/user.schema.ts, in processes *)
(* that load their keys as KeyPair says.                                   *)
(*                                                                         *)
(* A call is one request at one process; one action is one awaited         *)
(* operation.  A user is named by the registration that created it.        *)
(* Session models what gen writes; here it is what its tokens are signed   *)
(* with.                                                                   *)
(***************************************************************************)
EXTENDS KeyPair

CONSTANTS
  Calls,      \* the requests that may be made
  Emails,
  Passwords,
  None        \* no call, email, password or hash

ASSUME NoneAssumption ==
  /\ None \notin Calls /\ None \notin Emails /\ None \notin Passwords
  /\ None \notin Processes

VARIABLES
  pc,        \* call -> the operation it awaits
  op,        \* call -> register or login
  proc,      \* call -> the process that runs it
  email,     \* call -> the email it names
  password,  \* call -> the password it names
  before,    \* history: the users there were when the call was made
  users,     \* collection users
  hash,      \* collection users: call -> the hash stored for its user
  indexed,   \* the unique index of email is built
  owner,     \* call -> the user it found or created
  signed     \* call -> type -> the key that signed its token

argVars == <<op, proc, email, password, before>>
userVars == <<users, hash, indexed>>
accountVars == <<pc, argVars, userVars, owner, signed>>
vars == <<keyVars, accountVars>>

Awaits == {"isTakenEmail", "createUser", "getByUsername", "comparePassword", "gen"}

(* bcrypt: one password verifies against a hash. *)
Hash(w) == [bcrypt |-> w]

UsersOf(e) == {u \in users : email[u] = e}

Init ==
  /\ KeyInit
  /\ pc = [k \in Calls |-> "idle"]
  /\ op = [k \in Calls |-> "none"]
  /\ proc = [k \in Calls |-> None]
  /\ email = [k \in Calls |-> None]
  /\ password = [k \in Calls |-> None]
  /\ before = [k \in Calls |-> {}]
  /\ users = {}
  /\ hash = [k \in Calls |-> Hash(None)]
  /\ indexed = FALSE
  /\ owner = [k \in Calls |-> None]
  /\ signed = [k \in Calls |-> [t \in Types |-> Absent]]

-----------------------------------------------------------------------------
Request(k, o, first) ==
  \E p \in Processes, e \in Emails, w \in Passwords :
    /\ pc[k] = "idle"
    /\ Started(p)
    /\ pc' = [pc EXCEPT ![k] = first]
    /\ op' = [op EXCEPT ![k] = o]
    /\ proc' = [proc EXCEPT ![k] = p]
    /\ email' = [email EXCEPT ![k] = e]
    /\ password' = [password EXCEPT ![k] = w]
    /\ before' = [before EXCEPT ![k] = users]
    /\ UNCHANGED <<keyVars, userVars, owner, signed>>

Register(k) == Request(k, "register", "isTakenEmail")

Login(k) == Request(k, "login", "getByUsername")

Goto(k, from, to) == pc[k] = from /\ pc' = [pc EXCEPT ![k] = to]

-----------------------------------------------------------------------------
(* Variants of the operations that follow: mistakes the runs must find.      *)

(* The result of exists is not looked at. *)
IsTakenIgnored(k) ==
  /\ Goto(k, "isTakenEmail", "createUser")
  /\ UNCHANGED <<keyVars, argVars, userVars, owner, signed>>

(* The password is compared with that of the registration. *)
CompareUnhashed(k) ==
  /\ Goto(k, "comparePassword", IF hash[owner[k]] = password[k] THEN "gen" ELSE "refused")
  /\ UNCHANGED <<keyVars, argVars, userVars, owner, signed>>

(* The refresh token is signed with the key of the access tokens. *)
GenOneKey(k) ==
  /\ Goto(k, "gen", "done")
  /\ signed' = [signed EXCEPT ![k] = [t \in Types |-> signer[proc[k]]["access"]]]
  /\ UNCHANGED <<keyVars, argVars, userVars, owner>>

-----------------------------------------------------------------------------
(* register: look the email up, then create the user; the hash is made by    *)
(* the save.                                                                 *)
IsTakenEmail(k) ==
  /\ Goto(k, "isTakenEmail", IF UsersOf(email[k]) # {} THEN "taken" ELSE "createUser")
  /\ UNCHANGED <<keyVars, argVars, userVars, owner, signed>>

CreateUser(k) ==
  \/ /\ indexed => UsersOf(email[k]) = {}
     /\ Goto(k, "createUser", "gen")
     /\ users' = users \union {k}
     /\ hash' = [hash EXCEPT ![k] = Hash(password[k])]
     /\ owner' = [owner EXCEPT ![k] = k]
     /\ UNCHANGED <<keyVars, argVars, indexed, signed>>
  \/ /\ indexed /\ UsersOf(email[k]) # {}      \* duplicate key
     /\ Goto(k, "createUser", "failed")
     /\ UNCHANGED <<keyVars, argVars, userVars, owner, signed>>

(* login: findOne, then compare. *)
GetByUsername(k) ==
  \/ \E u \in UsersOf(email[k]) :
       /\ Goto(k, "getByUsername", "comparePassword")
       /\ owner' = [owner EXCEPT ![k] = u]
       /\ UNCHANGED <<keyVars, argVars, userVars, signed>>
  \/ /\ UsersOf(email[k]) = {}
     /\ Goto(k, "getByUsername", "refused")
     /\ UNCHANGED <<keyVars, argVars, userVars, owner, signed>>

ComparePassword(k) ==
  /\ Goto(k, "comparePassword",
          IF hash[owner[k]] = Hash(password[k]) THEN "gen" ELSE "refused")
  /\ UNCHANGED <<keyVars, argVars, userVars, owner, signed>>

(* gen: the two tokens are signed with the keys in memory. *)
Gen(k) ==
  /\ Goto(k, "gen", "done")
  /\ signed' = [signed EXCEPT ![k] = signer[proc[k]]]
  /\ UNCHANGED <<keyVars, argVars, userVars, owner>>

(* An operation fails; nothing that was written is undone. *)
Fail(k) ==
  /\ pc[k] \in Awaits
  /\ pc' = [pc EXCEPT ![k] = "failed"]
  /\ UNCHANGED <<keyVars, argVars, userVars, owner, signed>>

(* Mongoose builds the index when a process has connected, and only logs it  *)
(* when there are duplicates; no operation waits for it.                     *)
BuildIndex ==
  /\ \E p \in Processes : Started(p)
  /\ \A u, v \in users : u # v => email[u] # email[v]
  /\ indexed' = TRUE
  /\ UNCHANGED <<keyVars, pc, argVars, users, hash, owner, signed>>

(* A process loads its keys, or stops, and its calls with it. *)
StartOrLoad(p) == (Start(p) \/ Load(p)) /\ UNCHANGED accountVars

StopProcess(p) ==
  /\ Stop(p)
  /\ pc' = [k \in Calls |-> IF pc[k] \in Awaits /\ proc[k] = p THEN "failed" ELSE pc[k]]
  /\ UNCHANGED <<argVars, userVars, owner, signed>>

Step(k) ==
  \/ IsTakenEmail(k) \/ CreateUser(k) \/ GetByUsername(k) \/ ComparePassword(k) \/ Gen(k)

Next ==
  \/ \E k \in Calls : Register(k) \/ Login(k) \/ Step(k) \/ Fail(k)
  \/ \E p \in Processes : StartOrLoad(p) \/ StopProcess(p)
  \/ BuildIndex

Spec == Init /\ [][Next]_vars

-----------------------------------------------------------------------------
TypeOK ==
  /\ KeyTypeOK
  /\ pc \in [Calls -> Awaits \union {"idle", "taken", "refused", "done", "failed"}]
  /\ op \in [Calls -> {"none", "register", "login"}]
  /\ proc \in [Calls -> Processes \union {None}]
  /\ email \in [Calls -> Emails \union {None}]
  /\ password \in [Calls -> Passwords \union {None}]
  /\ before \in [Calls -> SUBSET Calls]
  /\ users \in SUBSET Calls
  /\ hash \in [Calls -> {Hash(w) : w \in Passwords \union {None}}]
  /\ indexed \in BOOLEAN
  /\ owner \in [Calls -> Calls \union {None}]
  /\ signed \in [Calls -> [Types -> Values]]

Twins(u, v) == u \in users /\ v \in users /\ u # v /\ email[u] = email[v]

(* register looks the email up and creates the user in two operations: two   *)
(* users share an email only if both registrations were under way at once    *)
(* and the unique index was not built then, which it never will be.          *)
EmailsAreUnique ==
  \A u, v \in Calls : Twins(u, v) =>
    ~indexed /\ u \notin before[v] /\ v \notin before[u]

(* A login is answered for a user of that email and password; it is refused  *)
(* although the user existed only if another user has the same email.        *)
LoginIsRight ==
  \A k \in Calls : op[k] = "login" =>
    /\ pc[k] = "done" =>
         email[owner[k]] = email[k] /\ password[owner[k]] = password[k]
    /\ pc[k] = "refused" =>
         \A u \in before[k] :
           email[u] = email[k] /\ password[u] = password[k] => \E v \in users : Twins(u, v)

(* A token is accepted by every process that has started since, whichever    *)
(* signed it and whether or not that one still runs, under the conditions    *)
(* of KeysMatch.                                                             *)
TokensVerify ==
  \A k \in Calls, q \in Processes : pc[k] = "done" /\ Started(q) =>
    \A t \in Intact : signed[k][t] = checker[q][t]

-----------------------------------------------------------------------------
(* The inductive invariant. *)
UserInv ==
  /\ \A k \in Calls :
       /\ pc[k] # "idle" => email[k] \in Emails /\ password[k] \in Passwords
       /\ pc[k] = "idle" => op[k] = "none"
       /\ pc[k] \in Awaits => proc[k] \in Processes /\ Started(proc[k])
       /\ pc[k] \in {"isTakenEmail", "createUser"} => op[k] = "register" /\ k \notin users
       /\ pc[k] \in {"getByUsername", "comparePassword", "refused"} => op[k] = "login"
       /\ k \in users => pc[k] # "idle" /\ op[k] = "register" /\ hash[k] = Hash(password[k])
       /\ before[k] \subseteq users
       /\ op[k] = "register" /\ (pc[k] = "createUser" \/ k \in users) =>
            \A u \in before[k] : email[u] # email[k]
       /\ op[k] = "login" /\ pc[k] \in {"comparePassword", "gen", "done"} =>
            owner[k] \in UsersOf(email[k])
       /\ op[k] = "login" /\ pc[k] \in {"gen", "done"} => hash[owner[k]] = Hash(password[k])
  /\ indexed => \A u, v \in Calls : ~Twins(u, v)

(* A token that was handed out was signed with the key that is in the file.  *)
SignedInv ==
  \A k \in Calls : pc[k] = "done" =>
    \A t \in Intact : Whole(t) /\ signed[k][t] = private[t]

Inv == KeyInv /\ TypeOK /\ UserInv /\ LoginIsRight /\ SignedInv
====

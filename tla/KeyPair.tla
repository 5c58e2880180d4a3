---- MODULE KeyPair ----
(***************************************************************************)
(* constraints/jwt.constraint.ts: when a process loads it, it reads a pair *)
(* of keys for each type of token from two files, and generates the pair   *)
(* first if a file is missing.                                             *)
(*                                                                         *)
(* Each action is one operation on one file.  A process runs them one      *)
(* after the other, other processes of the same directory run theirs in    *)
(* between, and a process can stop at each.  A file that was created and   *)
(* not written yet is Blank.                                               *)
(***************************************************************************)
CONSTANTS
  Processes,  \* the processes that share the directory
  Pairs,      \* the pairs that can be generated, no two alike
  Absent,     \* no file
  Blank       \* a file without its content

ASSUME FilesAssumption == Absent # Blank /\ Absent \notin Pairs /\ Blank \notin Pairs

VARIABLES
  at,        \* process -> what it does next
  type,      \* process -> the type of token it loads the keys of
  new,       \* process -> the pair it generated
  private,   \* type -> the file of the private key
  public,    \* type -> the file of the public key
  signer,    \* process -> type -> the private key in memory
  checker,   \* process -> type -> the public key in memory
  raced,     \* history: types whose keys were generated while another looked
  torn       \* history: types whose public key a process stopped in writing

fileVars == <<private, public>>
memoryVars == <<signer, checker>>
keyVars == <<at, type, new, private, public, signer, checker, raced, torn>>

Types == {"access", "refresh"}

Values == Pairs \union {Absent, Blank}

Generating == {"createPrivate", "writePrivate", "createPublic", "writePublic"}
Looking == Generating \union {"checkPublic", "readPrivate", "readPublic"}
Started(p) == at[p] = "started"

(* Keys that were generated before are two files of one pair. *)
KeyInit ==
  /\ at = [p \in Processes |-> "off"]
  /\ type = [p \in Processes |-> "access"]
  /\ new = [p \in Processes |-> Absent]
  /\ private \in [Types -> Pairs \union {Absent}]
  /\ public = private
  /\ signer = [p \in Processes |-> [t \in Types |-> Absent]]
  /\ checker = [p \in Processes |-> [t \in Types |-> Absent]]
  /\ raced = {}
  /\ torn = {}

-----------------------------------------------------------------------------
(* Two processes meet at a type when both look at its files and one of them  *)
(* generates.                                                                *)
Meet(p, s) ==
  s \in Looking /\ \E q \in Processes \ {p} :
    type[q] = type[p] /\ at[q] \in Looking /\ (s \in Generating \/ at[q] \in Generating)

GoOn(p, from, to) ==
  /\ at[p] = from
  /\ at' = [at EXCEPT ![p] = to]
  /\ raced' = IF Meet(p, to) THEN raced \union {type[p]} ELSE raced

Start(p) ==
  /\ GoOn(p, "off", "checkPrivate")
  /\ type' = [type EXCEPT ![p] = "access"]
  /\ UNCHANGED <<new, fileVars, memoryVars, torn>>

CheckPrivate(p) ==
  /\ GoOn(p, "checkPrivate",
          IF private[type[p]] = Absent THEN "createPrivate" ELSE "checkPublic")
  /\ UNCHANGED <<type, new, fileVars, memoryVars, torn>>

(* No pair is generated twice. *)
Fresh(a) ==
  /\ \A t \in Types : a # private[t] /\ a # public[t]
  /\ \A q \in Processes : a # new[q] /\ \A t \in Types : a # signer[q][t] /\ a # checker[q][t]

-----------------------------------------------------------------------------
(* A variant of the operation that follows: a mistake the runs must find.    *)

(* A missing public key is written without its private key. *)
CheckPublicOnly(p) ==
  /\ GoOn(p, "checkPublic",
          IF public[type[p]] = Absent THEN "createPublic" ELSE "readPrivate")
  /\ \E a \in Pairs : Fresh(a) /\ new' = [new EXCEPT ![p] = a]
  /\ UNCHANGED <<type, fileVars, memoryVars, torn>>

-----------------------------------------------------------------------------
CheckPublic(p) ==
  /\ GoOn(p, "checkPublic",
          IF public[type[p]] = Absent THEN "createPrivate" ELSE "readPrivate")
  /\ UNCHANGED <<type, new, fileVars, memoryVars, torn>>

(* A pair is generated, and the file is created or emptied. *)
CreatePrivate(p) ==
  /\ GoOn(p, "createPrivate", "writePrivate")
  /\ \E a \in Pairs : Fresh(a) /\ new' = [new EXCEPT ![p] = a]
  /\ private' = [private EXCEPT ![type[p]] = Blank]
  /\ UNCHANGED <<type, public, memoryVars, torn>>

WritePrivate(p) ==
  /\ GoOn(p, "writePrivate", "createPublic")
  /\ private' = [private EXCEPT ![type[p]] = new[p]]
  /\ UNCHANGED <<type, new, public, memoryVars, torn>>

CreatePublic(p) ==
  /\ GoOn(p, "createPublic", "writePublic")
  /\ public' = [public EXCEPT ![type[p]] = Blank]
  /\ UNCHANGED <<type, new, private, memoryVars, torn>>

WritePublic(p) ==
  /\ GoOn(p, "writePublic", "readPrivate")
  /\ public' = [public EXCEPT ![type[p]] = new[p]]
  /\ UNCHANGED <<type, new, private, memoryVars, torn>>

(* The keys that are used are those read back. *)
ReadPrivate(p) ==
  /\ private[type[p]] # Absent
  /\ GoOn(p, "readPrivate", "readPublic")
  /\ signer' = [signer EXCEPT ![p][type[p]] = private[type[p]]]
  /\ UNCHANGED <<type, new, fileVars, checker, torn>>

ReadPublic(p) ==
  /\ public[type[p]] # Absent
  /\ checker' = [checker EXCEPT ![p][type[p]] = public[type[p]]]
  /\ GoOn(p, "readPublic", IF type[p] = "access" THEN "checkPrivate" ELSE "started")
  /\ type' = [type EXCEPT ![p] = "refresh"]
  /\ new' = [new EXCEPT ![p] = Absent]
  /\ UNCHANGED <<fileVars, signer, torn>>

(* The process stops, or an error of a file operation stops it. *)
Stop(p) ==
  /\ at[p] # "off"
  /\ at' = [at EXCEPT ![p] = "off"]
  /\ torn' = IF at[p] = "writePublic" THEN torn \union {type[p]} ELSE torn
  /\ new' = [new EXCEPT ![p] = Absent]
  /\ signer' = [signer EXCEPT ![p] = [t \in Types |-> Absent]]
  /\ checker' = [checker EXCEPT ![p] = [t \in Types |-> Absent]]
  /\ UNCHANGED <<type, fileVars, raced>>

Load(p) ==
  \/ CheckPrivate(p) \/ CheckPublic(p) \/ CreatePrivate(p) \/ WritePrivate(p)
  \/ CreatePublic(p) \/ WritePublic(p) \/ ReadPrivate(p) \/ ReadPublic(p)

KeyNext == \E p \in Processes : Start(p) \/ Load(p) \/ Stop(p)

KeySpec == KeyInit /\ [][KeyNext]_keyVars

-----------------------------------------------------------------------------
KeyTypeOK ==
  /\ at \in [Processes -> Looking \union {"off", "checkPrivate", "started"}]
  /\ type \in [Processes -> Types]
  /\ new \in [Processes -> Pairs \union {Absent}]
  /\ private \in [Types -> Values]
  /\ public \in [Types -> Values]
  /\ signer \in [Processes -> [Types -> Values]]
  /\ checker \in [Processes -> [Types -> Values]]
  /\ raced \in SUBSET Types
  /\ torn \in SUBSET Types

(* Processes that have started sign and check with one and the same pair,    *)
(* whoever generated it and wherever processes stopped before, unless two    *)
(* processes met while one generated, or one stopped in writing the public   *)
(* key: a file without content is taken for a key.                           *)
Intact == Types \ (raced \union torn)

KeysMatch ==
  \A p, q \in Processes : Started(p) /\ Started(q) =>
    \A t \in Intact : signer[p][t] \in Pairs /\ signer[p][t] = checker[q][t]

-----------------------------------------------------------------------------
(* The inductive invariant behind it.                                        *)

(* Nobody looks at the files of a type while another generates them, unless  *)
(* they meet.                                                                *)
MeetInv ==
  /\ \A p, q \in Processes :
       p # q /\ type[p] = type[q] /\ at[p] \in Generating /\ at[q] \in Looking =>
         type[p] \in raced
  /\ \A p \in Processes :
       /\ at[p] \in Generating \ {"createPrivate"} => new[p] \in Pairs
       /\ at[p] = "started" => type[p] = "refresh"

Whole(t) == private[t] \in Pairs /\ public[t] = private[t]

(* A public key is there only with its private key, or while it is written.  *)
FileInv ==
  \A t \in Intact :
    /\ \/ public[t] = Absent
       \/ Whole(t)
       \/ \E p \in Processes : type[p] = t /\ at[p] = "writePublic"
    /\ \A p \in Processes : type[p] = t =>
         /\ at[p] \in {"createPrivate", "writePrivate", "createPublic"} => public[t] = Absent
         /\ at[p] = "writePublic" => public[t] = Blank
         /\ at[p] \in {"createPublic", "writePublic"} => private[t] = new[p]

(* A process reads and keeps keys only of complete files. *)
Loaded(p, t) == Started(p) \/ (at[p] # "off" /\ type[p] = "refresh" /\ t = "access")

LoadInv ==
  \A p \in Processes, t \in Intact :
    /\ type[p] = t /\ at[p] \in {"readPrivate", "readPublic"} => Whole(t)
    /\ type[p] = t /\ at[p] = "readPublic" => signer[p][t] = private[t]
    /\ Loaded(p, t) => /\ Whole(t)
                       /\ signer[p][t] = private[t]
                       /\ checker[p][t] = private[t]

KeyInv == KeyTypeOK /\ MeetInv /\ FileInv /\ LoadInv
====

---- MODULE RepliesProofs ----
(***************************************************************************)
(* The invariants of Replies, for any requests, messages, conversations,   *)
(* users and HTTP results.                                                 *)
(*                                                                         *)
(* In this order: values and what trims makes of them, what the converters *)
(* make of them, the steps of requests, the documents and the answers.     *)
(***************************************************************************)
EXTENDS Replies, WellFoundedInduction, FiniteSetTheorems, TLAPS

(* Induction, over a set that has what is to be shown. *)
LEMMA UpFromZero ==
  ASSUME NEW S, 0 \in S, \A n \in Nat : n \in S => n + 1 \in S
  PROVE  Nat \subseteq S
<1> DEFINE T == Nat \ S
<1>1. SUFFICES ASSUME T # {} PROVE FALSE
  OBVIOUS
<1>2. PICK n \in T : \A i \in T : <<i, n>> \notin OpToRel(<, Nat)
  <2>1. T \subseteq Nat
    OBVIOUS
  <2> HIDE DEF T
  <2> QED BY <1>1, <2>1, WFMin, NatLessThanWellFounded
<1>3. n # 0 /\ n \in Nat /\ n - 1 \in Nat /\ n - 1 < n
  OBVIOUS
<1>4. <<n - 1, n>> \in OpToRel(<, Nat)
  BY <1>3 DEF OpToRel
<1>5. n - 1 \notin T
  BY <1>2, <1>4
<1> QED BY <1>3, <1>5

-----------------------------------------------------------------------------
(* The levels of a value: Level conforms to the equation it is written by.   *)

(* The levels to n that a function may be, any two of which agree. *)
LevelsTo(g, v, n) == g = [i \in 0 .. n |-> IF i = 0 THEN {v} ELSE Within(g[i - 1])]

LEMMA LevelsExist == ASSUME NEW v, NEW n \in Nat PROVE \E g : LevelsTo(g, v, n)
<1> DEFINE S == {i \in Nat : \E g : LevelsTo(g, v, i)}
<1>1. 0 \in S
  <2> DEFINE g == [i \in 0 .. 0 |-> {v}]
  <2>1. LevelsTo(g, v, 0)
    BY DEF LevelsTo
  <2> QED BY <2>1
<1>2. ASSUME NEW i \in Nat, i \in S PROVE i + 1 \in S
  <2>1. PICK g : LevelsTo(g, v, i)
    BY <1>2
  <2> DEFINE h == [j \in 0 .. i + 1 |-> IF j \in 0 .. i THEN g[j] ELSE Within(g[i])]
  <2>2. \A j \in 0 .. i : g[j] = IF j = 0 THEN {v} ELSE Within(g[j - 1])
    BY <2>1 DEF LevelsTo
  <2>3. \A j \in 0 .. i + 1 : h[j] = IF j = 0 THEN {v} ELSE Within(h[j - 1])
    <3> TAKE j \in 0 .. i + 1
    <3>1. CASE j \in 0 .. i
      <4>1. h[j] = g[j] /\ (j # 0 => h[j - 1] = g[j - 1])
        BY <3>1
      <4> HIDE DEF h
      <4> QED BY <3>1, <4>1, <2>2
    <3>2. CASE j = i + 1
      <4>1. h[j] = Within(g[i]) /\ h[j - 1] = g[i] /\ j # 0
        BY <3>2
      <4> HIDE DEF h
      <4> QED BY <4>1
    <3> QED BY <3>1, <3>2
  <2>4. h = [j \in 0 .. i + 1 |-> h[j]]
    OBVIOUS
  <2> HIDE DEF h
  <2>5. LevelsTo(h, v, i + 1)
    BY <2>3, <2>4 DEF LevelsTo
  <2> QED BY <2>5
<1> HIDE DEF S
<1>3. Nat \subseteq S
  BY <1>1, <1>2, UpFromZero
<1> QED BY <1>3 DEF S

LEMMA LevelsAgree ==
  ASSUME NEW v, NEW m \in Nat, NEW n \in Nat, m <= n, NEW g, NEW h,
         LevelsTo(g, v, m), LevelsTo(h, v, n)
  PROVE  g[m] = h[m]
<1> DEFINE S == {i \in Nat : i <= m => g[i] = h[i]}
<1>1. \A i \in 0 .. m : g[i] = IF i = 0 THEN {v} ELSE Within(g[i - 1])
  BY DEF LevelsTo
<1>2. \A i \in 0 .. m : h[i] = IF i = 0 THEN {v} ELSE Within(h[i - 1])
  <2>1. \A i \in 0 .. n : h[i] = IF i = 0 THEN {v} ELSE Within(h[i - 1])
    BY DEF LevelsTo
  <2>2. 0 .. m \subseteq 0 .. n
    OBVIOUS
  <2> QED BY <2>1, <2>2
<1>3. 0 \in S
  <2>1. 0 \in 0 .. m
    OBVIOUS
  <2> QED BY <2>1, <1>1, <1>2
<1>4. ASSUME NEW i \in Nat, i \in S PROVE i + 1 \in S
  <2> SUFFICES ASSUME i + 1 <= m PROVE g[i + 1] = h[i + 1]
    OBVIOUS
  <2>1. i + 1 \in 0 .. m /\ i + 1 # 0 /\ (i + 1) - 1 = i /\ g[i] = h[i]
    BY <1>4
  <2> HIDE DEF S
  <2> QED BY <1>1, <1>2, <2>1
<1> HIDE DEF S
<1>5. Nat \subseteq S
  BY <1>3, <1>4, UpFromZero
<1> QED BY <1>5 DEF S

(* The equation for levels: each has the children of the one above it. *)
LEMMA LevelDef ==
  ASSUME NEW v
  PROVE  /\ Level(v)[0] = {v}
         /\ \A n \in Nat : Level(v)[n + 1] = Within(Level(v)[n])
<1> DEFINE g(n) == CHOOSE g : LevelsTo(g, v, n)
           F == [n \in Nat |-> g(n)[n]]
<1>1. \A n \in Nat : LevelsTo(g(n), v, n)
  BY LevelsExist
<1>2. ASSUME NEW n \in Nat PROVE F[n] = IF n = 0 THEN {v} ELSE Within(F[n - 1])
  <2>1. \A i \in 0 .. n : g(n)[i] = IF i = 0 THEN {v} ELSE Within(g(n)[i - 1])
    <3> HIDE DEF g
    <3> QED BY <1>1 DEF LevelsTo
  <2>2. n # 0 => LevelsTo(g(n - 1), v, n - 1) /\ n - 1 \in Nat /\ n - 1 <= n
    <3>1. SUFFICES ASSUME n - 1 \in Nat PROVE LevelsTo(g(n - 1), v, n - 1)
      OBVIOUS
    <3> HIDE DEF g
    <3> QED BY <1>1, <3>1
  <2> HIDE DEF g
  <2>3. n # 0 => g(n - 1)[n - 1] = g(n)[n - 1]
    BY <1>1, <2>2, LevelsAgree
  <2>4. n \in 0 .. n
    OBVIOUS
  <2>5. F[n] = g(n)[n] /\ (n # 0 => F[n - 1] = g(n - 1)[n - 1])
    OBVIOUS
  <2> HIDE DEF F
  <2> QED BY <2>1, <2>3, <2>4, <2>5
<1>3. F = [n \in Nat |-> F[n]]
  OBVIOUS
<1> HIDE DEF F
<1>4. F = [n \in Nat |-> IF n = 0 THEN {v} ELSE Within(F[n - 1])]
  BY <1>2, <1>3
<1>5. Level(v) = [n \in Nat |-> IF n = 0 THEN {v} ELSE Within(Level(v)[n - 1])]
  BY <1>4 DEF Level
<1>6. ASSUME NEW n \in Nat PROVE Level(v)[n + 1] = Within(Level(v)[n])
  <2>1. n + 1 \in Nat /\ n + 1 # 0 /\ (n + 1) - 1 = n
    OBVIOUS
  <2>2. Level(v)[n + 1] = IF n + 1 = 0 THEN {v} ELSE Within(Level(v)[(n + 1) - 1])
    BY <1>5, <2>1
  <2> QED BY <2>1, <2>2
<1>7. Level(v)[0] = {v}
  BY <1>5
<1> QED BY <1>6, <1>7

(* A value is as deep as the deepest of its children, and one. *)
LEMMA LevelOfChildren ==
  ASSUME NEW v, NEW n \in Nat
  PROVE  Level(v)[n + 1] = UNION {Level(c)[n] : c \in Children(v)}
<1> DEFINE Q(i) == Level(v)[i + 1] = UNION {Level(c)[i] : c \in Children(v)}
           S == {i \in Nat : Q(i)}
<1>1. 0 \in S
  <2>1. Level(v)[0 + 1] = Within({v})
    BY LevelDef
  <2>2. UNION {Level(c)[0] : c \in Children(v)} = UNION {{c} : c \in Children(v)}
    BY LevelDef
  <2> QED BY <2>1, <2>2 DEF Within
<1>2. ASSUME NEW i \in Nat, i \in S PROVE i + 1 \in S
  <2>1. Level(v)[(i + 1) + 1] = Within(Level(v)[i + 1])
    BY LevelDef
  <2>2. \A c : Level(c)[i + 1] = Within(Level(c)[i])
    BY LevelDef
  <2>3. Level(v)[i + 1] = UNION {Level(c)[i] : c \in Children(v)}
    BY <1>2
  <2>4. Within(UNION {Level(c)[i] : c \in Children(v)}) = UNION {Within(Level(c)[i]) : c \in Children(v)}
    BY DEF Within
  <2>5. Q(i + 1)
    BY <2>1, <2>2, <2>3, <2>4
  <2> QED BY <2>5
<1> HIDE DEF S
<1>3. Nat \subseteq S
  BY <1>1, <1>2, UpFromZero
<1> QED BY <1>3 DEF S

-----------------------------------------------------------------------------
(* A value that has ended stays so. *)
LEMMA EndsLater ==
  ASSUME NEW v, NEW n \in Nat, NEW m \in Nat, n <= m, Level(v)[n] = {}
  PROVE  Level(v)[m] = {}
<1> DEFINE S == {i \in Nat : Level(v)[n + i] = {}}
<1>1. 0 \in S
  OBVIOUS
<1>2. ASSUME NEW i \in Nat, i \in S PROVE i + 1 \in S
  <2>1. n + (i + 1) = (n + i) + 1 /\ n + i \in Nat
    OBVIOUS
  <2>2. Level(v)[n + (i + 1)] = Within({})
    BY <1>2, <2>1, LevelDef
  <2> QED BY <2>2 DEF Within
<1> HIDE DEF S
<1>3. m - n \in S
  BY <1>1, <1>2, UpFromZero
<1> QED BY <1>3 DEF S

LEMMA EndsWithChildren ==
  ASSUME NEW v, NEW n \in Nat
  PROVE  Level(v)[n + 1] = {} <=> \A c \in Children(v) : Level(c)[n] = {}
BY LevelOfChildren

(* The levels of a part are among those of the whole, from where the part    *)
(* is.                                                                       *)
LEMMA LevelShift ==
  ASSUME NEW v, NEW k \in Nat, NEW w \in Level(v)[k], NEW n \in Nat
  PROVE  Level(w)[n] \subseteq Level(v)[k + n]
<1> DEFINE S == {i \in Nat : Level(w)[i] \subseteq Level(v)[k + i]}
<1>1. 0 \in S
  BY LevelDef
<1>2. ASSUME NEW i \in Nat, i \in S PROVE i + 1 \in S
  <2>1. k + (i + 1) = (k + i) + 1 /\ k + i \in Nat
    OBVIOUS
  <2>2. Level(v)[k + (i + 1)] = Within(Level(v)[k + i])
    BY <2>1, LevelDef
  <2>3. Level(w)[i + 1] = Within(Level(w)[i])
    BY LevelDef
  <2> QED BY <1>2, <2>2, <2>3 DEF Within
<1> HIDE DEF S
<1>3. n \in S
  BY <1>1, <1>2, UpFromZero
<1> QED BY <1>3 DEF S

(* Nested v: it ends within the bound. *)
Ends(v) == Level(v)[Depth + 1] = {}

LEMMA OwnPart == ASSUME NEW v PROVE v \in Parts(v)
<1>1. 0 \in 0 .. Depth
  BY DepthAssumption
<1> QED BY <1>1, LevelDef DEF Parts

(* What is in a part is in the whole, and ends no later. *)
LEMMA PartsOfPart ==
  ASSUME NEW v, Ends(v), NEW w \in Parts(v)
  PROVE  Parts(w) \subseteq Parts(v) /\ Ends(w)
<1>1. PICK k \in 0 .. Depth : w \in Level(v)[k]
  BY DEF Parts
<1>2. k \in Nat /\ Depth + 1 \in Nat
  BY DepthAssumption
<1>3. ASSUME NEW n \in Nat, k + n > Depth PROVE Level(w)[n] = {}
  <2>1. Level(v)[k + n] = {}
    <3>1. Depth + 1 <= k + n /\ k + n \in Nat
      BY <1>2, <1>3, DepthAssumption
    <3> QED BY <1>2, <3>1, EndsLater DEF Ends
  <2>2. Level(w)[n] \subseteq Level(v)[k + n]
    BY <1>1, <1>2, LevelShift
  <2> QED BY <2>1, <2>2
<1>4. Ends(w)
  BY <1>2, <1>3, DepthAssumption DEF Ends
<1>5. ASSUME NEW n \in 0 .. Depth, NEW p \in Level(w)[n] PROVE p \in Parts(v)
  <2>1. n \in Nat /\ k + n <= Depth
    BY <1>2, <1>3, <1>5, DepthAssumption
  <2>2. p \in Level(v)[k + n]
    BY <1>1, <1>2, <1>5, <2>1, LevelShift
  <2>3. k + n \in 0 .. Depth
    BY <1>2, <2>1
  <2> QED BY <2>2, <2>3 DEF Parts
<1>6. Parts(w) \subseteq Parts(v)
  BY <1>5 DEF Parts
<1> QED BY <1>4, <1>6

LEMMA ChildrenAreParts ==
  ASSUME NEW v, Ends(v), NEW c \in Children(v)
  PROVE  c \in Parts(v) /\ Ends(c)
<1>1. c \in Level(v)[1]
  <2>1. Level(v)[0 + 1] = Within({v})
    BY LevelDef
  <2> QED BY <2>1 DEF Within
<1>2. 1 <= Depth
  <2>1. SUFFICES ASSUME Depth = 0 PROVE FALSE
    BY DepthAssumption
  <2> QED BY <1>1, <2>1 DEF Ends
<1>3. c \in Parts(v)
  BY <1>1, <1>2, DepthAssumption DEF Parts
<1> QED BY <1>3, PartsOfPart

LEMMA PartsAreValues ==
  ASSUME NEW v, IsValue(v), NEW w \in Parts(v)
  PROVE  IsValue(w)
BY PartsOfPart DEF IsValue, Ends

LEMMA ChildrenAreValues ==
  ASSUME NEW v, IsValue(v), NEW c \in Children(v)
  PROVE  IsValue(c)
BY PartsAreValues, ChildrenAreParts DEF IsValue, Ends

-----------------------------------------------------------------------------
(* trims: Trims conforms to the equation it is written by. *)

LEMMA KeyOfKept ==
  ASSUME NEW K, NEW options, NEW k \in KeysKept(K, options)
  PROVE  KeyOf(k, K) \in K
BY DEF KeysKept, KeyOf

LEMMA ItemIsChild ==
  ASSUME NEW v, Is("array", v), NEW i \in DOMAIN v.array
  PROVE  v.array[i] \in Children(v)
BY DEF Children, ToSet, Is

LEMMA FieldIsChild ==
  ASSUME NEW v, Is("object", v), NEW k \in DOMAIN v.object
  PROVE  v.object[k] \in Children(v)
BY DEF Children, Is

(* One call looks at nothing but what was made of the children. *)
LEMMA TrimmedByChildren ==
  ASSUME NEW v, NEW options, NEW t, NEW u, \A c \in Children(v) : t[c] = u[c]
  PROVE  Trimmed(v, t, options) = Trimmed(v, u, options)
<1>1. CASE Is("array", v)
  <2> DEFINE kept(f) == {i \in DOMAIN v.array : Stays(f[v.array[i]], options)}
  <2>1. \A i \in DOMAIN v.array : t[v.array[i]] = u[v.array[i]]
    BY <1>1, ItemIsChild
  <2>2. kept(t) = kept(u)
    BY <2>1
  <2>3. [i \in kept(t) |-> t[v.array[i]]] = [i \in kept(u) |-> u[v.array[i]]]
    BY <2>1, <2>2
  <2>4. \A f : Trimmed(v, f, options) = Array(At([i \in kept(f) |-> f[v.array[i]]], kept(f)))
    BY <1>1 DEF Trimmed, Is
  <2> HIDE DEF kept
  <2> QED BY <2>2, <2>3, <2>4
<1>2. CASE Is("object", v)
  <2> DEFINE K == DOMAIN v.object
             kept(f) == {k \in KeysKept(K, options) : Stays(f[v.object[KeyOf(k, K)]], options)}
  <2>1. \A k \in KeysKept(K, options) : t[v.object[KeyOf(k, K)]] = u[v.object[KeyOf(k, K)]]
    BY <1>2, KeyOfKept, FieldIsChild
  <2>2. kept(t) = kept(u)
    BY <2>1
  <2>3. [k \in kept(t) |-> t[v.object[KeyOf(k, K)]]] = [k \in kept(u) |-> u[v.object[KeyOf(k, K)]]]
    BY <2>1, <2>2
  <2>4. \A f : Trimmed(v, f, options) = Object([k \in kept(f) |-> f[v.object[KeyOf(k, K)]]])
    BY <1>2 DEF Trimmed, Is
  <2> HIDE DEF kept
  <2> QED BY <2>2, <2>3, <2>4
<1>3. CASE ~Is("array", v) /\ ~Is("object", v)
  BY <1>3 DEF Trimmed, Is
<1> QED BY <1>1, <1>2, <1>3

Trimming(v, options) == CHOOSE t : t = [w \in Parts(v) |-> Trimmed(w, t, options)]

(* The parts of v that end within n levels. *)
Low(v, n) == {w \in Parts(v) : Level(w)[n] = {}}

(* The recursive function is there: built up from the parts that end         *)
(* first.                                                                    *)
LEMMA TrimmingExists ==
  ASSUME NEW v, NEW options, Ends(v)
  PROVE  \E t : t = [w \in Parts(v) |-> Trimmed(w, t, options)]
<1> DEFINE Q(t, n) == t = [w \in Low(v, n) |-> Trimmed(w, t, options)]
           S == {n \in Nat : \E t : Q(t, n)}
<1>1. 0 \in S
  <2>1. Low(v, 0) = {}
    BY LevelDef DEF Low
  <2> DEFINE t == [w \in {} |-> w]
  <2>2. Q(t, 0)
    BY <2>1
  <2> QED BY <2>2
<1>2. ASSUME NEW n \in Nat, n \in S PROVE n + 1 \in S
  <2>1. PICK t : Q(t, n)
    BY <1>2
  <2> DEFINE u == [w \in Low(v, n + 1) |-> Trimmed(w, t, options)]
  <2>2. ASSUME NEW w \in Low(v, n + 1), NEW c \in Children(w) PROVE u[c] = t[c]
    <3>1. c \in Parts(v)
      <4>1. w \in Parts(v) /\ Ends(w)
        BY PartsOfPart DEF Low
      <4> QED BY <4>1, ChildrenAreParts, PartsOfPart
    <3>2. Level(c)[n] = {} /\ Level(c)[n + 1] = {}
      <4>1. Level(c)[n] = {}
        BY EndsWithChildren DEF Low
      <4> QED BY <4>1, EndsLater
    <3>3. c \in Low(v, n) /\ c \in Low(v, n + 1)
      BY <3>1, <3>2 DEF Low
    <3>4. t[c] = Trimmed(c, t, options)
      BY <2>1, <3>3
    <3> QED BY <3>3, <3>4
  <2>3. \A w \in Low(v, n + 1) : u[w] = Trimmed(w, u, options)
    <3> TAKE w \in Low(v, n + 1)
    <3>1. \A c \in Children(w) : t[c] = u[c]
      BY <2>2
    <3>2. u[w] = Trimmed(w, t, options)
      OBVIOUS
    <3> HIDE DEF u
    <3> QED BY <3>1, <3>2, TrimmedByChildren
  <2>4. u = [w \in Low(v, n + 1) |-> u[w]]
    OBVIOUS
  <2> HIDE DEF u
  <2>5. Q(u, n + 1)
    BY <2>3, <2>4
  <2> HIDE DEF Q
  <2> QED BY <2>5
<1> HIDE DEF S
<1>3. Depth + 1 \in S
  BY <1>1, <1>2, UpFromZero, DepthAssumption
<1>4. PICK t : Q(t, Depth + 1)
  BY <1>3 DEF S
<1>5. Low(v, Depth + 1) = Parts(v)
  BY PartsOfPart DEF Low, Ends
<1> QED BY <1>4, <1>5

LEMMA TrimmingDef ==
  ASSUME NEW v, NEW options, Ends(v)
  PROVE  /\ \A w \in Parts(v) : Trimming(v, options)[w] = Trimmed(w, Trimming(v, options), options)
         /\ Trims(v, options) = Trimming(v, options)[v]
<1>1. Trimming(v, options) = [w \in Parts(v) |-> Trimmed(w, Trimming(v, options), options)]
  BY TrimmingExists DEF Trimming
<1>2. Trims(v, options) = Trimming(v, options)[v]
  BY DEF Trims, Trimming
<1> DEFINE t == Trimming(v, options)
<1>3. t = [w \in Parts(v) |-> Trimmed(w, t, options)]
  BY <1>1
<1> HIDE DEF t
<1>4. \A w \in Parts(v) : t[w] = Trimmed(w, t, options)
  BY <1>3
<1> QED BY <1>2, <1>4 DEF t

(* What becomes of a part does not depend on what it is a part of. *)
LEMMA TrimmingOfPart ==
  ASSUME NEW options, NEW u, Ends(u), NEW w \in Parts(u)
  PROVE  Trimming(u, options)[w] = Trims(w, options)
<1> DEFINE Q(n) == \A v : Ends(v) => \A p \in Low(v, n) : Trimming(v, options)[p] = Trims(p, options)
           S == {n \in Nat : Q(n)}
<1>1. 0 \in S
  BY LevelDef DEF Low
<1>2. ASSUME NEW n \in Nat, n \in S PROVE n + 1 \in S
  <2>1. ASSUME NEW v, Ends(v), NEW p \in Low(v, n + 1)
        PROVE  Trimming(v, options)[p] = Trims(p, options)
    <3>1. p \in Parts(v) /\ Ends(p) /\ p \in Parts(p)
      BY <2>1, PartsOfPart, OwnPart DEF Low
    <3>2. ASSUME NEW c \in Children(p)
          PROVE  Trimming(v, options)[c] = Trimming(p, options)[c]
      <4>1. c \in Parts(p) /\ c \in Parts(v)
        BY <2>1, <3>1, ChildrenAreParts, PartsOfPart
      <4>2. Level(c)[n] = {}
        BY EndsWithChildren DEF Low
      <4>3. c \in Low(v, n) /\ c \in Low(p, n)
        BY <4>1, <4>2 DEF Low
      <4> QED BY <1>2, <2>1, <3>1, <4>3
    <3>3. Trimming(v, options)[p] = Trimmed(p, Trimming(v, options), options)
      BY <2>1, <3>1, TrimmingDef
    <3>4. Trims(p, options) = Trimmed(p, Trimming(p, options), options)
      BY <3>1, TrimmingDef
    <3> QED BY <3>2, <3>3, <3>4, TrimmedByChildren
  <2> QED BY <2>1
<1> HIDE DEF S
<1>3. Depth + 1 \in S
  BY <1>1, <1>2, UpFromZero, DepthAssumption
<1>4. w \in Low(u, Depth + 1)
  BY PartsOfPart DEF Low, Ends
<1> QED BY <1>3, <1>4 DEF S

(* The recursion of the code. *)
LEMMA TrimsDef ==
  ASSUME NEW v, NEW options, Ends(v)
  PROVE  Trims(v, options) = Trimmed(v, [c \in Children(v) |-> Trims(c, options)], options)
<1>1. Trims(v, options) = Trimmed(v, Trimming(v, options), options)
  BY OwnPart, TrimmingDef
<1>2. \A c \in Children(v) : Trimming(v, options)[c] = Trims(c, options)
  BY ChildrenAreParts, TrimmingOfPart
<1> DEFINE t == [c \in Children(v) |-> Trims(c, options)]
<1>3. \A c \in Children(v) : Trimming(v, options)[c] = t[c]
  BY <1>2
<1> HIDE DEF t
<1>4. Trims(v, options) = Trimmed(v, t, options)
  BY <1>1, <1>3, TrimmedByChildren
<1> QED BY <1>4 DEF t

-----------------------------------------------------------------------------
(* The places of an array: Nth gives one of them, and of all of them the one *)
(* it is asked for.                                                          *)
LEMMA FewerBelow ==
  ASSUME NEW I \in SUBSET Nat, IsFiniteSet(I), NEW i \in I, NEW k \in I, i < k
  PROVE  Cardinality({j \in I : j < i}) < Cardinality({j \in I : j < k})
<1> DEFINE A == {j \in I : j < i}
           B == {j \in I : j < k}
<1>1. IsFiniteSet(B) /\ A \subseteq B /\ A # B
  <2>1. IsFiniteSet(B)
    BY FS_Subset
  <2>2. i \in B /\ i \notin A
    OBVIOUS
  <2>3. ASSUME NEW j \in A PROVE j \in B
    <3>1. i \in Nat /\ j \in Nat /\ k \in Nat /\ j < i /\ j \in I
      OBVIOUS
    <3> QED BY <3>1
  <2> HIDE DEF A, B
  <2> QED BY <2>1, <2>2, <2>3
<1> HIDE DEF A, B
<1>2. Cardinality(A) \in Nat /\ Cardinality(B) \in Nat /\ Cardinality(A) <= Cardinality(B)
      /\ (Cardinality(A) = Cardinality(B) => A = B) /\ IsFiniteSet(A)
  BY <1>1, FS_Subset, FS_CardinalityType
<1> QED BY <1>1, <1>2 DEF A, B

(* By counting: of n places, none can be missing among the ranks 0 to n -    *)
(* 1.                                                                        *)
LEMMA NthInSet ==
  ASSUME NEW I \in SUBSET Nat, IsFiniteSet(I), NEW j \in 1 .. Cardinality(I)
  PROVE  Nth(I, j) \in I /\ Cardinality({k \in I : k < Nth(I, j)}) = j - 1
<1> DEFINE n == Cardinality(I)
           rank == [i \in I |-> Cardinality({k \in I : k < i})]
           T == (0 .. n - 1) \ {j - 1}
<1>1. n \in Nat
  BY FS_CardinalityType
<1>2. SUFFICES ASSUME \A i \in I : rank[i] # j - 1 PROVE FALSE
  BY DEF Nth
<1>3. ASSUME NEW i \in I PROVE rank[i] \in 0 .. n - 1
  <2> DEFINE A == {k \in I : k < i}
  <2>1. i \in I /\ i \notin A /\ A \subseteq I
    OBVIOUS
  <2> HIDE DEF A
  <2>2. IsFiniteSet(A) /\ Cardinality(A) <= n /\ (Cardinality(A) = n => A = I)
    BY <2>1, FS_Subset
  <2>3. Cardinality(A) \in Nat
    BY <2>2, FS_CardinalityType
  <2>4. rank[i] = Cardinality(A)
    BY DEF A
  <2> HIDE DEF rank, n
  <2> QED BY <1>1, <2>1, <2>2, <2>3, <2>4
<1>4. rank \in [I -> T]
  BY <1>2, <1>3
<1>5. IsFiniteSet(0 .. n - 1) /\ Cardinality(0 .. n - 1) = n
  <2>1. 0 \in Int /\ n - 1 \in Int
    BY <1>1
  <2>2. IsFiniteSet(0 .. n - 1) /\ Cardinality(0 .. n - 1) = IF 0 > n - 1 THEN 0 ELSE (n - 1) - 0 + 1
    BY <2>1, FS_Interval
  <2> HIDE DEF n
  <2> QED BY <1>1, <2>2
<1>6. IsFiniteSet(T) /\ Cardinality(T) = n - 1
  <2>1. j - 1 \in 0 .. n - 1
    BY <1>1
  <2>2. IsFiniteSet((0 .. n - 1) \ {j - 1}) /\ Cardinality((0 .. n - 1) \ {j - 1}) = Cardinality(0 .. n - 1) - 1
    <3> DEFINE D == 0 .. n - 1
    <3> HIDE DEF D
    <3>1. IsFiniteSet(D) /\ j - 1 \in D
      BY <1>5, <2>1 DEF D
    <3>2. IsFiniteSet(D \ {j - 1}) /\ Cardinality(D \ {j - 1}) = Cardinality(D) - 1
      BY <3>1, FS_RemoveElement
    <3> QED BY <3>2 DEF D
  <2> QED BY <1>5, <2>2
<1>7. \E x, y \in I : x # y /\ rank[x] = rank[y]
  <2>1. Cardinality(T) < n
    BY <1>1, <1>6
  <2> HIDE DEF rank, T
  <2> QED BY <1>4, <1>6, <2>1, FS_PigeonHole
<1>8. PICK x \in I, y \in I : x # y /\ rank[x] = rank[y]
  BY <1>7
<1>9. rank[x] # rank[y]
  <2>1. x \in Nat /\ y \in Nat /\ (x < y \/ y < x)
    BY <1>8
  <2>2. rank[x] \in Int /\ rank[y] \in Int
    BY <1>3
  <2>3. rank[x] = Cardinality({k \in I : k < x}) /\ rank[y] = Cardinality({k \in I : k < y})
    OBVIOUS
  <2>4. x < y => rank[x] < rank[y]
    BY <2>3, FewerBelow
  <2>5. y < x => rank[y] < rank[x]
    BY <2>3, FewerBelow
  <2> HIDE DEF rank
  <2> QED BY <2>1, <2>2, <2>4, <2>5
<1> QED BY <1>8, <1>9

LEMMA CountTo == ASSUME NEW n \in Nat PROVE IsFiniteSet(1 .. n) /\ Cardinality(1 .. n) = n
<1>1. IsFiniteSet(1 .. n) /\ Cardinality(1 .. n) = IF 1 > n THEN 0 ELSE n - 1 + 1
  BY FS_Interval
<1> QED BY <1>1

LEMMA NthOfAll ==
  ASSUME NEW n \in Nat, NEW j \in 1 .. n
  PROVE  Nth(1 .. n, j) = j
<1>1. \A m \in Nat : IsFiniteSet(1 .. m) /\ Cardinality(1 .. m) = m
  BY CountTo
<1> DEFINE i == Nth(1 .. n, j)
<1>2. i \in 1 .. n /\ Cardinality({k \in 1 .. n : k < i}) = j - 1
  <2> DEFINE I == 1 .. n
  <2>1. I \in SUBSET Nat /\ IsFiniteSet(I) /\ j \in 1 .. Cardinality(I)
    BY <1>1
  <2> HIDE DEF I
  <2>2. Nth(I, j) \in I /\ Cardinality({k \in I : k < Nth(I, j)}) = j - 1
    BY <2>1, NthInSet
  <2> QED BY <2>2 DEF I
<1> HIDE DEF i
<1>3. {k \in 1 .. n : k < i} = 1 .. (i - 1) /\ i - 1 \in Nat
  BY <1>2
<1>4. i - 1 = j - 1
  BY <1>1, <1>2, <1>3
<1> QED BY <1>2, <1>4 DEF i

-----------------------------------------------------------------------------
(* What trims makes of a value. *)

LEMMA TrimsOfLeaf ==
  ASSUME NEW v, NEW options, Ends(v), ~Is("array", v), ~Is("object", v)
  PROVE  Trims(v, options) = IF Is("padded", v) THEN Text(v.padded) ELSE ConvertObjectIdToString(v)
BY TrimsDef DEF Trimmed, Is

(* The places of the items that stay. *)
Remaining(v, options) == {i \in DOMAIN v.array : Stays(Trims(v.array[i], options), options)}

LEMMA KeptPlaces ==
  ASSUME NEW v, NEW options, IsValue(v), Is("array", v)
  PROVE  /\ v.array \in Seq(Children(v))
         /\ Cardinality(Remaining(v, options)) \in Nat
         /\ \A j \in 1 .. Cardinality(Remaining(v, options)) : Nth(Remaining(v, options), j) \in Remaining(v, options)
<1>1. v.array \in Seq(ToSet(v.array)) /\ Children(v) = ToSet(v.array)
  BY OwnPart DEF IsValue, Children, Is
<1>2. PICK n \in Nat : DOMAIN v.array = 1 .. n
  BY <1>1
<1>3. IsFiniteSet(1 .. n)
  BY CountTo
<1>4. Remaining(v, options) \in SUBSET Nat /\ IsFiniteSet(Remaining(v, options))
  <2>1. Remaining(v, options) \subseteq 1 .. n
    BY <1>2 DEF Remaining
  <2> QED BY <1>3, <2>1, FS_Subset
<1> QED BY <1>1, <1>4, NthInSet, FS_CardinalityType

LEMMA TrimsOfArray ==
  ASSUME NEW v, NEW options, IsValue(v), Is("array", v)
  PROVE  Trims(v, options) =
           Array([j \in 1 .. Cardinality(Remaining(v, options)) |-> Trims(v.array[Nth(Remaining(v, options), j)], options)])
<1> DEFINE t == [c \in Children(v) |-> Trims(c, options)]
           kept == Remaining(v, options)
<1>1. \A i \in DOMAIN v.array : t[v.array[i]] = Trims(v.array[i], options)
  BY ItemIsChild
<1>2. Trims(v, options) = Trimmed(v, t, options)
  BY TrimsDef DEF IsValue, Ends
<1> HIDE DEF t
<1>3. {i \in DOMAIN v.array : Stays(t[v.array[i]], options)} = kept
  BY <1>1 DEF Remaining
<1>4. Trims(v, options) = Array(At([i \in kept |-> t[v.array[i]]], kept))
  BY <1>2, <1>3 DEF Trimmed, Is
<1>5. [i \in kept |-> t[v.array[i]]] = [i \in kept |-> Trims(v.array[i], options)]
  BY <1>1 DEF Remaining
<1>6. \A j \in 1 .. Cardinality(kept) : Nth(kept, j) \in kept
  BY KeptPlaces
<1> HIDE DEF kept
<1>7. At([i \in kept |-> Trims(v.array[i], options)], kept)
        = [j \in 1 .. Cardinality(kept) |-> Trims(v.array[Nth(kept, j)], options)]
  BY <1>6 DEF At
<1>8. Trims(v, options) = Array([j \in 1 .. Cardinality(kept) |-> Trims(v.array[Nth(kept, j)], options)])
  BY <1>4, <1>5, <1>7
<1> QED BY <1>8 DEF kept

LEMMA TrimsOfObject ==
  ASSUME NEW v, NEW options, Ends(v), Is("object", v)
  PROVE  LET K == DOMAIN v.object
             kept == {k \in KeysKept(K, options) : Stays(Trims(v.object[KeyOf(k, K)], options), options)}
         IN  Trims(v, options) = Object([k \in kept |-> Trims(v.object[KeyOf(k, K)], options)])
<1> DEFINE t == [c \in Children(v) |-> Trims(c, options)]
           K == DOMAIN v.object
           kept == {k \in KeysKept(K, options) : Stays(Trims(v.object[KeyOf(k, K)], options), options)}
<1>1. \A k \in KeysKept(K, options) : t[v.object[KeyOf(k, K)]] = Trims(v.object[KeyOf(k, K)], options)
  BY KeyOfKept, FieldIsChild
<1>2. Trims(v, options) = Trimmed(v, t, options)
  BY TrimsDef
<1> HIDE DEF t
<1>3. {k \in KeysKept(K, options) : Stays(t[v.object[KeyOf(k, K)]], options)} = kept
  BY <1>1
<1>4. Trims(v, options) = Object([k \in kept |-> t[v.object[KeyOf(k, K)]]])
  BY <1>2, <1>3 DEF Trimmed, Is
<1>5. [k \in kept |-> t[v.object[KeyOf(k, K)]]] = [k \in kept |-> Trims(v.object[KeyOf(k, K)], options)]
  BY <1>1
<1> QED BY <1>4, <1>5

LEMMA TrimsKind ==
  ASSUME NEW v, NEW options, IsValue(v)
  PROVE  /\ Is("array", Trims(v, options)) <=> Is("array", v)
         /\ Is("object", Trims(v, options)) <=> Is("object", v)
<1>1. CASE Is("array", v)
  BY <1>1, TrimsOfArray DEF Is, Array
<1>2. CASE Is("object", v)
  <2>1. PICK f : Trims(v, options) = Object(f)
    BY <1>2, TrimsOfObject DEF IsValue, Ends
  <2> QED BY <1>2, <2>1 DEF Is, Object
<1>3. CASE ~Is("array", v) /\ ~Is("object", v)
  BY <1>3, TrimsOfLeaf DEF IsValue, Ends, Is, Text, ConvertObjectIdToString
<1> QED BY <1>1, <1>2, <1>3

-----------------------------------------------------------------------------
(* Each child of what trims makes is what it makes of a child, and stays.    *)
LEMMA ChildrenOfTrims ==
  ASSUME NEW v, NEW options, IsValue(v), NEW p \in Children(Trims(v, options))
  PROVE  Stays(p, options) /\ \E c \in Children(v) : p = Trims(c, options)
<1> DEFINE T == Trims(v, options)
<1>1. CASE Is("array", v)
  <2> DEFINE kept == Remaining(v, options)
             s == [j \in 1 .. Cardinality(kept) |-> Trims(v.array[Nth(kept, j)], options)]
  <2>1. T = Array(s)
    BY <1>1, TrimsOfArray
  <2>2. Children(T) = ToSet(s)
    BY <2>1 DEF Children, Is, Array
  <2>3. PICK j \in 1 .. Cardinality(kept) : p = s[j]
    BY <2>2 DEF ToSet
  <2>4. Nth(kept, j) \in kept /\ p = Trims(v.array[Nth(kept, j)], options)
    BY <1>1, <2>3, KeptPlaces
  <2>5. v.array[Nth(kept, j)] \in Children(v)
    BY <1>1, <2>4, ItemIsChild DEF Remaining
  <2> QED BY <2>4, <2>5 DEF Remaining
<1>2. CASE Is("object", v)
  <2> DEFINE K == DOMAIN v.object
             kept == {k \in KeysKept(K, options) : Stays(Trims(v.object[KeyOf(k, K)], options), options)}
             f == [k \in kept |-> Trims(v.object[KeyOf(k, K)], options)]
  <2>1. T = Object(f)
    BY <1>2, TrimsOfObject DEF IsValue, Ends
  <2>2. Children(T) = {f[k] : k \in kept}
    <3>1. DOMAIN f = kept
      OBVIOUS
    <3> HIDE DEF f, kept, T
    <3> QED BY <2>1, <3>1 DEF Children, Is, Object
  <2>3. PICK k \in kept : p = Trims(v.object[KeyOf(k, K)], options)
    BY <2>2
  <2>4. v.object[KeyOf(k, K)] \in Children(v)
    BY <1>2, KeyOfKept, FieldIsChild
  <2> QED BY <2>3, <2>4
<1>3. CASE ~Is("array", v) /\ ~Is("object", v)
  <2>1. T = v \/ \E s : T = Text(s)
    BY <1>3, TrimsOfLeaf DEF IsValue, Ends, ConvertObjectIdToString
  <2>2. ~Is("array", T) /\ ~Is("object", T)
    BY <1>3, <2>1 DEF Is, Text
  <2> QED BY <2>2 DEF Children
<1> QED BY <1>1, <1>2, <1>3

(* Level by level, nothing is in the trimmed value but trimmed parts that    *)
(* stay.                                                                     *)
LEMMA LevelOfTrims ==
  ASSUME NEW v, NEW options, IsValue(v), NEW n \in Nat
  PROVE  \A p \in Level(Trims(v, options))[n] :
           /\ \E w \in Level(v)[n] : p = Trims(w, options)
           /\ n = 0 \/ Stays(p, options)
<1> DEFINE Q(i) == \A p \in Level(Trims(v, options))[i] :
                     /\ \E w \in Level(v)[i] : p = Trims(w, options)
                     /\ i = 0 \/ Stays(p, options)
           S == {i \in Nat : Q(i)}
<1>1. 0 \in S
  BY LevelDef
<1>2. ASSUME NEW i \in Nat, i \in S PROVE i + 1 \in S
  <2>1. ASSUME NEW p \in Level(Trims(v, options))[i + 1]
        PROVE  Stays(p, options) /\ \E w \in Level(v)[i + 1] : p = Trims(w, options)
    <3>1. PICK q \in Level(Trims(v, options))[i] : p \in Children(q)
      BY LevelDef DEF Within
    <3>2. PICK w \in Level(v)[i] : q = Trims(w, options)
      BY <1>2
    <3>3. IsValue(w)
      <4>1. i <= Depth
        <5>1. SUFFICES ASSUME i > Depth PROVE FALSE
          BY DepthAssumption
        <5>2. Level(v)[i] = {}
          BY <5>1, EndsLater, DepthAssumption DEF IsValue
        <5> QED BY <3>2, <5>2
      <4>2. w \in Parts(v)
        BY <3>2, <4>1, DepthAssumption DEF Parts
      <4> QED BY <4>2, PartsAreValues
    <3>4. PICK c \in Children(w) : Stays(p, options) /\ p = Trims(c, options)
      BY <3>1, <3>2, <3>3, ChildrenOfTrims
    <3>5. c \in Level(v)[i + 1]
      BY <3>2, <3>4, LevelDef DEF Within
    <3> QED BY <3>4, <3>5
  <2>2. Q(i + 1)
    BY <2>1
  <2> QED BY <2>2
<1> HIDE DEF S
<1>3. n \in S
  BY <1>1, <1>2, UpFromZero
<1> QED BY <1>3 DEF S

LEMMA PartsOfTrims ==
  ASSUME NEW v, NEW options, IsValue(v)
  PROVE  /\ Ends(Trims(v, options))
         /\ \A p \in Parts(Trims(v, options)) :
              /\ \E w \in Parts(v) : p = Trims(w, options)
              /\ p = Trims(v, options) \/ Stays(p, options)
<1> DEFINE T == Trims(v, options)
<1>1. Ends(T)
  BY LevelOfTrims, DepthAssumption DEF IsValue, Ends
<1>2. ASSUME NEW n \in 0 .. Depth, NEW p \in Level(T)[n]
      PROVE  (\E w \in Parts(v) : p = Trims(w, options)) /\ (p = T \/ Stays(p, options))
  <2>1. n \in Nat
    BY DepthAssumption
  <2>2. (\E w \in Level(v)[n] : p = Trims(w, options)) /\ (n = 0 \/ Stays(p, options))
    BY <1>2, <2>1, LevelOfTrims
  <2>3. n = 0 => p = T
    BY <1>2, LevelDef
  <2> QED BY <1>2, <2>2, <2>3 DEF Parts
<1>3. \A p \in Parts(T) : \E n \in 0 .. Depth : p \in Level(T)[n]
  BY DEF Parts
<1> QED BY <1>1, <1>2, <1>3

LEMMA TrimsIsValue ==
  ASSUME NEW v, NEW options, IsValue(v)
  PROVE  IsValue(Trims(v, options))
<1>1. ASSUME NEW w, IsValue(w), Is("array", Trims(w, options))
      PROVE  Trims(w, options).array \in Seq(ToSet(Trims(w, options).array))
  <2>1. Is("array", w)
    BY <1>1, TrimsKind
  <2> DEFINE n == Cardinality(Remaining(w, options))
             s == [j \in 1 .. n |-> Trims(w.array[Nth(Remaining(w, options), j)], options)]
  <2>2. Trims(w, options) = Array(s)
    BY <1>1, <2>1, TrimsOfArray
  <2>3. n \in Nat
    BY <1>1, <2>1, KeptPlaces
  <2>4. s \in Seq(ToSet(s))
    <3>1. \A j \in 1 .. n : s[j] \in ToSet(s)
      BY DEF ToSet
    <3>2. s = [j \in 1 .. n |-> s[j]]
      OBVIOUS
    <3> HIDE DEF s, n
    <3> QED BY <2>3, <3>1, <3>2
  <2> QED BY <2>2, <2>4 DEF Array
<1>2. ASSUME NEW p \in Parts(Trims(v, options)), Is("array", p) PROVE p.array \in Seq(ToSet(p.array))
  <2>1. PICK w \in Parts(v) : p = Trims(w, options)
    BY PartsOfTrims
  <2> QED BY <1>1, <1>2, <2>1, PartsAreValues
<1> QED BY <1>2, PartsOfTrims DEF IsValue, Ends

(* No key that is excluded stays, and _id is gone. *)
LEMMA TrimsKeys ==
  ASSUME NEW v, NEW options, IsValue(v), Is("object", Trims(v, options)),
         NEW k \in DOMAIN Trims(v, options).object
  PROVE  k = "id" \/ (k # "_id" /\ k \notin options.exclude /\ ~(options.underscored /\ k \in Underscored))
<1>1. Is("object", v)
  BY TrimsKind
<1> DEFINE K == DOMAIN v.object
           kept == {j \in KeysKept(K, options) : Stays(Trims(v.object[KeyOf(j, K)], options), options)}
<1>2. Trims(v, options) = Object([j \in kept |-> Trims(v.object[KeyOf(j, K)], options)])
  BY <1>1, TrimsOfObject DEF IsValue, Ends
<1>3. k \in KeysKept(K, options)
  BY <1>2 DEF Object
<1> QED BY <1>3 DEF KeysKept

(* Trimming what is trimmed changes nothing, unless id is to be excluded. *)
LEMMA TrimmedOfTrimmed ==
  ASSUME NEW v, NEW options, IsValue(v), "id" \notin options.exclude,
         \A c \in Children(Trims(v, options)) : Trims(c, options) = c
  PROVE  Trims(Trims(v, options), options) = Trims(v, options)
<1> DEFINE T == Trims(v, options)
<1>1. IsValue(T)
  BY TrimsIsValue
<1>2. \A c \in Children(T) : Stays(c, options)
  BY ChildrenOfTrims
<1>3. CASE Is("array", v)
  <2> DEFINE s == [j \in 1 .. Cardinality(Remaining(v, options)) |-> Trims(v.array[Nth(Remaining(v, options), j)], options)]
  <2>1. T = Array(s)
    BY <1>3, TrimsOfArray
  <2> HIDE DEF s, T
  <2>2. Is("array", T) /\ T.array = s
    BY <2>1 DEF Array, Is
  <2>3. s \in Seq(Children(T))
    BY <1>1, <2>2, KeptPlaces
  <2>4. PICK n \in Nat : DOMAIN s = 1 .. n
    BY <2>3
  <2>5. Remaining(T, options) = 1 .. n
    BY <1>2, <2>2, <2>3, <2>4 DEF Remaining, T
  <2>6. Cardinality(1 .. n) = n
    BY CountTo
  <2>7. \A j \in 1 .. n : Trims(s[Nth(1 .. n, j)], options) = s[j]
    <3>1. \A j \in 1 .. n : s[j] \in Children(T)
      BY <2>3, <2>4
    <3> QED BY <3>1, NthOfAll DEF T
  <2>8. Trims(T, options) = Array([j \in 1 .. n |-> Trims(s[Nth(1 .. n, j)], options)])
    BY <1>1, <2>2, <2>5, <2>6, TrimsOfArray
  <2>9. s = [j \in 1 .. n |-> s[j]]
    BY <2>3, <2>4
  <2>10. [j \in 1 .. n |-> Trims(s[Nth(1 .. n, j)], options)] = [j \in 1 .. n |-> s[j]]
    BY <2>7
  <2>11. Trims(T, options) = T
    BY <2>1, <2>8, <2>9, <2>10
  <2> QED BY <2>11 DEF T
<1>4. CASE Is("object", v)
  <2> DEFINE K == DOMAIN v.object
             kept == {k \in KeysKept(K, options) : Stays(Trims(v.object[KeyOf(k, K)], options), options)}
             f == [k \in kept |-> Trims(v.object[KeyOf(k, K)], options)]
  <2>1. T = Object(f)
    BY <1>4, TrimsOfObject DEF IsValue, Ends
  <2>2. DOMAIN f = kept /\ f = [k \in kept |-> f[k]]
    OBVIOUS
  <2> HIDE DEF f
  <2>3. Is("object", T) /\ T.object = f
    BY <2>1 DEF Object, Is
  <2>4. KeysKept(kept, options) = kept /\ \A k \in kept : KeyOf(k, kept) = k
    BY DEF KeysKept, KeyOf, Underscored
  <2> HIDE DEF kept, T
  <2>5. \A k \in kept : f[k] \in Children(T)
    BY <2>2, <2>3, FieldIsChild
  <2>6. \A k \in kept : Trims(f[k], options) = f[k] /\ Stays(f[k], options)
    BY <1>2, <2>5 DEF T
  <2>7. {k \in KeysKept(kept, options) : Stays(Trims(f[KeyOf(k, kept)], options), options)} = kept
    BY <2>4, <2>6
  <2>8. Trims(T, options) = Object([k \in kept |-> Trims(f[KeyOf(k, kept)], options)])
    <3>1. DOMAIN T.object = kept
      BY <2>2, <2>3
    <3>2. Ends(T) /\ Is("object", T)
      BY <1>1, <2>3 DEF IsValue, Ends, T
    <3> QED BY <2>3, <2>7, <3>1, <3>2, TrimsOfObject
  <2>9. [k \in kept |-> Trims(f[KeyOf(k, kept)], options)] = [k \in kept |-> f[k]]
    BY <2>4, <2>6
  <2>10. Trims(T, options) = T
    BY <2>1, <2>2, <2>8, <2>9
  <2> QED BY <2>10 DEF T
<1>5. CASE ~Is("array", v) /\ ~Is("object", v)
  <2>1. \/ \E s : T = Text(s)
        \/ T = v /\ ~Is("padded", v) /\ ~Is("oid", v)
    BY <1>5, TrimsOfLeaf DEF IsValue, Ends, ConvertObjectIdToString
  <2> HIDE DEF T
  <2>2. ~Is("array", T) /\ ~Is("object", T) /\ ~Is("padded", T) /\ ~Is("oid", T)
    BY <1>5, <2>1 DEF Is, Text
  <2>3. Trims(T, options) = T
    BY <1>1, <2>2, TrimsOfLeaf DEF IsValue, Ends, ConvertObjectIdToString
  <2> QED BY <2>3 DEF T
<1> QED BY <1>3, <1>4, <1>5

(* trims is idempotent where id is not excluded. *)
LEMMA TrimsTwice ==
  ASSUME NEW options, "id" \notin options.exclude, NEW u, IsValue(u)
  PROVE  Trims(Trims(u, options), options) = Trims(u, options)
<1> DEFINE Q(n) == \A v : IsValue(v) /\ Level(v)[n] = {} =>
                     Trims(Trims(v, options), options) = Trims(v, options)
           S == {n \in Nat : Q(n)}
<1>1. 0 \in S
  BY LevelDef
<1>2. ASSUME NEW n \in Nat, n \in S PROVE n + 1 \in S
  <2>1. ASSUME NEW v, IsValue(v), Level(v)[n + 1] = {}
        PROVE  Trims(Trims(v, options), options) = Trims(v, options)
    <3>1. ASSUME NEW c \in Children(Trims(v, options)) PROVE Trims(c, options) = c
      <4>1. PICK d \in Children(v) : c = Trims(d, options)
        BY <2>1, ChildrenOfTrims
      <4>2. IsValue(d) /\ Level(d)[n] = {}
        BY <2>1, ChildrenAreValues, EndsWithChildren
      <4> QED BY <1>2, <4>1, <4>2
    <3> QED BY <2>1, <3>1, TrimmedOfTrimmed
  <2> QED BY <2>1
<1> HIDE DEF S
<1>3. Depth + 1 \in S
  BY <1>1, <1>2, UpFromZero, DepthAssumption
<1> QED BY <1>3 DEF S, IsValue

-----------------------------------------------------------------------------
(* Values by their height. *)

(* v ends within n levels, and its arrays have no gaps. *)
Fine(v, n) ==
  /\ Level(v)[n] = {}
  /\ \A i \in Nat : \A w \in Level(v)[i] : Is("array", w) => w.array \in Seq(ToSet(w.array))

LEMMA FineIsValue ==
  ASSUME NEW v, NEW n \in 0 .. Depth + 1, Fine(v, n)
  PROVE  IsValue(v)
<1>1. n \in Nat /\ Depth + 1 \in Nat /\ n <= Depth + 1
  BY DepthAssumption
<1>2. Level(v)[Depth + 1] = {}
  BY <1>1, EndsLater DEF Fine
<1>3. \A w \in Parts(v) : \E i \in Nat : w \in Level(v)[i]
  BY DepthAssumption DEF Parts
<1> QED BY <1>2, <1>3 DEF Fine, IsValue

LEMMA FineLater ==
  ASSUME NEW v, NEW n \in Nat, NEW m \in Nat, n <= m, Fine(v, n)
  PROVE  Fine(v, m)
BY EndsLater DEF Fine

LEMMA FineParent ==
  ASSUME NEW v, NEW n \in Nat, \A c \in Children(v) : Fine(c, n),
         Is("array", v) => v.array \in Seq(ToSet(v.array))
  PROVE  Fine(v, n + 1)
<1>1. Level(v)[n + 1] = {}
  BY EndsWithChildren DEF Fine
<1>2. ASSUME NEW i \in Nat, NEW w \in Level(v)[i], Is("array", w)
      PROVE  w.array \in Seq(ToSet(w.array))
  <2>1. CASE i = 0
    <3>1. w = v
      BY <1>2, <2>1, LevelDef
    <3> QED BY <1>2, <3>1
  <2>2. CASE i # 0
    <3>1. i - 1 \in Nat /\ i = (i - 1) + 1
      BY <2>2
    <3>2. PICK c \in Children(v) : w \in Level(c)[i - 1]
      BY <1>2, <3>1, LevelOfChildren
    <3> QED BY <1>2, <3>1, <3>2 DEF Fine
  <2> QED BY <2>1, <2>2
<1> QED BY <1>1, <1>2 DEF Fine

LEMMA FineChild ==
  ASSUME NEW v, NEW n \in Nat, Fine(v, n + 1), NEW c \in Children(v)
  PROVE  Fine(c, n)
<1>1. Level(c)[n] = {}
  BY EndsWithChildren DEF Fine
<1>2. ASSUME NEW i \in Nat, NEW w \in Level(c)[i] PROVE i + 1 \in Nat /\ w \in Level(v)[i + 1]
  BY LevelOfChildren
<1> QED BY <1>1, <1>2 DEF Fine

LEMMA FineLeaf ==
  ASSUME NEW v, ~Is("array", v), ~Is("object", v), NEW n \in Nat, n >= 1
  PROVE  Fine(v, n)
<1>1. Children(v) = {}
  BY DEF Children
<1>2. Fine(v, 0 + 1)
  BY <1>1, FineParent
<1> QED BY <1>2, FineLater

LEMMA FineArray ==
  ASSUME NEW S, NEW s \in Seq(S), NEW n \in Nat, \A i \in DOMAIN s : Fine(s[i], n)
  PROVE  Fine(Array(s), n + 1)
<1>1. s \in Seq(ToSet(s))
  <2>1. PICK m \in Nat : DOMAIN s = 1 .. m /\ s = [i \in 1 .. m |-> s[i]]
    OBVIOUS
  <2>2. \A i \in 1 .. m : s[i] \in ToSet(s)
    BY <2>1 DEF ToSet
  <2> QED BY <2>1, <2>2
<1>2. Is("array", Array(s)) /\ Array(s).array = s
  BY DEF Is, Array
<1>3. Children(Array(s)) = ToSet(s)
  BY <1>2 DEF Children, Is
<1>4. \A c \in ToSet(s) : Fine(c, n)
  BY DEF ToSet
<1> HIDE DEF Array
<1> QED BY <1>1, <1>2, <1>3, <1>4, FineParent

LEMMA FineObject ==
  ASSUME NEW f, NEW n \in Nat, \A k \in DOMAIN f : Fine(f[k], n)
  PROVE  Fine(Object(f), n + 1)
<1>1. Is("object", Object(f)) /\ Object(f).object = f /\ ~Is("array", Object(f))
  BY DEF Is, Object
<1>2. Children(Object(f)) = {f[k] : k \in DOMAIN f}
  BY <1>1 DEF Children, Is
<1> QED BY <1>1, <1>2, FineParent

(* A field is lower than the value it is in, as is a low default for it. *)
LEMMA FineGet ==
  ASSUME NEW v, NEW n \in Nat, NEW k, NEW d, Fine(v, n + 1), Fine(d, n)
  PROVE  Fine(Get(v, k, d), n)
BY FineChild, FieldIsChild DEF Get

LEMMA GetIsValue ==
  ASSUME NEW v, NEW k, NEW d, IsValue(v), IsValue(d)
  PROVE  IsValue(Get(v, k, d))
BY ChildrenAreValues, FieldIsChild DEF Get

-----------------------------------------------------------------------------
(* What trims makes of what is got from a value. *)

LEMMA TrimsUndefined ==
  ASSUME NEW v, NEW options, IsValue(v)
  PROVE  Trims(v, options) = Undefined <=> v = Undefined
<1>1. CASE Is("array", v)
  BY <1>1, TrimsOfArray DEF Is, Array, Undefined
<1>2. CASE Is("object", v)
  <2>1. PICK f : Trims(v, options) = Object(f)
    BY <1>2, TrimsOfObject DEF IsValue, Ends
  <2> QED BY <1>2, <2>1 DEF Is, Object, Undefined
<1>3. CASE ~Is("array", v) /\ ~Is("object", v)
  <2>1. Trims(v, options) = IF Is("padded", v) THEN Text(v.padded) ELSE ConvertObjectIdToString(v)
    BY <1>3, TrimsOfLeaf DEF IsValue, Ends
  <2>2. \A s : Text(s) # Undefined
    BY DEF Text, Undefined
  <2>3. ~Is("padded", Undefined) /\ ~Is("oid", Undefined)
    BY DEF Is, Undefined
  <2> QED BY <2>1, <2>2, <2>3 DEF ConvertObjectIdToString
<1> QED BY <1>1, <1>2, <1>3

(* The key that a field has before trims: what is named id may be _id. *)
Unnamed(v) == Is("object", v) => "_id" \notin DOMAIN v.object

(* What is got after trimming is what was got before, trimmed, or was        *)
(* dropped.                                                                  *)
LEMMA GetOfTrims ==
  ASSUME NEW v, NEW options, NEW k, NEW d, IsValue(v), k # "_id", k = "id" => Unnamed(v)
  PROVE  \/ Get(Trims(v, options), k, d) = d
         \/ /\ Is("object", v) /\ k \in DOMAIN v.object /\ v.object[k] # Undefined
            /\ Get(v, k, d) = v.object[k]
            /\ Get(Trims(v, options), k, d) = Trims(v.object[k], options)
<1> SUFFICES ASSUME Get(Trims(v, options), k, d) # d
             PROVE  /\ Is("object", v) /\ k \in DOMAIN v.object /\ v.object[k] # Undefined
                    /\ Get(v, k, d) = v.object[k]
                    /\ Get(Trims(v, options), k, d) = Trims(v.object[k], options)
  OBVIOUS
<1> DEFINE T == Trims(v, options)
           K == DOMAIN v.object
           kept == {j \in KeysKept(K, options) : Stays(Trims(v.object[KeyOf(j, K)], options), options)}
           f == [j \in kept |-> Trims(v.object[KeyOf(j, K)], options)]
<1>1. Is("object", T) /\ k \in DOMAIN T.object /\ T.object[k] # Undefined /\ Get(T, k, d) = T.object[k]
  BY DEF Get
<1>2. Is("object", v)
  BY <1>1, TrimsKind
<1>3. T = Object(f)
  BY <1>2, TrimsOfObject DEF IsValue, Ends
<1>4. DOMAIN f = kept /\ \A j \in kept : f[j] = Trims(v.object[KeyOf(j, K)], options)
  OBVIOUS
<1> HIDE DEF f, T
<1>5. k \in kept /\ T.object[k] = f[k]
  BY <1>1, <1>3, <1>4 DEF Object
<1>6. k \in K /\ KeyOf(k, K) = k
  BY <1>2, <1>5 DEF KeysKept, KeyOf, Unnamed
<1>7. T.object[k] = Trims(v.object[k], options)
  BY <1>4, <1>5, <1>6
<1>8. v.object[k] \in Children(v)
  BY <1>2, <1>6, FieldIsChild
<1>9. v.object[k] # Undefined
  BY <1>1, <1>7, <1>8, ChildrenAreValues, TrimsUndefined
<1> QED BY <1>1, <1>2, <1>6, <1>7, <1>9 DEF Get, T

(* Without options nothing is dropped. *)
LEMMA StaysPlain == ASSUME NEW v PROVE Stays(v, NoOptions)
BY DEF Stays, NoOptions

LEMMA PlainArray ==
  ASSUME NEW v, IsValue(v), Is("array", v)
  PROVE  Trims(v, NoOptions) = Array([j \in DOMAIN v.array |-> Trims(v.array[j], NoOptions)])
<1>1. PICK n \in Nat : DOMAIN v.array = 1 .. n
  <2>1. v.array \in Seq(Children(v))
    BY KeptPlaces
  <2> QED BY <2>1
<1>2. Remaining(v, NoOptions) = 1 .. n /\ Cardinality(1 .. n) = n
  BY <1>1, StaysPlain, CountTo DEF Remaining
<1>3. Trims(v, NoOptions) = Array([j \in 1 .. n |-> Trims(v.array[Nth(1 .. n, j)], NoOptions)])
  BY <1>2, TrimsOfArray
<1>4. [j \in 1 .. n |-> Trims(v.array[Nth(1 .. n, j)], NoOptions)]
        = [j \in 1 .. n |-> Trims(v.array[j], NoOptions)]
  BY NthOfAll
<1> QED BY <1>1, <1>3, <1>4

LEMMA PlainObject ==
  ASSUME NEW v, IsValue(v), Is("object", v)
  PROVE  Trims(v, NoOptions) =
           Object([k \in KeysKept(DOMAIN v.object, NoOptions) |->
                     Trims(v.object[KeyOf(k, DOMAIN v.object)], NoOptions)])
<1> DEFINE K == DOMAIN v.object
           kept == {k \in KeysKept(K, NoOptions) :
                      Stays(Trims(v.object[KeyOf(k, K)], NoOptions), NoOptions)}
<1>1. Trims(v, NoOptions) = Object([k \in kept |-> Trims(v.object[KeyOf(k, K)], NoOptions)])
  BY TrimsOfObject DEF IsValue, Ends
<1>2. kept = KeysKept(K, NoOptions)
  BY StaysPlain
<1> HIDE DEF kept
<1> QED BY <1>1, <1>2

LEMMA PlainKeys ==
  ASSUME NEW K
  PROVE  /\ \A k : k # "_id" /\ k # "id" => (k \in KeysKept(K, NoOptions) <=> k \in K)
         /\ "id" \in KeysKept(K, NoOptions) <=> "id" \in K \/ "_id" \in K
         /\ "_id" \notin K => KeysKept(K, NoOptions) = K
         /\ \A k \in K : KeyOf(k, K) = k
BY DEF KeysKept, KeyOf, NoOptions

(* Plain trimming commutes with getting. *)
LEMMA GetOfPlain ==
  ASSUME NEW v, NEW k, NEW d, IsValue(v), k # "_id",
         k = "id" /\ Is("object", v) => "_id" \notin DOMAIN v.object \/ "id" \in DOMAIN v.object,
         Trims(d, NoOptions) = d
  PROVE  Get(Trims(v, NoOptions), k, d) = Trims(Get(v, k, d), NoOptions)
<1>1. CASE ~Is("object", v)
  BY <1>1, TrimsKind DEF Get
<1>2. CASE Is("object", v)
  <2> DEFINE K == DOMAIN v.object
             T == Trims(v, NoOptions)
             f == [j \in KeysKept(K, NoOptions) |-> Trims(v.object[KeyOf(j, K)], NoOptions)]
  <2>1. T = Object(f)
    BY <1>2, PlainObject
  <2>2. DOMAIN f = KeysKept(K, NoOptions) /\ \A j \in DOMAIN f : f[j] = Trims(v.object[KeyOf(j, K)], NoOptions)
    OBVIOUS
  <2>3. k \in KeysKept(K, NoOptions) <=> k \in K
    BY <1>2, PlainKeys
  <2> HIDE DEF f, T
  <2>4. Is("object", T) /\ T.object = f
    BY <2>1 DEF Is, Object
  <2>5. CASE k \in K
    <3>1. f[k] = Trims(v.object[k], NoOptions)
      BY <2>2, <2>3, <2>5, PlainKeys
    <3>2. v.object[k] \in Children(v)
      BY <1>2, <2>5, FieldIsChild
    <3>3. f[k] = Undefined <=> v.object[k] = Undefined
      BY <3>1, <3>2, ChildrenAreValues, TrimsUndefined
    <3> QED BY <1>2, <2>2, <2>3, <2>4, <2>5, <3>1, <3>3 DEF Get, T
  <2>6. CASE k \notin K
    BY <1>2, <2>2, <2>3, <2>4, <2>6 DEF Get, T
  <2> QED BY <2>5, <2>6
<1> QED BY <1>1, <1>2

-----------------------------------------------------------------------------
(* What is converted, and the types of it. *)

LEMMA LeafKinds ==
  ASSUME NEW v, IsText(v) \/ IsNumber(v) \/ IsBoolean(v)
  PROVE  /\ ~Is("array", v) /\ ~Is("object", v) /\ ~Is("oid", v) /\ ~Is("date", v)
         /\ v # Undefined
         /\ \A n \in Nat : n >= 1 => Fine(v, n)
         /\ IsValue(v)
<1>1. ~Is("array", v) /\ ~Is("object", v) /\ ~Is("oid", v) /\ ~Is("date", v) /\ v # Undefined
  BY DEF IsText, IsNumber, IsBoolean, Is, Null, Undefined
<1>2. \A n \in Nat : n >= 1 => Fine(v, n)
  BY <1>1, FineLeaf
<1>3. Fine(v, 1) /\ 1 \in 0 .. Depth + 1
  BY <1>2, DepthAssumption
<1> QED BY <1>1, <1>2, <1>3, FineIsValue

LEMMA TrimsOfTyped ==
  ASSUME NEW v, NEW options
  PROVE  /\ IsText(v) => IsText(Trims(v, options))
         /\ IsNumber(v) \/ IsBoolean(v) \/ Is("text", v) \/ v = Null => Trims(v, options) = v
<1>1. ASSUME IsText(v) \/ IsNumber(v) \/ IsBoolean(v)
      PROVE  Trims(v, options) = IF Is("padded", v) THEN Text(v.padded) ELSE v
  BY <1>1, LeafKinds, TrimsOfLeaf DEF IsValue, Ends, ConvertObjectIdToString
<1>2. IsNumber(v) \/ IsBoolean(v) \/ Is("text", v) \/ v = Null => ~Is("padded", v)
  BY DEF IsNumber, IsBoolean, Is, Null
<1>3. \A s : IsText(Text(s))
  BY DEF IsText, Is, Text
<1> QED BY <1>1, <1>2, <1>3 DEF IsText

LEMMA TextIsText == \A s : Is("text", Text(s)) /\ IsText(Text(s)) /\ Text(s).text = s
BY DEF IsText, Is, Text

(* The defaults. *)
LEMMA Defaults ==
  /\ IsText(Empty) /\ IsNumber(Zero) /\ IsText(Null) /\ IsBoolean(Boolean(FALSE))
  /\ IsText(IsoString(Now))
BY DEF IsText, IsNumber, IsBoolean, Is, Empty, Zero, Null, Boolean, Text, Number, IsoString, Now, Date

LEMMA NothingIn ==
  /\ Is("object", EmptyObject) /\ DOMAIN EmptyObject.object = {}
  /\ Is("array", NoItems) /\ NoItems.array = <<>>
  /\ \A n \in Nat : n >= 1 => Fine(EmptyObject, n) /\ Fine(NoItems, n)
<1>1. Is("object", EmptyObject) /\ DOMAIN EmptyObject.object = {}
  BY DEF EmptyObject, Object, Is
<1>2. Is("array", NoItems) /\ NoItems.array = <<>>
  BY DEF NoItems, Array, Is
<1>3. Fine(EmptyObject, 0 + 1)
  <2> DEFINE f == [k \in {} |-> Null]
  <2>1. \A k \in DOMAIN f : Fine(f[k], 0)
    OBVIOUS
  <2> HIDE DEF f
  <2>2. Fine(Object(f), 0 + 1)
    BY <2>1, FineObject
  <2> QED BY <2>2 DEF f, EmptyObject
<1>4. Fine(NoItems, 0 + 1)
  <2>1. <<>> \in Seq({})
    OBVIOUS
  <2>2. \A i \in DOMAIN <<>> : Fine(<<>>[i], 0)
    OBVIOUS
  <2> QED BY <2>1, <2>2, FineArray DEF NoItems
<1> QED BY <1>1, <1>2, <1>3, <1>4, FineLater

LEMMA TrimsOfNothing ==
  Trims(EmptyObject, NoOptions) = EmptyObject /\ Trims(NoItems, NoOptions) = NoItems
<1>1. IsValue(EmptyObject) /\ IsValue(NoItems)
  <2>1. Fine(EmptyObject, 1) /\ Fine(NoItems, 1) /\ 1 \in 0 .. Depth + 1
    BY NothingIn, DepthAssumption
  <2> QED BY <2>1, FineIsValue
<1>2. KeysKept({}, NoOptions) = {}
  BY PlainKeys
<1>3. Trims(EmptyObject, NoOptions) = EmptyObject
  <2> DEFINE K == DOMAIN EmptyObject.object
  <2>1. Trims(EmptyObject, NoOptions) =
          Object([k \in KeysKept(K, NoOptions) |-> Trims(EmptyObject.object[KeyOf(k, K)], NoOptions)])
    BY <1>1, NothingIn, PlainObject
  <2>2. KeysKept(K, NoOptions) = {}
    BY <1>2, NothingIn
  <2>3. [k \in {} |-> Trims(EmptyObject.object[KeyOf(k, K)], NoOptions)] = [k \in {} |-> Null]
    OBVIOUS
  <2> QED BY <2>1, <2>2, <2>3 DEF EmptyObject
<1>4. Trims(NoItems, NoOptions) = NoItems
  <2>1. Trims(NoItems, NoOptions) = Array([j \in DOMAIN NoItems.array |-> Trims(NoItems.array[j], NoOptions)])
    BY <1>1, NothingIn, PlainArray
  <2>2. [j \in DOMAIN NoItems.array |-> Trims(NoItems.array[j], NoOptions)] = <<>>
    BY NothingIn
  <2> QED BY <2>1, <2>2 DEF NoItems
<1> QED BY <1>3, <1>4

(* What a converter answers: these fields and no others. *)
LEMMA ConvertedIs ==
  ASSUME NEW v, NEW T, NEW M, NEW others
  PROVE  /\ Is("object", Converted(v, T, M, others))
         /\ DOMAIN Converted(v, T, M, others).object = T \union M \union DOMAIN others
         /\ \A k \in DOMAIN others : Converted(v, T, M, others).object[k] = others[k]
         /\ \A k \in M \ DOMAIN others : Converted(v, T, M, others).object[k] = Get(v, k, Zero)
         /\ \A k \in T \ (M \union DOMAIN others) :
              Converted(v, T, M, others).object[k] = Get(v, k, Empty)
<1> DEFINE f == [k \in T \union M \union DOMAIN others |->
                   CASE k \in DOMAIN others -> others[k]
                     [] k \in M \ DOMAIN others -> Get(v, k, Zero)
                     [] OTHER -> Get(v, k, Empty)]
<1>1. Converted(v, T, M, others) = Object(f)
  BY DEF Converted
<1>2. /\ DOMAIN f = T \union M \union DOMAIN others
      /\ \A k \in DOMAIN others : f[k] = others[k]
      /\ \A k \in M \ DOMAIN others : f[k] = Get(v, k, Zero)
      /\ \A k \in T \ (M \union DOMAIN others) : f[k] = Get(v, k, Empty)
  OBVIOUS
<1> HIDE DEF f
<1> QED BY <1>1, <1>2 DEF Object, Is

LEMMA ConvertedFine ==
  ASSUME NEW v, NEW T, NEW M, NEW others, NEW n \in Nat, n >= 1, Fine(v, n + 1),
         \A k \in DOMAIN others : Fine(others[k], n)
  PROVE  Fine(Converted(v, T, M, others), n + 1)
<1> DEFINE f == [k \in T \union M \union DOMAIN others |->
                   CASE k \in DOMAIN others -> others[k]
                     [] k \in M \ DOMAIN others -> Get(v, k, Zero)
                     [] OTHER -> Get(v, k, Empty)]
<1>1. Fine(Zero, n) /\ Fine(Empty, n)
  BY Defaults, LeafKinds
<1>2. \A k : Fine(Get(v, k, Zero), n) /\ Fine(Get(v, k, Empty), n)
  BY <1>1, FineGet
<1>3. \A k \in DOMAIN f : Fine(f[k], n)
  BY <1>2
<1>4. Converted(v, T, M, others) = Object(f)
  BY DEF Converted
<1> HIDE DEF f
<1> QED BY <1>3, <1>4, FineObject

(* Converting and plain trimming commute, if they do for the other fields. *)
LEMMA ConvertedPlain ==
  ASSUME NEW v, NEW T, NEW M, NEW others, NEW trimmed, IsValue(v), IsValue(Converted(v, T, M, others)),
         "_id" \notin T \union M \union DOMAIN others,
         "id" \in T \union M /\ Is("object", v) => "_id" \notin DOMAIN v.object \/ "id" \in DOMAIN v.object,
         DOMAIN trimmed = DOMAIN others,
         \A k \in DOMAIN others : trimmed[k] = Trims(others[k], NoOptions)
  PROVE  Converted(Trims(v, NoOptions), T, M, trimmed) = Trims(Converted(v, T, M, others), NoOptions)
<1> DEFINE K == T \union M \union DOMAIN others
           c == Converted(v, T, M, others)
           D(w, o, k) == CASE k \in DOMAIN o -> o[k]
                           [] k \in M \ DOMAIN o -> Get(w, k, Zero)
                           [] OTHER -> Get(w, k, Empty)
<1>1. Is("object", c) /\ DOMAIN c.object = K /\ \A k \in K : c.object[k] = D(v, others, k)
  <2> HIDE DEF c
  <2> QED BY ConvertedIs DEF c
<1>2. Trims(Zero, NoOptions) = Zero /\ Trims(Empty, NoOptions) = Empty
  BY Defaults, TrimsOfTyped, TextIsText DEF Empty
<1>3. ASSUME NEW k \in K PROVE D(Trims(v, NoOptions), trimmed, k) = Trims(c.object[k], NoOptions)
  <2>1. CASE k \in DOMAIN others
    BY <1>1, <2>1
  <2>2. CASE k \in M \ DOMAIN others
    <3>1. Get(Trims(v, NoOptions), k, Zero) = Trims(Get(v, k, Zero), NoOptions)
      BY <1>2, <2>2, GetOfPlain
    <3> QED BY <1>1, <2>2, <3>1
  <2>3. CASE k \in T \ (M \union DOMAIN others)
    <3>1. Get(Trims(v, NoOptions), k, Empty) = Trims(Get(v, k, Empty), NoOptions)
      BY <1>2, <2>3, GetOfPlain
    <3> QED BY <1>1, <2>3, <3>1
  <2> QED BY <2>1, <2>2, <2>3
<1>4. KeysKept(K, NoOptions) = K /\ \A k \in K : KeyOf(k, K) = k
  BY PlainKeys
<1>5. Trims(c, NoOptions) =
        Object([k \in KeysKept(K, NoOptions) |-> Trims(c.object[KeyOf(k, K)], NoOptions)])
  <2> HIDE DEF c, K
  <2>1. IsValue(c)
    BY DEF c
  <2> QED BY <1>1, <2>1, PlainObject
<1>6. Converted(Trims(v, NoOptions), T, M, trimmed) = Object([k \in K |-> D(Trims(v, NoOptions), trimmed, k)])
  BY DEF Converted
<1> HIDE DEF c, K, D
<1>7. [k \in KeysKept(K, NoOptions) |-> Trims(c.object[KeyOf(k, K)], NoOptions)]
        = [k \in K |-> D(Trims(v, NoOptions), trimmed, k)]
  BY <1>3, <1>4
<1> QED BY <1>5, <1>6, <1>7 DEF c

-----------------------------------------------------------------------------
(* What a value has to have for what is converted of it to be typed. *)

TextsIn(v, T) == \A k \in T : IsText(Get(v, k, Empty))
NumbersIn(v, M) == \A k \in M : IsNumber(Get(v, k, Zero))

(* Where texts are texts and numbers numbers, so are those of the answer. *)
LEMMA ConvertedHas ==
  ASSUME NEW v, NEW T, NEW M, NEW others, TextsIn(v, T), NumbersIn(v, M),
         T \intersect M = {}, (T \union M) \intersect DOMAIN others = {}
  PROVE  /\ HasFields(Converted(v, T, M, others), T, M, DOMAIN others)
         /\ \A k \in DOMAIN others : Converted(v, T, M, others).object[k] = others[k]
<1> DEFINE c == Converted(v, T, M, others)
<1>1. /\ Is("object", c) /\ DOMAIN c.object = T \union M \union DOMAIN others
      /\ \A k \in DOMAIN others : c.object[k] = others[k]
      /\ \A k \in M \ DOMAIN others : c.object[k] = Get(v, k, Zero)
      /\ \A k \in T \ (M \union DOMAIN others) : c.object[k] = Get(v, k, Empty)
  BY ConvertedIs
<1> HIDE DEF c
<1>2. HasFields(c, T, M, DOMAIN others)
  <2>1. \A k \in T : IsText(c.object[k])
    BY <1>1 DEF TextsIn
  <2>2. \A k \in M : IsNumber(c.object[k])
    BY <1>1 DEF NumbersIn
  <2> QED BY <1>1, <2>1, <2>2 DEF HasFields
<1> QED BY <1>1, <1>2 DEF c

(* Trimming leaves a text a text or nothing, and a number a number. *)
LEMMA FieldsOfTrims ==
  ASSUME NEW v, NEW options, NEW T, NEW M, IsValue(v), "_id" \notin T \union M, "id" \notin M,
         "id" \in T => Unnamed(v)
  PROVE  /\ TextsIn(v, T) => TextsIn(Trims(v, options), T)
         /\ NumbersIn(v, M) => NumbersIn(Trims(v, options), M)
<1>1. ASSUME NEW k \in T, IsText(Get(v, k, Empty)) PROVE IsText(Get(Trims(v, options), k, Empty))
  <2>1. k # "_id" /\ (k = "id" => Unnamed(v))
    OBVIOUS
  <2> QED BY <1>1, <2>1, GetOfTrims, Defaults, TrimsOfTyped
<1>2. ASSUME NEW k \in M, IsNumber(Get(v, k, Zero)) PROVE IsNumber(Get(Trims(v, options), k, Zero))
  <2>1. k # "_id" /\ k # "id"
    OBVIOUS
  <2> QED BY <1>2, <2>1, GetOfTrims, Defaults, TrimsOfTyped
<1> QED BY <1>1, <1>2 DEF TextsIn, NumbersIn

(* A key that a type names is not the one the database gives. *)
LEMMA KeyNames ==
  /\ "_id" \notin AboutText \union AboutNumbers /\ "id" \notin AboutText \union AboutNumbers
  /\ "_id" \notin UserText \union {"phoneVerifiedAt", "emailVerifiedAt", "isPublic", "about"}
  /\ "_id" \notin MentionText \union UrlText \union EmojiText \union ReplyText \union Span
  /\ "id" \notin MentionText \union UrlText \union EmojiText \union ReplyText \union Span
  /\ "_id" \notin MessageText \union AttachmentText \union ConversationText
  /\ "id" \in UserText \intersect MessageText \intersect AttachmentText \intersect ConversationText
  /\ AboutText \intersect AboutNumbers = {}
  /\ (MentionText \union UrlText) \intersect Span = {}
BY DEF AboutText, AboutNumbers, UserText, MentionText, UrlText, EmojiText, ReplyText, Span, MessageText,
       AttachmentText, ConversationText

-----------------------------------------------------------------------------
(* The items of a list. *)

Mapped(x, T, M) == Array([i \in DOMAIN x.array |-> Converted(x.array[i], T, M, NoFields)])

LEMMA Maps ==
  ASSUME NEW x
  PROVE  /\ Map(ConvertToMention, x) = Mapped(x, MentionText, Span)
         /\ Map(ConvertToUrl, x) = Mapped(x, UrlText, Span)
         /\ Map(ConvertToEmoji, x) = Mapped(x, EmojiText, {})
         /\ Map(ConvertToItem, x) = Mapped(x, AttachmentText, {})
BY DEF Map, Mapped, ConvertToMention, ConvertToUrl, ConvertToEmoji, ConvertToItem

IsList(x) == Is("array", x) /\ x.array \in Seq(ToSet(x.array))

LEMMA ListOfItems ==
  ASSUME NEW x, IsList(x), NEW f, DOMAIN f = DOMAIN x.array, f = [i \in DOMAIN x.array |-> f[i]]
  PROVE  /\ IsList(Array(f)) /\ Array(f).array = f /\ f \in Seq(ToSet(f))
         /\ \A i \in DOMAIN f : x.array[i] \in Children(x)
<1>1. Is("array", Array(f)) /\ Array(f).array = f
  BY DEF Is, Array
<1>2. PICK n \in Nat : DOMAIN x.array = 1 .. n
  BY DEF IsList
<1>3. \A i \in 1 .. n : f[i] \in ToSet(f)
  BY <1>2 DEF ToSet
<1>4. f \in Seq(ToSet(f))
  BY <1>2, <1>3
<1>5. \A i \in DOMAIN f : x.array[i] \in Children(x)
  BY ItemIsChild DEF IsList
<1> QED BY <1>1, <1>4, <1>5 DEF IsList

LEMMA MappedItems ==
  ASSUME NEW x, NEW T, NEW M, IsList(x)
  PROVE  /\ IsList(Mapped(x, T, M)) /\ DOMAIN Mapped(x, T, M).array = DOMAIN x.array
         /\ \A i \in DOMAIN x.array : Mapped(x, T, M).array[i] = Converted(x.array[i], T, M, NoFields)
<1> DEFINE f == [i \in DOMAIN x.array |-> Converted(x.array[i], T, M, NoFields)]
<1>1. DOMAIN f = DOMAIN x.array /\ f = [i \in DOMAIN x.array |-> f[i]]
      /\ \A i \in DOMAIN x.array : f[i] = Converted(x.array[i], T, M, NoFields)
  OBVIOUS
<1>2. Mapped(x, T, M) = Array(f)
  BY DEF Mapped
<1> HIDE DEF f
<1>3. IsList(Array(f)) /\ Array(f).array = f
  BY <1>1, ListOfItems
<1> QED BY <1>1, <1>2, <1>3

LEMMA NoOthers == DOMAIN NoFields = {}
BY DEF NoFields

LEMMA MappedHas ==
  ASSUME NEW x, NEW T, NEW M, IsList(x), T \intersect M = {},
         \A i \in DOMAIN x.array : TextsIn(x.array[i], T) /\ NumbersIn(x.array[i], M)
  PROVE  /\ IsList(Mapped(x, T, M))
         /\ \A i \in DOMAIN Mapped(x, T, M).array : HasFields(Mapped(x, T, M).array[i], T, M, {})
<1>1. ASSUME NEW i \in DOMAIN x.array PROVE HasFields(Converted(x.array[i], T, M, NoFields), T, M, {})
  <2>1. HasFields(Converted(x.array[i], T, M, NoFields), T, M, DOMAIN NoFields)
    BY NoOthers, ConvertedHas
  <2> QED BY <2>1, NoOthers
<1> QED BY <1>1, MappedItems

LEMMA MappedFine ==
  ASSUME NEW x, NEW T, NEW M, IsList(x), NEW n \in Nat, n >= 2, Fine(x, n + 1)
  PROVE  Fine(Mapped(x, T, M), n + 1)
<1> DEFINE f == [i \in DOMAIN x.array |-> Converted(x.array[i], T, M, NoFields)]
<1>1. DOMAIN f = DOMAIN x.array /\ f = [i \in DOMAIN x.array |-> f[i]]
      /\ \A i \in DOMAIN x.array : f[i] = Converted(x.array[i], T, M, NoFields)
  OBVIOUS
<1>2. Mapped(x, T, M) = Array(f)
  BY DEF Mapped
<1> HIDE DEF f
<1>3. f \in Seq(ToSet(f)) /\ \A i \in DOMAIN f : x.array[i] \in Children(x)
  BY <1>1, ListOfItems
<1>4. ASSUME NEW i \in DOMAIN f PROVE Fine(f[i], n)
  <2>1. Fine(x.array[i], n) /\ n - 1 \in Nat /\ n - 1 >= 1 /\ n = (n - 1) + 1
    BY <1>3, FineChild
  <2>2. Fine(Converted(x.array[i], T, M, NoFields), (n - 1) + 1)
    BY <2>1, NoOthers, ConvertedFine
  <2> QED BY <1>1, <2>1, <2>2
<1> QED BY <1>2, <1>3, <1>4, FineArray

(* Plain trimming and converting commute for a list, item by item. *)
LEMMA MappedPlain ==
  ASSUME NEW x, NEW T, NEW M, IsList(x), NEW n \in Nat, n >= 2, n <= Depth, Fine(x, n + 1),
         "_id" \notin T \union M, "id" \notin M, "id" \in T => \A i \in DOMAIN x.array : Unnamed(x.array[i])
  PROVE  Mapped(Trims(x, NoOptions), T, M) = Trims(Mapped(x, T, M), NoOptions)
<1>1. IsValue(x) /\ IsValue(Mapped(x, T, M))
  <2>1. n + 1 \in 0 .. Depth + 1
    BY DepthAssumption
  <2> QED BY <2>1, FineIsValue, MappedFine
<1> DEFINE m == Mapped(x, T, M)
           D == DOMAIN x.array
<1>2. Is("array", m) /\ DOMAIN m.array = D /\ \A i \in D : m.array[i] = Converted(x.array[i], T, M, NoFields)
  BY MappedItems DEF IsList
<1> HIDE DEF m
<1>3. Trims(m, NoOptions) = Array([i \in D |-> Trims(m.array[i], NoOptions)])
  BY <1>1, <1>2, PlainArray DEF m
<1>4. Trims(x, NoOptions) = Array([i \in D |-> Trims(x.array[i], NoOptions)])
  BY <1>1, PlainArray DEF IsList
<1>5. Mapped(Trims(x, NoOptions), T, M) =
        Array([i \in D |-> Converted(Trims(x.array[i], NoOptions), T, M, NoFields)])
  <2> DEFINE t == [i \in D |-> Trims(x.array[i], NoOptions)]
  <2>1. Array(t).array = t /\ DOMAIN t = D /\ \A i \in D : t[i] = Trims(x.array[i], NoOptions)
    BY DEF Array
  <2> HIDE DEF t, D
  <2>2. Mapped(Array(t), T, M) = Array([i \in D |-> Converted(t[i], T, M, NoFields)])
    BY <2>1 DEF Mapped
  <2>3. [i \in D |-> Converted(t[i], T, M, NoFields)]
          = [i \in D |-> Converted(Trims(x.array[i], NoOptions), T, M, NoFields)]
    BY <2>1
  <2> QED BY <1>4, <2>2, <2>3 DEF t
<1>6. ASSUME NEW i \in D
      PROVE  Converted(Trims(x.array[i], NoOptions), T, M, NoFields) = Trims(m.array[i], NoOptions)
  <2>1. x.array[i] \in Children(x) /\ m.array[i] \in Children(m)
    BY <1>2, ItemIsChild DEF IsList
  <2>2. IsValue(x.array[i]) /\ IsValue(m.array[i])
    BY <1>1, <2>1, ChildrenAreValues DEF m
  <2>3. "id" \in T \union M /\ Is("object", x.array[i]) => "_id" \notin DOMAIN x.array[i].object
    BY DEF Unnamed
  <2> QED BY <1>2, <2>2, <2>3, NoOthers, ConvertedPlain
<1>7. [i \in D |-> Converted(Trims(x.array[i], NoOptions), T, M, NoFields)] = [i \in D |-> Trims(m.array[i], NoOptions)]
  BY <1>6
<1> QED BY <1>3, <1>5, <1>7 DEF m

-----------------------------------------------------------------------------
(* Users. *)

AboutOf(v) == Get(v, "about", EmptyObject)

OthersOfUser(v) ==
  [phoneVerifiedAt |-> Get(v, "phoneVerifiedAt", Null),
   emailVerifiedAt |-> Get(v, "emailVerifiedAt", Null),
   isPublic |-> Get(v, "isPublic", Boolean(FALSE)),
   about |-> ConvertToUserAbout(AboutOf(v))]

SuitsUser(v) ==
  /\ TextsIn(v, UserText)
  /\ IsText(Get(v, "phoneVerifiedAt", Null)) /\ IsText(Get(v, "emailVerifiedAt", Null))
  /\ IsBoolean(Get(v, "isPublic", Boolean(FALSE)))
  /\ TextsIn(AboutOf(v), AboutText) /\ NumbersIn(AboutOf(v), AboutNumbers)

LEMMA UserIs == ASSUME NEW v PROVE ConvertToUser(v) = Converted(v, UserText, {}, OthersOfUser(v))
BY DEF ConvertToUser, OthersOfUser, AboutOf

LEMMA OthersOfUserAre ==
  ASSUME NEW v
  PROVE  /\ DOMAIN OthersOfUser(v) = {"phoneVerifiedAt", "emailVerifiedAt", "isPublic", "about"}
         /\ OthersOfUser(v)["phoneVerifiedAt"] = Get(v, "phoneVerifiedAt", Null)
         /\ OthersOfUser(v)["emailVerifiedAt"] = Get(v, "emailVerifiedAt", Null)
         /\ OthersOfUser(v)["isPublic"] = Get(v, "isPublic", Boolean(FALSE))
         /\ OthersOfUser(v)["about"] = ConvertToUserAbout(AboutOf(v))
BY DEF OthersOfUser

LEMMA AboutTyped ==
  ASSUME NEW v, TextsIn(v, AboutText), NumbersIn(v, AboutNumbers)
  PROVE  IsUserAbout(ConvertToUserAbout(v))
<1>1. HasFields(Converted(v, AboutText, AboutNumbers, NoFields), AboutText, AboutNumbers, DOMAIN NoFields)
  BY KeyNames, NoOthers, ConvertedHas
<1> QED BY <1>1, NoOthers DEF IsUserAbout, ConvertToUserAbout

LEMMA UserTyped ==
  ASSUME NEW v, SuitsUser(v)
  PROVE  IsUser(ConvertToUser(v))
<1> DEFINE c == ConvertToUser(v)
           O == {"phoneVerifiedAt", "emailVerifiedAt", "isPublic", "about"}
<1>1. TextsIn(v, UserText) /\ NumbersIn(v, {}) /\ UserText \intersect DOMAIN OthersOfUser(v) = {}
  BY OthersOfUserAre DEF SuitsUser, NumbersIn, UserText
<1>2. HasFields(c, UserText, {}, O) /\ \A k \in O : c.object[k] = OthersOfUser(v)[k]
  <2>1. DOMAIN OthersOfUser(v) = O
    BY OthersOfUserAre
  <2> HIDE DEF O
  <2> QED BY <1>1, <2>1, UserIs, ConvertedHas
<1>3. IsText(c.object["phoneVerifiedAt"]) /\ IsText(c.object["emailVerifiedAt"])
      /\ IsBoolean(c.object["isPublic"]) /\ c.object["about"] = ConvertToUserAbout(AboutOf(v))
  BY <1>2, OthersOfUserAre DEF SuitsUser
<1>4. IsUserAbout(c.object["about"])
  BY <1>3, AboutTyped DEF SuitsUser
<1> HIDE DEF c
<1>5. HasFields(c, UserText \union {"phoneVerifiedAt", "emailVerifiedAt"}, {}, {"isPublic", "about"})
  BY <1>2, <1>3 DEF HasFields
<1> QED BY <1>3, <1>4, <1>5 DEF IsUser, c

LEMMA UserOfTrims ==
  ASSUME NEW v, NEW options, IsValue(v), Unnamed(v), SuitsUser(v)
  PROVE  SuitsUser(Trims(v, options))
<1> DEFINE T == Trims(v, options)
<1>1. TextsIn(T, UserText)
  BY KeyNames, FieldsOfTrims DEF SuitsUser
<1>2. \A k \in {"phoneVerifiedAt", "emailVerifiedAt"} : IsText(Get(T, k, Null))
  <2> TAKE k \in {"phoneVerifiedAt", "emailVerifiedAt"}
  <2>1. IsText(Get(v, k, Null)) /\ k # "_id" /\ k # "id"
    BY DEF SuitsUser
  <2>2. \/ Get(T, k, Null) = Null
        \/ Get(v, k, Null) = v.object[k] /\ Get(T, k, Null) = Trims(v.object[k], options)
    BY <2>1, GetOfTrims
  <2> HIDE DEF T
  <2> QED BY <2>1, <2>2, Defaults, TrimsOfTyped
<1>3. IsBoolean(Get(T, "isPublic", Boolean(FALSE)))
  <2> DEFINE k == "isPublic"
             d == Boolean(FALSE)
  <2>1. k # "_id" /\ k # "id" /\ IsBoolean(Get(v, k, d)) /\ IsBoolean(d)
    BY Defaults DEF SuitsUser
  <2> HIDE DEF T, k, d
  <2>2. \/ Get(T, k, d) = d
        \/ Get(v, k, d) = v.object[k] /\ Get(T, k, d) = Trims(v.object[k], options)
    BY <2>1, GetOfTrims DEF T
  <2>3. IsBoolean(Get(T, k, d))
    BY <2>1, <2>2, TrimsOfTyped
  <2> QED BY <2>3 DEF k, d
<1>4. TextsIn(AboutOf(T), AboutText) /\ NumbersIn(AboutOf(T), AboutNumbers)
  <2>1. CASE AboutOf(T) = EmptyObject
    <3>1. \A k, d : Get(EmptyObject, k, d) = d
      BY NothingIn DEF Get
    <3> QED BY <2>1, <3>1, Defaults DEF TextsIn, NumbersIn
  <2>2. CASE AboutOf(T) # EmptyObject
    <3>1. AboutOf(T) = Trims(AboutOf(v), options) /\ AboutOf(v) \in Children(v)
      BY <2>2, GetOfTrims, FieldIsChild DEF AboutOf
    <3>2. IsValue(AboutOf(v))
      BY <3>1, ChildrenAreValues
    <3> QED BY <3>1, <3>2, KeyNames, FieldsOfTrims DEF SuitsUser
  <2> QED BY <2>1, <2>2
<1> QED BY <1>1, <1>2, <1>3, <1>4 DEF SuitsUser

LEMMA UserFine ==
  ASSUME NEW v, NEW n \in Nat, n >= 2, Fine(v, n + 1)
  PROVE  Fine(ConvertToUser(v), n + 1) /\ Fine(ConvertToUserAbout(AboutOf(v)), n)
<1>1. n - 1 \in Nat /\ n - 1 >= 1 /\ n = (n - 1) + 1 /\ n >= 1
  OBVIOUS
<1>2. Fine(EmptyObject, n) /\ Fine(Null, n) /\ Fine(Boolean(FALSE), n)
  BY <1>1, NothingIn, Defaults, LeafKinds
<1>3. Fine(AboutOf(v), n)
  BY <1>2, FineGet DEF AboutOf
<1>4. Fine(Converted(AboutOf(v), AboutText, AboutNumbers, NoFields), (n - 1) + 1)
  BY <1>1, <1>3, NoOthers, ConvertedFine
<1>5. Fine(ConvertToUserAbout(AboutOf(v)), n)
  BY <1>1, <1>4 DEF ConvertToUserAbout
<1>6. \A k \in DOMAIN OthersOfUser(v) : Fine(OthersOfUser(v)[k], n)
  BY <1>2, <1>5, OthersOfUserAre, FineGet
<1> QED BY <1>1, <1>5, <1>6, UserIs, ConvertedFine

(* A user: trimmed and then converted, or converted and then trimmed. *)
LEMMA UserPlain ==
  ASSUME NEW v, NEW n \in Nat, n >= 2, n <= Depth, Fine(v, n + 1), Unnamed(v)
  PROVE  ConvertToUser(Trims(v, NoOptions)) = Trims(ConvertToUser(v), NoOptions)
<1> DEFINE T == Trims(v, NoOptions)
           a == AboutOf(v)
<1>1. IsValue(v) /\ IsValue(ConvertToUser(v)) /\ IsValue(ConvertToUserAbout(a)) /\ IsValue(a)
  <2>1. n + 1 \in 0 .. Depth + 1 /\ n \in 0 .. Depth + 1 /\ n >= 1
    BY DepthAssumption
  <2>2. Fine(a, n)
    BY <2>1, FineGet, NothingIn DEF AboutOf
  <2> HIDE DEF a
  <2> QED BY <2>1, <2>2, FineIsValue, UserFine DEF a
<1>2. Trims(Null, NoOptions) = Null /\ Trims(Boolean(FALSE), NoOptions) = Boolean(FALSE)
  BY Defaults, TrimsOfTyped
<1>3. AboutOf(T) = Trims(a, NoOptions)
  BY <1>1, TrimsOfNothing, GetOfPlain DEF AboutOf
<1>4. ConvertToUserAbout(Trims(a, NoOptions)) = Trims(ConvertToUserAbout(a), NoOptions)
  <2>1. IsValue(Converted(a, AboutText, AboutNumbers, NoFields))
    BY <1>1 DEF ConvertToUserAbout
  <2> HIDE DEF a
  <2>2. Converted(Trims(a, NoOptions), AboutText, AboutNumbers, NoFields)
          = Trims(Converted(a, AboutText, AboutNumbers, NoFields), NoOptions)
    BY <1>1, <2>1, NoOthers, KeyNames, ConvertedPlain
  <2> QED BY <2>2 DEF ConvertToUserAbout
<1>5. \A k \in DOMAIN OthersOfUser(v) : OthersOfUser(T)[k] = Trims(OthersOfUser(v)[k], NoOptions)
  <2>1. \A k \in {"phoneVerifiedAt", "emailVerifiedAt"} : Get(T, k, Null) = Trims(Get(v, k, Null), NoOptions)
    BY <1>1, <1>2, GetOfPlain
  <2>2. Get(T, "isPublic", Boolean(FALSE)) = Trims(Get(v, "isPublic", Boolean(FALSE)), NoOptions)
    BY <1>1, <1>2, GetOfPlain
  <2> HIDE DEF T, a
  <2> QED BY <1>3, <1>4, <2>1, <2>2, OthersOfUserAre DEF a
<1>6. DOMAIN OthersOfUser(T) = DOMAIN OthersOfUser(v)
  BY OthersOfUserAre
<1>7. "_id" \notin UserText \union {} \union DOMAIN OthersOfUser(v)
  BY KeyNames, OthersOfUserAre
<1>8. IsValue(Converted(v, UserText, {}, OthersOfUser(v)))
  BY <1>1, UserIs
<1>9. Converted(T, UserText, {}, OthersOfUser(T)) = Trims(Converted(v, UserText, {}, OthersOfUser(v)), NoOptions)
  BY <1>1, <1>5, <1>6, <1>7, <1>8, ConvertedPlain DEF Unnamed
<1> QED BY <1>9, UserIs

-----------------------------------------------------------------------------
(* Messages. *)

GetReply(v) == Get(v, "replyInfo", EmptyObject)
OthersOfReply(v) == [isImage |-> Get(v, "isImage", Boolean(FALSE))]

OthersOfMessage(v) ==
  [mentions |-> Mapped(Get(v, "mentions", NoItems), MentionText, Span),
   previewUrl |-> Mapped(Get(v, "previewUrl", NoItems), UrlText, Span),
   emojis |-> Mapped(Get(v, "emojis", NoItems), EmojiText, {}),
   replyInfo |-> ConvertToReplyInfo(GetReply(v)),
   createdAt |-> IsoString(Get(v, "createdAt", Now)),
   updatedAt |-> IsoString(Get(v, "updatedAt", Now))]

HasLists(v) == \A k \in {"mentions", "previewUrl", "emojis"} : IsList(Get(v, k, NoItems))

ItemsSuit(x, T, M) == \A i \in DOMAIN x.array : TextsIn(x.array[i], T) /\ NumbersIn(x.array[i], M)

SuitsMessage(v) ==
  /\ HasLists(v)
  /\ TextsIn(v, MessageText)
  /\ ItemsSuit(Get(v, "mentions", NoItems), MentionText, Span)
  /\ ItemsSuit(Get(v, "previewUrl", NoItems), UrlText, Span)
  /\ ItemsSuit(Get(v, "emojis", NoItems), EmojiText, {})
  /\ TextsIn(GetReply(v), ReplyText) /\ IsBoolean(Get(GetReply(v), "isImage", Boolean(FALSE)))
  /\ \A k \in {"createdAt", "updatedAt"} : IsText(IsoString(Get(v, k, Now)))

LEMMA ReplyIs ==
  ASSUME NEW v
  PROVE  /\ ConvertToReplyInfo(v) = Converted(v, ReplyText, {}, OthersOfReply(v))
         /\ DOMAIN OthersOfReply(v) = {"isImage"}
         /\ OthersOfReply(v)["isImage"] = Get(v, "isImage", Boolean(FALSE))
BY DEF ConvertToReplyInfo, OthersOfReply

LEMMA MessageIs ==
  ASSUME NEW v
  PROVE  ConvertToMessage(v) = Converted(v, MessageText, {}, OthersOfMessage(v))
<1>1. /\ Map(ConvertToMention, Get(v, "mentions", NoItems)) = Mapped(Get(v, "mentions", NoItems), MentionText, Span)
      /\ Map(ConvertToUrl, Get(v, "previewUrl", NoItems)) = Mapped(Get(v, "previewUrl", NoItems), UrlText, Span)
      /\ Map(ConvertToEmoji, Get(v, "emojis", NoItems)) = Mapped(Get(v, "emojis", NoItems), EmojiText, {})
  BY Maps
<1> QED BY <1>1 DEF ConvertToMessage, OthersOfMessage, GetReply

LEMMA OthersOfMessageAre ==
  ASSUME NEW v
  PROVE  LET o == OthersOfMessage(v) IN
         /\ DOMAIN o = {"mentions", "previewUrl", "emojis", "replyInfo", "createdAt", "updatedAt"}
         /\ o["mentions"] = Mapped(Get(v, "mentions", NoItems), MentionText, Span)
         /\ o["previewUrl"] = Mapped(Get(v, "previewUrl", NoItems), UrlText, Span)
         /\ o["emojis"] = Mapped(Get(v, "emojis", NoItems), EmojiText, {})
         /\ o["replyInfo"] = ConvertToReplyInfo(GetReply(v))
         /\ o["createdAt"] = IsoString(Get(v, "createdAt", Now))
         /\ o["updatedAt"] = IsoString(Get(v, "updatedAt", Now))
         /\ o = [k \in DOMAIN o |-> o[k]]
BY DEF OthersOfMessage

LEMMA ReplyTyped ==
  ASSUME NEW v, TextsIn(v, ReplyText), IsBoolean(Get(v, "isImage", Boolean(FALSE)))
  PROVE  IsReplyInfo(ConvertToReplyInfo(v))
<1>1. NumbersIn(v, {}) /\ ReplyText \intersect DOMAIN OthersOfReply(v) = {}
  BY ReplyIs DEF NumbersIn, ReplyText
<1> DEFINE c == Converted(v, ReplyText, {}, OthersOfReply(v))
<1>2. HasFields(c, ReplyText, {}, DOMAIN OthersOfReply(v))
      /\ \A k \in DOMAIN OthersOfReply(v) : c.object[k] = OthersOfReply(v)[k]
  BY <1>1, ConvertedHas
<1>3. c = ConvertToReplyInfo(v)
  BY ReplyIs
<1> HIDE DEF c
<1>4. HasFields(c, ReplyText, {}, {"isImage"}) /\ c.object["isImage"] = Get(v, "isImage", Boolean(FALSE))
  BY <1>2, ReplyIs
<1> QED BY <1>3, <1>4 DEF IsReplyInfo

LEMMA MessageTyped ==
  ASSUME NEW v, SuitsMessage(v)
  PROVE  IsMessage(ConvertToMessage(v))
<1> DEFINE c == ConvertToMessage(v)
           O == {"mentions", "previewUrl", "emojis", "replyInfo", "createdAt", "updatedAt"}
<1>1. TextsIn(v, MessageText) /\ NumbersIn(v, {}) /\ MessageText \intersect O = {}
  BY DEF SuitsMessage, NumbersIn, MessageText
<1>2. HasFields(c, MessageText, {}, O) /\ \A k \in O : c.object[k] = OthersOfMessage(v)[k]
  <2>1. DOMAIN OthersOfMessage(v) = O
    BY OthersOfMessageAre
  <2> HIDE DEF O
  <2> QED BY <1>1, <2>1, MessageIs, ConvertedHas
<1>3. ListOf(IsMention, c.object["mentions"])
  <2> DEFINE x == Get(v, "mentions", NoItems)
  <2>1. IsList(Mapped(x, MentionText, Span))
        /\ \A i \in DOMAIN Mapped(x, MentionText, Span).array :
             HasFields(Mapped(x, MentionText, Span).array[i], MentionText, Span, {})
    BY KeyNames, MappedHas DEF SuitsMessage, HasLists, ItemsSuit
  <2> QED BY <1>2, <2>1, OthersOfMessageAre DEF ListOf, IsList, IsMention
<1>4. ListOf(IsUrl, c.object["previewUrl"])
  <2> DEFINE x == Get(v, "previewUrl", NoItems)
  <2>1. IsList(Mapped(x, UrlText, Span))
        /\ \A i \in DOMAIN Mapped(x, UrlText, Span).array :
             HasFields(Mapped(x, UrlText, Span).array[i], UrlText, Span, {})
    BY KeyNames, MappedHas DEF SuitsMessage, HasLists, ItemsSuit
  <2> QED BY <1>2, <2>1, OthersOfMessageAre DEF ListOf, IsList, IsUrl
<1>5. ListOf(IsEmoji, c.object["emojis"])
  <2> DEFINE x == Get(v, "emojis", NoItems)
  <2>1. IsList(Mapped(x, EmojiText, {}))
        /\ \A i \in DOMAIN Mapped(x, EmojiText, {}).array :
             HasFields(Mapped(x, EmojiText, {}).array[i], EmojiText, {}, {})
    <3>1. EmojiText \intersect {} = {} /\ IsList(x)
          /\ \A i \in DOMAIN x.array : TextsIn(x.array[i], EmojiText) /\ NumbersIn(x.array[i], {})
      BY DEF SuitsMessage, HasLists, ItemsSuit
    <3> HIDE DEF x
    <3> QED BY <3>1, MappedHas
  <2>2. c.object["emojis"] = Mapped(x, EmojiText, {})
    BY <1>2, OthersOfMessageAre
  <2> HIDE DEF x, c
  <2> QED BY <2>1, <2>2 DEF ListOf, IsList, IsEmoji
<1>6. IsReplyInfo(c.object["replyInfo"])
  <2>1. c.object["replyInfo"] = ConvertToReplyInfo(GetReply(v))
    BY <1>2, OthersOfMessageAre
  <2>2. IsReplyInfo(ConvertToReplyInfo(GetReply(v)))
    BY ReplyTyped DEF SuitsMessage
  <2> HIDE DEF c
  <2> QED BY <2>1, <2>2
<1>7. IsText(c.object["createdAt"]) /\ IsText(c.object["updatedAt"])
  BY <1>2, OthersOfMessageAre DEF SuitsMessage
<1> HIDE DEF c
<1>8. HasFields(c, MessageText \union {"createdAt", "updatedAt"}, {},
                {"mentions", "previewUrl", "emojis", "replyInfo"})
  BY <1>2, <1>7 DEF HasFields
<1> QED BY <1>3, <1>4, <1>5, <1>6, <1>8 DEF IsMessage, c

LEMMA IsoFine ==
  ASSUME NEW x, NEW n \in Nat, n >= 1, Fine(x, n)
  PROVE  Fine(IsoString(x), n)
BY TextIsText, LeafKinds DEF IsoString

LEMMA NowIs ==
  ASSUME NEW n \in Nat, n >= 1
  PROVE  Fine(Now, n) /\ Trims(Now, NoOptions) = Now
<1>1. ~Is("array", Now) /\ ~Is("object", Now) /\ ~Is("padded", Now) /\ ~Is("oid", Now)
  BY DEF Now, Date, Is
<1>2. Fine(Now, n) /\ Fine(Now, 1)
  BY <1>1, FineLeaf
<1>3. IsValue(Now)
  <2>1. 1 \in 0 .. Depth + 1
    BY DepthAssumption
  <2> QED BY <1>2, <2>1, FineIsValue
<1> QED BY <1>1, <1>2, <1>3, TrimsOfLeaf DEF IsValue, Ends, ConvertObjectIdToString

LEMMA IsoPlain ==
  ASSUME NEW x, IsValue(x)
  PROVE  IsoString(Trims(x, NoOptions)) = Trims(IsoString(x), NoOptions)
<1>1. CASE Is("date", x)
  <2>1. ~Is("array", x) /\ ~Is("object", x) /\ ~Is("padded", x) /\ ~Is("oid", x)
    BY <1>1 DEF Is
  <2>2. Trims(x, NoOptions) = x
    BY <2>1, TrimsOfLeaf DEF IsValue, Ends, ConvertObjectIdToString
  <2> QED BY <1>1, <2>2, TextIsText, TrimsOfTyped DEF IsoString
<1>2. CASE ~Is("date", x)
  <2>1. ~Is("date", Trims(x, NoOptions))
    <3>1. CASE Is("array", x) \/ Is("object", x)
      BY <3>1, TrimsKind DEF Is
    <3>2. CASE ~Is("array", x) /\ ~Is("object", x)
      <4>1. \A s : ~Is("date", Text(s))
        BY DEF Is, Text
      <4> QED BY <1>2, <3>2, <4>1, TrimsOfLeaf DEF IsValue, Ends, ConvertObjectIdToString
    <3> QED BY <3>1, <3>2
  <2> QED BY <1>2, <2>1 DEF IsoString
<1> QED BY <1>1, <1>2

LEMMA ReplyFine ==
  ASSUME NEW v, NEW n \in Nat, n >= 2, Fine(v, n)
  PROVE  Fine(ConvertToReplyInfo(v), n)
<1>1. n - 1 \in Nat /\ n - 1 >= 1 /\ n = (n - 1) + 1
  OBVIOUS
<1>2. Fine(Get(v, "isImage", Boolean(FALSE)), n - 1)
  BY <1>1, Defaults, LeafKinds, FineGet
<1> QED BY <1>1, <1>2, ReplyIs, ConvertedFine

LEMMA ReplyPlain ==
  ASSUME NEW v, NEW n \in Nat, n >= 2, n <= Depth + 1, Fine(v, n)
  PROVE  ConvertToReplyInfo(Trims(v, NoOptions)) = Trims(ConvertToReplyInfo(v), NoOptions)
<1> DEFINE T == Trims(v, NoOptions)
           o(w) == OthersOfReply(w)
<1>1. IsValue(v) /\ IsValue(ConvertToReplyInfo(v))
  <2>1. n \in 0 .. Depth + 1
    BY DepthAssumption
  <2> QED BY <2>1, FineIsValue, ReplyFine
<1>2. Get(T, "isImage", Boolean(FALSE)) = Trims(Get(v, "isImage", Boolean(FALSE)), NoOptions)
  BY <1>1, Defaults, TrimsOfTyped, GetOfPlain
<1>3. DOMAIN OthersOfReply(T) = DOMAIN OthersOfReply(v)
      /\ \A k \in DOMAIN OthersOfReply(v) : OthersOfReply(T)[k] = Trims(OthersOfReply(v)[k], NoOptions)
  BY <1>2, ReplyIs
<1>4. "_id" \notin ReplyText \union {} \union DOMAIN OthersOfReply(v) /\ "id" \notin ReplyText \union {}
  <2>1. DOMAIN OthersOfReply(v) = {"isImage"}
    BY ReplyIs
  <2> QED BY <2>1, KeyNames DEF ReplyText
<1>5. ConvertToReplyInfo(v) = Converted(v, ReplyText, {}, OthersOfReply(v))
      /\ ConvertToReplyInfo(T) = Converted(T, ReplyText, {}, OthersOfReply(T))
  BY ReplyIs
<1>6. IsValue(Converted(v, ReplyText, {}, OthersOfReply(v)))
  BY <1>1, <1>5
<1>7. Converted(T, ReplyText, {}, OthersOfReply(T)) = Trims(Converted(v, ReplyText, {}, OthersOfReply(v)), NoOptions)
  BY <1>1, <1>3, <1>4, <1>6, ConvertedPlain
<1> QED BY <1>5, <1>7

LEMMA MessageFine ==
  ASSUME NEW v, NEW n \in Nat, n >= 3, Fine(v, n + 1), HasLists(v)
  PROVE  Fine(ConvertToMessage(v), n + 1)
<1>1. n - 1 \in Nat /\ n - 1 >= 2 /\ n = (n - 1) + 1 /\ n >= 1 /\ n >= 2
  OBVIOUS
<1>2. \A k : Fine(Get(v, k, NoItems), n) /\ Fine(Get(v, k, EmptyObject), n) /\ Fine(Get(v, k, Now), n)
  BY <1>1, NothingIn, NowIs, FineGet
<1>3. \A k \in {"mentions", "previewUrl", "emojis"} : \A T, M : Fine(Mapped(Get(v, k, NoItems), T, M), n)
  BY <1>1, <1>2, MappedFine DEF HasLists
<1>4. Fine(ConvertToReplyInfo(GetReply(v)), n)
  BY <1>1, <1>2, ReplyFine DEF GetReply
<1>5. \A k : Fine(IsoString(Get(v, k, Now)), n)
  BY <1>1, <1>2, IsoFine
<1>6. \A k \in DOMAIN OthersOfMessage(v) : Fine(OthersOfMessage(v)[k], n)
  <2>1. Fine(OthersOfMessage(v)["mentions"], n)
    BY <1>3, OthersOfMessageAre
  <2>2. Fine(OthersOfMessage(v)["previewUrl"], n)
    BY <1>3, OthersOfMessageAre
  <2>3. Fine(OthersOfMessage(v)["emojis"], n)
    BY <1>3, OthersOfMessageAre
  <2> QED BY <1>4, <1>5, <2>1, <2>2, <2>3, OthersOfMessageAre
<1> QED BY <1>1, <1>6, MessageIs, ConvertedFine

-----------------------------------------------------------------------------
LEMMA KeysOfMessage ==
  ASSUME NEW v
  PROVE  /\ Is("object", ConvertToMessage(v))
         /\ DOMAIN ConvertToMessage(v).object = MessageText \union DOMAIN OthersOfMessage(v)
         /\ Unnamed(ConvertToMessage(v))
<1> DEFINE c == Converted(v, MessageText, {}, OthersOfMessage(v))
<1>1. Is("object", c) /\ DOMAIN c.object = MessageText \union {} \union DOMAIN OthersOfMessage(v)
  BY ConvertedIs
<1>2. "_id" \notin MessageText \union DOMAIN OthersOfMessage(v)
  BY OthersOfMessageAre DEF MessageText
<1>3. c = ConvertToMessage(v)
  BY MessageIs
<1> HIDE DEF c
<1> QED BY <1>1, <1>2, <1>3 DEF Unnamed

(* A message: trimmed and then converted, or converted and then trimmed. *)
LEMMA MessagePlain ==
  ASSUME NEW v, NEW n \in Nat, n >= 3, n <= Depth, Fine(v, n + 1), HasLists(v), Unnamed(v)
  PROVE  ConvertToMessage(Trims(v, NoOptions)) = Trims(ConvertToMessage(v), NoOptions)
<1> DEFINE T == Trims(v, NoOptions)
<1>0. n - 1 \in Nat /\ n - 1 >= 2 /\ n - 1 <= Depth /\ n = (n - 1) + 1 /\ n >= 1 /\ n >= 2
      /\ n <= Depth + 1
  BY DepthAssumption
<1>1. IsValue(v) /\ IsValue(ConvertToMessage(v))
  <2>1. n + 1 \in 0 .. Depth + 1
    BY DepthAssumption
  <2> QED BY <2>1, FineIsValue, MessageFine
<1>2. \A k : Fine(Get(v, k, NoItems), n) /\ Fine(Get(v, k, EmptyObject), n) /\ Fine(Get(v, k, Now), n)
  BY <1>0, NothingIn, NowIs, FineGet
<1>3. \A k : IsValue(Get(v, k, Now))
  <2>1. n \in 0 .. Depth + 1
    BY <1>0
  <2> QED BY <1>2, <2>1, FineIsValue
<1>4. \A k : k # "_id" /\ k # "id" =>
        /\ Get(T, k, NoItems) = Trims(Get(v, k, NoItems), NoOptions)
        /\ Get(T, k, EmptyObject) = Trims(Get(v, k, EmptyObject), NoOptions)
        /\ Get(T, k, Now) = Trims(Get(v, k, Now), NoOptions)
  <2>1. Trims(Now, NoOptions) = Now
    BY <1>0, NowIs
  <2> QED BY <1>1, <2>1, TrimsOfNothing, GetOfPlain
<1> HIDE DEF T
<1>5. ASSUME NEW k \in {"mentions", "previewUrl", "emojis"}, NEW L, NEW M, "_id" \notin L \union M,
             "id" \notin L \union M
      PROVE  Mapped(Get(T, k, NoItems), L, M) = Trims(Mapped(Get(v, k, NoItems), L, M), NoOptions)
  <2>1. Get(T, k, NoItems) = Trims(Get(v, k, NoItems), NoOptions)
    BY <1>4
  <2>2. IsList(Get(v, k, NoItems)) /\ Fine(Get(v, k, NoItems), (n - 1) + 1)
    BY <1>0, <1>2 DEF HasLists
  <2> DEFINE x == Get(v, k, NoItems)
  <2> HIDE DEF x
  <2>3. Mapped(Trims(x, NoOptions), L, M) = Trims(Mapped(x, L, M), NoOptions)
    BY <1>0, <1>5, <2>2, MappedPlain DEF x
  <2> QED BY <2>1, <2>3 DEF x
<1>6. ConvertToReplyInfo(GetReply(T)) = Trims(ConvertToReplyInfo(GetReply(v)), NoOptions)
  BY <1>0, <1>2, <1>4, ReplyPlain DEF GetReply
<1>7. \A k : k # "_id" /\ k # "id" => IsoString(Get(T, k, Now)) = Trims(IsoString(Get(v, k, Now)), NoOptions)
  BY <1>3, <1>4, IsoPlain
<1>8. DOMAIN OthersOfMessage(T) = DOMAIN OthersOfMessage(v)
      /\ \A k \in DOMAIN OthersOfMessage(v) : OthersOfMessage(T)[k] = Trims(OthersOfMessage(v)[k], NoOptions)
  <2>1. OthersOfMessage(T)["mentions"] = Trims(OthersOfMessage(v)["mentions"], NoOptions)
    BY <1>5, OthersOfMessageAre, KeyNames
  <2>2. OthersOfMessage(T)["previewUrl"] = Trims(OthersOfMessage(v)["previewUrl"], NoOptions)
    BY <1>5, OthersOfMessageAre, KeyNames
  <2>3. OthersOfMessage(T)["emojis"] = Trims(OthersOfMessage(v)["emojis"], NoOptions)
    <3>1. "_id" \notin EmojiText \union {} /\ "id" \notin EmojiText \union {}
      BY DEF EmojiText
    <3> QED BY <1>5, <3>1, OthersOfMessageAre
  <2>4. OthersOfMessage(T)["replyInfo"] = Trims(OthersOfMessage(v)["replyInfo"], NoOptions)
    BY <1>6, OthersOfMessageAre
  <2>5. OthersOfMessage(T)["createdAt"] = Trims(OthersOfMessage(v)["createdAt"], NoOptions)
        /\ OthersOfMessage(T)["updatedAt"] = Trims(OthersOfMessage(v)["updatedAt"], NoOptions)
    BY <1>7, OthersOfMessageAre
  <2> QED BY <2>1, <2>2, <2>3, <2>4, <2>5, OthersOfMessageAre
<1>9. "_id" \notin MessageText \union {} \union DOMAIN OthersOfMessage(v)
  BY OthersOfMessageAre DEF MessageText
<1>10. IsValue(Converted(v, MessageText, {}, OthersOfMessage(v)))
  BY <1>1, MessageIs
<1>11. Converted(Trims(v, NoOptions), MessageText, {}, OthersOfMessage(T))
         = Trims(Converted(v, MessageText, {}, OthersOfMessage(v)), NoOptions)
  BY <1>1, <1>8, <1>9, <1>10, ConvertedPlain DEF Unnamed
<1> QED BY <1>11, MessageIs DEF T

-----------------------------------------------------------------------------
(* What is converted twice. *)

(* To convert again changes nothing, if it changes none of the others. *)
LEMMA ConvertedTwice ==
  ASSUME NEW v, NEW T, NEW M, NEW others, NEW twice, TextsIn(v, T), NumbersIn(v, M),
         T \intersect M = {}, (T \union M) \intersect DOMAIN others = {},
         DOMAIN twice = DOMAIN others, \A k \in DOMAIN others : twice[k] = others[k]
  PROVE  Converted(Converted(v, T, M, others), T, M, twice) = Converted(v, T, M, others)
<1> DEFINE K == T \union M \union DOMAIN others
           c == Converted(v, T, M, others)
           f == [k \in K |-> CASE k \in DOMAIN others -> others[k]
                               [] k \in M \ DOMAIN others -> Get(v, k, Zero)
                               [] OTHER -> Get(v, k, Empty)]
           g == [k \in K |-> CASE k \in DOMAIN twice -> twice[k]
                               [] k \in M \ DOMAIN twice -> Get(c, k, Zero)
                               [] OTHER -> Get(c, k, Empty)]
<1>1. c = Object(f) /\ Converted(c, T, M, twice) = Object(g)
  BY DEF Converted
<1>2. /\ Is("object", c) /\ DOMAIN c.object = K
      /\ \A k \in DOMAIN others : c.object[k] = others[k]
      /\ \A k \in M \ DOMAIN others : c.object[k] = Get(v, k, Zero)
      /\ \A k \in T \ (M \union DOMAIN others) : c.object[k] = Get(v, k, Empty)
  BY ConvertedIs
<1>3. /\ DOMAIN f = K /\ f = [k \in K |-> f[k]]
      /\ \A k \in DOMAIN others : f[k] = others[k]
      /\ \A k \in M \ DOMAIN others : f[k] = Get(v, k, Zero)
      /\ \A k \in T \ (M \union DOMAIN others) : f[k] = Get(v, k, Empty)
  OBVIOUS
<1>4. /\ DOMAIN g = K /\ g = [k \in K |-> g[k]]
      /\ \A k \in DOMAIN others : g[k] = others[k]
      /\ \A k \in M \ DOMAIN others : g[k] = Get(c, k, Zero)
      /\ \A k \in T \ (M \union DOMAIN others) : g[k] = Get(c, k, Empty)
  <2> HIDE DEF c
  <2> QED OBVIOUS
<1> HIDE DEF c, f, g
<1>5. \A k \in M : Get(c, k, Zero) = Get(v, k, Zero)
  <2> TAKE k \in M
  <2>1. c.object[k] = Get(v, k, Zero) /\ c.object[k] # Undefined /\ k \in DOMAIN c.object
    BY <1>2, LeafKinds DEF NumbersIn
  <2> QED BY <1>2, <2>1 DEF Get
<1>6. \A k \in T : Get(c, k, Empty) = Get(v, k, Empty)
  <2> TAKE k \in T
  <2>1. c.object[k] = Get(v, k, Empty) /\ c.object[k] # Undefined /\ k \in DOMAIN c.object
    BY <1>2, LeafKinds DEF TextsIn
  <2> QED BY <1>2, <2>1 DEF Get
<1>7. \A k \in K : f[k] = g[k]
  BY <1>3, <1>4, <1>5, <1>6
<1> HIDE DEF K
<1>8. f = g
  BY <1>3, <1>4, <1>7
<1> QED BY <1>1, <1>8 DEF c

LEMMA MappedTwice ==
  ASSUME NEW x, NEW T, NEW M, IsList(x), ItemsSuit(x, T, M), T \intersect M = {}
  PROVE  Mapped(Mapped(x, T, M), T, M) = Mapped(x, T, M)
<1> DEFINE m == Mapped(x, T, M)
           D == DOMAIN x.array
<1>1. DOMAIN m.array = D /\ \A i \in D : m.array[i] = Converted(x.array[i], T, M, NoFields)
  BY MappedItems
<1>2. m = Array([i \in D |-> Converted(x.array[i], T, M, NoFields)])
  BY DEF Mapped
<1>3. \A i \in D : Converted(Converted(x.array[i], T, M, NoFields), T, M, NoFields)
                     = Converted(x.array[i], T, M, NoFields)
  BY NoOthers, ConvertedTwice DEF ItemsSuit
<1> HIDE DEF m, D
<1>4. Mapped(m, T, M) = Array([i \in D |-> Converted(m.array[i], T, M, NoFields)])
  BY <1>1 DEF Mapped
<1>5. [i \in D |-> Converted(m.array[i], T, M, NoFields)] = [i \in D |-> Converted(x.array[i], T, M, NoFields)]
  BY <1>1, <1>3
<1> QED BY <1>2, <1>4, <1>5 DEF m

LEMMA ReplyTwice ==
  ASSUME NEW v, TextsIn(v, ReplyText), IsBoolean(Get(v, "isImage", Boolean(FALSE)))
  PROVE  ConvertToReplyInfo(ConvertToReplyInfo(v)) = ConvertToReplyInfo(v)
<1> DEFINE c == Converted(v, ReplyText, {}, OthersOfReply(v))
<1>1. c = ConvertToReplyInfo(v)
  BY ReplyIs
<1> HIDE DEF c
<1>2. IsReplyInfo(c)
  BY <1>1, ReplyTyped
<1>3. c.object["isImage"] = Get(v, "isImage", Boolean(FALSE)) /\ Is("object", c) /\ "isImage" \in DOMAIN c.object
  <2>1. "isImage" \in DOMAIN OthersOfReply(v) /\ OthersOfReply(v)["isImage"] = Get(v, "isImage", Boolean(FALSE))
    BY ReplyIs
  <2>2. /\ Is("object", c) /\ DOMAIN c.object = ReplyText \union {} \union DOMAIN OthersOfReply(v)
        /\ \A k \in DOMAIN OthersOfReply(v) : c.object[k] = OthersOfReply(v)[k]
    BY ConvertedIs DEF c
  <2> QED BY <2>1, <2>2
<1>4. Get(c, "isImage", Boolean(FALSE)) = Get(v, "isImage", Boolean(FALSE))
  BY <1>3, LeafKinds DEF Get
<1>5. DOMAIN OthersOfReply(c) = DOMAIN OthersOfReply(v)
      /\ \A k \in DOMAIN OthersOfReply(v) : OthersOfReply(c)[k] = OthersOfReply(v)[k]
  <2>1. DOMAIN OthersOfReply(c) = {"isImage"} /\ DOMAIN OthersOfReply(v) = {"isImage"}
    BY ReplyIs
  <2>2. OthersOfReply(c)["isImage"] = OthersOfReply(v)["isImage"]
    BY <1>4, ReplyIs
  <2> QED BY <2>1, <2>2
<1>6. NumbersIn(v, {}) /\ ReplyText \intersect {} = {}
  BY DEF NumbersIn
<1>7. (ReplyText \union {}) \intersect DOMAIN OthersOfReply(v) = {}
  <2>1. DOMAIN OthersOfReply(v) = {"isImage"}
    BY ReplyIs
  <2> QED BY <2>1 DEF ReplyText
<1>8. Converted(c, ReplyText, {}, OthersOfReply(c)) = c
  BY <1>5, <1>6, <1>7, ConvertedTwice DEF c
<1> QED BY <1>1, <1>8, ReplyIs

(* A message that was converted is converted to itself, its dates            *)
(* included.                                                                 *)
LEMMA MessageTwice ==
  ASSUME NEW v, SuitsMessage(v)
  PROVE  ConvertToMessage(ConvertToMessage(v)) = ConvertToMessage(v)
<1> DEFINE c == ConvertToMessage(v)
           O == {"mentions", "previewUrl", "emojis", "replyInfo", "createdAt", "updatedAt"}
<1>1. c = Converted(v, MessageText, {}, OthersOfMessage(v))
  BY MessageIs
<1>2. DOMAIN OthersOfMessage(v) = O
  BY OthersOfMessageAre
<1> HIDE DEF c
<1>3. Is("object", c) /\ \A k \in O : k \in DOMAIN c.object /\ c.object[k] = OthersOfMessage(v)[k]
  <2> HIDE DEF O
  <2> QED BY <1>1, <1>2, ConvertedIs
<1>4. \A k \in O : \A d : OthersOfMessage(v)[k] # Undefined => Get(c, k, d) = OthersOfMessage(v)[k]
  BY <1>3 DEF Get
<1>5. \A x, T, M : Mapped(x, T, M) # Undefined
  BY DEF Mapped, Array, Undefined
<1>6. Get(c, "mentions", NoItems) = Mapped(Get(v, "mentions", NoItems), MentionText, Span)
      /\ Get(c, "previewUrl", NoItems) = Mapped(Get(v, "previewUrl", NoItems), UrlText, Span)
      /\ Get(c, "emojis", NoItems) = Mapped(Get(v, "emojis", NoItems), EmojiText, {})
  <2>1. OthersOfMessage(v)["mentions"] = Mapped(Get(v, "mentions", NoItems), MentionText, Span)
        /\ OthersOfMessage(v)["previewUrl"] = Mapped(Get(v, "previewUrl", NoItems), UrlText, Span)
        /\ OthersOfMessage(v)["emojis"] = Mapped(Get(v, "emojis", NoItems), EmojiText, {})
    BY OthersOfMessageAre
  <2> QED BY <1>4, <1>5, <2>1
<1>7. Mapped(Get(c, "mentions", NoItems), MentionText, Span) = Mapped(Get(v, "mentions", NoItems), MentionText, Span)
  <2>1. MentionText \intersect Span = {}
    BY KeyNames
  <2> QED BY <1>6, <2>1, MappedTwice DEF SuitsMessage, HasLists
<1>8. Mapped(Get(c, "previewUrl", NoItems), UrlText, Span) = Mapped(Get(v, "previewUrl", NoItems), UrlText, Span)
  <2>1. UrlText \intersect Span = {}
    BY KeyNames
  <2> QED BY <1>6, <2>1, MappedTwice DEF SuitsMessage, HasLists
<1>9. Mapped(Get(c, "emojis", NoItems), EmojiText, {}) = Mapped(Get(v, "emojis", NoItems), EmojiText, {})
  <2>1. EmojiText \intersect {} = {}
    OBVIOUS
  <2>2. IsList(Get(v, "emojis", NoItems)) /\ ItemsSuit(Get(v, "emojis", NoItems), EmojiText, {})
    BY DEF SuitsMessage, HasLists
  <2> QED BY <1>6, <2>1, <2>2, MappedTwice
<1>10. ConvertToReplyInfo(GetReply(c)) = ConvertToReplyInfo(GetReply(v))
  <2>1. IsReplyInfo(ConvertToReplyInfo(GetReply(v)))
    BY ReplyTyped DEF SuitsMessage
  <2>2. ConvertToReplyInfo(GetReply(v)) # Undefined
    <3>1. ~Is("object", Undefined)
      BY DEF Is, Undefined
    <3> QED BY <2>1, <3>1 DEF IsReplyInfo, HasFields
  <2>3. OthersOfMessage(v)["replyInfo"] = ConvertToReplyInfo(GetReply(v)) /\ "replyInfo" \in O
    BY OthersOfMessageAre
  <2>4. GetReply(c) = ConvertToReplyInfo(GetReply(v))
    BY <1>4, <2>2, <2>3 DEF GetReply
  <2> QED BY <2>4, ReplyTwice DEF SuitsMessage
<1>11. \A k \in {"createdAt", "updatedAt"} : IsoString(Get(c, k, Now)) = IsoString(Get(v, k, Now))
  <2> TAKE k \in {"createdAt", "updatedAt"}
  <2>1. OthersOfMessage(v)[k] = IsoString(Get(v, k, Now)) /\ k \in O
    BY OthersOfMessageAre
  <2>2. IsText(IsoString(Get(v, k, Now)))
    BY DEF SuitsMessage
  <2>3. Get(c, k, Now) = IsoString(Get(v, k, Now))
    BY <1>4, <2>1, <2>2, LeafKinds
  <2>4. ~Is("date", IsoString(Get(v, k, Now)))
    BY <2>2, LeafKinds
  <2> DEFINE y == IsoString(Get(v, k, Now))
  <2>5. IsoString(y) = y
    <3> HIDE DEF y
    <3> QED BY <2>4 DEF IsoString, y
  <2> QED BY <2>3, <2>5
<1>12. DOMAIN OthersOfMessage(c) = DOMAIN OthersOfMessage(v)
       /\ \A k \in DOMAIN OthersOfMessage(v) : OthersOfMessage(c)[k] = OthersOfMessage(v)[k]
  <2>1. OthersOfMessage(c)["mentions"] = OthersOfMessage(v)["mentions"]
        /\ OthersOfMessage(c)["previewUrl"] = OthersOfMessage(v)["previewUrl"]
        /\ OthersOfMessage(c)["emojis"] = OthersOfMessage(v)["emojis"]
    BY <1>7, <1>8, <1>9, OthersOfMessageAre
  <2>2. OthersOfMessage(c)["replyInfo"] = OthersOfMessage(v)["replyInfo"]
    BY <1>10, OthersOfMessageAre
  <2>3. OthersOfMessage(c)["createdAt"] = OthersOfMessage(v)["createdAt"]
        /\ OthersOfMessage(c)["updatedAt"] = OthersOfMessage(v)["updatedAt"]
    BY <1>11, OthersOfMessageAre
  <2> QED BY <2>1, <2>2, <2>3, OthersOfMessageAre
<1>13. NumbersIn(v, {}) /\ TextsIn(v, MessageText) /\ MessageText \intersect {} = {}
  BY DEF NumbersIn, SuitsMessage
<1>14. (MessageText \union {}) \intersect DOMAIN OthersOfMessage(v) = {}
  BY <1>2 DEF MessageText
<1>15. Converted(c, MessageText, {}, OthersOfMessage(c)) = c
  BY <1>1, <1>12, <1>13, <1>14, ConvertedTwice
<1> QED BY <1>15, MessageIs DEF c

(* A converted message has its lists. *)
LEMMA MessageHasLists ==
  ASSUME NEW v, SuitsMessage(v)
  PROVE  HasLists(ConvertToMessage(v))
<1> DEFINE c == ConvertToMessage(v)
<1>1. IsMessage(c)
  BY MessageTyped
<1> HIDE DEF c
<1>2. ASSUME NEW k \in {"mentions", "previewUrl", "emojis"} PROVE IsList(Get(c, k, NoItems))
  <2>1. Is("object", c) /\ k \in DOMAIN c.object /\ IsList(c.object[k])
    BY <1>1 DEF IsMessage, HasFields, ListOf, IsList
  <2>2. c.object[k] # Undefined
    BY <2>1 DEF IsList, Is, Undefined
  <2> QED BY <2>1, <2>2 DEF Get
<1> QED BY <1>2 DEF HasLists, c

-----------------------------------------------------------------------------
(* What the operators give. *)

(* A list without repetition whose elements are all in another one of its    *)
(* length has the same elements.                                             *)
LEMMA SameMembers ==
  ASSUME NEW S, NEW a \in Seq(S), NEW b \in Seq(S), Len(a) = Len(b), IsInjective(a),
         ToSet(a) \subseteq ToSet(b)
  PROVE  ToSet(a) = ToSet(b)
<1> DEFINE n == Len(a)
           D == 1 .. n
           T == ToSet(b)
<1>1. n \in Nat /\ DOMAIN a = D /\ DOMAIN b = D
  OBVIOUS
<1> HIDE DEF n, T
<1>2. IsFiniteSet(D) /\ Cardinality(D) = n
  <2>1. 1 \in Int /\ n \in Int /\ n >= 0
    BY <1>1
  <2>2. IsFiniteSet(1 .. n) /\ Cardinality(1 .. n) = IF 1 > n THEN 0 ELSE n - 1 + 1
    BY <2>1, FS_Interval
  <2> QED BY <2>1, <2>2
<1>3. b \in Surjection(D, T)
  BY <1>1 DEF Surjection, ToSet, T
<1>4. IsFiniteSet(T) /\ Cardinality(T) <= n
  BY <1>2, <1>3, FS_Surjection
<1>5. a \in Injection(D, T)
  BY <1>1 DEF Injection, IsInjective, ToSet, T
<1>6. Cardinality(D) <= Cardinality(T)
  BY <1>4, <1>5, FS_Injection
<1>7. Cardinality(T) \in Nat
  BY <1>4, FS_CardinalityType
<1>8. a \in Surjection(D, T)
  BY <1>1, <1>2, <1>4, <1>5, <1>6, <1>7, FS_Injection
<1> QED BY <1>1, <1>8 DEF T, Surjection, ToSet

LEMMA TakesAny == ASSUME NEW u, NEW c, Takes(u, c) PROVE members[c] # <<>>
  BY DEF Takes, ToSet

LEMMA DocumentIsTyped ==
  ASSUME TypeOK, NEW m \in Messages, kind[m] # "none"
  PROVE  DocumentOf(m) \in Documented
  BY DEF TypeOK, DocumentOf, Documented

LEMMA ReadIsTyped ==
  ASSUME TypeOK, NEW c \in Conversations, members[c] # <<>>
  PROVE  Read(c) \in ReadSet
<1>1. members[c] \in Lists /\ lastActivity[c] \in Nat
  BY DEF TypeOK
<1>2. ASSUME NEW m \in {l \in listed[c] : kind[l] # "none"} PROVE DocumentOf(m) \in Documented
  <2>1. m \in Messages
    BY DEF TypeOK
  <2> QED BY <2>1, DocumentIsTyped
<1> QED BY <1>1, <1>2 DEF Read, ReadSet

LEMMA DocumentsAreTyped ==
  ASSUME TypeOK, NEW r \in Requests PROVE Documents(r) \subseteq Documented
  BY DEF TypeOK, Documents, ReadSet

LEMMA ThereIsTyped ==
  ASSUME TypeOK, NEW r \in Requests
  PROVE  There(r) \subseteq Messages /\ \A m \in There(r) : kind[m] # "none"
  BY DocumentsAreTyped DEF There, Documented

-----------------------------------------------------------------------------
LEMMA InitInv == Init => Inv
<1> SUFFICES ASSUME Init PROVE Inv
  OBVIOUS
<1> USE DEF Init
<1>1. TypeOK
  <2>1. 0 \in 0 .. MaxCrawls
    BY RequestsAssumption
  <2>2. 0 \in 0 .. Cardinality(Conversations)
    BY RequestsAssumption, FS_CardinalityType
  <2> QED BY <2>1, <2>2 DEF TypeOK
<1>2. AskInv /\ ListedInv /\ SeenInv /\ ImagesInv /\ LinksInv /\ AddInv
  BY DEF AskInv, ListedInv, SeenInv, ImagesInv, LinksInv, AddInv, Documents
<1>3. ReadInv
  BY FS_EmptySet DEF ReadInv
<1> QED BY <1>1, <1>2, <1>3 DEF Inv

-----------------------------------------------------------------------------
(* Types, one lemma for each kind of operation. *)

LEMMA OpenForType ==
  ASSUME TypeOK, NEW a \in Lists, NEW c \in Conversations, NEW m \in Messages, OpenFor(a, c, m)
  PROVE  /\ kind' \in [Messages -> Kinds \union {"none"}]
         /\ previews' \in [Messages -> SUBSET Urls]
         /\ crawls' \in [Messages -> 0 .. MaxCrawls]
         /\ members' \in [Conversations -> Lists \union {<<>>}]
         /\ listed' \in [Conversations -> SUBSET Messages]
         /\ lastActivity' \in [Conversations -> Nat]
         /\ now' \in Nat
         /\ \A d \in Conversations : lastActivity'[d] = 0 <=> members'[d] = <<>>
<1> USE DEF TypeOK, OpenFor, Touch, Kinds
<1>1. a # <<>>
  BY RequestsAssumption
<1>2. \A d \in Conversations : lastActivity'[d] = 0 <=> members'[d] = <<>>
  BY <1>1
<1> QED BY <1>2

LEMMA PostInType ==
  ASSUME TypeOK, NEW k \in Kinds, NEW c \in Conversations, NEW m \in Messages, PostIn(k, c, m)
  PROVE  /\ kind' \in [Messages -> Kinds \union {"none"}]
         /\ previews' \in [Messages -> SUBSET Urls]
         /\ crawls' \in [Messages -> 0 .. MaxCrawls]
         /\ members' \in [Conversations -> Lists \union {<<>>}]
         /\ listed' \in [Conversations -> SUBSET Messages]
         /\ lastActivity' \in [Conversations -> Nat]
         /\ now' \in Nat
         /\ \A d \in Conversations : lastActivity'[d] = 0 <=> members'[d] = <<>>
  BY DEF TypeOK, PostIn, Touch

LEMMA WriterType ==
  ASSUME TypeOK,
         \/ \E m \in Messages : Delete(m) \/ Crawl(m)
         \/ \E c \in Conversations, m \in Messages : Open(c, m) \/ Post(c, m)
  PROVE  TypeOK'
<1>1. ASSUME NEW m \in Messages, Delete(m) PROVE TypeOK'
  BY <1>1 DEF TypeOK, Delete, askVars, readVars
<1>2. ASSUME NEW m \in Messages, Crawl(m) PROVE TypeOK'
  <2>1. PICK U \in SUBSET Urls : previews' = [previews EXCEPT ![m] = U]
    BY <1>2 DEF Crawl
  <2>2. crawls[m] + 1 \in 0 .. MaxCrawls
    BY <1>2, RequestsAssumption DEF TypeOK, Crawl
  <2> QED BY <1>2, <2>1, <2>2 DEF TypeOK, Crawl, askVars, readVars
<1>3. ASSUME NEW c \in Conversations, NEW m \in Messages, Open(c, m) PROVE TypeOK'
  <2>1. PICK a \in Lists : OpenFor(a, c, m)
    BY <1>3 DEF Open
  <2> QED BY <1>3, <2>1, OpenForType DEF TypeOK, Open, askVars, readVars
<1>4. ASSUME NEW c \in Conversations, NEW m \in Messages, Post(c, m) PROVE TypeOK'
  <2>1. PICK k \in Kinds : PostIn(k, c, m)
    BY <1>4 DEF Post
  <2> QED BY <1>4, <2>1, PostInType DEF TypeOK, Post, askVars, readVars
<1> QED BY <1>1, <1>2, <1>3, <1>4

LEMMA AskType ==
  ASSUME TypeOK, NEW r \in Requests, NEW o \in Handlers, NEW u \in Users \union {None},
         NEW c \in Conversations \union {None}, NEW first \in Awaits, Ask(r, o, u, c, first)
  PROVE  TypeOK'
  BY DEF TypeOK, Ask, storeVars, readVars

LEMMA RequestType == ASSUME TypeOK, NEW r \in Requests, Request(r) PROVE TypeOK'
<1>1. CASE AddNewConversation(r)
  <2>1. PICK a \in Lists :
          /\ pc' = [pc EXCEPT ![r] = "findExisting"]
          /\ ask' = [ask EXCEPT ![r] = "add"]
          /\ by' = [by EXCEPT ![r] = Head(a)]
          /\ wanted' = [wanted EXCEPT ![r] = a]
          /\ UNCHANGED <<storeVars, target, readVars>>
    BY <1>1 DEF AddNewConversation
  <2>2. Head(a) \in Users
    BY RequestsAssumption
  <2> QED BY <2>1, <2>2 DEF TypeOK, storeVars, readVars, Awaits, Handlers
<1>2. CASE ~AddNewConversation(r)
  BY <1>2, AskType
     DEF Request, GetConversationDetail, GetRelatedConversations, GetOnlineUsers,
         CheckMeetingAllowance, GetStreamToken, HttpRequest, Awaits, Handlers
<1> QED BY <1>1, <1>2

LEMMA FailType == ASSUME TypeOK, NEW r \in Requests, Fail(r) PROVE TypeOK'
  BY DEF TypeOK, Fail, storeVars, askVars, readVars, Failures

LEMMA StepType == ASSUME TypeOK, AskInv, AddInv, NEW r \in Requests, Step(r) PROVE TypeOK'
<1> USE DEF TypeOK, Goto, storeVars, askVars, Awaits, Failures
<1>1. CASE FindOne(r) \/ FindAllowance(r)
  <2>1. target[r] \in Conversations
    BY <1>1 DEF FindOne, FindAllowance, AskInv
  <2>2. Takes(by[r], target[r]) => Read(target[r]) \in ReadSet
    BY <2>1, TakesAny, ReadIsTyped
  <2>3. CASE FindOne(r)
    <3>1. CASE Takes(by[r], target[r])
      <4>1. seen' = [seen EXCEPT ![r] = {Read(target[r])}]
        BY <2>3, <3>1 DEF FindOne
      <4>2. {Read(target[r])} \in SUBSET ReadSet
        BY <2>2, <3>1
      <4>3. seen' \in [Requests -> SUBSET ReadSet]
        BY <4>1, <4>2
      <4> QED BY <2>3, <4>3 DEF FindOne
    <3>2. CASE ~Takes(by[r], target[r])
      BY <2>3, <3>2 DEF FindOne
    <3> QED BY <3>1, <3>2
  <2>4. CASE FindAllowance(r)
    BY <2>2, <2>4 DEF FindAllowance
  <2> QED BY <1>1, <2>3, <2>4
<1>2. CASE AggregateImages(r)
  <2>1. {DocumentOf(m) : m \in {l \in There(r) : kind[l] = "IMAGE"}} \subseteq Documented
    BY ThereIsTyped, DocumentIsTyped
  <2> QED BY <1>2, <2>1 DEF AggregateImages
<1>3. CASE AggregateLinks(r)
  BY <1>3, ThereIsTyped DEF AggregateLinks
<1>4. CASE CountDocuments(r)
  <2>1. Conversing(by[r]) \in SUBSET Conversations
    BY DEF Conversing
  <2>2. Cardinality(Conversing(by[r])) \in 0 .. Cardinality(Conversations)
    BY <2>1, RequestsAssumption, FS_Subset, FS_CardinalityType
  <2> QED BY <1>4, <2>2 DEF CountDocuments
<1>5. CASE Find(r)
  <2>1. {Read(c) : c \in Conversing(by[r])} \subseteq ReadSet
    BY TakesAny, ReadIsTyped DEF Conversing
  <2> QED BY <1>5, <2>1 DEF Find
<1>6. CASE GetUsers(r)
  BY <1>6 DEF GetUsers, readVars
<1>7. CASE GetFriends(r)
  <2>1. friends' \in [Requests -> SUBSET Accounts]
    BY <1>7 DEF GetFriends
  <2>2. pc' \in [Requests -> Awaits \union Failures \union {"idle", "done"}]
    BY <1>7, ZenonT(60) DEF GetFriends
  <2> QED BY <1>7, <2>1, <2>2 DEF GetFriends
<1>8. CASE GenToken(r)
  BY <1>8 DEF GenToken, readVars
<1>9. CASE FindExisting(r)
  <2>1. target' \in [Requests -> Conversations \union {None}]
    BY <1>9 DEF FindExisting
  <2>2. pc' \in [Requests -> Awaits \union Failures \union {"idle", "done"}]
    BY <1>9, ZenonT(60) DEF FindExisting
  <2> QED BY <1>9, <2>1, <2>2 DEF FindExisting, readVars
<1>10. CASE Send(r)
  <2>1. PICK m \in Messages : PostIn("TEXT", target[r], m)
    BY <1>10 DEF Send
  <2>2. target[r] \in Conversations
    BY <1>10 DEF Send, AskInv, AddInv
  <2> QED BY <1>10, <2>1, <2>2, PostInType DEF Send, readVars, Kinds
<1>11. CASE Create(r)
  <2>1. PICK c \in Conversations, m \in Messages :
          OpenFor(wanted[r], c, m) /\ target' = [target EXCEPT ![r] = c]
    BY <1>11 DEF Create
  <2>2. wanted[r] \in Lists
    BY <1>11 DEF Create, AskInv
  <2> QED BY <1>11, <2>1, <2>2, OpenForType DEF Create, readVars
<1>12. CASE Handle(r)
  BY <1>12 DEF Handle
<1> QED BY <1>1, <1>2, <1>3, <1>4, <1>5, <1>6, <1>7, <1>8, <1>9, <1>10, <1>11, <1>12 DEF Step

LEMMA TypeStep == Inv /\ [Next]_vars => TypeOK'
<1> SUFFICES ASSUME Inv, [Next]_vars PROVE TypeOK'
  OBVIOUS
<1> USE DEF Inv
<1>1. CASE UNCHANGED vars
  BY <1>1 DEF TypeOK, vars, storeVars, askVars, readVars
<1>2. CASE Next
  BY <1>2, WriterType, RequestType, StepType, FailType DEF Next
<1> QED BY <1>1, <1>2

-----------------------------------------------------------------------------
(* What a request awaits. *)

LEMMA AskStep == Inv /\ [Next]_vars => AskInv'
<1> SUFFICES ASSUME Inv, [Next]_vars PROVE AskInv'
  OBVIOUS
<1>0. TypeOK /\ AskInv
  BY DEF Inv
<1>1. CASE UNCHANGED <<pc, askVars>>
  BY <1>0, <1>1 DEF AskInv, askVars
<1>2. ASSUME NEW r \in Requests, Request(r) PROVE AskInv'
  <2>1. CASE GetConversationDetail(r) \/ GetRelatedConversations(r) \/ GetOnlineUsers(r)
    BY <1>0, <2>1
       DEF TypeOK, AskInv, Ask, GetConversationDetail, GetRelatedConversations, GetOnlineUsers, Handlers
  <2>2. CASE CheckMeetingAllowance(r)
    <3>1. PICK u \in Users, c \in Conversations : Ask(r, "allowance", u, c, "findAllowance")
      BY <2>2 DEF CheckMeetingAllowance
    <3>2. ask'[r] = "allowance" /\ pc'[r] = "findAllowance" /\ target'[r] \in Conversations
      BY <1>0, <3>1 DEF TypeOK, Ask
    <3>3. \A q \in Requests \ {r} : UNCHANGED <<pc[q], ask[q], target[q], wanted[q]>>
      BY <1>0, <3>1 DEF TypeOK, Ask
    <3> QED BY <1>0, <3>2, <3>3 DEF AskInv, Handlers
  <2>4. CASE GetStreamToken(r) \/ HttpRequest(r)
    BY <1>0, <2>4 DEF TypeOK, AskInv, Ask, GetStreamToken, HttpRequest, Handlers
  <2>3. CASE AddNewConversation(r)
    BY <1>0, <2>3 DEF TypeOK, AskInv, AddNewConversation, Handlers
  <2> QED BY <1>2, <2>1, <2>2, <2>3, <2>4 DEF Request
<1>3. ASSUME NEW r \in Requests, Fail(r) PROVE AskInv'
  <2>1. pc[r] # "idle" /\ UNCHANGED <<ask, target, wanted>> /\ pc' = [pc EXCEPT ![r] = "failed"]
    BY <1>3 DEF Fail, askVars, Awaits
  <2> QED BY <1>0, <2>1 DEF TypeOK, AskInv
<1>4. ASSUME NEW r \in Requests, Step(r) PROVE AskInv'
  <2>1. CASE FindOne(r) \/ AggregateImages(r) \/ AggregateLinks(r) \/ CountDocuments(r) \/ Find(r)
    BY <1>0, <2>1
       DEF TypeOK, AskInv, askVars, Goto, FindOne, AggregateImages, AggregateLinks, CountDocuments,
           Find
  <2>2. CASE GetUsers(r) \/ GetFriends(r) \/ FindAllowance(r) \/ GenToken(r) \/ Handle(r)
    BY <1>0, <2>2
       DEF TypeOK, AskInv, askVars, Goto, GetUsers, GetFriends, FindAllowance, GenToken, Handle
  <2>3. CASE FindExisting(r)
    BY <1>0, <2>3 DEF TypeOK, AskInv, Goto, FindExisting
  <2>4. CASE Send(r) \/ Create(r)
    BY <1>0, <2>4 DEF TypeOK, AskInv, askVars, Goto, Send, Create
  <2> QED BY <1>4, <2>1, <2>2, <2>3, <2>4 DEF Step
<1> QED BY <1>1, <1>2, <1>3, <1>4 DEF Next, vars, Open, Post, Delete, Crawl

-----------------------------------------------------------------------------
(* The documents.  In every step but those of the writers, they are left     *)
(* alone; Kept is what all steps do to a message that a conversation lists.  *)

Kept(m) ==
  /\ IsListed(m)'
  /\ kind'[m] \in {kind[m], "none"}
  /\ crawls[m] <= crawls'[m]
  /\ crawls'[m] = crawls[m] => previews'[m] = previews[m]

LEMMA PostKeeps ==
  ASSUME TypeOK, NEW k \in Kinds, NEW c \in Conversations, NEW n \in Messages, PostIn(k, c, n),
         NEW m \in Messages, IsListed(m)
  PROVE  Kept(m)
<1>1. m # n
  BY DEF PostIn, New, IsListed
<1> QED BY <1>1 DEF TypeOK, PostIn, IsListed, Kept

LEMMA OpenKeeps ==
  ASSUME TypeOK, ListedInv, NEW a \in Lists, NEW c \in Conversations, NEW n \in Messages, OpenFor(a, c, n),
         NEW m \in Messages, IsListed(m)
  PROVE  Kept(m)
<1>1. m # n
  BY DEF OpenFor, New, IsListed
<1> QED BY <1>1 DEF TypeOK, ListedInv, OpenFor, IsListed, Kept

LEMMA StoreStep ==
  ASSUME Inv, [Next]_vars
  PROVE  \/ UNCHANGED storeVars
         \/ \E m \in Messages : Delete(m) \/ Crawl(m)
         \/ \E k \in Kinds, c \in Conversations, m \in Messages : PostIn(k, c, m)
         \/ \E a \in Lists, c \in Conversations, m \in Messages : OpenFor(a, c, m)
<1>1. ASSUME NEW r \in Requests, Request(r) \/ Fail(r) PROVE UNCHANGED storeVars
  BY <1>1
     DEF Request, Ask, AddNewConversation, GetConversationDetail, GetRelatedConversations,
         GetOnlineUsers, CheckMeetingAllowance, GetStreamToken, HttpRequest, Fail
<1>2. ASSUME NEW r \in Requests, Step(r), ~Send(r), ~Create(r) PROVE UNCHANGED storeVars
  BY <1>2
     DEF Step, FindOne, AggregateImages, AggregateLinks, CountDocuments, Find, GetUsers, GetFriends,
         FindAllowance, GenToken, Handle, FindExisting
<1>3. ASSUME NEW r \in Requests, Send(r)
      PROVE  \E k \in Kinds, c \in Conversations, m \in Messages : PostIn(k, c, m)
  <2>1. target[r] \in Conversations
    BY <1>3 DEF Inv, AskInv, AddInv, Send, Goto
  <2> QED BY <1>3, <2>1 DEF Send, Kinds
<1>4. ASSUME NEW r \in Requests, Create(r)
      PROVE  \E a \in Lists, c \in Conversations, m \in Messages : OpenFor(a, c, m)
  <2>1. wanted[r] \in Lists
    BY <1>4 DEF Inv, AskInv, Create, Goto
  <2> QED BY <1>4, <2>1 DEF Create
<1> QED BY <1>1, <1>2, <1>3, <1>4 DEF Next, vars, Open, Post

LEMMA StepKeeps ==
  ASSUME Inv, [Next]_vars, NEW m \in Messages, IsListed(m) PROVE Kept(m)
<1>0. TypeOK /\ ListedInv
  BY DEF Inv
<1>1. CASE UNCHANGED storeVars
  BY <1>0, <1>1 DEF TypeOK, storeVars, IsListed, Kept
<1>2. CASE \E n \in Messages : Delete(n) \/ Crawl(n)
  BY <1>0, <1>2 DEF TypeOK, Delete, Crawl, IsListed, Kept
<1> QED BY <1>0, <1>1, <1>2, StoreStep, PostKeeps, OpenKeeps

LEMMA MembersStay ==
  ASSUME Inv, [Next]_vars, NEW c \in Conversations, members[c] # <<>>
  PROVE  members'[c] = members[c]
  BY StoreStep DEF Inv, TypeOK, storeVars, Delete, Crawl, PostIn, OpenFor

LEMMA ListedStep == Inv /\ [Next]_vars => ListedInv'
<1> SUFFICES ASSUME Inv, [Next]_vars PROVE ListedInv'
  OBVIOUS
<1>0. TypeOK /\ ListedInv
  BY DEF Inv
<1>1. CASE UNCHANGED <<members, listed>>
  BY <1>0, <1>1 DEF ListedInv
<1>2. ASSUME NEW k \in Kinds, NEW c \in Conversations, NEW m \in Messages, PostIn(k, c, m)
      PROVE  ListedInv'
  BY <1>0, <1>2 DEF TypeOK, ListedInv, PostIn
<1>3. ASSUME NEW a \in Lists, NEW c \in Conversations, NEW m \in Messages, OpenFor(a, c, m)
      PROVE  ListedInv'
  BY <1>0, <1>3, RequestsAssumption DEF TypeOK, ListedInv, OpenFor
<1> QED BY <1>1, <1>2, <1>3, StoreStep DEF storeVars, Delete, Crawl

-----------------------------------------------------------------------------
(* What was read. *)

LEMMA SeenChanges ==
  ASSUME Inv, [Next]_vars, NEW r \in Requests, seen'[r] # seen[r]
  PROVE  UNCHANGED storeVars /\ \A s \in seen'[r] : \E c \in Conversations : s = Read(c)
<1>0. TypeOK /\ AskInv
  BY DEF Inv
<1>1. \E q \in Requests : FindOne(q) \/ Find(q) \/ FindAllowance(q)
  BY <1>0
     DEF TypeOK, Next, vars, askVars, readVars, Delete, Crawl, Open, Post, Request, Ask,
         AddNewConversation, GetConversationDetail, GetRelatedConversations, GetOnlineUsers,
         CheckMeetingAllowance, GetStreamToken, HttpRequest, Fail, Step, AggregateImages,
         AggregateLinks, CountDocuments, GetUsers, GetFriends, GenToken, Handle, FindExisting, Send,
         Create
<1>2. PICK q \in Requests : FindOne(q) \/ Find(q) \/ FindAllowance(q)
  BY <1>1
<1>3. q = r
  BY <1>0, <1>2 DEF TypeOK, FindOne, Find, FindAllowance
<1>4. CASE FindOne(r)
  BY <1>0, <1>4 DEF TypeOK, AskInv, FindOne, Goto
<1>5. CASE Find(r)
  BY <1>0, <1>5 DEF TypeOK, Find, Conversing
<1>6. CASE FindAllowance(r)
  BY <1>0, <1>6 DEF TypeOK, AskInv, FindAllowance, Goto
<1> QED BY <1>2, <1>3, <1>4, <1>5, <1>6

(* A request reads once it is made, and is answered in one step at most. *)
LEMMA ReadStep == Inv /\ [Next]_vars => ReadInv'
<1> SUFFICES ASSUME Inv, [Next]_vars PROVE ReadInv'
  OBVIOUS
<1>0. TypeOK /\ AskInv /\ ReadInv
  BY DEF Inv
<1>1. CASE UNCHANGED <<pc, ask, seen, result>>
  BY <1>0, <1>1 DEF ReadInv
<1>2. ASSUME NEW r \in Requests, Request(r) PROVE ReadInv'
  <2>1. \E o \in Handlers, first \in Awaits \ {"aggregateImages", "aggregateLinks", "getUsers"} :
          pc' = [pc EXCEPT ![r] = first] /\ ask' = [ask EXCEPT ![r] = o]
    BY <1>2
       DEF Request, Ask, AddNewConversation, GetConversationDetail, GetRelatedConversations,
           GetOnlineUsers, CheckMeetingAllowance, GetStreamToken, HttpRequest, Awaits, Handlers
  <2>2. UNCHANGED <<seen, result>>
    BY <1>2
       DEF Request, Ask, AddNewConversation, GetConversationDetail, GetRelatedConversations, readVars,
           GetOnlineUsers, CheckMeetingAllowance, GetStreamToken, HttpRequest
  <2> QED BY <1>0, <2>1, <2>2 DEF TypeOK, ReadInv, Awaits
<1>3. ASSUME NEW r \in Requests, Fail(r) PROVE ReadInv'
  BY <1>0, <1>3 DEF TypeOK, ReadInv, Fail, askVars, readVars
<1>4. ASSUME NEW r \in Requests, Step(r) PROVE ReadInv'
  <2> DEFINE Reading == {"aggregateImages", "aggregateLinks", "getUsers", "done"}
  <2>1. ASSUME NEW S, IsFiniteSet(S), seen' = [seen EXCEPT ![r] = S],
               pc'[r] \in Reading /\ ask[r] = "detail" => \E s \in S : S = {s},
               \E to : pc' = [pc EXCEPT ![r] = to], UNCHANGED <<ask, result>>, ask[r] # "http"
        PROVE  ReadInv'
    BY <1>0, <2>1 DEF TypeOK, ReadInv
  <2>2. \A x : IsFiniteSet({x}) /\ IsFiniteSet({})
    BY FS_Singleton, FS_EmptySet
  <2>3. CASE FindOne(r)
    <3>1. CASE Takes(by[r], target[r])
      <4>1. seen' = [seen EXCEPT ![r] = {Read(target[r])}] /\ ask[r] # "http"
        BY <1>0, <2>3, <3>1 DEF AskInv, FindOne, Goto
      <4>2. (\E to : pc' = [pc EXCEPT ![r] = to]) /\ UNCHANGED <<ask, result>>
        BY <2>3 DEF FindOne, Goto, askVars
      <4> QED BY <2>1, <2>2, <4>1, <4>2
    <3>2. CASE ~Takes(by[r], target[r])
      <4>1. pc' = [pc EXCEPT ![r] = "failed"] /\ UNCHANGED <<ask, seen, result>>
        BY <2>3, <3>2 DEF FindOne, Goto, askVars
      <4> QED BY <1>0, <4>1 DEF TypeOK, ReadInv
    <3> QED BY <3>1, <3>2
  <2>4. CASE FindAllowance(r)
    <3>1. ask[r] = "allowance"
      BY <1>0, <2>4 DEF AskInv, FindAllowance, Goto
    <3> DEFINE S == IF Takes(by[r], target[r]) THEN {Read(target[r])} ELSE {}
    <3>2. IsFiniteSet(S)
      BY <2>2
    <3>3. seen' = [seen EXCEPT ![r] = S]
      BY <2>4 DEF FindAllowance
    <3> HIDE DEF S
    <3> QED BY <2>1, <2>4, <3>1, <3>2, <3>3 DEF FindAllowance, Goto, askVars
  <2>5. CASE Find(r)
    <3> DEFINE C == Conversing(by[r])
               f == [c \in C |-> Read(c)]
               S == {Read(c) : c \in C}
    <3>1. IsFiniteSet(C)
      <4>1. IsFiniteSet(Conversations) /\ C \in SUBSET Conversations
        BY RequestsAssumption DEF Conversing
      <4> HIDE DEF C
      <4> QED BY <4>1, FS_Subset
    <3>2. f \in Surjection(C, S)
      BY DEF Surjection
    <3> HIDE DEF f, C
    <3>3. IsFiniteSet(S)
      BY <3>1, <3>2, FS_Surjection
    <3>4. ask[r] = "list" /\ seen' = [seen EXCEPT ![r] = S]
      BY <1>0, <2>5 DEF AskInv, Find, Goto, C
    <3> HIDE DEF S
    <3> QED BY <2>1, <2>5, <3>3, <3>4 DEF Find, Goto, askVars
  <2>6. CASE Handle(r)
    BY <1>0, <2>6 DEF TypeOK, AskInv, ReadInv, askVars, Goto, Handle
  <2>7. CASE ~FindOne(r) /\ ~FindAllowance(r) /\ ~Find(r) /\ ~Handle(r)
    <3>1. UNCHANGED <<ask, seen, result>> /\ ask[r] # "http"
      BY <1>0, <1>4, <2>7
         DEF AskInv, Step, AggregateImages, AggregateLinks, CountDocuments, GetUsers, GetFriends, GenToken,
             FindExisting, Send, Create, Goto, askVars, readVars
    <3>2. \E to : pc' = [pc EXCEPT ![r] = to]
      BY <1>4, <2>7
         DEF Step, AggregateImages, AggregateLinks, CountDocuments, GetUsers, GetFriends, GenToken,
             FindExisting, Send, Create, Goto
    <3>3. pc'[r] \in Reading /\ ask[r] = "detail" => pc[r] \in Reading
      BY <1>0, <1>4, <2>7
         DEF TypeOK, AskInv, Step, AggregateImages, AggregateLinks, CountDocuments, GetUsers, GetFriends,
             GenToken, FindExisting, Send, Create, Goto
    <3> QED BY <1>0, <3>1, <3>2, <3>3 DEF TypeOK, ReadInv
  <2> QED BY <2>3, <2>4, <2>5, <2>6, <2>7
<1> QED BY <1>1, <1>2, <1>3, <1>4 DEF Next, vars, askVars, readVars, Open, Post, Delete, Crawl

LEMMA ReadIsCurrent ==
  ASSUME TypeOK, NEW c \in Conversations, NEW d \in Read(c).messages
  PROVE  Current(d)
  BY DEF TypeOK, Read, DocumentOf, Current, IsListed

LEMMA SeenStep == Inv /\ [Next]_vars => SeenInv'
<1> SUFFICES ASSUME Inv, [Next]_vars, NEW r \in Requests, NEW d \in Documents(r)'
             PROVE  Current(d)'
  BY DEF SeenInv
<1>0. TypeOK /\ SeenInv
  BY DEF Inv
<1>1. CASE seen'[r] = seen[r]
  <2>1. d \in Documents(r)
    BY <1>1 DEF Documents
  <2>2. d.message \in Messages /\ d.crawl \in Int /\ Current(d)
    BY <1>0, <2>1, DocumentsAreTyped DEF SeenInv, Documented
  <2>3. Kept(d.message)
    BY <2>2, StepKeeps DEF Current
  <2>4. crawls[d.message] \in Int /\ crawls'[d.message] \in Int
    BY <1>0, <2>2, TypeStep DEF TypeOK
  <2> QED BY <2>2, <2>3, <2>4 DEF Current, Kept
<1>2. CASE seen'[r] # seen[r]
  <2>1. PICK s \in seen'[r] : d \in s.messages
    BY DEF Documents
  <2>2. PICK c \in Conversations : s = Read(c)
    BY <1>2, SeenChanges
  <2>3. Current(d)
    BY <1>0, <2>1, <2>2, ReadIsCurrent
  <2> QED BY <1>2, <2>3, SeenChanges DEF Current, IsListed, storeVars
<1> QED BY <1>1, <1>2

-----------------------------------------------------------------------------
(* What was aggregated. *)

(* A request for a detail gets behind an aggregation by it alone, and reads  *)
(* nothing else afterwards.                                                  *)
LEMMA DetailMoves ==
  ASSUME Inv, [Next]_vars, NEW r \in Requests, ask'[r] = "detail",
         pc'[r] \in {"aggregateLinks", "getUsers", "done"}
  PROVE  \/ AggregateImages(r)
         \/ AggregateLinks(r)
         \/ /\ ask[r] = "detail" /\ pc[r] \in {"aggregateLinks", "getUsers", "done"}
            /\ pc'[r] \in {"getUsers", "done"} => pc[r] \in {"getUsers", "done"}
            /\ UNCHANGED <<seen[r], images[r], links[r]>>
<1>0. TypeOK /\ AskInv
  BY DEF Inv
<1>1. ASSUME NEW q \in Requests, q # r, Request(q) \/ Step(q) \/ Fail(q)
      PROVE  /\ ask'[r] = ask[r] /\ pc'[r] = pc[r]
             /\ UNCHANGED <<seen[r], images[r], links[r]>>
  <2>1. CASE Request(q) \/ Fail(q)
    BY <1>0, <1>1, <2>1
       DEF TypeOK, Request, Ask, AddNewConversation, GetConversationDetail, GetRelatedConversations,
           GetOnlineUsers, CheckMeetingAllowance, GetStreamToken, HttpRequest, Fail, readVars, askVars
  <2>2. CASE Step(q)
    BY <1>0, <1>1, <2>2
       DEF TypeOK, Goto, readVars, askVars, Step, FindOne, AggregateImages, AggregateLinks,
           CountDocuments, Find, GetUsers, GetFriends, FindAllowance, GenToken, Handle, FindExisting,
           Send, Create
  <2> QED BY <1>1, <2>1, <2>2
<1>2. CASE Request(r)
  BY <1>0, <1>2
     DEF TypeOK, Request, Ask, AddNewConversation, GetConversationDetail, GetRelatedConversations,
         GetOnlineUsers, CheckMeetingAllowance, GetStreamToken, HttpRequest
<1>3. CASE Fail(r)
  BY <1>0, <1>3 DEF TypeOK, Fail
<1>4. CASE Step(r) /\ ~AggregateImages(r) /\ ~AggregateLinks(r)
  <2>1. CASE GetUsers(r)
    BY <1>0, <2>1 DEF TypeOK, GetUsers, Goto, readVars, askVars
  <2>2. CASE ~GetUsers(r)
    BY <1>0, <1>4, <2>2
       DEF TypeOK, AskInv, askVars, Goto, Step, FindOne, CountDocuments, Find, GetFriends,
           FindAllowance, GenToken, Handle, FindExisting, Send, Create
  <2> QED BY <2>1, <2>2
<1>5. CASE UNCHANGED <<pc, askVars, readVars>>
  BY <1>5 DEF askVars, readVars
<1> QED BY <1>1, <1>2, <1>3, <1>4, <1>5 DEF Next, vars, Open, Post, Delete, Crawl

(* What becomes of a document that a request has read and reads no more. *)
LEMMA DocumentStep ==
  ASSUME Inv, [Next]_vars, NEW r \in Requests, NEW d \in Documents(r)
  PROVE  /\ d.message \in Messages /\ d.crawl \in Int
         /\ Current(d) /\ Kept(d.message)
         /\ crawls[d.message] \in Int /\ crawls'[d.message] \in Int
<1>1. d.message \in Messages /\ d.crawl \in Int /\ Current(d)
  BY DocumentsAreTyped DEF Inv, SeenInv, Documented
<1> QED BY <1>1, StepKeeps, TypeStep DEF Inv, TypeOK, Current

LEMMA ImagesStep == Inv /\ [Next]_vars => ImagesInv'
<1> SUFFICES ASSUME Inv, [Next]_vars, NEW r \in Requests, ask'[r] = "detail",
                    pc'[r] \in {"aggregateLinks", "getUsers", "done"}
             PROVE  /\ Attached(r)' \subseteq
                          {d.message : d \in {e \in Documents(r)' : e.kind = "IMAGE"}}
                    /\ \A d \in Documents(r)' : d.kind = "IMAGE" =>
                         kind'[d.message] = "none" \/ d.message \in Attached(r)'
  BY DEF ImagesInv
<1>0. TypeOK /\ ImagesInv /\ SeenInv
  BY DEF Inv
<1>1. CASE AggregateImages(r)
  <2>1. images'[r] = {DocumentOf(m) : m \in {l \in There(r) : kind[l] = "IMAGE"}} /\ kind' = kind
    BY <1>0, <1>1 DEF TypeOK, AggregateImages, storeVars
  <2>2. Documents(r)' = Documents(r)
    BY <1>1 DEF AggregateImages, Documents
  <2>3. Attached(r)' = {l \in There(r) : kind[l] = "IMAGE"}
    <3>1. \A m : DocumentOf(m).message = m
      BY DEF DocumentOf
    <3>2. Attached(r)' = {d.message : d \in images'[r]}
      BY DEF Attached
    <3> QED BY <2>1, <3>1, <3>2
  <2>4. \A d \in Documents(r) : kind[d.message] \in {d.kind, "none"}
    BY <1>0 DEF SeenInv, Current
  <2> QED BY <2>1, <2>2, <2>3, <2>4 DEF There
<1>2. CASE /\ ask[r] = "detail" /\ pc[r] \in {"aggregateLinks", "getUsers", "done"}
           /\ UNCHANGED <<seen[r], images[r]>>
  <2>1. Documents(r)' = Documents(r) /\ Attached(r)' = Attached(r)
    BY <1>2 DEF Documents, Attached
  <2>2. \A d \in Documents(r) : kind[d.message] = "none" => kind'[d.message] = "none"
    BY DocumentStep DEF Kept
  <2> QED BY <1>0, <1>2, <2>1, <2>2 DEF ImagesInv
<1>3. CASE AggregateLinks(r)
  <2>1. ask[r] = "detail" /\ pc[r] = "aggregateLinks" /\ UNCHANGED <<seen[r], images[r]>>
    BY <1>3 DEF Inv, AskInv, AggregateLinks, Goto
  <2> QED BY <1>2, <2>1
<1> QED BY <1>1, <1>2, <1>3, DetailMoves

LEMMA LinksStep == Inv /\ [Next]_vars => LinksInv'
<1> SUFFICES ASSUME Inv, [Next]_vars, NEW r \in Requests, ask'[r] = "detail",
                    pc'[r] \in {"getUsers", "done"}
             PROVE  /\ \A p \in links'[r] : \E d \in Documents(r)' : d.message = p[1]
                    /\ \A d \in Documents(r)' : crawls'[d.message] = d.crawl =>
                         \/ kind'[d.message] = "none"
                         \/ {d.message} \X d.previews \subseteq links'[r]
  BY DEF LinksInv
<1>0. TypeOK /\ LinksInv /\ SeenInv
  BY DEF Inv
<1>1. CASE AggregateLinks(r)
  <2>1. /\ links'[r] = {p \in There(r) \X Urls : p[2] \in previews[p[1]]}
        /\ UNCHANGED <<kind, crawls, previews>>
    BY <1>0, <1>1 DEF TypeOK, AggregateLinks, storeVars
  <2>2. Documents(r)' = Documents(r)
    BY <1>1 DEF AggregateLinks, Documents
  <2>3. ASSUME NEW d \in Documents(r), crawls[d.message] = d.crawl, kind[d.message] # "none"
        PROVE  {d.message} \X d.previews \subseteq links'[r]
    <3>1. d.message \in There(r) /\ d.previews = previews[d.message] /\ d.previews \subseteq Urls
      BY <1>0, <2>3, DocumentsAreTyped DEF There, SeenInv, Current, Documented
    <3> QED BY <2>1, <3>1
  <2>4. \A p \in links'[r] : \E d \in Documents(r) : d.message = p[1]
    BY <2>1 DEF There
  <2> QED BY <2>1, <2>2, <2>3, <2>4
<1>2. CASE /\ ask[r] = "detail" /\ pc[r] \in {"getUsers", "done"}
           /\ UNCHANGED <<seen[r], links[r]>>
  <2>1. Documents(r)' = Documents(r)
    BY <1>2 DEF Documents
  <2>2. ASSUME NEW d \in Documents(r), crawls'[d.message] = d.crawl
        PROVE  /\ crawls[d.message] = d.crawl
               /\ kind[d.message] = "none" => kind'[d.message] = "none"
    BY <2>2, DocumentStep DEF Current, Kept
  <2> QED BY <1>0, <1>2, <2>1, <2>2 DEF LinksInv
<1>3. ~AggregateImages(r)
  BY <1>0 DEF TypeOK, AggregateImages, Goto
<1> QED BY <1>1, <1>2, <1>3, DetailMoves

-----------------------------------------------------------------------------
(* The conversation that is found or opened. *)

LEMMA AddMoves ==
  ASSUME Inv, [Next]_vars, NEW r \in Requests, ask'[r] = "add", pc'[r] \in {"send", "done"}
  PROVE  \/ FindExisting(r) /\ pc'[r] = "send"
         \/ Create(r)
         \/ /\ ask[r] = "add" /\ pc[r] \in {"send", "done"}
            /\ UNCHANGED <<wanted[r], target[r]>>
<1>0. TypeOK /\ AskInv
  BY DEF Inv
<1>1. ASSUME NEW q \in Requests, q # r, Request(q) \/ Step(q) \/ Fail(q)
      PROVE  ask'[r] = ask[r] /\ pc'[r] = pc[r] /\ UNCHANGED <<wanted[r], target[r]>>
  <2>1. CASE Request(q) \/ Fail(q)
    BY <1>0, <1>1, <2>1
       DEF TypeOK, Request, Ask, AddNewConversation, GetConversationDetail, GetRelatedConversations,
           GetOnlineUsers, CheckMeetingAllowance, GetStreamToken, HttpRequest, Fail, askVars
  <2>2. CASE Step(q)
    BY <1>0, <1>1, <2>2
       DEF TypeOK, Goto, askVars, Step, FindOne, AggregateImages, AggregateLinks, CountDocuments,
           Find, GetUsers, GetFriends, FindAllowance, GenToken, Handle, FindExisting, Send, Create
  <2> QED BY <1>1, <2>1, <2>2
<1>2. CASE Request(r)
  BY <1>0, <1>2
     DEF TypeOK, Request, Ask, AddNewConversation, GetConversationDetail, GetRelatedConversations,
         GetOnlineUsers, CheckMeetingAllowance, GetStreamToken, HttpRequest
<1>3. CASE Fail(r)
  BY <1>0, <1>3 DEF TypeOK, Fail
<1>4. CASE Step(r) /\ ~FindExisting(r) /\ ~Create(r)
  <2>1. CASE Send(r)
    BY <1>0, <2>1 DEF TypeOK, AskInv, Send, Goto, askVars
  <2>2. CASE ~Send(r)
    BY <1>0, <1>4, <2>2
       DEF TypeOK, AskInv, askVars, Goto, Step, FindOne, AggregateImages, AggregateLinks,
           CountDocuments, Find, GetUsers, GetFriends, FindAllowance, GenToken, Handle
  <2> QED BY <2>1, <2>2
<1>5. CASE FindExisting(r)
  BY <1>0, <1>5 DEF TypeOK, FindExisting, Goto
<1>6. CASE UNCHANGED <<pc, askVars>>
  BY <1>6 DEF askVars
<1> QED BY <1>1, <1>2, <1>3, <1>4, <1>5, <1>6 DEF Next, vars, Open, Post, Delete, Crawl

LEMMA AddStep == Inv /\ [Next]_vars => AddInv'
<1> SUFFICES ASSUME Inv, [Next]_vars, NEW r \in Requests, ask'[r] = "add",
                    pc'[r] \in {"send", "done"}
             PROVE  /\ target'[r] \in Conversations
                    /\ Len(members'[target'[r]]) = Len(wanted'[r])
                    /\ ToSet(wanted'[r]) \subseteq ToSet(members'[target'[r]])
  BY DEF AddInv, Matches
<1>0. TypeOK /\ AskInv /\ AddInv
  BY DEF Inv
<1>1. CASE FindExisting(r) /\ pc'[r] = "send"
  BY <1>0, <1>1 DEF TypeOK, FindExisting, Goto, Matches, storeVars
<1>2. CASE Create(r)
  <2>1. PICK c \in Conversations, m \in Messages :
          OpenFor(wanted[r], c, m) /\ target' = [target EXCEPT ![r] = c]
    BY <1>2 DEF Create
  <2>2. target'[r] = c /\ members'[c] = wanted[r] /\ wanted' = wanted
    BY <1>0, <1>2, <2>1 DEF TypeOK, OpenFor, Create
  <2> QED BY <2>2
<1>3. CASE /\ ask[r] = "add" /\ pc[r] \in {"send", "done"}
           /\ UNCHANGED <<wanted[r], target[r]>>
  <2>1. target[r] \in Conversations /\ Matches(wanted[r], target[r]) /\ wanted[r] \in Lists
    BY <1>0, <1>3 DEF AskInv, AddInv
  <2>2. members[target[r]] # <<>>
    BY <2>1, RequestsAssumption DEF Matches
  <2>3. members'[target[r]] = members[target[r]]
    BY <2>1, <2>2, MembersStay
  <2> QED BY <1>3, <2>1, <2>3 DEF Matches
<1> QED BY <1>1, <1>2, <1>3, AddMoves

-----------------------------------------------------------------------------
LEMMA StepInv == Inv /\ [Next]_vars => Inv'
  BY TypeStep, AskStep, ReadStep, ListedStep, SeenStep, ImagesStep, LinksStep, AddStep DEF Inv

LEMMA AggregatesFromInv == Inv => AggregatesMatch
  BY DEF Inv, ImagesInv, LinksInv, AggregatesMatch

LEMMA AddedFromInv == Inv => AddedIsWanted
<1> SUFFICES ASSUME Inv, NEW r \in Requests, ask[r] = "add", pc[r] = "done"
             PROVE  /\ ToSet(wanted[r]) \subseteq ToSet(members[target[r]])
                    /\ IsInjective(wanted[r]) => ToSet(members[target[r]]) = ToSet(wanted[r])
  BY DEF AddedIsWanted
<1>1. target[r] \in Conversations /\ Matches(wanted[r], target[r])
  BY DEF Inv, AddInv
<1>2. wanted[r] \in Seq(Users) /\ members[target[r]] \in Seq(Users)
  <2>1. wanted[r] \in Lists /\ members[target[r]] \in Lists \union {<<>>}
    BY <1>1 DEF Inv, AskInv, TypeOK
  <2>2. <<>> \in Seq(Users)
    OBVIOUS
  <2> QED BY <2>1, <2>2, RequestsAssumption
<1> QED BY <1>1, <1>2, SameMembers DEF Matches

(* The inductive invariant: what a request has read stays as it was, but for *)
(* deletions and crawls, while it awaits the rest.                           *)
THEOREM Invariance == Spec => []Inv
  BY InitInv, StepInv, PTL DEF Spec

(* The images and pages of a detail are those of its messages, whatever is   *)
(* posted, deleted and crawled while it is made.                             *)
THEOREM AggregatesAgree == Spec => []AggregatesMatch
  BY Invariance, AggregatesFromInv, PTL

(* A conversation that is added has all the participants asked for, and no   *)
(* others unless an id was repeated.                                         *)
THEOREM AddedHasParticipants == Spec => []AddedIsWanted
  BY Invariance, AddedFromInv, PTL

-----------------------------------------------------------------------------
(* Sequences, arrays and objects that are made here. *)

(* A finite set as a sequence: as many, and the same elements. *)
LEMMA SetToSeqIs ==
  ASSUME NEW S, IsFiniteSet(S)
  PROVE  /\ Cardinality(S) \in Nat
         /\ DOMAIN SetToSeq(S) = 1 .. Cardinality(S)
         /\ \A i \in 1 .. Cardinality(S) : SetToSeq(S)[i] \in S
         /\ ToSet(SetToSeq(S)) = S
<1> DEFINE n == Cardinality(S)
           s == SetToSeq(S)
<1>1. n \in Nat /\ ExistsBijection(1 .. n, S)
  BY FS_CardinalityType
<1>2. \E f \in [1 .. n -> S] : IsInjective(f)
  BY <1>1 DEF ExistsBijection, Bijection, Injection, IsInjective
<1>3. s \in [1 .. n -> S] /\ IsInjective(s)
  BY <1>2 DEF SetToSeq
<1> HIDE DEF s
<1>4. s \in Injection(1 .. n, S)
  BY <1>3 DEF Injection, IsInjective
<1>5. Cardinality(1 .. n) = n
  BY <1>1, CountTo
<1>6. s \in Surjection(1 .. n, S)
  BY <1>4, <1>5, FS_Injection
<1>7. ToSet(s) = S
  BY <1>3, <1>6 DEF Surjection, ToSet
<1> QED BY <1>1, <1>3, <1>7 DEF s

LEMMA ArrayIs ==
  ASSUME NEW n \in Nat, NEW f, DOMAIN f = 1 .. n, f = [i \in 1 .. n |-> f[i]]
  PROVE  /\ IsList(Array(f)) /\ Array(f).array = f /\ f \in Seq(ToSet(f)) /\ Len(f) = n
         /\ ~Is("object", Array(f)) /\ Array(f) # Undefined
         /\ \A m \in Nat : (\A i \in 1 .. n : Fine(f[i], m)) => Fine(Array(f), m + 1)
<1>1. Is("array", Array(f)) /\ Array(f).array = f /\ ~Is("object", Array(f)) /\ Array(f) # Undefined
  BY DEF Is, Array, Undefined
<1>2. \A i \in 1 .. n : f[i] \in ToSet(f)
  BY DEF ToSet
<1>3. f \in Seq(ToSet(f)) /\ Len(f) = n
  BY <1>2
<1>4. \A m \in Nat : (\A i \in 1 .. n : Fine(f[i], m)) => Fine(Array(f), m + 1)
  BY <1>3, FineArray
<1> QED BY <1>1, <1>3, <1>4 DEF IsList

LEMMA ObjectIs ==
  ASSUME NEW f
  PROVE  /\ Is("object", Object(f)) /\ Object(f).object = f /\ ~Is("array", Object(f))
         /\ Object(f) # Undefined
         /\ \A k, d : Get(Object(f), k, d) = IF k \in DOMAIN f /\ f[k] # Undefined THEN f[k] ELSE d
BY DEF Is, Object, Undefined, Get

LEMMA FieldsSuit ==
  ASSUME NEW f, NEW T, NEW M
  PROVE  /\ (\A k \in T \intersect DOMAIN f : IsText(f[k])) => TextsIn(Object(f), T)
         /\ (\A k \in M \intersect DOMAIN f : IsNumber(f[k])) => NumbersIn(Object(f), M)
<1>1. \A k, d : Get(Object(f), k, d) = IF k \in DOMAIN f /\ f[k] # Undefined THEN f[k] ELSE d
  BY ObjectIs
<1> QED BY <1>1, Defaults DEF TextsIn, NumbersIn

LEMMA SpreadIs ==
  ASSUME NEW f, NEW g
  PROVE  /\ DOMAIN Spread(f, g) = DOMAIN f \union DOMAIN g
         /\ \A k \in DOMAIN g : Spread(f, g)[k] = g[k]
         /\ \A k \in DOMAIN f \ DOMAIN g : Spread(f, g)[k] = f[k]
BY DEF Spread

LEMMA Leaves ==
  /\ \A s : IsText(Text(s)) /\ IsText(Padded(s)) /\ IsNumber(Number(s)) /\ IsBoolean(Boolean(s))
  /\ \A s : Text(s) # Undefined /\ Padded(s) # Undefined /\ Number(s) # Undefined /\ Date(s) # Undefined
  /\ Null # Undefined
  /\ \A s : IsText(IsoString(Date(s))) /\ IsoString(Text(s)) = Text(s)
  /\ \A k, d : Get(Null, k, d) = d
  /\ \A s : \A n \in Nat : n >= 1 =>
       /\ Fine(Text(s), n) /\ Fine(Padded(s), n) /\ Fine(Number(s), n) /\ Fine(Boolean(s), n)
       /\ Fine(Date(s), n) /\ Fine(ObjectId(s), n) /\ Fine(Null, n)
<1>1. \A s : IsText(Text(s)) /\ IsText(Padded(s)) /\ IsNumber(Number(s)) /\ IsBoolean(Boolean(s)) /\ IsText(Null)
  BY DEF IsText, IsNumber, IsBoolean, Is, Text, Padded, Number, Boolean, Null
<1>2. \A s : Text(s) # Undefined /\ Padded(s) # Undefined /\ Number(s) # Undefined /\ Date(s) # Undefined
  BY DEF Text, Padded, Number, Date, Undefined
<1>3. Null # Undefined /\ ~Is("object", Null)
  BY DEF Null, Undefined, Is
<1>4. \A s : IsText(IsoString(Date(s)))
  BY <1>1 DEF IsoString, Is, Date
<1>5. \A s : IsoString(Text(s)) = Text(s)
  BY DEF IsoString, Is, Text
<1>6. \A s : ~Is("array", Date(s)) /\ ~Is("object", Date(s)) /\ ~Is("array", ObjectId(s)) /\ ~Is("object", ObjectId(s))
  BY DEF Is, Date, ObjectId
<1>7. \A s : \A n \in Nat : n >= 1 => Fine(Date(s), n) /\ Fine(ObjectId(s), n)
  BY <1>6, FineLeaf
<1>8. \A s : \A n \in Nat : n >= 1 =>
       /\ Fine(Text(s), n) /\ Fine(Padded(s), n) /\ Fine(Number(s), n) /\ Fine(Boolean(s), n) /\ Fine(Null, n)
  BY <1>1, LeafKinds
<1> QED BY <1>1, <1>2, <1>3, <1>4, <1>5, <1>7, <1>8 DEF Get

LEMMA FieldsFine ==
  ASSUME NEW f, NEW n \in Nat, n >= 1, \A k \in DOMAIN f : Fine(f[k], n - 1)
  PROVE  Fine(Object(f), n)
<1>1. n - 1 \in Nat /\ n = (n - 1) + 1
  OBVIOUS
<1> QED BY <1>1, FineObject

-----------------------------------------------------------------------------
(* The documents. *)

LEMMA PreviewIs ==
  ASSUME NEW u
  PROVE  /\ TextsIn(PreviewOf(u), UrlText) /\ NumbersIn(PreviewOf(u), Span)
         /\ Get(PreviewOf(u), "url", Empty) = Text(u)
         /\ \A n \in Nat : n >= 2 => Fine(PreviewOf(u), n)
<1> DEFINE f == [_id |-> ObjectId("preview"), url |-> Text(u), title |-> Padded("A page")]
<1>1. PreviewOf(u) = Object(f)
  BY DEF PreviewOf
<1>2. DOMAIN f = {"_id", "url", "title"} /\ f["_id"] = ObjectId("preview") /\ f["url"] = Text(u)
      /\ f["title"] = Padded("A page")
  OBVIOUS
<1> HIDE DEF f
<1>3. \A k, d : Get(PreviewOf(u), k, d) = IF k \in DOMAIN f /\ f[k] # Undefined THEN f[k] ELSE d
  BY <1>1, ObjectIs
<1>4. TextsIn(PreviewOf(u), UrlText)
  <2>1. \A k \in UrlText \intersect DOMAIN f : IsText(f[k])
    BY <1>2, Leaves DEF UrlText
  <2> QED BY <1>1, <2>1, FieldsSuit
<1>5. NumbersIn(PreviewOf(u), Span)
  BY <1>2, <1>3, Defaults DEF NumbersIn, Span
<1>6. \A n \in Nat : n >= 2 => Fine(PreviewOf(u), n)
  <2> TAKE n \in Nat
  <2> HAVE n >= 2
  <2>1. n - 1 \in Nat /\ n - 1 >= 1 /\ n >= 1
    OBVIOUS
  <2>2. \A k \in DOMAIN f : Fine(f[k], n - 1)
    BY <1>2, <2>1, Leaves
  <2> QED BY <1>1, <2>1, <2>2, FieldsFine
<1> QED BY <1>2, <1>3, <1>4, <1>5, <1>6, Leaves

LEMMA UserOfIs ==
  ASSUME NEW u
  PROVE  /\ SuitsUser(UserOf(u)) /\ Unnamed(UserOf(u))
         /\ \A n \in Nat : n >= 3 => Fine(UserOf(u), n)
<1>1. CASE u \notin Accounts
  <2>1. UserOf(u) = EmptyObject
    BY <1>1 DEF UserOf
  <2>2. \A k, d : Get(EmptyObject, k, d) = d
    BY NothingIn DEF Get
  <2>3. SuitsUser(EmptyObject)
    BY <2>2, Defaults DEF SuitsUser, TextsIn, NumbersIn, AboutOf
  <2> QED BY <2>1, <2>3, NothingIn DEF Unnamed
<1>2. CASE u \in Accounts
  <2> DEFINE a == [quote |-> Text("hi")]
             f == [id |-> Text(u), name |-> Padded("Ann"), about |-> Object(a)]
  <2>1. UserOf(u) = Object(f)
    BY <1>2 DEF UserOf
  <2>2. DOMAIN a = {"quote"} /\ a["quote"] = Text("hi")
    OBVIOUS
  <2> HIDE DEF a
  <2>3. DOMAIN f = {"id", "name", "about"} /\ f["id"] = Text(u) /\ f["name"] = Padded("Ann")
        /\ f["about"] = Object(a)
    OBVIOUS
  <2> HIDE DEF f
  <2>4. \A k, d : Get(UserOf(u), k, d) = IF k \in DOMAIN f /\ f[k] # Undefined THEN f[k] ELSE d
    BY <2>1, ObjectIs
  <2>5. \A k, d : Get(Object(a), k, d) = IF k \in DOMAIN a /\ a[k] # Undefined THEN a[k] ELSE d
    BY ObjectIs
  <2>6. AboutOf(UserOf(u)) = Object(a)
    BY <2>3, <2>4, ObjectIs DEF AboutOf
  <2>7. TextsIn(Object(a), AboutText) /\ NumbersIn(Object(a), AboutNumbers)
    <3>1. \A k : IsText(Get(Object(a), k, Empty))
      BY <2>2, <2>5, Leaves, Defaults
    <3>2. NumbersIn(Object(a), AboutNumbers)
      BY <2>2, <2>5, Defaults DEF NumbersIn, AboutNumbers
    <3> QED BY <3>1, <3>2 DEF TextsIn
  <2>8. TextsIn(UserOf(u), UserText)
    <3>1. \A k : k # "about" => IsText(Get(UserOf(u), k, Empty))
      BY <2>3, <2>4, Leaves, Defaults
    <3>2. "about" \notin UserText
      BY DEF UserText
    <3> QED BY <3>1, <3>2 DEF TextsIn
  <2>9. Get(UserOf(u), "phoneVerifiedAt", Null) = Null /\ Get(UserOf(u), "emailVerifiedAt", Null) = Null
        /\ Get(UserOf(u), "isPublic", Boolean(FALSE)) = Boolean(FALSE)
    BY <2>3, <2>4
  <2>10. SuitsUser(UserOf(u))
    BY <2>6, <2>7, <2>8, <2>9, Defaults DEF SuitsUser
  <2>11. Unnamed(UserOf(u))
    BY <2>1, <2>3, ObjectIs DEF Unnamed
  <2>12. \A n \in Nat : n >= 3 => Fine(UserOf(u), n)
    <3> TAKE n \in Nat
    <3> HAVE n >= 3
    <3>1. n - 1 \in Nat /\ n - 1 >= 1 /\ n >= 1 /\ (n - 1) - 1 \in Nat /\ (n - 1) - 1 >= 1
      OBVIOUS
    <3>2. Fine(Object(a), n - 1)
      BY <2>2, <3>1, Leaves, FieldsFine
    <3>3. \A k \in DOMAIN f : Fine(f[k], n - 1)
      BY <2>3, <3>1, <3>2, Leaves
    <3> QED BY <2>1, <3>1, <3>3, FieldsFine
  <2> QED BY <2>10, <2>11, <2>12
<1> QED BY <1>1, <1>2

-----------------------------------------------------------------------------
MentionDocument ==
  Object([_id |-> ObjectId("mention"), userId |-> Text("bob"), startIndex |-> Zero])
EmojiDocument ==
  Object([_id |-> ObjectId("emoji"), emoji |-> Text("like"), user |-> Text("bob")])
PreviewDocuments(d) == ArrayOf(PreviewOf, d.previews)
BodyOf(d) == IF d.kind = "IMAGE" THEN Text("photo_jpg_MESSAGE") ELSE Padded("hello")

(* The document of a message, as both methods hand it on. *)
LEMMA MessageFields ==
  ASSUME NEW d
  PROVE  LET f == Message(d).object IN
         /\ Message(d) = Object(f)
         /\ DOMAIN f = {"id", "senderId", "body", "contentType", "mentions", "previewUrl", "replyInfo",
                        "emojis", "deleted_at", "createdAt", "updatedAt"}
         /\ f["id"] = Text(d.message) /\ f["senderId"] = Text("ann") /\ f["body"] = BodyOf(d)
         /\ f["contentType"] = Text(d.kind) /\ f["mentions"] = Array(<<MentionDocument>>)
         /\ f["previewUrl"] = PreviewDocuments(d) /\ f["replyInfo"] = Null
         /\ f["emojis"] = Array(<<EmojiDocument>>) /\ f["deleted_at"] = Null
         /\ f["createdAt"] = Date("then") /\ f["updatedAt"] = Date("then")
         /\ MessageOf(d).object["body"] = BodyOf(d)
<1> DEFINE m == Array(<<MentionDocument>>)
           p == PreviewDocuments(d)
           e == Array(<<EmojiDocument>>)
           b == BodyOf(d)
           g == [_id |-> ObjectId(d.message), senderId |-> Text("ann"), body |-> b,
                 contentType |-> Text(d.kind), mentions |-> m, previewUrl |-> p, replyInfo |-> Null,
                 emojis |-> e, deleted_at |-> Null, createdAt |-> Date("then"), updatedAt |-> Date("then")]
           h == [k \in DOMAIN g \ {"_id"} |-> g[k]]
           i == [id |-> ConvertObjectIdToString(g["_id"])]
<1>1. MessageOf(d) = Object(g)
  BY DEF MessageOf, MentionDocument, PreviewDocuments, EmojiDocument, BodyOf
<1> HIDE DEF m, p, e, b
<1>2. /\ DOMAIN g = {"_id", "senderId", "body", "contentType", "mentions", "previewUrl", "replyInfo",
                     "emojis", "deleted_at", "createdAt", "updatedAt"}
      /\ g["_id"] = ObjectId(d.message) /\ g["senderId"] = Text("ann") /\ g["body"] = b
      /\ g["contentType"] = Text(d.kind) /\ g["mentions"] = m /\ g["previewUrl"] = p
      /\ g["replyInfo"] = Null /\ g["emojis"] = e /\ g["deleted_at"] = Null
      /\ g["createdAt"] = Date("then") /\ g["updatedAt"] = Date("then")
  OBVIOUS
<1> HIDE DEF g
<1>3. DOMAIN h = DOMAIN g \ {"_id"} /\ \A k \in DOMAIN h : h[k] = g[k]
  OBVIOUS
<1>4. DOMAIN i = {"id"} /\ i["id"] = Text(d.message)
  <2>1. ConvertObjectIdToString(ObjectId(d.message)) = Text(d.message)
    BY DEF ConvertObjectIdToString, ObjectId, Is
  <2> QED BY <1>2, <2>1
<1>5. MessageOf(d).object = g
  BY <1>1, ObjectIs
<1>6. Message(d) = Object(Spread(h, i))
  BY <1>5 DEF Message, WithIds
<1> HIDE DEF h, i
<1> DEFINE f == Spread(h, i)
<1>7. DOMAIN f = DOMAIN h \union DOMAIN i /\ (\A k \in DOMAIN i : f[k] = i[k])
      /\ (\A k \in DOMAIN h \ DOMAIN i : f[k] = h[k])
  BY SpreadIs, ZenonT(60)
<1>8. Message(d).object = f /\ Message(d) = Object(f)
  BY <1>6, ObjectIs
<1> HIDE DEF f
<1>9. DOMAIN f = {"id", "senderId", "body", "contentType", "mentions", "previewUrl", "replyInfo",
                  "emojis", "deleted_at", "createdAt", "updatedAt"}
  BY <1>2, <1>3, <1>4, <1>7
<1>10. f["id"] = Text(d.message)
  BY <1>4, <1>7
<1>11. \A k \in DOMAIN f \ {"id"} : f[k] = g[k]
  BY <1>3, <1>4, <1>7
<1>12. /\ f["senderId"] = Text("ann") /\ f["body"] = b /\ f["contentType"] = Text(d.kind)
       /\ f["mentions"] = m /\ f["previewUrl"] = p /\ f["replyInfo"] = Null
       /\ f["emojis"] = e /\ f["deleted_at"] = Null
       /\ f["createdAt"] = Date("then") /\ f["updatedAt"] = Date("then")
  BY <1>2, <1>9, <1>11
<1> QED BY <1>2, <1>5, <1>8, <1>9, <1>10, <1>12 DEF m, p, e, b

LEMMA PreviewDocumentsAre ==
  ASSUME NEW d, IsFiniteSet(d.previews)
  PROVE  /\ IsList(PreviewDocuments(d)) /\ PreviewDocuments(d) # Undefined
         /\ ItemsSuit(PreviewDocuments(d), UrlText, Span)
         /\ \A n \in Nat : n >= 3 => Fine(PreviewDocuments(d), n)
<1> DEFINE n == Cardinality(d.previews)
           s == SetToSeq(d.previews)
           f == [i \in DOMAIN s |-> PreviewOf(s[i])]
<1>1. n \in Nat /\ DOMAIN s = 1 .. n
  BY SetToSeqIs
<1>2. PreviewDocuments(d) = Array(f)
  BY DEF PreviewDocuments, ArrayOf
<1> HIDE DEF s, n
<1>3. DOMAIN f = 1 .. n /\ f = [i \in 1 .. n |-> f[i]] /\ \A i \in 1 .. n : f[i] = PreviewOf(s[i])
  BY <1>1
<1> HIDE DEF f
<1>4. /\ IsList(Array(f)) /\ Array(f).array = f /\ Array(f) # Undefined
      /\ \A m \in Nat : (\A i \in 1 .. n : Fine(f[i], m)) => Fine(Array(f), m + 1)
  BY <1>1, <1>3, ArrayIs
<1>5. ItemsSuit(Array(f), UrlText, Span)
  BY <1>3, <1>4, PreviewIs DEF ItemsSuit
<1>6. ASSUME NEW m \in Nat, m >= 3 PROVE Fine(Array(f), m)
  <2>1. m - 1 \in Nat /\ m - 1 >= 2 /\ (m - 1) + 1 = m
    BY <1>6
  <2>2. \A i \in 1 .. n : Fine(f[i], m - 1)
    BY <1>3, <2>1, PreviewIs
  <2> QED BY <1>4, <2>1, <2>2
<1> QED BY <1>2, <1>4, <1>5, <1>6

LEMMA PartsOfMessage ==
  /\ IsList(Array(<<MentionDocument>>)) /\ Array(<<MentionDocument>>) # Undefined
  /\ IsList(Array(<<EmojiDocument>>)) /\ Array(<<EmojiDocument>>) # Undefined
  /\ ItemsSuit(Array(<<MentionDocument>>), MentionText, Span)
  /\ ItemsSuit(Array(<<EmojiDocument>>), EmojiText, {})
  /\ \A n \in Nat : n >= 3 => Fine(Array(<<MentionDocument>>), n) /\ Fine(Array(<<EmojiDocument>>), n)
<1>1. \A x : <<x>> = [i \in 1 .. 1 |-> <<x>>[i]] /\ DOMAIN <<x>> = 1 .. 1 /\ \A i \in 1 .. 1 : <<x>>[i] = x
  OBVIOUS
<1>2. \A x : /\ IsList(Array(<<x>>)) /\ Array(<<x>>) # Undefined /\ Array(<<x>>).array = <<x>>
             /\ \A m \in Nat : Fine(x, m) => Fine(Array(<<x>>), m + 1)
  <2> TAKE x
  <2>1. DOMAIN <<x>> = 1 .. 1 /\ \A i \in 1 .. 1 : <<x>>[i] = x
    BY <1>1
  <2>2. <<x>> = [i \in 1 .. 1 |-> <<x>>[i]]
    BY <1>1
  <2> DEFINE f == <<x>>
  <2> HIDE DEF f
  <2>3. /\ IsList(Array(f)) /\ Array(f).array = f /\ Array(f) # Undefined
        /\ \A m \in Nat : (\A i \in 1 .. 1 : Fine(f[i], m)) => Fine(Array(f), m + 1)
    BY <2>1, <2>2, ArrayIs DEF f
  <2> QED BY <2>1, <2>3 DEF f
<1>3. /\ TextsIn(MentionDocument, MentionText) /\ NumbersIn(MentionDocument, Span)
      /\ \A m \in Nat : m >= 2 => Fine(MentionDocument, m)
  <2> DEFINE g == [_id |-> ObjectId("mention"), userId |-> Text("bob"), startIndex |-> Zero]
  <2>1. DOMAIN g = {"_id", "userId", "startIndex"} /\ g["_id"] = ObjectId("mention") /\ g["userId"] = Text("bob")
        /\ g["startIndex"] = Zero
    OBVIOUS
  <2>2. MentionDocument = Object(g)
    BY DEF MentionDocument
  <2> HIDE DEF g
  <2>3. \A k \in MentionText \intersect DOMAIN g : IsText(g[k])
    BY <2>1, Leaves DEF MentionText
  <2>4. \A k \in Span \intersect DOMAIN g : IsNumber(g[k])
    BY <2>1, Defaults DEF Span
  <2>5. \A m \in Nat : m >= 2 => Fine(MentionDocument, m)
    <3> TAKE m \in Nat
    <3> HAVE m >= 2
    <3>1. m - 1 \in Nat /\ m - 1 >= 1 /\ m >= 1
      OBVIOUS
    <3>2. \A k \in DOMAIN g : Fine(g[k], m - 1)
      BY <2>1, <3>1, Leaves DEF Zero
    <3> QED BY <2>2, <3>1, <3>2, FieldsFine
  <2> QED BY <2>2, <2>3, <2>4, <2>5, FieldsSuit
<1>4. /\ TextsIn(EmojiDocument, EmojiText)
      /\ \A m \in Nat : m >= 2 => Fine(EmojiDocument, m)
  <2> DEFINE g == [_id |-> ObjectId("emoji"), emoji |-> Text("like"), user |-> Text("bob")]
  <2>1. DOMAIN g = {"_id", "emoji", "user"} /\ g["_id"] = ObjectId("emoji") /\ g["emoji"] = Text("like")
        /\ g["user"] = Text("bob")
    OBVIOUS
  <2>2. EmojiDocument = Object(g)
    BY DEF EmojiDocument
  <2> HIDE DEF g
  <2>3. \A k \in EmojiText \intersect DOMAIN g : IsText(g[k])
    BY <2>1, Leaves DEF EmojiText
  <2>5. \A m \in Nat : m >= 2 => Fine(EmojiDocument, m)
    <3> TAKE m \in Nat
    <3> HAVE m >= 2
    <3>1. m - 1 \in Nat /\ m - 1 >= 1 /\ m >= 1
      OBVIOUS
    <3>2. \A k \in DOMAIN g : Fine(g[k], m - 1)
      BY <2>1, <3>1, Leaves
    <3> QED BY <2>2, <3>1, <3>2, FieldsFine
  <2> QED BY <2>2, <2>3, <2>5, FieldsSuit
<1>5. ItemsSuit(Array(<<MentionDocument>>), MentionText, Span)
  BY <1>1, <1>2, <1>3 DEF ItemsSuit
<1>6. ItemsSuit(Array(<<EmojiDocument>>), EmojiText, {})
  BY <1>1, <1>2, <1>4 DEF ItemsSuit, NumbersIn
<1>7. ASSUME NEW n \in Nat, n >= 3
      PROVE  Fine(Array(<<MentionDocument>>), n) /\ Fine(Array(<<EmojiDocument>>), n)
  <2>1. n - 1 \in Nat /\ n - 1 >= 2 /\ (n - 1) + 1 = n
    BY <1>7
  <2>2. Fine(Array(<<MentionDocument>>), (n - 1) + 1) /\ Fine(Array(<<EmojiDocument>>), (n - 1) + 1)
    BY <1>2, <1>3, <1>4, <2>1
  <2> QED BY <2>1, <2>2
<1> QED BY <1>2, <1>5, <1>6, <1>7

(* The fields of that document have the types the converter takes over. *)
LEMMA MessageSuits ==
  ASSUME NEW d, IsFiniteSet(d.previews)
  PROVE  /\ SuitsMessage(Message(d)) /\ HasLists(Message(d)) /\ Unnamed(Message(d))
         /\ Get(Message(d), "id", Empty) = Text(d.message)
         /\ \A n \in Nat : n >= 4 => Fine(Message(d), n)
<1> DEFINE f == Message(d).object
           v == Message(d)
<1>1. /\ v = Object(f)
      /\ DOMAIN f = {"id", "senderId", "body", "contentType", "mentions", "previewUrl", "replyInfo",
                     "emojis", "deleted_at", "createdAt", "updatedAt"}
      /\ f["id"] = Text(d.message) /\ f["senderId"] = Text("ann") /\ f["body"] = BodyOf(d)
      /\ f["contentType"] = Text(d.kind) /\ f["mentions"] = Array(<<MentionDocument>>)
      /\ f["previewUrl"] = PreviewDocuments(d) /\ f["replyInfo"] = Null
      /\ f["emojis"] = Array(<<EmojiDocument>>) /\ f["deleted_at"] = Null
      /\ f["createdAt"] = Date("then") /\ f["updatedAt"] = Date("then")
  BY MessageFields
<1> HIDE DEF f, v
<1>2. \A k, x : Get(v, k, x) = IF k \in DOMAIN f /\ f[k] # Undefined THEN f[k] ELSE x
  BY <1>1, ObjectIs
<1>3. IsText(BodyOf(d)) /\ \A n \in Nat : n >= 1 => Fine(BodyOf(d), n)
  BY Leaves DEF BodyOf
<1>4. TextsIn(v, MessageText)
  <2>1. \A k \in MessageText \intersect DOMAIN f : IsText(f[k])
    BY <1>1, <1>3, Leaves DEF MessageText
  <2> QED BY <1>1, <2>1, FieldsSuit
<1>5. /\ Get(v, "mentions", NoItems) = Array(<<MentionDocument>>)
      /\ Get(v, "previewUrl", NoItems) = PreviewDocuments(d)
      /\ Get(v, "emojis", NoItems) = Array(<<EmojiDocument>>)
  BY <1>1, <1>2, PartsOfMessage, PreviewDocumentsAre
<1>6. HasLists(v)
  BY <1>5, PartsOfMessage, PreviewDocumentsAre DEF HasLists
<1>7. GetReply(v) = Null
  BY <1>1, <1>2, Leaves DEF GetReply
<1>8. TextsIn(Null, ReplyText) /\ IsBoolean(Get(Null, "isImage", Boolean(FALSE)))
  BY Leaves, Defaults DEF TextsIn
<1>9. \A k \in {"createdAt", "updatedAt"} : IsText(IsoString(Get(v, k, Now)))
  BY <1>1, <1>2, Leaves
<1>10. SuitsMessage(v)
  BY <1>4, <1>5, <1>6, <1>7, <1>8, <1>9, PartsOfMessage, PreviewDocumentsAre DEF SuitsMessage
<1>11. Unnamed(v)
  <2>1. v.object = f
    BY <1>1, ObjectIs
  <2> QED BY <1>1, <2>1 DEF Unnamed
<1>12. Get(v, "id", Empty) = Text(d.message)
  BY <1>1, <1>2, Leaves
<1>13. \A n \in Nat : n >= 4 => Fine(v, n)
  <2> TAKE n \in Nat
  <2> HAVE n >= 4
  <2>1. n - 1 \in Nat /\ n - 1 >= 1 /\ n - 1 >= 3 /\ n >= 1
    OBVIOUS
  <2>2. \A k \in DOMAIN f : Fine(f[k], n - 1)
    BY <1>1, <1>3, <2>1, Leaves, PartsOfMessage, PreviewDocumentsAre
  <2> QED BY <1>1, <2>1, <2>2, FieldsFine
<1> QED BY <1>6, <1>10, <1>11, <1>12, <1>13 DEF v

LEMMA AttachmentSuits ==
  ASSUME NEW d, IsFiniteSet(d.previews)
  PROVE  /\ TextsIn(AttachmentOf(d), AttachmentText) /\ Unnamed(AttachmentOf(d))
         /\ Get(AttachmentOf(d), "id", Empty) = Text(d.message)
         /\ \A n \in Nat : n >= 4 => Fine(AttachmentOf(d), n)
<1> DEFINE m == Message(d).object
           g == [preview |-> MessageOf(d).object["body"], name |-> Text("photo"), type |-> Text("jpg")]
           f == Spread(m, g)
<1>1. AttachmentOf(d) = Object(f)
  BY DEF AttachmentOf
<1>2. DOMAIN g = {"preview", "name", "type"} /\ g["preview"] = BodyOf(d) /\ g["name"] = Text("photo")
      /\ g["type"] = Text("jpg")
  BY MessageFields
<1>3. /\ Message(d) = Object(m)
      /\ DOMAIN m = {"id", "senderId", "body", "contentType", "mentions", "previewUrl", "replyInfo",
                     "emojis", "deleted_at", "createdAt", "updatedAt"}
      /\ m["id"] = Text(d.message) /\ m["senderId"] = Text("ann") /\ m["body"] = BodyOf(d)
      /\ m["contentType"] = Text(d.kind) /\ m["mentions"] = Array(<<MentionDocument>>)
      /\ m["previewUrl"] = PreviewDocuments(d) /\ m["replyInfo"] = Null
      /\ m["emojis"] = Array(<<EmojiDocument>>) /\ m["deleted_at"] = Null
      /\ m["createdAt"] = Date("then") /\ m["updatedAt"] = Date("then")
  BY MessageFields
<1> HIDE DEF m, g
<1>4. DOMAIN f = DOMAIN m \union DOMAIN g /\ (\A k \in DOMAIN g : f[k] = g[k])
      /\ (\A k \in DOMAIN m \ DOMAIN g : f[k] = m[k])
  BY SpreadIs
<1> HIDE DEF f
<1>5. f["id"] = Text(d.message) /\ f["senderId"] = Text("ann") /\ f["preview"] = BodyOf(d)
      /\ f["name"] = Text("photo") /\ f["type"] = Text("jpg") /\ "_id" \notin DOMAIN f /\ "id" \in DOMAIN f
  BY <1>2, <1>3, <1>4
<1>6. IsText(BodyOf(d)) /\ \A n \in Nat : n >= 1 => Fine(BodyOf(d), n)
  BY Leaves DEF BodyOf
<1>7. TextsIn(AttachmentOf(d), AttachmentText)
  <2>1. \A k \in AttachmentText \intersect DOMAIN f : IsText(f[k])
    BY <1>5, <1>6, Leaves DEF AttachmentText
  <2> QED BY <1>1, <2>1, FieldsSuit
<1>8. Unnamed(AttachmentOf(d)) /\ Get(AttachmentOf(d), "id", Empty) = Text(d.message)
  <2>1. Text(d.message) # Undefined
    BY Leaves
  <2> QED BY <1>1, <1>5, <2>1, ObjectIs DEF Unnamed
<1>9. \A n \in Nat : n >= 4 => Fine(AttachmentOf(d), n)
  <2> TAKE n \in Nat
  <2> HAVE n >= 4
  <2>1. n - 1 \in Nat /\ n - 1 >= 1 /\ n - 1 >= 3 /\ n >= 1
    OBVIOUS
  <2>2. \A k \in DOMAIN g : Fine(g[k], n - 1)
    BY <1>2, <1>6, <2>1, Leaves
  <2>3. \A k \in DOMAIN m : Fine(m[k], n - 1)
    BY <1>3, <1>6, <2>1, Leaves, PartsOfMessage, PreviewDocumentsAre
  <2>4. \A k \in DOMAIN f : Fine(f[k], n - 1)
    BY <1>4, <2>2, <2>3
  <2> QED BY <1>1, <2>1, <2>4, FieldsFine
<1> QED BY <1>7, <1>8, <1>9

-----------------------------------------------------------------------------
(* What plain trimming keeps of a type. *)

LEMMA FieldsOfPlain ==
  ASSUME NEW v, IsValue(v), Is("object", v), "_id" \notin DOMAIN v.object
  PROVE  /\ Is("object", Trims(v, NoOptions)) /\ DOMAIN Trims(v, NoOptions).object = DOMAIN v.object
         /\ \A k \in DOMAIN v.object : Trims(v, NoOptions).object[k] = Trims(v.object[k], NoOptions)
<1> DEFINE K == DOMAIN v.object
           f == [k \in KeysKept(K, NoOptions) |-> Trims(v.object[KeyOf(k, K)], NoOptions)]
<1>1. Trims(v, NoOptions) = Object(f)
  BY PlainObject
<1>2. KeysKept(K, NoOptions) = K /\ \A k \in K : KeyOf(k, K) = k
  BY PlainKeys
<1>3. DOMAIN f = K /\ \A k \in K : f[k] = Trims(v.object[k], NoOptions)
  BY <1>2
<1> HIDE DEF f
<1> QED BY <1>1, <1>3, ObjectIs

LEMMA TrimsOfFields ==
  ASSUME NEW v, NEW T, NEW M, NEW O, IsValue(v), HasFields(v, T, M, O), "_id" \notin T \union M \union O
  PROVE  HasFields(Trims(v, NoOptions), T, M, O)
<1> DEFINE t == Trims(v, NoOptions)
<1>1. Is("object", v) /\ DOMAIN v.object = T \union M \union O
  BY DEF HasFields
<1>2. Is("object", t) /\ DOMAIN t.object = T \union M \union O
  BY <1>1, FieldsOfPlain
<1>3. \A k \in T \union M \union O : t.object[k] = Trims(v.object[k], NoOptions)
  BY <1>1, FieldsOfPlain
<1> HIDE DEF t
<1>4. \A k \in T : IsText(t.object[k])
  BY <1>3, TrimsOfTyped DEF HasFields
<1>5. \A k \in M : IsNumber(t.object[k])
  BY <1>3, TrimsOfTyped DEF HasFields
<1> QED BY <1>2, <1>4, <1>5 DEF HasFields, t

LEMMA TrimsOfList ==
  ASSUME NEW x, IsValue(x), IsList(x)
  PROVE  /\ IsList(Trims(x, NoOptions)) /\ DOMAIN Trims(x, NoOptions).array = DOMAIN x.array
         /\ \A i \in DOMAIN x.array : /\ Trims(x, NoOptions).array[i] = Trims(x.array[i], NoOptions)
                                      /\ IsValue(x.array[i])
<1>1. PICK n \in Nat : DOMAIN x.array = 1 .. n
  BY DEF IsList
<1> DEFINE f == [i \in 1 .. n |-> Trims(x.array[i], NoOptions)]
<1>2. Trims(x, NoOptions) = Array(f)
  BY <1>1, PlainArray DEF IsList
<1>3. DOMAIN f = 1 .. n /\ f = [i \in 1 .. n |-> f[i]] /\ \A i \in 1 .. n : f[i] = Trims(x.array[i], NoOptions)
  OBVIOUS
<1> HIDE DEF f
<1>4. IsList(Array(f)) /\ Array(f).array = f
  BY <1>3, ArrayIs
<1>5. \A i \in DOMAIN x.array : IsValue(x.array[i])
  BY ItemIsChild, ChildrenAreValues DEF IsList
<1> QED BY <1>1, <1>2, <1>3, <1>4, <1>5

LEMMA FieldIsValue ==
  ASSUME NEW v, IsValue(v), Is("object", v), NEW k \in DOMAIN v.object
  PROVE  IsValue(v.object[k])
BY FieldIsChild, ChildrenAreValues

LEMMA FieldsOfList ==
  ASSUME NEW x, NEW T, NEW M, IsValue(x), IsList(x), "_id" \notin T \union M,
         \A i \in DOMAIN x.array : HasFields(x.array[i], T, M, {})
  PROVE  /\ IsList(Trims(x, NoOptions))
         /\ \A i \in DOMAIN Trims(x, NoOptions).array : HasFields(Trims(x, NoOptions).array[i], T, M, {})
<1>1. /\ IsList(Trims(x, NoOptions)) /\ DOMAIN Trims(x, NoOptions).array = DOMAIN x.array
      /\ \A i \in DOMAIN x.array : /\ Trims(x, NoOptions).array[i] = Trims(x.array[i], NoOptions)
                                   /\ IsValue(x.array[i])
  BY TrimsOfList
<1>2. \A i \in DOMAIN x.array : HasFields(Trims(x.array[i], NoOptions), T, M, {})
  BY <1>1, TrimsOfFields
<1> QED BY <1>1, <1>2

(* A message that the pipe has trimmed is a message. *)
LEMMA MessageOfTrims ==
  ASSUME NEW c, IsValue(c), IsMessage(c)
  PROVE  IsMessage(Trims(c, NoOptions))
<1> DEFINE t == Trims(c, NoOptions)
           D == MessageText \union {"createdAt", "updatedAt"}
           O == {"mentions", "previewUrl", "emojis", "replyInfo"}
<1>1. HasFields(c, D, {}, O)
  BY DEF IsMessage
<1>2. "_id" \notin D \union {} \union O
  BY DEF MessageText
<1>3. Is("object", c) /\ DOMAIN c.object = D \union {} \union O
  BY <1>1 DEF HasFields
<1> HIDE DEF D, t
<1>4. HasFields(t, D, {}, O) /\ \A k \in O : t.object[k] = Trims(c.object[k], NoOptions) /\ IsValue(c.object[k])
  <2> HIDE DEF O
  <2>1. HasFields(Trims(c, NoOptions), D, {}, O)
        /\ \A k \in O : Trims(c, NoOptions).object[k] = Trims(c.object[k], NoOptions)
    <3>1. HasFields(Trims(c, NoOptions), D, {}, O)
      BY <1>1, <1>2, TrimsOfFields
    <3>2. "_id" \notin DOMAIN c.object
      BY <1>2, <1>3
    <3>3. \A k \in O : Trims(c, NoOptions).object[k] = Trims(c.object[k], NoOptions)
      BY <1>3, <3>2, FieldsOfPlain
    <3> QED BY <3>1, <3>3
  <2>2. \A k \in O : IsValue(c.object[k])
    BY <1>3, FieldIsValue
  <2> QED BY <2>1, <2>2 DEF t
<1>5. ListOf(IsMention, t.object["mentions"])
  <2> DEFINE x == c.object["mentions"]
  <2>1. IsValue(x) /\ IsList(x) /\ \A i \in DOMAIN x.array : HasFields(x.array[i], MentionText, Span, {})
    BY <1>4 DEF IsMessage, ListOf, IsList, IsMention
  <2>2. "_id" \notin MentionText \union Span
    BY KeyNames
  <2>3. t.object["mentions"] = Trims(x, NoOptions)
    BY <1>4
  <2> HIDE DEF x
  <2>4. /\ IsList(Trims(x, NoOptions))
        /\ \A i \in DOMAIN Trims(x, NoOptions).array : HasFields(Trims(x, NoOptions).array[i], MentionText, Span, {})
    BY <2>1, <2>2, FieldsOfList
  <2> QED BY <2>3, <2>4 DEF ListOf, IsList, IsMention
<1>6. ListOf(IsUrl, t.object["previewUrl"])
  <2> DEFINE x == c.object["previewUrl"]
  <2>1. IsValue(x) /\ IsList(x) /\ \A i \in DOMAIN x.array : HasFields(x.array[i], UrlText, Span, {})
    BY <1>4 DEF IsMessage, ListOf, IsList, IsUrl
  <2>2. "_id" \notin UrlText \union Span
    BY KeyNames
  <2>3. t.object["previewUrl"] = Trims(x, NoOptions)
    BY <1>4
  <2> HIDE DEF x
  <2>4. /\ IsList(Trims(x, NoOptions))
        /\ \A i \in DOMAIN Trims(x, NoOptions).array : HasFields(Trims(x, NoOptions).array[i], UrlText, Span, {})
    BY <2>1, <2>2, FieldsOfList
  <2> QED BY <2>3, <2>4 DEF ListOf, IsList, IsUrl
<1>7. ListOf(IsEmoji, t.object["emojis"])
  <2> DEFINE x == c.object["emojis"]
  <2>1. IsValue(x) /\ IsList(x) /\ \A i \in DOMAIN x.array : HasFields(x.array[i], EmojiText, {}, {})
    BY <1>4 DEF IsMessage, ListOf, IsList, IsEmoji
  <2>2. "_id" \notin EmojiText \union {}
    BY DEF EmojiText
  <2>3. t.object["emojis"] = Trims(x, NoOptions)
    BY <1>4
  <2> HIDE DEF x
  <2>4. /\ IsList(Trims(x, NoOptions))
        /\ \A i \in DOMAIN Trims(x, NoOptions).array : HasFields(Trims(x, NoOptions).array[i], EmojiText, {}, {})
    BY <2>1, <2>2, FieldsOfList
  <2> QED BY <2>3, <2>4 DEF ListOf, IsList, IsEmoji
<1>8. IsReplyInfo(t.object["replyInfo"])
  <2> DEFINE x == c.object["replyInfo"]
  <2>1. IsValue(x) /\ HasFields(x, ReplyText, {}, {"isImage"}) /\ IsBoolean(x.object["isImage"])
    BY <1>4 DEF IsMessage, IsReplyInfo
  <2>2. "_id" \notin ReplyText \union {} \union {"isImage"}
    BY DEF ReplyText
  <2>3. t.object["replyInfo"] = Trims(x, NoOptions)
    BY <1>4
  <2> HIDE DEF x
  <2> DEFINE K == {"isImage"}
  <2>4. HasFields(Trims(x, NoOptions), ReplyText, {}, K)
        /\ \A k \in K : Trims(x, NoOptions).object[k] = Trims(x.object[k], NoOptions)
    <3>1. HasFields(x, ReplyText, {}, K) /\ "_id" \notin ReplyText \union {} \union K
      BY <2>1, <2>2
    <3> HIDE DEF K
    <3>2. HasFields(Trims(x, NoOptions), ReplyText, {}, K)
      BY <2>1, <3>1, TrimsOfFields
    <3>3. Is("object", x) /\ "_id" \notin DOMAIN x.object /\ K \subseteq DOMAIN x.object
      BY <3>1 DEF HasFields
    <3>4. \A k \in K : Trims(x, NoOptions).object[k] = Trims(x.object[k], NoOptions)
      BY <2>1, <3>3, FieldsOfPlain
    <3> QED BY <3>2, <3>4
  <2>5. IsBoolean(Trims(x, NoOptions).object["isImage"])
    BY <2>1, <2>4, TrimsOfTyped
  <2> QED BY <2>3, <2>4, <2>5 DEF IsReplyInfo
<1> QED BY <1>4, <1>5, <1>6, <1>7, <1>8 DEF IsMessage, D, t

-----------------------------------------------------------------------------
(* Conversations. *)

UsersOf(v) == Map(ConvertToUser, Get(v, "participants", NoItems))
MessagesOf(v) == Map(ConvertToMessage, Get(v, "messages", NoItems))
AttachmentsOf(v) == ConvertToAttachment(Get(v, "attachments", EmptyObject))
LinksOf(v) == ConvertToLinks(Get(v, "links", EmptyObject))

OthersOfConversation(v) ==
  [participants |-> UsersOf(v), messages |-> MessagesOf(v),
   lastActivity |-> IsoString(Get(v, "lastActivity", Now)),
   createdAt |-> IsoString(Get(v, "createdAt", Now)),
   updatedAt |-> IsoString(Get(v, "updatedAt", Now)),
   attachments |-> AttachmentsOf(v), links |-> LinksOf(v)]

ConversationKeys == {"participants", "messages", "lastActivity", "createdAt", "updatedAt", "attachments", "links"}

LEMMA ConversationIs ==
  ASSUME NEW v
  PROVE  LET c == ConvertToConversation(v).object IN
         /\ Is("object", ConvertToConversation(v))
         /\ DOMAIN c = ConversationText \union ConversationKeys
         /\ \A k \in ConversationText : c[k] = Get(v, k, Empty)
         /\ c["participants"] = UsersOf(v) /\ c["messages"] = MessagesOf(v)
         /\ \A k \in {"lastActivity", "createdAt", "updatedAt"} : c[k] = IsoString(Get(v, k, Now))
         /\ c["attachments"] = AttachmentsOf(v) /\ c["links"] = LinksOf(v)
<1> DEFINE o == OthersOfConversation(v)
           c == Converted(v, ConversationText, {}, o)
<1>1. ConvertToConversation(v) = c
  BY DEF ConvertToConversation, OthersOfConversation, UsersOf, MessagesOf, AttachmentsOf, LinksOf
<1>2. /\ DOMAIN o = ConversationKeys
      /\ o["participants"] = UsersOf(v) /\ o["messages"] = MessagesOf(v)
      /\ \A k \in {"lastActivity", "createdAt", "updatedAt"} : o[k] = IsoString(Get(v, k, Now))
      /\ o["attachments"] = AttachmentsOf(v) /\ o["links"] = LinksOf(v)
  BY DEF OthersOfConversation, ConversationKeys
<1> HIDE DEF o
<1>3. /\ Is("object", c) /\ DOMAIN c.object = ConversationText \union {} \union DOMAIN o
      /\ \A k \in DOMAIN o : c.object[k] = o[k]
      /\ \A k \in ConversationText \ ({} \union DOMAIN o) : c.object[k] = Get(v, k, Empty)
  BY ConvertedIs
<1> HIDE DEF c
<1>4. ConversationText \intersect ConversationKeys = {}
  BY DEF ConversationText, ConversationKeys
<1>5. \A k \in ConversationText : c.object[k] = Get(v, k, Empty)
  BY <1>2, <1>3, <1>4
<1>6. \A k \in ConversationKeys : c.object[k] = o[k]
  BY <1>2, <1>3
<1> QED BY <1>1, <1>2, <1>3, <1>5, <1>6 DEF ConversationKeys

(* A conversation is one when its lists are. *)
LEMMA ConversationTyped ==
  ASSUME NEW v, TextsIn(v, ConversationText),
         \A k \in {"lastActivity", "createdAt", "updatedAt"} : IsText(IsoString(Get(v, k, Now))),
         ListOf(IsUser, UsersOf(v)), ListOf(IsMessage, MessagesOf(v)),
         IsAttachments(AttachmentsOf(v)), IsLinks(LinksOf(v))
  PROVE  IsConversation(ConvertToConversation(v))
<1> DEFINE w == ConvertToConversation(v)
           c == w.object
<1>1. /\ Is("object", w)
      /\ DOMAIN c = ConversationText \union ConversationKeys
      /\ \A k \in ConversationText : c[k] = Get(v, k, Empty)
      /\ c["participants"] = UsersOf(v) /\ c["messages"] = MessagesOf(v)
      /\ \A k \in {"lastActivity", "createdAt", "updatedAt"} : c[k] = IsoString(Get(v, k, Now))
      /\ c["attachments"] = AttachmentsOf(v) /\ c["links"] = LinksOf(v)
  BY ConversationIs
<1> HIDE DEF w
<1>2. \A k \in ConversationText \union {"lastActivity", "createdAt", "updatedAt"} : IsText(c[k])
  BY <1>1 DEF TextsIn
<1>3. HasFields(w, ConversationText \union {"lastActivity", "createdAt", "updatedAt"}, {},
                {"participants", "messages", "attachments", "links"})
  BY <1>1, <1>2 DEF HasFields, ConversationKeys
<1>4. ListOf(IsUser, c["participants"]) /\ ListOf(IsMessage, c["messages"])
  BY <1>1
<1> QED BY <1>1, <1>3, <1>4 DEF IsConversation, w

-----------------------------------------------------------------------------
(* Lists of users. *)

Few == 0 .. Depth + 1

LEMMA FewLevels == {1, 2, 3, 4, 5, 6, 7} \subseteq Few /\ Depth >= 6 /\ Depth \in Nat
BY DepthAssumption, RepliesAssumption DEF Few

UsersSuit(x) ==
  IsList(x) /\ IsValue(x) /\ \A i \in DOMAIN x.array : SuitsUser(x.array[i]) /\ Unnamed(x.array[i])

LEMMA MapOfUsers ==
  ASSUME NEW x, IsList(x)
  PROVE  LET m == Map(ConvertToUser, x) IN
         /\ IsList(m) /\ DOMAIN m.array = DOMAIN x.array
         /\ \A i \in DOMAIN x.array : m.array[i] = ConvertToUser(x.array[i])
         /\ m = Array([i \in DOMAIN x.array |-> ConvertToUser(x.array[i])])
<1> DEFINE f == [i \in DOMAIN x.array |-> ConvertToUser(x.array[i])]
<1>1. Map(ConvertToUser, x) = Array(f)
  BY DEF Map
<1>2. DOMAIN f = DOMAIN x.array /\ f = [i \in DOMAIN x.array |-> f[i]]
      /\ \A i \in DOMAIN x.array : f[i] = ConvertToUser(x.array[i])
  OBVIOUS
<1> HIDE DEF f
<1>3. IsList(Array(f)) /\ Array(f).array = f
  BY <1>2, ListOfItems
<1> QED BY <1>1, <1>2, <1>3 DEF f

LEMMA UsersTyped ==
  ASSUME NEW x, IsList(x), \A i \in DOMAIN x.array : SuitsUser(x.array[i])
  PROVE  ListOf(IsUser, Map(ConvertToUser, x))
<1> DEFINE m == Map(ConvertToUser, x)
<1>1. /\ IsList(m) /\ DOMAIN m.array = DOMAIN x.array
      /\ \A i \in DOMAIN x.array : m.array[i] = ConvertToUser(x.array[i])
  BY MapOfUsers
<1> HIDE DEF m
<1>2. \A i \in DOMAIN m.array : IsUser(m.array[i])
  BY <1>1, UserTyped
<1> QED BY <1>1, <1>2 DEF ListOf, IsList, m

LEMMA UsersOfTrims ==
  ASSUME NEW x, NEW options, UsersSuit(x)
  PROVE  UsersSuit(Trims(x, options))
<1> DEFINE K == Remaining(x, options)
           n == Cardinality(K)
           f == [j \in 1 .. n |-> Trims(x.array[Nth(K, j)], options)]
<1>0. IsValue(x) /\ Is("array", x)
  BY DEF UsersSuit, IsList
<1>1. Trims(x, options) = Array(f) /\ n \in Nat /\ \A j \in 1 .. n : Nth(K, j) \in K
  BY <1>0, TrimsOfArray, KeptPlaces
<1>2. K \subseteq DOMAIN x.array
  BY DEF Remaining
<1> HIDE DEF K, n
<1>3. DOMAIN f = 1 .. n /\ f = [i \in 1 .. n |-> f[i]]
      /\ \A j \in 1 .. n : f[j] = Trims(x.array[Nth(K, j)], options)
  OBVIOUS
<1> HIDE DEF f
<1>4. IsList(Array(f)) /\ Array(f).array = f
  BY <1>1, <1>3, ArrayIs
<1>5. ASSUME NEW v, IsValue(v), SuitsUser(v), Unnamed(v)
      PROVE  SuitsUser(Trims(v, options)) /\ Unnamed(Trims(v, options))
  BY <1>5, UserOfTrims, TrimsKeys DEF Unnamed
<1>6. \A j \in 1 .. n : SuitsUser(f[j]) /\ Unnamed(f[j])
  <2> TAKE j \in 1 .. n
  <2>1. Nth(K, j) \in DOMAIN x.array
    BY <1>1, <1>2
  <2>2. IsValue(x.array[Nth(K, j)])
    BY <1>0, <2>1, ItemIsChild, ChildrenAreValues
  <2> QED BY <1>3, <1>5, <2>1, <2>2 DEF UsersSuit
<1>7. IsValue(Trims(x, options))
  BY <1>0, TrimsIsValue
<1> QED BY <1>1, <1>3, <1>4, <1>6, <1>7 DEF UsersSuit

LEMMA UsersPlain ==
  ASSUME NEW x, UsersSuit(x), \A i \in DOMAIN x.array : Fine(x.array[i], 3)
  PROVE  /\ Map(ConvertToUser, Trims(x, NoOptions)) = Trims(Map(ConvertToUser, x), NoOptions)
         /\ Fine(Map(ConvertToUser, x), 4)
<1> DEFINE m == Map(ConvertToUser, x)
           t == Trims(x, NoOptions)
           D == DOMAIN x.array
<1>1. /\ IsList(m) /\ DOMAIN m.array = D
      /\ \A i \in D : m.array[i] = ConvertToUser(x.array[i])
      /\ m = Array([i \in D |-> ConvertToUser(x.array[i])])
  BY MapOfUsers DEF UsersSuit
<1>2. IsList(t) /\ DOMAIN t.array = D /\ \A i \in D : t.array[i] = Trims(x.array[i], NoOptions)
  BY TrimsOfList DEF UsersSuit
<1> HIDE DEF m, t
<1>3. Map(ConvertToUser, t) = Array([i \in DOMAIN t.array |-> ConvertToUser(t.array[i])])
  BY <1>2, MapOfUsers
<1>4. \A i \in D : Fine(ConvertToUser(x.array[i]), 3)
                   /\ ConvertToUser(Trims(x.array[i], NoOptions)) = Trims(ConvertToUser(x.array[i]), NoOptions)
  <2> TAKE i \in D
  <2>1. Fine(x.array[i], 2 + 1) /\ 2 \in Nat /\ 2 >= 2 /\ 2 <= Depth
    BY FewLevels
  <2>2. Unnamed(x.array[i])
    BY DEF UsersSuit
  <2>3. Fine(ConvertToUser(x.array[i]), 2 + 1)
    BY <2>1, UserFine
  <2>4. ConvertToUser(Trims(x.array[i], NoOptions)) = Trims(ConvertToUser(x.array[i]), NoOptions)
    BY <2>1, <2>2, UserPlain
  <2> QED BY <2>3, <2>4
<1>5. Fine(m, 4)
  <2>1. m.array \in Seq(ToSet(m.array)) /\ Is("array", m)
    BY <1>1 DEF IsList
  <2>2. \A c \in Children(m) : Fine(c, 3)
    BY <1>1, <1>4, <2>1 DEF Children, ToSet, Is
  <2>3. Fine(m, 3 + 1)
    BY <2>1, <2>2, FineParent
  <2> QED BY <2>3
<1>6. IsValue(m)
  BY <1>5, FewLevels, FineIsValue DEF Few
<1>7. Trims(m, NoOptions) = Array([i \in DOMAIN m.array |-> Trims(m.array[i], NoOptions)])
  BY <1>1, <1>6, PlainArray DEF IsList
<1> HIDE DEF D
<1>8. [i \in DOMAIN t.array |-> ConvertToUser(t.array[i])] = [i \in DOMAIN m.array |-> Trims(m.array[i], NoOptions)]
  BY <1>1, <1>2, <1>4
<1> QED BY <1>3, <1>5, <1>7, <1>8 DEF m, t

LEMMA FriendsSuit ==
  ASSUME NEW S, IsFiniteSet(S)
  PROVE  UsersSuit(ArrayOf(UserOf, S)) /\ Is("array", ArrayOf(UserOf, S))
<1> DEFINE n == Cardinality(S)
           s == SetToSeq(S)
           f == [i \in DOMAIN s |-> UserOf(s[i])]
<1>1. n \in Nat /\ DOMAIN s = 1 .. n
  BY SetToSeqIs
<1>2. ArrayOf(UserOf, S) = Array(f)
  BY DEF ArrayOf
<1> HIDE DEF s, n
<1>3. DOMAIN f = 1 .. n /\ f = [i \in 1 .. n |-> f[i]] /\ \A i \in 1 .. n : f[i] = UserOf(s[i])
  BY <1>1
<1> HIDE DEF f
<1>4. /\ IsList(Array(f)) /\ Array(f).array = f
      /\ \A m \in Nat : (\A i \in 1 .. n : Fine(f[i], m)) => Fine(Array(f), m + 1)
  BY <1>1, <1>3, ArrayIs
<1>5. \A i \in 1 .. n : SuitsUser(f[i]) /\ Unnamed(f[i]) /\ Fine(f[i], 3)
  BY <1>3, UserOfIs
<1>6. Fine(Array(f), 3 + 1)
  BY <1>4, <1>5
<1>7. IsValue(Array(f))
  BY <1>6, FewLevels, FineIsValue DEF Few
<1> QED BY <1>2, <1>3, <1>4, <1>5, <1>7 DEF UsersSuit, IsList

-----------------------------------------------------------------------------
(* The conversations that were read. *)

Good(s) ==
  /\ \E n \in Nat : DOMAIN s.participants = 1 .. n
  /\ IsFiniteSet(s.messages)
  /\ \A d \in s.messages : IsFiniteSet(d.previews)

LEMMA ParticipantsAre ==
  ASSUME NEW s, Good(s)
  PROVE  /\ UsersSuit(Participants(s)) /\ Fine(Participants(s), 4) /\ Participants(s) # Undefined
         /\ \A i \in DOMAIN Participants(s).array : Fine(Participants(s).array[i], 3)
<1>1. PICK n \in Nat : DOMAIN s.participants = 1 .. n
  BY DEF Good
<1> DEFINE f == [i \in DOMAIN s.participants |-> UserOf(s.participants[i])]
<1>2. Participants(s) = Array(f)
  BY DEF Participants
<1>3. DOMAIN f = 1 .. n /\ f = [i \in 1 .. n |-> f[i]] /\ \A i \in 1 .. n : f[i] = UserOf(s.participants[i])
  BY <1>1
<1> HIDE DEF f
<1>4. /\ IsList(Array(f)) /\ Array(f).array = f /\ Array(f) # Undefined
      /\ \A m \in Nat : (\A i \in 1 .. n : Fine(f[i], m)) => Fine(Array(f), m + 1)
  BY <1>3, ArrayIs
<1>5. \A i \in 1 .. n : SuitsUser(f[i]) /\ Unnamed(f[i]) /\ Fine(f[i], 3)
  BY <1>3, UserOfIs
<1>6. Fine(Array(f), 3 + 1)
  BY <1>4, <1>5
<1>7. IsValue(Array(f))
  BY <1>6, FewLevels, FineIsValue DEF Few
<1>8. Fine(Array(f), 4)
  BY <1>6
<1> QED BY <1>2, <1>3, <1>4, <1>5, <1>7, <1>8 DEF UsersSuit

-----------------------------------------------------------------------------
(* The messages of one conversation, converted. *)
Shown(s) == Map(ConvertToMessage, ReadMessages(s))

LEMMA MapOfMessages ==
  ASSUME NEW x, IsList(x)
  PROVE  LET m == Map(ConvertToMessage, x) IN
         /\ IsList(m) /\ DOMAIN m.array = DOMAIN x.array /\ m # Undefined
         /\ \A i \in DOMAIN x.array : m.array[i] = ConvertToMessage(x.array[i])
         /\ m = Array([i \in DOMAIN x.array |-> ConvertToMessage(x.array[i])])
<1> DEFINE f == [i \in DOMAIN x.array |-> ConvertToMessage(x.array[i])]
<1>1. Map(ConvertToMessage, x) = Array(f)
  BY DEF Map
<1>2. DOMAIN f = DOMAIN x.array /\ f = [i \in DOMAIN x.array |-> f[i]]
      /\ \A i \in DOMAIN x.array : f[i] = ConvertToMessage(x.array[i])
  OBVIOUS
<1> HIDE DEF f
<1>3. IsList(Array(f)) /\ Array(f).array = f
  BY <1>2, ListOfItems
<1>4. Array(f) # Undefined
  BY DEF Array, Undefined
<1> QED BY <1>1, <1>2, <1>3, <1>4 DEF f

LEMMA ReadMessagesAre ==
  ASSUME NEW s, Good(s)
  PROVE  LET x == ReadMessages(s) IN
         /\ IsList(x) /\ x # Undefined
         /\ \A i \in DOMAIN x.array : \E d \in s.messages : x.array[i] = Message(d) /\ IsFiniteSet(d.previews)
         /\ Fine(x, 5)
<1> DEFINE n == Cardinality(s.messages)
           q == SetToSeq(s.messages)
           f == [i \in DOMAIN q |-> Message(q[i])]
<1>1. n \in Nat /\ DOMAIN q = 1 .. n /\ \A i \in 1 .. n : q[i] \in s.messages
  BY SetToSeqIs DEF Good
<1>2. ReadMessages(s) = Array(f)
  BY DEF ReadMessages, ArrayOf
<1> HIDE DEF q, n
<1>3. DOMAIN f = 1 .. n /\ f = [i \in 1 .. n |-> f[i]] /\ \A i \in 1 .. n : f[i] = Message(q[i])
  BY <1>1
<1> HIDE DEF f
<1>4. /\ IsList(Array(f)) /\ Array(f).array = f /\ Array(f) # Undefined
      /\ \A m \in Nat : (\A i \in 1 .. n : Fine(f[i], m)) => Fine(Array(f), m + 1)
  BY <1>1, <1>3, ArrayIs
<1>5. \A i \in 1 .. n : q[i] \in s.messages /\ f[i] = Message(q[i]) /\ IsFiniteSet(q[i].previews)
  BY <1>1, <1>3 DEF Good
<1>6. \A i \in 1 .. n : Fine(f[i], 4)
  BY <1>5, MessageSuits
<1>7. Fine(Array(f), 4 + 1)
  BY <1>4, <1>6
<1>8. Fine(Array(f), 5)
  BY <1>7
<1>9. \A i \in 1 .. n : \E d \in s.messages : f[i] = Message(d) /\ IsFiniteSet(d.previews)
  BY <1>5
<1>10. DOMAIN ReadMessages(s).array = 1 .. n /\ ReadMessages(s).array = f
  BY <1>2, <1>3, <1>4
<1> QED BY <1>2, <1>4, <1>8, <1>9, <1>10

LEMMA OneShown ==
  ASSUME NEW d, IsFiniteSet(d.previews)
  PROVE  LET c == ConvertToMessage(Message(d)) IN
         /\ IsMessage(c) /\ Fine(c, 4) /\ IsValue(c)
         /\ ConvertToMessage(Trims(c, NoOptions)) = Trims(c, NoOptions)
         /\ IsMessage(Trims(c, NoOptions))
<1> DEFINE m == Message(d)
           c == ConvertToMessage(m)
<1>1. SuitsMessage(m) /\ HasLists(m) /\ Fine(m, 4)
  BY MessageSuits
<1> HIDE DEF m
<1>2. 3 \in Nat /\ 3 >= 3 /\ 3 <= Depth /\ 4 = 3 + 1
  BY FewLevels
<1>3. Fine(c, 4)
  BY <1>1, <1>2, MessageFine
<1>4. IsMessage(c) /\ HasLists(c) /\ Unnamed(c) /\ ConvertToMessage(c) = c
  BY <1>1, MessageTyped, MessageHasLists, KeysOfMessage, MessageTwice
<1> HIDE DEF c
<1>5. IsValue(c)
  BY <1>3, FewLevels, FineIsValue DEF Few
<1>6. ConvertToMessage(Trims(c, NoOptions)) = Trims(ConvertToMessage(c), NoOptions)
  BY <1>2, <1>3, <1>4, MessagePlain
<1>7. IsMessage(Trims(c, NoOptions))
  BY <1>4, <1>5, MessageOfTrims
<1> QED BY <1>3, <1>4, <1>5, <1>6, <1>7 DEF c, m

(* The messages of a detail: converted, trimmed and converted again, they    *)
(* are those of the list, trimmed.                                           *)
LEMMA ShownAre ==
  ASSUME NEW s, Good(s)
  PROVE  /\ IsList(Shown(s)) /\ Shown(s) # Undefined /\ Fine(Shown(s), 5) /\ IsValue(Shown(s))
         /\ ListOf(IsMessage, Shown(s))
         /\ Map(ConvertToMessage, Trims(Shown(s), NoOptions)) = Trims(Shown(s), NoOptions)
         /\ ListOf(IsMessage, Trims(Shown(s), NoOptions))
<1> DEFINE x == ReadMessages(s)
           m == Shown(s)
           t == Trims(m, NoOptions)
           D == DOMAIN x.array
<1>1. /\ IsList(x)
      /\ \A i \in D : \E d \in s.messages : x.array[i] = Message(d) /\ IsFiniteSet(d.previews)
  BY ReadMessagesAre
<1>2. /\ IsList(m) /\ DOMAIN m.array = D /\ m # Undefined
      /\ \A i \in D : m.array[i] = ConvertToMessage(x.array[i])
  BY <1>1, MapOfMessages DEF Shown
<1> HIDE DEF x, m
<1>3. \A i \in D : /\ IsMessage(m.array[i]) /\ Fine(m.array[i], 4)
                   /\ ConvertToMessage(Trims(m.array[i], NoOptions)) = Trims(m.array[i], NoOptions)
                   /\ IsMessage(Trims(m.array[i], NoOptions))
  BY <1>1, <1>2, OneShown
<1>4. Fine(m, 5)
  <2>1. m.array \in Seq(ToSet(m.array)) /\ Is("array", m)
    BY <1>2 DEF IsList
  <2>2. \A c \in Children(m) : Fine(c, 4)
    BY <1>2, <1>3, <2>1 DEF Children, ToSet, Is
  <2>3. Fine(m, 4 + 1)
    BY <2>1, <2>2, FineParent
  <2> QED BY <2>3
<1>5. IsValue(m)
  BY <1>4, FewLevels, FineIsValue DEF Few
<1>6. ListOf(IsMessage, m)
  BY <1>2, <1>3 DEF ListOf, IsList
<1>7. IsList(t) /\ DOMAIN t.array = D /\ \A i \in D : t.array[i] = Trims(m.array[i], NoOptions)
  BY <1>2, <1>5, TrimsOfList
<1>8. t = Array([i \in DOMAIN m.array |-> Trims(m.array[i], NoOptions)])
  BY <1>2, <1>5, PlainArray DEF IsList
<1> HIDE DEF t, D
<1>9. Map(ConvertToMessage, t) = Array([i \in DOMAIN t.array |-> ConvertToMessage(t.array[i])])
  BY <1>7, MapOfMessages
<1>10. [i \in DOMAIN t.array |-> ConvertToMessage(t.array[i])] = [i \in DOMAIN m.array |-> Trims(m.array[i], NoOptions)]
  BY <1>2, <1>3, <1>7
<1>11. Map(ConvertToMessage, t) = t
  BY <1>8, <1>9, <1>10
<1>12. ListOf(IsMessage, t)
  BY <1>2, <1>3, <1>7 DEF ListOf, IsList
<1> QED BY <1>2, <1>4, <1>5, <1>6, <1>11, <1>12 DEF m, t

-----------------------------------------------------------------------------
(* Attachments and links. *)

LEMMA MappedIs ==
  ASSUME NEW v
  PROVE  /\ ConvertToAttachment(v) = Converted(v, {}, {"total"}, [attachments |-> Mapped(Get(v, "items", NoItems), AttachmentText, {})])
         /\ ConvertToLinks(v) = Converted(v, {}, {"total"}, [links |-> Mapped(Get(v, "items", NoItems), UrlText, Span)])
BY Maps DEF ConvertToAttachment, ConvertToLinks

LEMMA AttachmentsTyped ==
  ASSUME NEW v, IsNumber(Get(v, "total", Zero)), IsList(Get(v, "items", NoItems)),
         ItemsSuit(Get(v, "items", NoItems), AttachmentText, {})
  PROVE  LET c == ConvertToAttachment(v) IN
         /\ IsAttachments(c) /\ c.object["total"] = Get(v, "total", Zero)
         /\ c.object["attachments"] = Mapped(Get(v, "items", NoItems), AttachmentText, {})
<1> DEFINE x == Get(v, "items", NoItems)
           m == Mapped(x, AttachmentText, {})
           o == [attachments |-> m]
           c == Converted(v, {}, {"total"}, o)
<1>1. ConvertToAttachment(v) = c
  BY MappedIs
<1>2. IsList(m) /\ \A i \in DOMAIN m.array : HasFields(m.array[i], AttachmentText, {}, {})
  <2>1. AttachmentText \intersect {} = {} /\ IsList(x)
        /\ \A i \in DOMAIN x.array : TextsIn(x.array[i], AttachmentText) /\ NumbersIn(x.array[i], {})
    BY DEF ItemsSuit
  <2> HIDE DEF x
  <2> QED BY <2>1, MappedHas
<1> HIDE DEF m
<1>3. DOMAIN o = {"attachments"} /\ o["attachments"] = m
  OBVIOUS
<1> HIDE DEF o
<1>4. /\ Is("object", c) /\ DOMAIN c.object = {} \union {"total"} \union DOMAIN o
      /\ \A k \in DOMAIN o : c.object[k] = o[k]
      /\ \A k \in {"total"} \ DOMAIN o : c.object[k] = Get(v, k, Zero)
  BY ConvertedIs
<1> HIDE DEF c
<1>5. DOMAIN c.object = {} \union {"total"} \union {"attachments"} /\ c.object["attachments"] = m
      /\ c.object["total"] = Get(v, "total", Zero)
  BY <1>3, <1>4
<1>6. HasFields(c, {}, {"total"}, {"attachments"})
  BY <1>4, <1>5 DEF HasFields
<1>7. ListOf(IsAttachment, m)
  BY <1>2 DEF ListOf, IsList, IsAttachment
<1> QED BY <1>1, <1>5, <1>6, <1>7 DEF IsAttachments, m

LEMMA LinksTyped ==
  ASSUME NEW v, IsNumber(Get(v, "total", Zero)), IsList(Get(v, "items", NoItems)),
         ItemsSuit(Get(v, "items", NoItems), UrlText, Span)
  PROVE  LET c == ConvertToLinks(v) IN
         /\ IsLinks(c) /\ c.object["total"] = Get(v, "total", Zero)
         /\ c.object["links"] = Mapped(Get(v, "items", NoItems), UrlText, Span)
<1> DEFINE x == Get(v, "items", NoItems)
           m == Mapped(x, UrlText, Span)
           o == [links |-> m]
           c == Converted(v, {}, {"total"}, o)
<1>1. ConvertToLinks(v) = c
  BY MappedIs
<1>2. IsList(m) /\ \A i \in DOMAIN m.array : HasFields(m.array[i], UrlText, Span, {})
  <2>1. UrlText \intersect Span = {} /\ IsList(x)
        /\ \A i \in DOMAIN x.array : TextsIn(x.array[i], UrlText) /\ NumbersIn(x.array[i], Span)
    BY KeyNames DEF ItemsSuit
  <2> HIDE DEF x
  <2> QED BY <2>1, MappedHas
<1> HIDE DEF m
<1>3. DOMAIN o = {"links"} /\ o["links"] = m
  OBVIOUS
<1> HIDE DEF o
<1>4. /\ Is("object", c) /\ DOMAIN c.object = {} \union {"total"} \union DOMAIN o
      /\ \A k \in DOMAIN o : c.object[k] = o[k]
      /\ \A k \in {"total"} \ DOMAIN o : c.object[k] = Get(v, k, Zero)
  BY ConvertedIs
<1> HIDE DEF c
<1>5. DOMAIN c.object = {} \union {"total"} \union {"links"} /\ c.object["links"] = m
      /\ c.object["total"] = Get(v, "total", Zero)
  BY <1>3, <1>4
<1>6. HasFields(c, {}, {"total"}, {"links"})
  BY <1>4, <1>5 DEF HasFields
<1>7. ListOf(IsUrl, m)
  BY <1>2 DEF ListOf, IsList, IsUrl
<1> QED BY <1>1, <1>5, <1>6, <1>7 DEF IsLinks, m

LEMMA NoneTyped == IsAttachments(ConvertToAttachment(EmptyObject)) /\ IsLinks(ConvertToLinks(EmptyObject))
<1>1. \A k, d : Get(EmptyObject, k, d) = d
  BY NothingIn DEF Get
<1>2. IsList(NoItems) /\ DOMAIN NoItems.array = {}
  <2>1. <<>> \in Seq(ToSet(<<>>)) /\ DOMAIN <<>> = {}
    OBVIOUS
  <2> QED BY <2>1, NothingIn DEF IsList
<1>3. \A T, M : ItemsSuit(NoItems, T, M)
  BY <1>2 DEF ItemsSuit
<1> QED BY <1>1, <1>2, <1>3, Defaults, AttachmentsTyped, LinksTyped

-----------------------------------------------------------------------------
(* A page of items, and what is got from it after trimming. *)
ItemsOf(n, f) == Object([total |-> Number(n), items |-> Array(f)])

LEMMA ItemsTrimmed ==
  ASSUME NEW n \in Nat, NEW f, DOMAIN f = 1 .. n, f = [i \in 1 .. n |-> f[i]], \A i \in 1 .. n : Fine(f[i], 4)
  PROVE  LET t == Trims(ItemsOf(n, f), NoOptions)
             x == Get(t, "items", NoItems)
         IN  /\ Fine(ItemsOf(n, f), 6) /\ ItemsOf(n, f) # Undefined
             /\ Get(t, "total", Zero) = Number(n)
             /\ IsList(x) /\ DOMAIN x.array = 1 .. n
             /\ \A i \in 1 .. n : x.array[i] = Trims(f[i], NoOptions) /\ IsValue(f[i])
<1> DEFINE I == ItemsOf(n, f)
           a == Array(f)
           g == [total |-> Number(n), items |-> a]
<1>1. I = Object(g)
  BY DEF ItemsOf
<1>2. IsList(a) /\ a.array = f /\ a # Undefined /\ Fine(a, 4 + 1)
  BY ArrayIs
<1>3. Fine(a, 5)
  BY <1>2
<1> HIDE DEF a
<1>4. DOMAIN g = {"total", "items"} /\ g["total"] = Number(n) /\ g["items"] = a
  OBVIOUS
<1> HIDE DEF g, I
<1>5. \A k \in DOMAIN g : Fine(g[k], 6 - 1)
  BY <1>3, <1>4, Leaves
<1>6. Fine(I, 6) /\ I # Undefined
  BY <1>1, <1>5, FieldsFine, ObjectIs
<1>7. IsValue(I) /\ IsValue(a)
  BY <1>3, <1>6, FewLevels, FineIsValue DEF Few
<1>8. \A k, d : Get(I, k, d) = IF k \in DOMAIN g /\ g[k] # Undefined THEN g[k] ELSE d
  BY <1>1, ObjectIs
<1>9. Get(I, "total", Zero) = Number(n) /\ Get(I, "items", NoItems) = a
  BY <1>2, <1>4, <1>8, Leaves
<1>10. Trims(Zero, NoOptions) = Zero /\ Trims(Number(n), NoOptions) = Number(n)
  BY Defaults, Leaves, TrimsOfTyped
<1>11. Get(Trims(I, NoOptions), "total", Zero) = Number(n)
  BY <1>7, <1>9, <1>10, GetOfPlain
<1>12. Get(Trims(I, NoOptions), "items", NoItems) = Trims(a, NoOptions)
  BY <1>7, <1>9, TrimsOfNothing, GetOfPlain
<1>13. /\ IsList(Trims(a, NoOptions)) /\ DOMAIN Trims(a, NoOptions).array = 1 .. n
       /\ \A i \in 1 .. n : Trims(a, NoOptions).array[i] = Trims(f[i], NoOptions) /\ IsValue(f[i])
  BY <1>2, <1>7, TrimsOfList
<1> QED BY <1>6, <1>11, <1>12, <1>13 DEF I

(* The attachments of a detail are the images aggregated, and as many. *)
LEMMA ImagesShown ==
  ASSUME NEW S, IsFiniteSet(S), \A d \in S : IsFiniteSet(d.previews)
  PROVE  LET I == Items(AttachmentOf, S)
             c == ConvertToAttachment(Trims(I, NoOptions)).object
         IN  /\ Fine(I, 6) /\ I # Undefined
             /\ IsAttachments(ConvertToAttachment(Trims(I, NoOptions)))
             /\ c["total"].number = Len(c["attachments"].array)
             /\ {v.object["id"].text : v \in ToSet(c["attachments"].array)} = {d.message : d \in S}
<1> DEFINE n == Cardinality(S)
           q == SetToSeq(S)
           f == [i \in DOMAIN q |-> AttachmentOf(q[i])]
           I == Items(AttachmentOf, S)
           t == Trims(I, NoOptions)
           x == Get(t, "items", NoItems)
           w == ConvertToAttachment(t)
           m == Mapped(x, AttachmentText, {})
<1>1. n \in Nat /\ DOMAIN q = 1 .. n /\ ToSet(q) = S /\ \A i \in 1 .. n : q[i] \in S
  BY SetToSeqIs
<1>2. I = ItemsOf(n, f)
  BY DEF Items, ArrayOf, ItemsOf
<1> HIDE DEF q, n, I
<1>3. DOMAIN f = 1 .. n /\ f = [i \in 1 .. n |-> f[i]] /\ \A i \in 1 .. n : f[i] = AttachmentOf(q[i])
  BY <1>1
<1> HIDE DEF f
<1>4. \A i \in 1 .. n : /\ TextsIn(f[i], AttachmentText) /\ Unnamed(f[i])
                        /\ Get(f[i], "id", Empty) = Text(q[i].message) /\ Fine(f[i], 4)
  BY <1>1, <1>3, AttachmentSuits
<1>5. /\ Fine(I, 6) /\ I # Undefined /\ Get(t, "total", Zero) = Number(n)
      /\ IsList(x) /\ DOMAIN x.array = 1 .. n
      /\ \A i \in 1 .. n : x.array[i] = Trims(f[i], NoOptions) /\ IsValue(f[i])
  BY <1>1, <1>2, <1>3, <1>4, ItemsTrimmed
<1> HIDE DEF t, x
<1>6. ItemsSuit(x, AttachmentText, {})
  <2>1. \A i \in 1 .. n : TextsIn(x.array[i], AttachmentText)
    <3>1. "_id" \notin AttachmentText \union {} /\ "id" \notin {}
      BY DEF AttachmentText
    <3> QED BY <1>4, <1>5, <3>1, FieldsOfTrims
  <2> QED BY <1>5, <2>1 DEF ItemsSuit, NumbersIn
<1>7. /\ IsAttachments(w) /\ w.object["total"] = Number(n) /\ w.object["attachments"] = m
  BY <1>5, <1>6, Leaves, AttachmentsTyped DEF x
<1> HIDE DEF w
<1>8. /\ IsList(m) /\ DOMAIN m.array = 1 .. n
      /\ \A i \in 1 .. n : m.array[i] = Converted(x.array[i], AttachmentText, {}, NoFields)
  BY <1>5, MappedItems, ZenonT(60)
<1> HIDE DEF m
<1>9. Len(m.array) = n
  BY <1>1, <1>8 DEF IsList
<1>10. ASSUME NEW i \in 1 .. n PROVE m.array[i].object["id"].text = q[i].message
  <2>1. m.array[i].object["id"] = Get(x.array[i], "id", Empty)
    <3> DEFINE c == Converted(x.array[i], AttachmentText, {}, NoFields)
    <3>1. "id" \in AttachmentText \ ({} \union DOMAIN NoFields)
      BY NoOthers DEF AttachmentText
    <3>2. c.object["id"] = Get(x.array[i], "id", Empty)
      BY <3>1, ConvertedIs
    <3> QED BY <1>8, <3>2
  <2>2. Get(Trims(f[i], NoOptions), "id", Empty) = Trims(Get(f[i], "id", Empty), NoOptions)
    <3>1. Trims(Empty, NoOptions) = Empty
      BY Defaults, TrimsOfTyped, TextIsText DEF Empty
    <3> QED BY <1>4, <1>5, <3>1, GetOfPlain DEF Unnamed
  <2>3. Trims(Text(q[i].message), NoOptions) = Text(q[i].message)
    BY TextIsText, TrimsOfTyped
  <2> QED BY <1>4, <1>5, <2>1, <2>2, <2>3, TextIsText
<1>11. ToSet(m.array) = {m.array[i] : i \in 1 .. n} /\ S = {q[i] : i \in 1 .. n}
  BY <1>1, <1>8 DEF ToSet
<1>12. {v.object["id"].text : v \in ToSet(m.array)} = {d.message : d \in S}
  BY <1>10, <1>11
<1>13. Number(n).number = n
  BY DEF Number
<1> QED BY <1>5, <1>7, <1>9, <1>12, <1>13 DEF w, t, I

(* The links of a detail are the pages unwound, and as many. *)
LEMMA LinksShown ==
  ASSUME NEW S, IsFiniteSet(S)
  PROVE  LET I == Items(PageOf, S)
             c == ConvertToLinks(Trims(I, NoOptions)).object
         IN  /\ Fine(I, 6) /\ I # Undefined
             /\ IsLinks(ConvertToLinks(Trims(I, NoOptions)))
             /\ c["total"].number = Len(c["links"].array)
             /\ {v.object["url"].text : v \in ToSet(c["links"].array)} = {p[2] : p \in S}
<1> DEFINE n == Cardinality(S)
           q == SetToSeq(S)
           f == [i \in DOMAIN q |-> PageOf(q[i])]
           I == Items(PageOf, S)
           t == Trims(I, NoOptions)
           x == Get(t, "items", NoItems)
           w == ConvertToLinks(t)
           m == Mapped(x, UrlText, Span)
<1>1. n \in Nat /\ DOMAIN q = 1 .. n /\ ToSet(q) = S /\ \A i \in 1 .. n : q[i] \in S
  BY SetToSeqIs
<1>2. I = ItemsOf(n, f)
  BY DEF Items, ArrayOf, ItemsOf
<1> HIDE DEF q, n, I
<1>3. DOMAIN f = 1 .. n /\ f = [i \in 1 .. n |-> f[i]] /\ \A i \in 1 .. n : f[i] = PreviewOf(q[i][2])
  BY <1>1 DEF PageOf
<1> HIDE DEF f
<1>4. \A i \in 1 .. n : /\ TextsIn(f[i], UrlText) /\ NumbersIn(f[i], Span)
                        /\ Get(f[i], "url", Empty) = Text(q[i][2]) /\ Fine(f[i], 4)
  BY <1>1, <1>3, PreviewIs
<1>5. /\ Fine(I, 6) /\ I # Undefined /\ Get(t, "total", Zero) = Number(n)
      /\ IsList(x) /\ DOMAIN x.array = 1 .. n
      /\ \A i \in 1 .. n : x.array[i] = Trims(f[i], NoOptions) /\ IsValue(f[i])
  BY <1>1, <1>2, <1>3, <1>4, ItemsTrimmed
<1> HIDE DEF t, x
<1>6. ItemsSuit(x, UrlText, Span)
  <2>1. \A i \in 1 .. n : TextsIn(x.array[i], UrlText) /\ NumbersIn(x.array[i], Span)
    <3>1. "_id" \notin UrlText \union Span /\ "id" \notin Span /\ "id" \notin UrlText
      BY KeyNames
    <3> QED BY <1>4, <1>5, <3>1, FieldsOfTrims
  <2> QED BY <1>5, <2>1 DEF ItemsSuit
<1>7. /\ IsLinks(w) /\ w.object["total"] = Number(n) /\ w.object["links"] = m
  BY <1>5, <1>6, Leaves, LinksTyped DEF x
<1> HIDE DEF w
<1>8. /\ IsList(m) /\ DOMAIN m.array = 1 .. n
      /\ \A i \in 1 .. n : m.array[i] = Converted(x.array[i], UrlText, Span, NoFields)
  BY <1>5, MappedItems, ZenonT(60)
<1> HIDE DEF m
<1>9. Len(m.array) = n
  BY <1>1, <1>8 DEF IsList
<1>10. ASSUME NEW i \in 1 .. n PROVE m.array[i].object["url"].text = q[i][2]
  <2>1. m.array[i].object["url"] = Get(x.array[i], "url", Empty)
    <3> DEFINE c == Converted(x.array[i], UrlText, Span, NoFields)
    <3>1. "url" \in UrlText \ (Span \union DOMAIN NoFields)
      BY NoOthers DEF UrlText, Span
    <3>2. c.object["url"] = Get(x.array[i], "url", Empty)
      BY <3>1, ConvertedIs
    <3> QED BY <1>8, <3>2
  <2>2. Get(Trims(f[i], NoOptions), "url", Empty) = Trims(Get(f[i], "url", Empty), NoOptions)
    <3>1. Trims(Empty, NoOptions) = Empty
      BY Defaults, TrimsOfTyped, TextIsText DEF Empty
    <3> QED BY <1>5, <3>1, GetOfPlain
  <2>3. Trims(Text(q[i][2]), NoOptions) = Text(q[i][2])
    BY TextIsText, TrimsOfTyped
  <2> QED BY <1>4, <1>5, <2>1, <2>2, <2>3, TextIsText
<1>11. ToSet(m.array) = {m.array[i] : i \in 1 .. n} /\ S = {q[i] : i \in 1 .. n}
  BY <1>1, <1>8 DEF ToSet
<1>12. {v.object["url"].text : v \in ToSet(m.array)} = {p[2] : p \in S}
  BY <1>10, <1>11
<1>13. Number(n).number = n
  BY DEF Number
<1> QED BY <1>5, <1>7, <1>9, <1>12, <1>13 DEF w, t, I

-----------------------------------------------------------------------------
(* Conversations as they were read. *)

Times == {"lastActivity", "createdAt", "updatedAt"}
OwnKeys == {"_id", "id", "type", "participants", "deleted_at"} \union Times

(* What the detail and the list take over of a conversation. *)
Same(v, s) ==
  /\ Is("object", v) /\ "id" \in DOMAIN v.object
  /\ Get(v, "participants", NoItems) = Participants(s)
  /\ \A k \in ConversationText :
       Get(v, k, Empty) = ConversationOf(s)[k] /\ Is("text", ConversationOf(s)[k])
  /\ \A k \in Times : Get(v, k, Now) = Date("then")

LEMMA ConversationFields ==
  ASSUME NEW s
  PROVE  LET f == ConversationOf(s) IN
         /\ DOMAIN f = OwnKeys
         /\ f["_id"] = Text(s.conversation) /\ f["id"] = Text(s.conversation)
         /\ Is("text", f["type"]) /\ f["type"] # Undefined
         /\ \A n \in Nat : n >= 1 => Fine(f["type"], n)
         /\ f["participants"] = Participants(s) /\ f["deleted_at"] = Null
         /\ \A k \in Times : f[k] = Date("then")
<1> DEFINE P == Participants(s)
           y == Text(IF Len(s.participants) = 2 THEN "ONE_TO_ONE" ELSE "GROUP")
           f == [_id |-> Text(s.conversation), id |-> Text(s.conversation), type |-> y, participants |-> P,
                 lastActivity |-> Date("then"), createdAt |-> Date("then"), updatedAt |-> Date("then"),
                 deleted_at |-> Null]
<1>1. ConversationOf(s) = f
  BY DEF ConversationOf
<1>2. Is("text", y) /\ y # Undefined /\ \A n \in Nat : n >= 1 => Fine(y, n)
  BY TextIsText, Leaves
<1> HIDE DEF P, y
<1>3. /\ DOMAIN f = OwnKeys
      /\ f["_id"] = Text(s.conversation) /\ f["id"] = Text(s.conversation)
      /\ f["type"] = y /\ f["participants"] = P /\ f["deleted_at"] = Null
      /\ \A k \in Times : f[k] = Date("then")
  BY DEF OwnKeys, Times
<1> HIDE DEF f
<1> QED BY <1>1, <1>2, <1>3 DEF P

LEMMA SameOf ==
  ASSUME NEW s, Good(s), NEW g, DOMAIN g \intersect OwnKeys = {}, \A k \in DOMAIN g : Fine(g[k], 6)
  PROVE  LET v == Object(Spread(ConversationOf(s), g)) IN
         /\ Same(v, s) /\ Fine(v, 7)
         /\ \A k \in DOMAIN g : \A d : g[k] # Undefined => Get(v, k, d) = g[k]
         /\ \A k, d : k \notin DOMAIN g \union OwnKeys => Get(v, k, d) = d
<1> DEFINE f == ConversationOf(s)
           h == Spread(f, g)
           v == Object(h)
<1>1. /\ DOMAIN f = OwnKeys
      /\ f["_id"] = Text(s.conversation) /\ f["id"] = Text(s.conversation)
      /\ Is("text", f["type"]) /\ f["type"] # Undefined
      /\ \A n \in Nat : n >= 1 => Fine(f["type"], n)
      /\ f["participants"] = Participants(s) /\ f["deleted_at"] = Null
      /\ \A k \in Times : f[k] = Date("then")
  BY ConversationFields
<1> HIDE DEF f
<1>2. DOMAIN h = OwnKeys \union DOMAIN g /\ (\A k \in DOMAIN g : h[k] = g[k]) /\ (\A k \in OwnKeys : h[k] = f[k])
  BY <1>1, SpreadIs, ZenonT(60)
<1> HIDE DEF h
<1>3. Is("object", v) /\ v.object = h
      /\ \A k, d : Get(v, k, d) = IF k \in DOMAIN h /\ h[k] # Undefined THEN h[k] ELSE d
  BY ObjectIs
<1> HIDE DEF v
<1>4. Participants(s) # Undefined /\ Fine(Participants(s), 4)
  BY ParticipantsAre
<1>5. Get(v, "participants", NoItems) = Participants(s)
  BY <1>1, <1>2, <1>3, <1>4 DEF OwnKeys
<1>6. Get(v, "id", Empty) = Text(s.conversation) /\ Get(v, "type", Empty) = f["type"]
  BY <1>1, <1>2, <1>3, Leaves DEF OwnKeys
<1>7. \A k \in ConversationText : Get(v, k, Empty) = f[k] /\ Is("text", f[k])
  BY <1>1, <1>6, TextIsText DEF ConversationText
<1>8. \A k \in Times : Get(v, k, Now) = Date("then")
  <2>1. \A k \in Times : k \in DOMAIN h /\ h[k] = f[k]
    BY <1>2 DEF OwnKeys
  <2>2. \A k \in Times : h[k] = Date("then") /\ h[k] # Undefined
    BY <1>1, <2>1, Leaves
  <2> QED BY <1>3, <2>1, <2>2
<1>9. Same(v, s)
  BY <1>2, <1>3, <1>5, <1>7, <1>8 DEF Same, OwnKeys, f
<1>10. Fine(v, 7)
  <2>1. Fine(Participants(s), 6)
    BY <1>4, FineLater
  <2>2. \A k \in OwnKeys : Fine(f[k], 6)
    BY <1>1, <2>1, Leaves DEF OwnKeys
  <2>3. \A k \in DOMAIN h : Fine(h[k], 7 - 1)
    BY <1>2, <2>2
  <2>4. Fine(Object(h), 7)
    BY <2>3, FieldsFine
  <2> QED BY <2>4 DEF v
<1>11. \A k \in DOMAIN g : \A d : g[k] # Undefined => Get(v, k, d) = g[k]
  BY <1>2, <1>3
<1>12. \A k, d : k \notin DOMAIN g \union OwnKeys => Get(v, k, d) = d
  BY <1>2, <1>3
<1> QED BY <1>9, <1>10, <1>11, <1>12 DEF v, h, f

LEMMA SameTyped ==
  ASSUME NEW v, NEW s, Same(v, s), Good(s)
  PROVE  /\ TextsIn(v, ConversationText)
         /\ \A k \in Times : IsText(IsoString(Get(v, k, Now)))
         /\ UsersOf(v) = Map(ConvertToUser, Participants(s)) /\ ListOf(IsUser, UsersOf(v))
<1>1. ListOf(IsUser, Map(ConvertToUser, Participants(s)))
  BY ParticipantsAre, UsersTyped DEF UsersSuit
<1> QED BY <1>1, Leaves DEF Same, TextsIn, IsText, UsersOf

LEMMA ItemIs ==
  ASSUME NEW s, Good(s)
  PROVE  /\ Same(ListItem(s), s)
         /\ MessagesOf(ListItem(s)) = Shown(s)
         /\ IsConversation(ConvertToConversation(ListItem(s)))
<1> DEFINE x == ReadMessages(s)
           g == [messages |-> x]
           v == Object(Spread(ConversationOf(s), g))
<1>1. ListItem(s) = v
  BY DEF ListItem
<1>2. IsList(x) /\ x # Undefined /\ Fine(x, 6)
  BY ReadMessagesAre, FineLater
<1> HIDE DEF x
<1>3. DOMAIN g = {"messages"} /\ g["messages"] = x
  OBVIOUS
<1> HIDE DEF g
<1>4. DOMAIN g \intersect OwnKeys = {} /\ \A k \in DOMAIN g : Fine(g[k], 6)
  BY <1>2, <1>3 DEF OwnKeys, Times
<1>5. /\ Same(v, s)
      /\ \A k \in DOMAIN g : \A d : g[k] # Undefined => Get(v, k, d) = g[k]
      /\ \A k, d : k \notin DOMAIN g \union OwnKeys => Get(v, k, d) = d
  BY <1>4, SameOf
<1> HIDE DEF v
<1>6. MessagesOf(v) = Shown(s)
  BY <1>2, <1>3, <1>5 DEF MessagesOf, Shown, x
<1>7. Get(v, "attachments", EmptyObject) = EmptyObject /\ Get(v, "links", EmptyObject) = EmptyObject
  BY <1>3, <1>5 DEF OwnKeys, Times
<1>8. IsAttachments(AttachmentsOf(v)) /\ IsLinks(LinksOf(v))
  BY <1>7, NoneTyped DEF AttachmentsOf, LinksOf
<1>9. ListOf(IsMessage, MessagesOf(v))
  BY <1>6, ShownAre
<1>10. IsConversation(ConvertToConversation(v))
  BY <1>5, <1>8, <1>9, SameTyped, ConversationTyped DEF Times
<1> QED BY <1>1, <1>5, <1>6, <1>10

-----------------------------------------------------------------------------
(* The detail. *)

Found(r) ==
  /\ Good(Only(seen[r]))
  /\ IsFiniteSet(images[r]) /\ \A d \in images[r] : IsFiniteSet(d.previews)
  /\ IsFiniteSet(links[r])

LEMMA DetailIs ==
  ASSUME NEW r, Found(r)
  PROVE  LET v == Detail(r)
             s == Only(seen[r])
         IN  /\ Same(v, s) /\ IsValue(v) /\ Is("object", v) /\ Fine(v, 7)
             /\ Get(v, "messages", NoItems) = Shown(s)
             /\ Get(v, "attachments", EmptyObject) = Items(AttachmentOf, images[r])
             /\ Get(v, "links", EmptyObject) = Items(PageOf, links[r])
<1> DEFINE s == Only(seen[r])
           m == Shown(s)
           a == Items(AttachmentOf, images[r])
           l == Items(PageOf, links[r])
           g == [messages |-> m, attachments |-> a, links |-> l]
           v == Object(Spread(ConversationOf(s), g))
<1>1. Detail(r) = v
  BY DEF Detail, Shown
<1>2. m # Undefined /\ Fine(m, 6)
  BY ShownAre, FineLater DEF Found
<1>3. a # Undefined /\ Fine(a, 6) /\ l # Undefined /\ Fine(l, 6)
  BY ImagesShown, LinksShown DEF Found
<1> HIDE DEF m, a, l
<1>4. DOMAIN g = {"messages", "attachments", "links"} /\ g["messages"] = m /\ g["attachments"] = a
      /\ g["links"] = l
  OBVIOUS
<1> HIDE DEF g
<1>5. DOMAIN g \intersect OwnKeys = {} /\ \A k \in DOMAIN g : Fine(g[k], 6)
  BY <1>2, <1>3, <1>4 DEF OwnKeys, Times
<1> HIDE DEF s
<1>6. /\ Same(v, s) /\ Fine(v, 7)
      /\ \A k \in DOMAIN g : \A d : g[k] # Undefined => Get(v, k, d) = g[k]
  BY <1>5, SameOf DEF Found, s
<1> HIDE DEF v
<1>7. IsValue(v)
  BY <1>6, FewLevels, FineIsValue DEF Few
<1>8. /\ Get(v, "messages", NoItems) = m /\ Get(v, "attachments", EmptyObject) = a
      /\ Get(v, "links", EmptyObject) = l
  BY <1>2, <1>3, <1>4, <1>6
<1> QED BY <1>1, <1>6, <1>7, <1>8 DEF Same, s, m, a, l

(* The detail after the pipe: its own fields trimmed, its lists those        *)
(* above.                                                                    *)
LEMMA DetailOfIs ==
  ASSUME NEW r, Found(r)
  PROVE  LET t == DetailOf(r)
             i == ListItem(Only(seen[r]))
         IN  /\ \A k \in ConversationText : /\ Get(t, k, Empty) = Trims(Get(i, k, Empty), NoOptions)
                                            /\ IsText(Get(t, k, Empty))
             /\ \A k \in Times : /\ IsoString(Get(t, k, Now)) = Trims(IsoString(Get(i, k, Now)), NoOptions)
                                 /\ IsText(IsoString(Get(t, k, Now)))
             /\ UsersOf(t) = Trims(UsersOf(i), NoOptions) /\ ListOf(IsUser, UsersOf(t))
             /\ MessagesOf(t) = Trims(MessagesOf(i), NoOptions) /\ ListOf(IsMessage, MessagesOf(t))
             /\ Get(t, "attachments", EmptyObject) = Trims(Items(AttachmentOf, images[r]), NoOptions)
             /\ Get(t, "links", EmptyObject) = Trims(Items(PageOf, links[r]), NoOptions)
<1> DEFINE s == Only(seen[r])
           v == Detail(r)
           t == DetailOf(r)
           i == ListItem(s)
<1>1. /\ Same(v, s) /\ IsValue(v) /\ Is("object", v)
      /\ Get(v, "messages", NoItems) = Shown(s)
      /\ Get(v, "attachments", EmptyObject) = Items(AttachmentOf, images[r])
      /\ Get(v, "links", EmptyObject) = Items(PageOf, links[r])
  BY DetailIs
<1>2. Good(s) /\ Same(i, s) /\ MessagesOf(i) = Shown(s)
  BY ItemIs DEF Found
<1>3. t = Trims(v, NoOptions)
  <2>1. IsJson(v)
    BY <1>1 DEF IsJson, Is, Undefined
  <2> QED BY <2>1 DEF DetailOf, TrimObjectValues
<1> HIDE DEF s, v, t, i
<1>4. \A k, d : k # "_id" /\ Trims(d, NoOptions) = d => Get(t, k, d) = Trims(Get(v, k, d), NoOptions)
  BY <1>1, <1>3, GetOfPlain DEF Same
<1>5. Trims(Empty, NoOptions) = Empty /\ Trims(Now, NoOptions) = Now
  <2>1. 1 \in Nat /\ 1 >= 1
    OBVIOUS
  <2>2. Trims(Now, NoOptions) = Now
    BY <2>1, NowIs
  <2> QED BY <2>2, TrimsOfTyped, TextIsText DEF Empty
<1>6. ASSUME NEW k \in ConversationText
      PROVE  Get(t, k, Empty) = Trims(Get(i, k, Empty), NoOptions) /\ IsText(Get(t, k, Empty))
  <2>1. k # "_id"
    BY DEF ConversationText
  <2>2. Get(t, k, Empty) = Trims(Get(v, k, Empty), NoOptions)
    BY <1>4, <1>5, <2>1
  <2>3. Get(v, k, Empty) = Get(i, k, Empty) /\ IsText(Get(v, k, Empty))
    BY <1>1, <1>2 DEF Same, IsText
  <2> QED BY <2>2, <2>3, TrimsOfTyped
<1>7. ASSUME NEW k \in Times
      PROVE  /\ IsoString(Get(t, k, Now)) = Trims(IsoString(Get(i, k, Now)), NoOptions)
             /\ IsText(IsoString(Get(t, k, Now)))
  <2>1. k # "_id"
    BY DEF Times
  <2>2. Get(t, k, Now) = Trims(Get(v, k, Now), NoOptions)
    BY <1>4, <1>5, <2>1
  <2>3. Get(v, k, Now) = Date("then") /\ Get(i, k, Now) = Date("then")
    BY <1>1, <1>2 DEF Same
  <2>4. IsValue(Date("then"))
    BY Leaves, FewLevels, FineIsValue DEF Few
  <2>5. IsoString(Trims(Date("then"), NoOptions)) = Trims(IsoString(Date("then")), NoOptions)
    BY <2>4, IsoPlain
  <2>6. IsText(Trims(IsoString(Date("then")), NoOptions))
    BY Leaves, TrimsOfTyped
  <2> QED BY <2>2, <2>3, <2>5, <2>6
<1>8. UsersOf(t) = Trims(UsersOf(i), NoOptions) /\ ListOf(IsUser, UsersOf(t))
  <2>1. Get(t, "participants", NoItems) = Trims(Participants(s), NoOptions)
    BY <1>1, <1>4, TrimsOfNothing DEF Same
  <2>2. UsersOf(t) = Map(ConvertToUser, Trims(Participants(s), NoOptions))
    BY <2>1 DEF UsersOf
  <2>3. Map(ConvertToUser, Trims(Participants(s), NoOptions)) = Trims(Map(ConvertToUser, Participants(s)), NoOptions)
    BY <1>2, ParticipantsAre, UsersPlain
  <2>4. UsersOf(i) = Map(ConvertToUser, Participants(s))
    BY <1>2, SameTyped
  <2>5. UsersSuit(Trims(Participants(s), NoOptions))
    BY <1>2, ParticipantsAre, UsersOfTrims
  <2>6. ListOf(IsUser, Map(ConvertToUser, Trims(Participants(s), NoOptions)))
    BY <2>5, UsersTyped DEF UsersSuit
  <2> QED BY <2>2, <2>3, <2>4, <2>6
<1>9. MessagesOf(t) = Trims(MessagesOf(i), NoOptions) /\ ListOf(IsMessage, MessagesOf(t))
  <2>1. Get(t, "messages", NoItems) = Trims(Shown(s), NoOptions)
    BY <1>1, <1>4, TrimsOfNothing
  <2>2. MessagesOf(t) = Map(ConvertToMessage, Trims(Shown(s), NoOptions))
    BY <2>1 DEF MessagesOf
  <2> QED BY <1>2, <2>2, ShownAre
<1>10. /\ Get(t, "attachments", EmptyObject) = Trims(Items(AttachmentOf, images[r]), NoOptions)
       /\ Get(t, "links", EmptyObject) = Trims(Items(PageOf, links[r]), NoOptions)
  BY <1>1, <1>4, TrimsOfNothing
<1> QED BY <1>6, <1>7, <1>8, <1>9, <1>10 DEF s, i, t

(* The conversation of a detail is typed. *)
LEMMA DetailTyped ==
  ASSUME NEW r, Found(r)
  PROVE  IsConversation(ConvertToConversation(DetailOf(r)))
<1> DEFINE t == DetailOf(r)
<1>1. /\ TextsIn(t, ConversationText)
      /\ \A k \in {"lastActivity", "createdAt", "updatedAt"} : IsText(IsoString(Get(t, k, Now)))
      /\ ListOf(IsUser, UsersOf(t)) /\ ListOf(IsMessage, MessagesOf(t))
  BY DetailOfIs DEF TextsIn, Times
<1>2. IsAttachments(AttachmentsOf(t)) /\ IsLinks(LinksOf(t))
  BY DetailOfIs, ImagesShown, LinksShown DEF Found, AttachmentsOf, LinksOf
<1> HIDE DEF t
<1>3. IsConversation(ConvertToConversation(t))
  BY <1>1, <1>2, ConversationTyped
<1> QED BY <1>3 DEF t

(* ViewsAgree, of one request. *)
LEMMA DetailShows ==
  ASSUME NEW r, Found(r)
  PROVE  LET detail == ConvertToConversation(DetailOf(r)).object
             item == ConvertToConversation(ListItem(Only(seen[r]))).object
             attachments == detail["attachments"].object
             linked == detail["links"].object
         IN  /\ \A k \in DOMAIN detail \ {"attachments", "links"} : detail[k] = Trims(item[k], NoOptions)
             /\ {v.object["id"].text : v \in ToSet(attachments["attachments"].array)} = {d.message : d \in images[r]}
             /\ attachments["total"].number = Len(attachments["attachments"].array)
             /\ {v.object["url"].text : v \in ToSet(linked["links"].array)} = {p[2] : p \in links[r]}
             /\ linked["total"].number = Len(linked["links"].array)
<1> DEFINE t == DetailOf(r)
           i == ListItem(Only(seen[r]))
           detail == ConvertToConversation(t).object
           item == ConvertToConversation(i).object
<1>1. /\ \A k \in ConversationText : Get(t, k, Empty) = Trims(Get(i, k, Empty), NoOptions)
      /\ \A k \in Times : IsoString(Get(t, k, Now)) = Trims(IsoString(Get(i, k, Now)), NoOptions)
      /\ UsersOf(t) = Trims(UsersOf(i), NoOptions)
      /\ MessagesOf(t) = Trims(MessagesOf(i), NoOptions)
      /\ AttachmentsOf(t) = ConvertToAttachment(Trims(Items(AttachmentOf, images[r]), NoOptions))
      /\ LinksOf(t) = ConvertToLinks(Trims(Items(PageOf, links[r]), NoOptions))
  BY DetailOfIs DEF AttachmentsOf, LinksOf
<1> HIDE DEF t, i
<1>2. /\ DOMAIN detail = ConversationText \union ConversationKeys
      /\ \A k \in ConversationText : detail[k] = Get(t, k, Empty)
      /\ detail["participants"] = UsersOf(t) /\ detail["messages"] = MessagesOf(t)
      /\ \A k \in Times : detail[k] = IsoString(Get(t, k, Now))
      /\ detail["attachments"] = AttachmentsOf(t) /\ detail["links"] = LinksOf(t)
  BY ConversationIs DEF Times
<1>3. /\ \A k \in ConversationText : item[k] = Get(i, k, Empty)
      /\ item["participants"] = UsersOf(i) /\ item["messages"] = MessagesOf(i)
      /\ \A k \in Times : item[k] = IsoString(Get(i, k, Now))
  BY ConversationIs DEF Times
<1> HIDE DEF detail, item
<1>4. \A k \in DOMAIN detail \ {"attachments", "links"} : detail[k] = Trims(item[k], NoOptions)
  <2>1. DOMAIN detail \ {"attachments", "links"}
          \subseteq ConversationText \union Times \union {"participants", "messages"}
    BY <1>2 DEF ConversationKeys, Times
  <2>2. \A k \in ConversationText \union Times : detail[k] = Trims(item[k], NoOptions)
    BY <1>1, <1>2, <1>3
  <2>3. detail["participants"] = Trims(item["participants"], NoOptions)
        /\ detail["messages"] = Trims(item["messages"], NoOptions)
    BY <1>1, <1>2, <1>3
  <2> QED BY <2>1, <2>2, <2>3
<1> DEFINE a == detail["attachments"].object
           l == detail["links"].object
<1>5. /\ a["total"].number = Len(a["attachments"].array)
      /\ {v.object["id"].text : v \in ToSet(a["attachments"].array)} = {d.message : d \in images[r]}
  BY <1>1, <1>2, ImagesShown DEF Found
<1>6. /\ l["total"].number = Len(l["links"].array)
      /\ {v.object["url"].text : v \in ToSet(l["links"].array)} = {p[2] : p \in links[r]}
  BY <1>1, <1>2, LinksShown DEF Found
<1> HIDE DEF a, l
<1>7. /\ \A k \in DOMAIN detail \ {"attachments", "links"} : detail[k] = Trims(item[k], NoOptions)
      /\ {v.object["id"].text : v \in ToSet(a["attachments"].array)} = {d.message : d \in images[r]}
      /\ a["total"].number = Len(a["attachments"].array)
      /\ {v.object["url"].text : v \in ToSet(l["links"].array)} = {p[2] : p \in links[r]}
      /\ l["total"].number = Len(l["links"].array)
  BY <1>4, <1>5, <1>6
<1> QED BY <1>7 DEF a, l, detail, item, t, i

-----------------------------------------------------------------------------
(* What is read is finite. *)

LEMMA DocumentedIsFinite == IsFiniteSet(Documented)
<1> DEFINE C == 0 .. MaxCrawls
           A == Messages \X Kinds
           B == (SUBSET Urls) \X C
           f == [x \in A \X B |-> [message |-> x[1][1], kind |-> x[1][2], previews |-> x[2][1], crawl |-> x[2][2]]]
<1>1. IsFiniteSet(Messages) /\ IsFiniteSet(Urls) /\ IsFiniteSet(C)
  BY RequestsAssumption, FS_Interval
<1>2. IsFiniteSet(Kinds)
  <2>1. Kinds = {"TEXT"} \union {"IMAGE"}
    BY DEF Kinds
  <2> QED BY <2>1, FS_Singleton, FS_Union
<1>3. IsFiniteSet(SUBSET Urls)
  BY <1>1, FS_SUBSET
<1> HIDE DEF C
<1>4. IsFiniteSet(A \X B)
  <2>1. IsFiniteSet(A)
    BY <1>1, <1>2, FS_Product
  <2>2. IsFiniteSet(B)
    BY <1>1, <1>3, FS_Product
  <2> HIDE DEF A, B
  <2> QED BY <2>1, <2>2, FS_Product
<1>5. f \in Surjection(A \X B, Documented)
  <2>1. f \in [A \X B -> Documented]
    BY DEF Documented, C
  <2>2. ASSUME NEW d \in Documented PROVE \E x \in A \X B : f[x] = d
    <3> DEFINE x == << <<d.message, d.kind>>, <<d.previews, d.crawl>> >>
    <3>1. /\ d.message \in Messages /\ d.kind \in Kinds /\ d.previews \in SUBSET Urls /\ d.crawl \in C
          /\ d = [message |-> d.message, kind |-> d.kind, previews |-> d.previews, crawl |-> d.crawl]
      BY DEF Documented, C
    <3>2. x \in A \X B
      BY <3>1
    <3>3. f[x] = [message |-> d.message, kind |-> d.kind, previews |-> d.previews, crawl |-> d.crawl]
      BY <3>2
    <3> QED BY <3>1, <3>2, <3>3
  <2> HIDE DEF f, A, B
  <2> QED BY <2>1, <2>2 DEF Surjection
<1> HIDE DEF f, A, B
<1> QED BY <1>4, <1>5, FS_Surjection

LEMMA DocumentsAreFinite ==
  ASSUME NEW D \in SUBSET Documented
  PROVE  IsFiniteSet(D) /\ \A d \in D : IsFiniteSet(d.previews)
<1>1. IsFiniteSet(D)
  BY DocumentedIsFinite, FS_Subset
<1>2. ASSUME NEW d \in D PROVE IsFiniteSet(d.previews)
  <2>1. d.previews \in SUBSET Urls /\ IsFiniteSet(Urls)
    BY RequestsAssumption DEF Documented
  <2> QED BY <2>1, FS_Subset
<1> QED BY <1>1, <1>2

LEMMA ReadIsGood ==
  ASSUME TypeOK, NEW r \in Requests, NEW s \in seen[r]
  PROVE  Good(s) /\ s.active \in Nat
<1>1. s.participants \in Lists /\ s.active \in Nat /\ s.messages \in SUBSET Documented
  BY DEF TypeOK, ReadSet
<1>2. \E n \in Nat : DOMAIN s.participants = 1 .. n
  BY <1>1, RequestsAssumption
<1> QED BY <1>1, <1>2, DocumentsAreFinite DEF Good

LEMMA DetailIsFound ==
  ASSUME Inv, NEW r \in Requests, ask[r] = "detail", pc[r] = "done"
  PROVE  Found(r)
<1>1. TypeOK /\ \E s \in seen[r] : seen[r] = {s}
  BY DEF Inv, ReadInv
<1>2. Only(seen[r]) \in seen[r]
  BY <1>1 DEF Only
<1>3. images[r] \in SUBSET Documented /\ links[r] \in SUBSET (Messages \X Urls)
  BY <1>1 DEF TypeOK
<1>4. IsFiniteSet(links[r])
  <2>1. IsFiniteSet(Messages \X Urls)
    BY RequestsAssumption, FS_Product
  <2> QED BY <1>3, <2>1, FS_Subset
<1> QED BY <1>1, <1>2, <1>3, <1>4, ReadIsGood, DocumentsAreFinite DEF Found

(* The conversations of a list, sorted, are among those that were read. *)
LEMMA LatestAre ==
  ASSUME NEW S, IsFiniteSet(S), \A s \in S : s.active \in Nat
  PROVE  \E n \in Nat : /\ DOMAIN Latest(S) = 1 .. n
                        /\ \A i \in 1 .. n : Latest(S)[i] \in S
<1> DEFINE times == {s.active : s \in S}
           n == Cardinality(times)
           f == [s \in S |-> s.active]
<1>1. f \in Surjection(S, times)
  BY DEF Surjection
<1>2. IsFiniteSet(times) /\ times \in SUBSET Nat
  <2> HIDE DEF f
  <2>1. times \in SUBSET Nat
    OBVIOUS
  <2>2. IsFiniteSet(times)
    <3> HIDE DEF times
    <3> QED BY <1>1, FS_Surjection
  <2> QED BY <2>1, <2>2
<1>3. n \in Nat
  BY <1>2, FS_CardinalityType
<1>4. Latest(S) = [i \in 1 .. n |-> CHOOSE s \in S : s.active = Nth(times, n + 1 - i)]
  BY DEF Latest
<1>5. ASSUME NEW i \in 1 .. n PROVE (CHOOSE s \in S : s.active = Nth(times, n + 1 - i)) \in S
  <2>1. n + 1 - i \in 1 .. n
    BY <1>3
  <2>2. Nth(times, n + 1 - i) \in times
    <3> HIDE DEF times
    <3> QED BY <1>2, <2>1, NthInSet
  <2>3. \E s \in S : s.active = Nth(times, n + 1 - i)
    BY <2>2
  <2> HIDE DEF times, n
  <2> QED BY <2>3
<1> HIDE DEF times, n
<1> QED BY <1>3, <1>4, <1>5

-----------------------------------------------------------------------------
(* The answers are typed. *)

LEMMA MetadataIsTyped == ASSUME NEW r PROVE IsMetadata(MetadataOf(r))
<1>1. ASSUME NEW a, NEW b, NEW c PROVE IsMetadata(Metadata(a, b, c))
  <2> DEFINE f == [code |-> Text(a), message |-> Text(b), errMessage |-> Text(c)]
  <2>1. DOMAIN f = {"code", "message", "errMessage"} /\ f["code"] = Text(a) /\ f["message"] = Text(b)
        /\ f["errMessage"] = Text(c)
    OBVIOUS
  <2>2. Metadata(a, b, c) = Object(f)
    BY DEF Metadata
  <2> HIDE DEF f
  <2>3. Is("object", Object(f)) /\ Object(f).object = f
    BY ObjectIs
  <2> QED BY <2>1, <2>2, <2>3, Leaves DEF IsMetadata, HasFields
<1> QED BY <1>1 DEF MetadataOf

LEMMA DetailAnswerTyped ==
  ASSUME Inv, NEW r \in Requests, ask[r] = "detail"
  PROVE  IsAnswer("detail", DetailAnswer(r))
<1> DEFINE c == IF pc[r] = "done" THEN ConvertToConversation(DetailOf(r)) ELSE Undefined
           m == MetadataOf(r)
           f == [data |-> c, metadata |-> m]
<1>1. DetailAnswer(r) = Object(f)
  BY DEF DetailAnswer
<1>2. c = Undefined \/ IsConversation(c)
  BY DetailIsFound, DetailTyped
<1>3. IsMetadata(m)
  BY MetadataIsTyped
<1> HIDE DEF c, m
<1>4. DOMAIN f = {"data", "metadata"} /\ f["data"] = c /\ f["metadata"] = m
  OBVIOUS
<1> HIDE DEF f
<1>5. Is("object", Object(f)) /\ Object(f).object = f
  BY ObjectIs
<1>6. HasFields(Object(f), {}, {}, {"data", "metadata"})
  BY <1>4, <1>5 DEF HasFields
<1> QED BY <1>1, <1>2, <1>3, <1>4, <1>5, <1>6 DEF IsAnswer

LEMMA ListAnswerTyped ==
  ASSUME Inv, NEW r \in Requests
  PROVE  IsAnswer("list", ListAnswer(r))
<1> DEFINE found == IF pc[r] = "done" THEN Latest(seen[r]) ELSE <<>>
           l == [i \in DOMAIN found |-> ConvertToConversation(ListItem(found[i]))]
           a == Array(l)
           n == IF pc[r] = "done" THEN Number(total[r]) ELSE Zero
           m == MetadataOf(r)
           f == [conversation |-> a, total |-> n, metadata |-> m]
<1>1. ListAnswer(r) = Object(f)
  BY DEF ListAnswer
<1>2. PICK k \in Nat : DOMAIN found = 1 .. k /\ \A i \in 1 .. k : found[i] \in seen[r]
  <2>1. IsFiniteSet(seen[r]) /\ \A s \in seen[r] : s.active \in Nat
    BY ReadIsGood DEF Inv, ReadInv
  <2>2. CASE pc[r] = "done"
    BY <2>1, <2>2, LatestAre
  <2>3. CASE pc[r] # "done"
    <3>1. DOMAIN found = 1 .. 0
      BY <2>3
    <3> QED BY <3>1
  <2> QED BY <2>2, <2>3
<1> HIDE DEF found
<1>3. DOMAIN l = 1 .. k /\ l = [i \in 1 .. k |-> l[i]]
      /\ \A i \in 1 .. k : l[i] = ConvertToConversation(ListItem(found[i]))
  BY <1>2
<1> HIDE DEF l
<1>4. IsList(a) /\ a.array = l
  BY <1>3, ArrayIs
<1>5. \A i \in 1 .. k : IsConversation(l[i])
  BY <1>2, <1>3, ReadIsGood, ItemIs DEF Inv
<1>6. ListOf(IsConversation, a)
  BY <1>3, <1>4, <1>5 DEF ListOf, IsList
<1>7. IsNumber(n) /\ IsMetadata(m)
  BY Leaves, Defaults, MetadataIsTyped
<1> HIDE DEF a, n, m
<1>8. DOMAIN f = {"conversation", "total", "metadata"} /\ f["conversation"] = a /\ f["total"] = n
      /\ f["metadata"] = m
  OBVIOUS
<1> HIDE DEF f
<1>9. Is("object", Object(f)) /\ Object(f).object = f
  BY ObjectIs
<1>10. HasFields(Object(f), {}, {"total"}, {"conversation", "metadata"})
  BY <1>7, <1>8, <1>9 DEF HasFields
<1> QED BY <1>1, <1>6, <1>7, <1>8, <1>9, <1>10 DEF IsAnswer

LEMMA FriendsAnswerTyped ==
  ASSUME Inv, NEW r \in Requests
  PROVE  IsAnswer("friends", FriendsAnswer(r))
<1> DEFINE x == ArrayOf(UserOf, friends[r])
           y == TrimObjectValues(x, NoOptions)
           z == TrimObjectValues(y, Serializer)
           a == Map(ConvertToUser, z)
           n == IF pc[r] = "done" THEN Number(Cardinality(friends[r]) - 1) ELSE Zero
           m == MetadataOf(r)
           f == [onlineUsers |-> a, total |-> n, metadata |-> m]
<1>1. FriendsAnswer(r) = Object(f)
  BY DEF FriendsAnswer
<1>2. UsersSuit(x)
  <2>1. friends[r] \in SUBSET Accounts /\ IsFiniteSet(Accounts)
    BY RequestsAssumption DEF Inv, TypeOK
  <2> QED BY <2>1, FS_Subset, FriendsSuit
<1>3. ASSUME NEW v, NEW options, UsersSuit(v) PROVE UsersSuit(TrimObjectValues(v, options))
  <2>1. IsJson(v)
    BY <1>3 DEF UsersSuit, IsList, IsJson, Is, Undefined
  <2> QED BY <1>3, <2>1, UsersOfTrims DEF TrimObjectValues
<1> HIDE DEF x
<1>4. UsersSuit(z)
  BY <1>2, <1>3
<1> HIDE DEF z
<1>5. ListOf(IsUser, a)
  BY <1>4, UsersTyped DEF UsersSuit
<1>6. IsNumber(n) /\ IsMetadata(m)
  BY Leaves, Defaults, MetadataIsTyped
<1> HIDE DEF a, n, m
<1>7. DOMAIN f = {"onlineUsers", "total", "metadata"} /\ f["onlineUsers"] = a /\ f["total"] = n
      /\ f["metadata"] = m
  OBVIOUS
<1> HIDE DEF f
<1>8. Is("object", Object(f)) /\ Object(f).object = f
  BY ObjectIs
<1>9. HasFields(Object(f), {}, {"total"}, {"onlineUsers", "metadata"})
  BY <1>6, <1>7, <1>8 DEF HasFields
<1> QED BY <1>1, <1>5, <1>6, <1>7, <1>8, <1>9 DEF IsAnswer

LEMMA OtherAnswersTyped ==
  ASSUME NEW r
  PROVE  /\ IsAnswer("allowance", AllowanceAnswer(r))
         /\ IsAnswer("token", TokenAnswer(r))
         /\ IsAnswer("add", AddAnswer(r))
<1> DEFINE m == MetadataOf(r)
<1>1. IsMetadata(m)
  BY MetadataIsTyped
<1> HIDE DEF m
<1>2. IsAnswer("allowance", AllowanceAnswer(r))
  <2> DEFINE b == Boolean(pc[r] = "done" /\ seen[r] # {})
             f == [isAllowed |-> b, metadata |-> m]
  <2>1. AllowanceAnswer(r) = Object(f)
    BY DEF AllowanceAnswer, m
  <2>2. IsBoolean(b)
    BY Leaves
  <2> HIDE DEF b
  <2>3. DOMAIN f = {"isAllowed", "metadata"} /\ f["isAllowed"] = b /\ f["metadata"] = m
    OBVIOUS
  <2> HIDE DEF f
  <2>4. Is("object", Object(f)) /\ Object(f).object = f
    BY ObjectIs
  <2>5. HasFields(Object(f), {}, {}, {"isAllowed", "metadata"})
    BY <2>3, <2>4 DEF HasFields
  <2> QED BY <1>1, <2>1, <2>2, <2>3, <2>4, <2>5 DEF IsAnswer
<1>3. IsAnswer("token", TokenAnswer(r))
  <2> DEFINE t == IF pc[r] = "done" THEN Text("token") ELSE Empty
             f == [token |-> t, userId |-> Text(by[r]), conversationId |-> Text(target[r]), metadata |-> m]
  <2>1. TokenAnswer(r) = Object(f)
    BY DEF TokenAnswer, m
  <2>2. IsText(t)
    BY Leaves, Defaults
  <2> HIDE DEF t
  <2>3. DOMAIN f = {"token", "userId", "conversationId", "metadata"} /\ f["token"] = t
        /\ f["userId"] = Text(by[r]) /\ f["conversationId"] = Text(target[r]) /\ f["metadata"] = m
    OBVIOUS
  <2> HIDE DEF f
  <2>4. Is("object", Object(f)) /\ Object(f).object = f
    BY ObjectIs
  <2>5. HasFields(Object(f), {"token", "userId", "conversationId"}, {}, {"metadata"})
    BY <2>2, <2>3, <2>4, Leaves DEF HasFields
  <2> QED BY <1>1, <2>1, <2>3, <2>4, <2>5 DEF IsAnswer
<1>4. IsAnswer("add", AddAnswer(r))
  <2> DEFINE t == IF pc[r] = "done" THEN Text(target[r]) ELSE Empty
             f == [conversationId |-> t, metadata |-> m]
  <2>1. AddAnswer(r) = Object(f)
    BY DEF AddAnswer, m
  <2>2. IsText(t)
    BY Leaves, Defaults
  <2> HIDE DEF t
  <2>3. DOMAIN f = {"conversationId", "metadata"} /\ f["conversationId"] = t /\ f["metadata"] = m
    OBVIOUS
  <2> HIDE DEF f
  <2>4. Is("object", Object(f)) /\ Object(f).object = f
    BY ObjectIs
  <2>5. HasFields(Object(f), {"conversationId"}, {}, {"metadata"})
    BY <2>2, <2>3, <2>4 DEF HasFields
  <2> QED BY <1>1, <2>1, <2>3, <2>4, <2>5 DEF IsAnswer
<1> QED BY <1>2, <1>3, <1>4

(* Each of the three invariants follows from the inductive one. *)
LEMMA TypedFromInv == Inv => AnswersHaveTheirType
<1> SUFFICES ASSUME Inv, NEW r \in Requests, Answered(r), ask[r] # "http" PROVE IsAnswer(ask[r], Answer(r))
  BY DEF AnswersHaveTheirType
<1>1. ask[r] \in {"detail", "list", "friends", "allowance", "token", "add"}
  BY DEF Inv, AskInv, Answered, Failures, Handlers
<1>2. CASE ask[r] = "detail"
  <2>1. Answer(r) = DetailAnswer(r)
    BY <1>2 DEF Answer
  <2> QED BY <1>2, <2>1, DetailAnswerTyped
<1>3. CASE ask[r] = "list"
  <2>1. Answer(r) = ListAnswer(r)
    BY <1>3 DEF Answer
  <2> QED BY <1>3, <2>1, ListAnswerTyped
<1>4. CASE ask[r] = "friends"
  <2>1. Answer(r) = FriendsAnswer(r)
    BY <1>4 DEF Answer
  <2> QED BY <1>4, <2>1, FriendsAnswerTyped
<1>5. CASE ask[r] = "allowance"
  <2>1. Answer(r) = AllowanceAnswer(r)
    BY <1>5 DEF Answer
  <2> QED BY <1>5, <2>1, OtherAnswersTyped
<1>6. CASE ask[r] = "token"
  <2>1. Answer(r) = TokenAnswer(r)
    BY <1>6 DEF Answer
  <2> QED BY <1>6, <2>1, OtherAnswersTyped
<1>7. CASE ask[r] = "add"
  <2>1. Answer(r) = AddAnswer(r)
    BY <1>7 DEF Answer
  <2> QED BY <1>7, <2>1, OtherAnswersTyped
<1> QED BY <1>1, <1>2, <1>3, <1>4, <1>5, <1>6, <1>7

-----------------------------------------------------------------------------
(* The views agree, and HTTP answers are clean. *)

LEMMA ViewsFromInv == Inv => ViewsAgree
<1> SUFFICES ASSUME Inv, NEW r \in Requests, ask[r] = "detail", pc[r] = "done"
             PROVE  LET detail == Answer(r).object["data"].object
                        item == ConvertToConversation(ListItem(Only(seen[r]))).object
                        attachments == detail["attachments"].object
                        linked == detail["links"].object
                    IN  /\ \A k \in DOMAIN detail \ {"attachments", "links"} :
                             detail[k] = Trims(item[k], NoOptions)
                        /\ {v.object["id"].text : v \in ToSet(attachments["attachments"].array)} = Attached(r)
                        /\ attachments["total"].number = Len(attachments["attachments"].array)
                        /\ {v.object["url"].text : v \in ToSet(linked["links"].array)} = {p[2] : p \in links[r]}
                        /\ linked["total"].number = Len(linked["links"].array)
  BY DEF ViewsAgree
<1> DEFINE c == ConvertToConversation(DetailOf(r))
           m == MetadataOf(r)
           f == [data |-> c, metadata |-> m]
<1>1. Answer(r) = DetailAnswer(r)
  BY DEF Answer
<1>2. DetailAnswer(r) = Object(f)
  BY DEF DetailAnswer
<1> HIDE DEF c, m
<1>3. f["data"] = c
  OBVIOUS
<1> HIDE DEF f
<1>4. Answer(r).object["data"] = c
  BY <1>1, <1>2, <1>3, ObjectIs
<1>5. Found(r)
  BY DetailIsFound
<1> QED BY <1>4, <1>5, DetailShows, ZenonT(60) DEF c, Attached

LEMMA CleanFromInv == Inv => SerializedIsClean
<1> SUFFICES ASSUME Inv, NEW r \in Requests, ask[r] = "http", pc[r] = "done", IsJson(result[r])
             PROVE  /\ \A v \in Parts(Answer(r)) :
                         /\ Is("object", v) => DOMAIN v.object \intersect ({"password"} \union Underscored) = {}
                         /\ v # Answer(r) => ~IsRemove(v, Serializer)
                    /\ IsJson(Answer(r)) => Serialize(Answer(r)) = Answer(r)
  BY DEF SerializedIsClean
<1> DEFINE u == result[r]
           a == Answer(r)
<1>1. IsValue(u)
  BY RepliesAssumption DEF Inv, ReadInv
<1>2. a = Trims(u, Serializer)
  BY DEF Answer, Serialize, TrimObjectValues
<1> HIDE DEF u, a
<1>3. /\ Serializer.omitEmpty /\ Serializer.underscored /\ Serializer.exclude = {"password"}
      /\ "id" \notin Serializer.exclude
  BY DEF Serializer
<1>4. ASSUME NEW v \in Parts(a), Is("object", v)
      PROVE  DOMAIN v.object \intersect ({"password"} \union Underscored) = {}
  <2>1. PICK w \in Parts(u) : v = Trims(w, Serializer)
    BY <1>1, <1>2, PartsOfTrims
  <2>2. IsValue(w)
    BY <1>1, PartsAreValues
  <2>3. \A k \in DOMAIN v.object : k = "id" \/ (k # "password" /\ k \notin Underscored)
    BY <1>3, <1>4, <2>1, <2>2, TrimsKeys
  <2> QED BY <2>3 DEF Underscored
<1>5. ASSUME NEW v \in Parts(a), v # a PROVE ~IsRemove(v, Serializer)
  <2>1. Stays(v, Serializer)
    BY <1>1, <1>2, <1>5, PartsOfTrims
  <2> QED BY <1>3, <2>1 DEF Stays
<1>6. IsJson(a) => Serialize(a) = a
  BY <1>1, <1>2, <1>3, TrimsTwice DEF Serialize, TrimObjectValues
<1> QED BY <1>4, <1>5, <1>6 DEF a

(* Every gRPC answer, of success, of an unknown user or of an error, has     *)
(* the fields and the types that gen/chat.service.ts declares: the           *)
(* encoder accepts it.                                                       *)
THEOREM AnswersAreTyped == Spec => []AnswersHaveTheirType
  BY Invariance, TypedFromInv, PTL

(* The detail and the list show the same messages and participants of        *)
(* what was read in one state, though they convert them by different         *)
(* ways; and the detail shows and counts exactly the images and pages        *)
(* that were aggregated.                                                     *)
THEOREM ViewsAlwaysAgree == Spec => []ViewsAgree
  BY Invariance, ViewsFromInv, PTL

(* Whatever an HTTP handler returns, its answer has no password, no          *)
(* underscored key and nothing empty but arrays at any depth, and is not     *)
(* changed when it is serialized again.                                      *)
THEOREM HttpIsClean == Spec => []SerializedIsClean
  BY Invariance, CleanFromInv, PTL
====

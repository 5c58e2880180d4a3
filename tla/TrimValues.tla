---- MODULE TrimValues ----
(***************************************************************************)
(* pipes/trim-object-value.pipe.ts and the helpers it uses, over the       *)
(* values that handlers answer with.                                       *)
(*                                                                         *)
(* A value is a record whose only field is its kind.  A text has no blanks *)
(* around it, a padded one has; a class, a function and a circular value   *)
(* are not answered by any handler and are left out.  An object is a       *)
(* function from its keys.                                                 *)
(***************************************************************************)
EXTENDS Integers, FiniteSets, SequencesExt

CONSTANT Depth  \* bound: the levels of values below one that is answered

ASSUME DepthAssumption == Depth \in Nat

Text(s) == [text |-> s]
Padded(s) == [padded |-> s]
Number(n) == [number |-> n]
Boolean(b) == [boolean |-> b]
Date(d) == [date |-> d]
ObjectId(i) == [oid |-> i]
Array(s) == [array |-> s]
Object(f) == [object |-> f]
Null == [nil |-> "null"]
Undefined == [nil |-> "undefined"]

Is(kind, v) == DOMAIN v = {kind}

EmptyObject == Object([k \in {} |-> Null])

(* The values in a value, by how deep they are in it, itself included.       *)
Children(v) ==
  CASE Is("array", v) -> ToSet(v.array)
    [] Is("object", v) -> {v.object[k] : k \in DOMAIN v.object}
    [] OTHER -> {}

Within(S) == UNION {Children(v) : v \in S}

Level(v) == LET at[n \in Nat] == IF n = 0 THEN {v} ELSE Within(at[n - 1]) IN at

Parts(v) == UNION {Level(v)[n] : n \in 0 .. Depth}

(* What JavaScript gives: a value ends somewhere, and arrays have no gaps.   *)
IsValue(v) ==
  /\ Level(v)[Depth + 1] = {}
  /\ \A w \in Parts(v) : Is("array", w) => w.array \in Seq(ToSet(w.array))

(* The texts that JSON.parse reads, and the keys that begin with "_". *)
JsonTexts == {"1", "true"}
Underscored == {"_id", "__v"}

(* toString; Trimmed, below, does it wherever an object id is. *)
ConvertObjectIdToString(v) == IF Is("oid", v) THEN Text(v.oid) ELSE v

(* A text is parsed as it is; JSON has no undefined. *)
IsJson(v) ==
  /\ v # Undefined
  /\ Is("text", v) => v.text \in JsonTexts
  /\ Is("padded", v) => v.padded \in JsonTexts

IsRemove(v, options) ==
  \/ Is("array", v) /\ v.array = <<>> /\ ~options.exposeEmptyArray
  \/ Is("object", v) /\ DOMAIN v.object = {}
  \/ Is("text", v) /\ v.text = ""
  \/ Is("nil", v)

Stays(v, options) == ~(options.omitEmpty /\ IsRemove(v, options))

(* The keys that stay: _id becomes id before the exclusions are tried. *)
KeysKept(K, options) ==
  {k \in K \ {"_id"} : k \notin options.exclude /\ ~(options.underscored /\ k \in Underscored)}
    \union (IF "_id" \in K THEN {"id"} ELSE {})

(* A key that is there already comes after _id and takes its place. *)
KeyOf(k, K) == IF k \in K THEN k ELSE "_id"

(* The places I of an array, in their order. *)
Nth(I, j) == CHOOSE i \in I : Cardinality({k \in I : k < i}) = j - 1

At(s, I) == [j \in 1 .. Cardinality(I) |-> s[Nth(I, j)]]

-----------------------------------------------------------------------------
(* A variant of the operation that follows: what is empty is dropped before  *)
(* its own parts are trimmed.                                                *)
TrimmedTopDown(v, trims, options) ==
  CASE Is("padded", v) -> Text(v.padded)
    [] Is("array", v) ->
         LET kept == {i \in DOMAIN v.array : Stays(v.array[i], options)}
         IN  Array(At([i \in kept |-> trims[v.array[i]]], kept))
    [] Is("object", v) ->
         LET K == DOMAIN v.object
             kept == {k \in KeysKept(K, options) : Stays(v.object[KeyOf(k, K)], options)}
         IN  Object([k \in kept |-> trims[v.object[KeyOf(k, K)]]])
    [] OTHER -> ConvertObjectIdToString(v)

-----------------------------------------------------------------------------
(* One call of trims, from what it makes of the values below this one. *)
Trimmed(v, trims, options) ==
  CASE Is("padded", v) -> Text(v.padded)
    [] Is("array", v) ->
         LET kept == {i \in DOMAIN v.array : Stays(trims[v.array[i]], options)}
         IN  Array(At([i \in kept |-> trims[v.array[i]]], kept))
    [] Is("object", v) ->
         LET K == DOMAIN v.object
             kept == {k \in KeysKept(K, options) : Stays(trims[v.object[KeyOf(k, K)]], options)}
         IN  Object([k \in kept |-> trims[v.object[KeyOf(k, K)]]])
    [] OTHER -> ConvertObjectIdToString(v)

(* trims calls itself; as a function of the parts of the value it can be     *)
(* reasoned about.                                                           *)
Trims(v, options) ==
  LET trims[w \in Parts(v)] == Trimmed(w, trims, options) IN trims[v]

TrimObjectValues(v, options) == IF IsJson(v) THEN Trims(v, options) ELSE v

(* The default of the pipe, and what the serializer of HTTP answers gives.   *)
NoOptions == [omitEmpty |-> FALSE, exclude |-> {}, underscored |-> FALSE,
              exposeEmptyArray |-> FALSE]

Serializer == [omitEmpty |-> TRUE, exclude |-> {"password"}, underscored |-> TRUE,
               exposeEmptyArray |-> TRUE]

Serialize(v) == TrimObjectValues(v, Serializer)
====

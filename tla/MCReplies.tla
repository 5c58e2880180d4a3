---- MODULE MCReplies ----
EXTENDS Replies

(* HTTP results: objects and arrays nested in one another, with keys that    *)
(* are excluded, ids, and parts that are or become empty.                    *)
Leaves == {Text(""), Padded(""), Padded("hi"), Null, ObjectId("i"), Date("then"), Boolean(FALSE)}

Nested ==
  Leaves \union {Array(<<v>>) : v \in Leaves} \union {Array(<<>>)}
    \union {Object([_id |-> ObjectId("i"), password |-> Text("secret")])}
    \union {Object(("__v" :> v)) : v \in Leaves} \union {Object([name |-> v]) : v \in Leaves}

MCHttpResults ==
  {Text("1"), Padded("hi"), Undefined}
    \union {Object([_id |-> ObjectId("i"), user |-> v]) : v \in Nested}
    \union {Array(<<v, Object([user |-> v, password |-> v])>>) : v \in Nested}

MCLists == {<<"ann">>, <<"ann", "bob">>, <<"ann", "ann">>, <<"ann", "bob", "bob">>}

(* Bounds: a request that reads no conversation comes before there is one;   *)
(* the names of messages and conversations are used in order; only a request *)
(* repeats an id; the second conversation has every user and no crawls.      *)
Used == UNION {listed[c] : c \in Conversations}

Bounds ==
  /\ \A r \in Requests : ask[r] \in {"friends", "token", "http"} => now = 0
  /\ "m2" \in Used => "m1" \in Used
  /\ members["c2"] # <<>> => members["c1"] # <<>>
  /\ \A c \in Conversations : IsInjective(members[c]) \/ \E r \in Requests : ask[r] = "add" /\ target[r] = c
  /\ members["c2"] # <<"ann">>
  /\ \A m \in listed["c2"] : crawls[m] = 0
====

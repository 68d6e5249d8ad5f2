----------------------------- MODULE Credentials -----------------------------
(***************************************************************************)
(* The two walks over JSON values that keep credentials out of the system: *)
(* _plaintext_credential_path refuses a request that carries one, redact   *)
(* hides what an event would carry.  A value is a leaf, a list of values,  *)
(* or a dict, a sequence of <<key, value>>; of a leaf only what the walks  *)
(* ask about is kept.                                                      *)
(***************************************************************************)
EXTENDS Naturals, Sequences, FiniteSets, SequencesExt

CONSTANTS
  MaxDepth,      \* bound: how deep values nest
  MaxItems       \* bound: how many items a list or a dict has

DepthAssumption == MaxDepth \in Nat \ {0} /\ MaxItems \in Nat
ASSUME DepthAssumption

\* "empty" is None, False and ""; "login" a URL with user information or a
\* sensitive query field; "url" any other URL.
Leaf(v) == [t |-> "leaf", v |-> v]
List(items) == [t |-> "list", items |-> items]
Dict(items) == [t |-> "dict", items |-> items]
Str(value) == [t |-> "str", of |-> value]       \* str(value)
LeafKinds == {"empty", "text", "url", "login"}
Redacted == Leaf("[REDACTED]")

\* One key for each way the two patterns of _SENSITIVE_KEY judge a name: the one
\* of protocol.py knows more words than the one of reporter.py.
Keys == {"name", "password", "signature", "credential_ref"}
Refused == {"password", "signature", "credential_ref"}
Hidden == {"password"}

Items(S) == {items \in Seq(S) : Len(items) <= MaxItems}

\* The values that nest at most n deep.
Json[n \in Nat] ==
  IF n = 0 THEN [t: {"leaf"}, v: LeafKinds \cup {"[REDACTED]"}]
  ELSE Json[n - 1]
         \cup [t: {"list"}, items: Items(Json[n - 1])]
         \cup [t: {"dict"}, items: Items(Keys \X Json[n - 1])]
         \cup [t: {"str"}, of: Json[n - 1]]
Value == Json[MaxDepth]

\* What a request may hold: redact makes one level of it a string, which nests
\* deeper than what it was.
RequestValue == Json[MaxDepth - 1]

\* A path names the keys that lead to a value; for an item of a list, "[]".
Path == Seq(Keys \cup {"spec", "[]"})
NoPath == << >>

FirstOf(paths) ==
  IF \E i \in DOMAIN paths : paths[i] # NoPath
    THEN paths[CHOOSE i \in DOMAIN paths :
                 paths[i] # NoPath /\ \A j \in 1..(i - 1) : paths[j] = NoPath]
    ELSE NoPath

\* Of the items of a dict and of a list, searched by walk, what is reported.
DictPaths(walk, value, path) ==
  [i \in DOMAIN value.items |->
     LET key == value.items[i][1]
         item == value.items[i][2]
         child == Append(path, key) IN
     IF /\ child # <<"spec", "credential_ref">>
        /\ key \in Refused /\ item # Leaf("empty")
       THEN child ELSE walk[item][child]]

\* Bug: lists are not searched.
SkipsLists(walk, value, path) == [i \in DOMAIN value.items |-> NoPath]

ListPaths(walk, value, path) ==
  [i \in DOMAIN value.items |-> walk[value.items[i]][Append(path, "[]")]]

\* _plaintext_credential_path: where the first plaintext credential is.
PlaintextPath[value \in Value] ==
  [path \in Path |->
     CASE value.t = "dict" -> FirstOf(DictPaths(PlaintextPath, value, path))
       [] value.t = "list" -> FirstOf(ListPaths(PlaintextPath, value, path))
       [] value = Leaf("login") -> path
       [] OTHER -> NoPath]

\* The items redact makes of those of a dict and of a list.  credential_ref
\* stays, whatever it holds, as a string.
DictItems(redact, value) ==
  [i \in DOMAIN value.items |->
     LET key == value.items[i][1]
         item == value.items[i][2] IN
     <<key, IF key = "credential_ref" THEN Str(item)
            ELSE IF key \in Hidden THEN Redacted ELSE redact[item]>>]

\* Bug: lists are copied as they are.
CopiesLists(redact, value) == value.items

ListItems(redact, value) == [i \in DOMAIN value.items |-> redact[value.items[i]]]

\* redact.
Redact[value \in Value] ==
  CASE value.t = "dict" -> Dict(DictItems(Redact, value))
    [] value.t = "list" -> List(ListItems(Redact, value))
    [] OTHER -> value

-----------------------------------------------------------------------------
(* The reference: the nodes of a value by the positions that lead to them. *)

Kids(value) ==
  CASE value.t = "dict" -> [i \in DOMAIN value.items |-> value.items[i][2]]
    [] value.t = "list" -> value.items
    [] OTHER -> << >>

Positions == BoundedSeq(1..MaxItems, MaxDepth)

Nowhere == Leaf("nowhere")
Node[value \in Value] ==
  [pos \in Positions |->
     IF pos = << >> THEN value
     ELSE IF Head(pos) \in DOMAIN Kids(value)
       THEN Node[Kids(value)[Head(pos)]][Tail(pos)] ELSE Nowhere]
Has(value, pos) == Node[value][pos] # Nowhere

\* The key that leads to a position; a list gives none.
KeyAt(value, pos) ==
  LET parent == Node[value][Front(pos)] IN
  IF parent.t = "dict" THEN parent.items[Last(pos)][1] ELSE "none"

IsPlaintext(value, pos) ==
  \/ Node[value][pos] = Leaf("login")
  \/ /\ pos # << >> /\ Node[value][pos] # Leaf("empty")
     /\ KeyAt(value, pos) \in Refused
     /\ ~(Len(pos) = 1 /\ KeyAt(value, pos) = "credential_ref")

=============================================================================

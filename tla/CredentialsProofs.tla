-------------------------- MODULE CredentialsProofs --------------------------
(***************************************************************************)
(* Proofs about the walks over JSON values, however deep and wide.  The    *)
(* walks are recursive functions: Recursion says that they satisfy their   *)
(* equations, and what they compute is proved by induction on the depth of *)
(* a value.                                                                *)
(***************************************************************************)
EXTENDS Credentials, SequenceTheorems, TLAPS

-----------------------------------------------------------------------------
(* JSON values.                                                            *)

\* The body of Json.
JsonBody(json, n) ==
  IF n = 0 THEN [t: {"leaf"}, v: LeafKinds \cup {"[REDACTED]"}]
  ELSE json[n - 1]
         \cup [t: {"list"}, items: Items(json[n - 1])]
         \cup [t: {"dict"}, items: Items(Keys \X json[n - 1])]
         \cup [t: {"str"}, of: json[n - 1]]

Numbers == INSTANCE Recursion
             WITH Domain <- Nat, Rank <- [n \in Nat |-> n], Body <- JsonBody

\* The values that nest n deep, in terms of those that nest n - 1 deep.
LEMMA JsonEquation ==
  \A n \in Nat : Json[n] = JsonBody(Json, n)
<1>1. Numbers!Grounded
  <2>1. ASSUME NEW n \in Nat, NEW g, NEW h, \A m \in Nat : m < n => g[m] = h[m]
        PROVE  JsonBody(g, n) = JsonBody(h, n)
    <3>1. n # 0 => g[n - 1] = h[n - 1]
      BY <2>1
    <3> QED BY <3>1 DEF JsonBody
  <2> QED BY <2>1 DEF Numbers!Grounded
<1>2. \E f : f = [n \in Nat |-> JsonBody(f, n)]
  BY <1>1, Numbers!RecursiveFunction
<1>3. Json = [n \in Nat |-> JsonBody(Json, n)]
  BY <1>2 DEF Json, JsonBody
<1> QED BY <1>3

\* What nests less deep nests as deep.
LEMMA JsonGrows ==
  \A n \in Nat : \A m \in 0..n : Json[m] \subseteq Json[n]
<1> DEFINE S == {n \in Nat : \A m \in 0..n : Json[m] \subseteq Json[n]}
<1>1. 0 \in S
  OBVIOUS
<1>2. ASSUME NEW n \in Nat, n \in S PROVE n + 1 \in S
  <2>1. Json[n] \subseteq Json[n + 1]
    <3>1. Json[n + 1] = JsonBody(Json, n + 1)
      BY JsonEquation
    <3>2. n + 1 # 0 /\ (n + 1) - 1 = n
      OBVIOUS
    <3>3. ASSUME NEW v \in Json[n] PROVE v \in JsonBody(Json, n + 1)
      BY <3>2 DEF JsonBody
    <3> QED BY <3>1, <3>3
  <2>2. \A m \in 0..(n + 1) : m \in 0..n \/ m = n + 1
    OBVIOUS
  <2> QED BY <1>2, <2>1, <2>2
<1>3. \A n \in Nat : n \in S
  <2> HIDE DEF S
  <2> QED BY <1>1, <1>2, Numbers!Induction
<1> QED BY <1>3

\* How deep a value nests.
Depth == [value \in Value |-> CHOOSE n \in 0..MaxDepth :
            /\ value \in Json[n]
            /\ \A m \in 0..MaxDepth : value \in Json[m] => n <= m]

LEMMA DepthFacts ==
  ASSUME NEW value \in Value
  PROVE  /\ Depth[value] \in 0..MaxDepth
         /\ value \in Json[Depth[value]]
         /\ \A m \in 0..MaxDepth : value \in Json[m] => Depth[value] <= m
<1> DEFINE S == {n \in 0..MaxDepth : value \in Json[n]}
<1>1. S \in SUBSET Nat /\ MaxDepth \in S
  BY DepthAssumption DEF DepthAssumption, Value
<1>2. \E n \in S : \A m \in S : n <= m
  <2> HIDE DEF S
  <2> QED BY <1>1, Numbers!LeastNumber
<1> QED BY <1>2 DEF Depth

\* A value is a leaf, a list, a dict or a string; what it holds are values that
\* nest less deep.
LEMMA ValueFacts ==
  ASSUME NEW value \in Value
  PROVE  \/ value.t = "leaf" /\ Depth[value] \in Nat
         \/ /\ value.t = "list"
            /\ value = List(value.items) /\ value.items \in Items(Value)
            /\ \A i \in DOMAIN value.items : Depth[value.items[i]] < Depth[value]
         \/ /\ value.t = "dict"
            /\ value = Dict(value.items) /\ value.items \in Items(Keys \X Value)
            /\ \A i \in DOMAIN value.items : Depth[value.items[i][2]] < Depth[value]
         \/ value.t = "str" /\ Depth[value] \in Nat
<1> DEFINE n == Depth[value]
<1>1. /\ n \in 0..MaxDepth /\ value \in Json[n]
      /\ \A m \in 0..MaxDepth : value \in Json[m] => n <= m
  BY DepthFacts
<1>2. MaxDepth \in Nat
  BY DepthAssumption DEF DepthAssumption
<1>3. Json[n] = JsonBody(Json, n)
  BY <1>1, JsonEquation
<1> HIDE DEF n
<1>4. CASE n = 0
  <2>1. value.t = "leaf"
    BY <1>1, <1>3, <1>4 DEF JsonBody
  <2> QED BY <1>4, <2>1 DEF n
<1>5. CASE n # 0
  <2>1. n - 1 \in 0..MaxDepth /\ value \notin Json[n - 1]
    BY <1>1, <1>2, <1>5
  <2> DEFINE J == Json[n - 1]
  <2>2. \A w \in J : w \in Value /\ Depth[w] < n
    <3>1. ASSUME NEW w \in J PROVE w \in Value
      BY <1>2, <2>1, <3>1, JsonGrows DEF Value
    <3>2. ASSUME NEW w \in J PROVE Depth[w] < n
      <4>1. Depth[w] \in 0..MaxDepth /\ Depth[w] <= n - 1
        BY <2>1, <3>1, DepthFacts
      <4> QED BY <1>1, <1>2, <4>1
    <3> QED BY <3>1, <3>2
  <2>3. \/ value \in [t: {"list"}, items: Items(J)]
        \/ value \in [t: {"dict"}, items: Items(Keys \X J)]
        \/ value \in [t: {"str"}, of: J]
    BY <1>1, <1>3, <1>5, <2>1 DEF JsonBody
  <2> HIDE DEF J
  <2>4. CASE value \in [t: {"list"}, items: Items(J)]
    <3>1. value.items \in Seq(J) /\ Len(value.items) <= MaxItems
      BY <2>4 DEF Items
    <3>2. value.items \in Seq(Value)
      BY <2>2, <3>1
    <3>3. \A i \in DOMAIN value.items : value.items[i] \in J
      BY <3>1
    <3> QED BY <2>2, <2>4, <3>1, <3>2, <3>3 DEF Items, List, n
  <2>5. CASE value \in [t: {"dict"}, items: Items(Keys \X J)]
    <3>1. value.items \in Seq(Keys \X J) /\ Len(value.items) <= MaxItems
      BY <2>5 DEF Items
    <3>2. Keys \X J \subseteq Keys \X Value
      BY <2>2
    <3>3. value.items \in Seq(Keys \X Value)
      BY <3>1, <3>2
    <3>4. \A i \in DOMAIN value.items : value.items[i][2] \in J
      BY <3>1
    <3> QED BY <2>2, <2>5, <3>1, <3>3, <3>4 DEF Items, Dict, n
  <2>6. CASE value \in [t: {"str"}, of: J]
    BY <1>1, <2>6 DEF n
  <2> QED BY <2>3, <2>4, <2>5, <2>6
<1> QED BY <1>4, <1>5

\* What is less deep than all of its kind: induction over values.
LEMMA ValueInduction ==
  ASSUME NEW S,
         \A value \in Value :
           (\A w \in Value : Depth[w] < Depth[value] => w \in S) => value \in S
  PROVE  \A value \in Value : value \in S
<1> SUFFICES ASSUME NEW value \in Value, value \notin S PROVE FALSE
  OBVIOUS
<1> DEFINE T == {Depth[w] : w \in {u \in Value : u \notin S}}
<1>1. T \in SUBSET Nat /\ T # {}
  BY DepthFacts, DepthAssumption
<1>2. PICK n \in T : \A m \in T : n <= m
  <2> HIDE DEF T
  <2> QED BY <1>1, Numbers!LeastNumber
<1>3. PICK w \in Value : w \notin S /\ Depth[w] = n
  OBVIOUS
<1>4. ASSUME NEW u \in Value, Depth[u] < Depth[w] PROVE u \in S
  <2>1. Depth[u] \in Nat /\ Depth[w] \in Nat
    BY DepthFacts, DepthAssumption
  <2>2. Depth[u] \notin T
    BY <1>2, <1>3, <1>4, <2>1
  <2> QED BY <2>2
<1> QED BY <1>3, <1>4

\* The items of a value.
LEMMA KidsFacts ==
  ASSUME NEW value \in Value
  PROVE  /\ Kids(value) \in Seq(Value) /\ Len(Kids(value)) <= MaxItems
         /\ \A i \in DOMAIN Kids(value) :
              Kids(value)[i] \in Value /\ Depth[Kids(value)[i]] < Depth[value]
         /\ value.t = "list" => Kids(value) = value.items
         /\ value.t = "dict" =>
              /\ value.items \in Seq(Keys \X Value)
              /\ DOMAIN Kids(value) = DOMAIN value.items
              /\ \A i \in DOMAIN value.items :
                   value.items[i][1] \in Keys /\ Kids(value)[i] = value.items[i][2]
         /\ value.t \notin {"list", "dict"} => Kids(value) = << >>
<1>0. MaxItems \in Nat
  BY DepthAssumption DEF DepthAssumption
<1>1. CASE value.t = "list"
  <2>1. /\ value.items \in Seq(Value) /\ Len(value.items) <= MaxItems
        /\ \A i \in DOMAIN value.items : Depth[value.items[i]] < Depth[value]
    BY <1>1, ValueFacts DEF Items
  <2>2. Kids(value) = value.items
    BY <1>1 DEF Kids
  <2> QED BY <1>1, <2>1, <2>2
<1>2. CASE value.t = "dict"
  <2>1. /\ value.items \in Seq(Keys \X Value) /\ Len(value.items) <= MaxItems
        /\ \A i \in DOMAIN value.items : Depth[value.items[i][2]] < Depth[value]
    BY <1>2, ValueFacts DEF Items
  <2>2. Kids(value) = [i \in DOMAIN value.items |-> value.items[i][2]]
    BY <1>2 DEF Kids
  <2>3. /\ Len(value.items) \in Nat /\ DOMAIN value.items = 1..Len(value.items)
        /\ \A i \in DOMAIN value.items : value.items[i] \in Keys \X Value
    BY <2>1
  <2>4. \A i \in DOMAIN value.items : value.items[i][1] \in Keys /\ value.items[i][2] \in Value
    BY <2>3
  <2>5. Kids(value) \in Seq(Value) /\ Len(Kids(value)) = Len(value.items)
    BY <2>2, <2>3, <2>4
  <2> QED BY <1>2, <2>1, <2>2, <2>4, <2>5
<1>3. CASE value.t \notin {"list", "dict"}
  <2>1. Kids(value) = << >>
    BY <1>3 DEF Kids
  <2> QED BY <1>0, <1>3, <2>1
<1> QED BY <1>1, <1>2, <1>3

-----------------------------------------------------------------------------
(* Positions.                                                              *)

\* Where an item can stand.
Slots == 1..MaxItems

LEMMA PositionFacts ==
  /\ \A pos : pos \in Positions <=> pos \in Seq(Slots) /\ Len(pos) <= MaxDepth
  /\ << >> \in Positions
<1>1. MaxDepth \in Nat
  BY DepthAssumption DEF DepthAssumption
<1>2. Positions = UNION {[1..m -> Slots] : m \in 0..MaxDepth}
  BY DEF Positions, BoundedSeq, SeqOf, Slots
<1>3. ASSUME NEW pos \in Seq(Slots), Len(pos) <= MaxDepth
      PROVE  pos \in Positions
  <2>1. Len(pos) \in 0..MaxDepth /\ pos \in [1..Len(pos) -> Slots]
    BY <1>1, <1>3
  <2> QED BY <1>2, <2>1
<1>4. ASSUME NEW pos \in Positions
      PROVE  pos \in Seq(Slots) /\ Len(pos) <= MaxDepth
  <2>1. PICK m \in 0..MaxDepth : pos \in [1..m -> Slots]
    BY <1>2
  <2> QED BY <1>1, <2>1
<1>5. << >> \in Seq(Slots) /\ Len(<< >>) <= MaxDepth
  BY <1>1
<1> QED BY <1>3, <1>4, <1>5

\* A position and the rest of it below the first step.
LEMMA TailPosition ==
  ASSUME NEW pos \in Positions, pos # << >>
  PROVE  /\ Head(pos) \in Slots /\ Head(pos) = pos[1]
         /\ Tail(pos) \in Positions /\ Len(Tail(pos)) = Len(pos) - 1
         /\ Len(pos) \in Nat \ {0}
         /\ \A n \in 1..(Len(pos) - 1) : Tail(pos)[n] = pos[n + 1]
<1>1. pos \in Seq(Slots) /\ Len(pos) <= MaxDepth
  BY PositionFacts
<1>2. Tail(pos) \in Seq(Slots) /\ Len(Tail(pos)) = Len(pos) - 1 /\ Len(pos) \in Nat \ {0}
  BY <1>1
<1>3. Len(Tail(pos)) <= MaxDepth
  BY <1>1, <1>2, DepthAssumption DEF DepthAssumption
<1>4. Tail(pos) \in Positions
  BY <1>2, <1>3, PositionFacts
<1> QED BY <1>1, <1>2, <1>4

\* A step to an item, and on from there.
LEMMA ConsPosition ==
  ASSUME NEW i \in Slots, NEW rest \in Positions, Len(rest) < MaxDepth
  PROVE  LET pos == <<i>> \o rest IN
         pos \in Positions /\ pos # << >> /\ Head(pos) = i /\ Tail(pos) = rest
<1>1. rest \in Seq(Slots) /\ MaxDepth \in Nat
  BY PositionFacts, DepthAssumption DEF DepthAssumption
<1> DEFINE pos == <<i>> \o rest
<1>2. /\ pos \in Seq(Slots) /\ Len(pos) = Len(rest) + 1
      /\ pos[1] = i /\ \A n \in 1..Len(rest) : pos[n + 1] = rest[n]
  BY <1>1
<1>3. pos \in Positions
  <2> HIDE DEF pos
  <2> QED BY <1>1, <1>2, PositionFacts
<1>4. /\ pos # << >> /\ Head(pos) = i
      /\ Tail(pos) \in Seq(Slots) /\ Len(Tail(pos)) = Len(rest)
      /\ \A n \in 1..Len(rest) : Tail(pos)[n] = rest[n]
  <2> HIDE DEF pos
  <2> QED BY <1>1, <1>2
<1>5. Tail(pos) = rest
  <2> HIDE DEF pos
  <2> QED BY <1>1, <1>4
<1> QED BY <1>3, <1>4, <1>5

\* The body of Node.
NodeBody(node, value) ==
  [pos \in Positions |->
     IF pos = << >> THEN value
     ELSE IF Head(pos) \in DOMAIN Kids(value)
       THEN node[Kids(value)[Head(pos)]][Tail(pos)] ELSE Nowhere]

Nodes == INSTANCE Recursion WITH Domain <- Value, Rank <- Depth, Body <- NodeBody

LEMMA DepthType ==
  Depth \in [Value -> Nat]
<1>1. \A value \in Value : Depth[value] \in Nat
  BY DepthFacts, DepthAssumption DEF DepthAssumption
<1>2. Depth = [value \in Value |-> Depth[value]]
  BY DEF Depth
<1> QED BY <1>1, <1>2

LEMMA NodeEquation ==
  \A value \in Value : Node[value] = NodeBody(Node, value)
<1>1. Nodes!Grounded
  <2>1. ASSUME NEW value \in Value, NEW g, NEW h,
               \A w \in Value : Depth[w] < Depth[value] => g[w] = h[w]
        PROVE  NodeBody(g, value) = NodeBody(h, value)
    <3>1. \A i \in DOMAIN Kids(value) : g[Kids(value)[i]] = h[Kids(value)[i]]
      BY <2>1, KidsFacts
    <3> QED BY <3>1 DEF NodeBody
  <2> QED BY <2>1, DepthType DEF Nodes!Grounded
<1>2. \E f : f = [value \in Value |-> NodeBody(f, value)]
  BY <1>1, Nodes!RecursiveFunction
<1>3. Node = [value \in Value |-> NodeBody(Node, value)]
  BY <1>2 DEF Node, NodeBody
<1> QED BY <1>3

\* A node of a value is the value or a node of an item of it.
LEMMA NodeFacts ==
  ASSUME NEW value \in Value, NEW pos \in Positions
  PROVE  /\ pos = << >> => Node[value][pos] = value
         /\ pos # << >> =>
              Node[value][pos] = IF Head(pos) \in DOMAIN Kids(value)
                                   THEN Node[Kids(value)[Head(pos)]][Tail(pos)]
                                   ELSE Nowhere
<1>1. Node[value] = NodeBody(Node, value)
  BY NodeEquation
<1>2. Node[value][pos] = NodeBody(Node, value)[pos]
  BY <1>1
<1> QED BY <1>2 DEF NodeBody

\* Nowhere is no value.
LEMMA NowhereIsNone ==
  Nowhere \notin Value
<1> DEFINE S == {n \in Nat : Nowhere \notin Json[n]}
<1>1. 0 \in S
  <2>1. "nowhere" \notin LeafKinds \cup {"[REDACTED]"}
    BY DEF LeafKinds
  <2>2. Nowhere.v = "nowhere"
    BY DEF Nowhere, Leaf
  <2>3. Json[0] = [t: {"leaf"}, v: LeafKinds \cup {"[REDACTED]"}]
    BY JsonEquation DEF JsonBody
  <2>4. Nowhere \notin Json[0]
    BY <2>1, <2>2, <2>3
  <2> QED BY <2>4
<1>2. ASSUME NEW n \in Nat, n \in S PROVE n + 1 \in S
  <2>1. Json[n + 1] = JsonBody(Json, n + 1) /\ n + 1 # 0 /\ (n + 1) - 1 = n
    BY JsonEquation
  <2>2. Nowhere.t = "leaf"
    BY DEF Nowhere, Leaf
  <2> QED BY <1>2, <2>1, <2>2 DEF JsonBody
<1>3. \A n \in Nat : n \in S
  <2> HIDE DEF S
  <2> QED BY <1>1, <1>2, Numbers!Induction
<1> QED BY <1>3, DepthAssumption DEF DepthAssumption, Value

\* What is at a position below an item is below the item.
LEMMA HasFacts ==
  ASSUME NEW value \in Value, NEW pos \in Positions
  PROVE  /\ pos = << >> => Has(value, pos)
         /\ pos # << >> =>
              (Has(value, pos) <=>
                 /\ Head(pos) \in DOMAIN Kids(value)
                 /\ Has(Kids(value)[Head(pos)], Tail(pos)))
BY NodeFacts, NowhereIsNone DEF Has

\* No position is longer than the value is deep.
LEMMA HasNoLonger ==
  ASSUME NEW value \in Value, NEW pos \in Positions, Has(value, pos)
  PROVE  Len(pos) <= Depth[value]
<1> DEFINE S == {v \in Value : \A p \in Positions : Has(v, p) => Len(p) <= Depth[v]}
<1>1. ASSUME NEW v \in Value,
             \A w \in Value : Depth[w] < Depth[v] => w \in S
      PROVE  v \in S
  <2>1. ASSUME NEW p \in Positions, Has(v, p) PROVE Len(p) <= Depth[v]
    <3>1. CASE p = << >>
      BY <3>1, DepthType
    <3>2. CASE p # << >>
      <4> DEFINE kid == Kids(v)[Head(p)]
      <4>1. Head(p) \in DOMAIN Kids(v) /\ Has(kid, Tail(p))
        BY <2>1, <3>2, HasFacts
      <4>2. kid \in Value /\ Depth[kid] < Depth[v]
        BY <4>1, KidsFacts
      <4>3. kid \in S
        BY <1>1, <4>2
      <4>4. /\ Tail(p) \in Positions /\ Len(Tail(p)) = Len(p) - 1
            /\ Len(p) \in Nat
        BY <3>2, TailPosition
      <4>5. Len(Tail(p)) <= Depth[kid]
        BY <4>1, <4>3, <4>4
      <4>6. Depth[kid] \in Nat /\ Depth[v] \in Nat
        BY <4>2, DepthType
      <4> HIDE DEF kid
      <4> QED BY <4>2, <4>4, <4>5, <4>6
    <3> QED BY <3>1, <3>2
  <2> QED BY <2>1
<1>2. \A v \in Value : v \in S
  <2> HIDE DEF S
  <2> QED BY <1>1, ValueInduction
<1> QED BY <1>2

\* The way to a position below an item.
LEMMA ItemPosition ==
  ASSUME NEW value \in Value, NEW i \in DOMAIN Kids(value), NEW rest \in Positions,
         Has(Kids(value)[i], rest)
  PROVE  LET pos == <<i>> \o rest IN
         /\ pos \in Positions /\ pos # << >> /\ Head(pos) = i /\ Tail(pos) = rest
         /\ Has(value, pos)
<1>1. Kids(value)[i] \in Value /\ Depth[Kids(value)[i]] < Depth[value]
  BY KidsFacts
<1>2. Len(rest) <= Depth[Kids(value)[i]]
  BY <1>1, HasNoLonger
<1>3. Depth[value] <= MaxDepth /\ Depth[value] \in Nat /\ Depth[Kids(value)[i]] \in Nat
  BY <1>1, DepthFacts, DepthType
<1>4. Len(rest) \in Nat /\ MaxDepth \in Nat
  BY PositionFacts, DepthAssumption DEF DepthAssumption
<1>5. Len(rest) < MaxDepth
  BY <1>1, <1>2, <1>3, <1>4
<1>6. i \in Slots
  <2>1. i \in 1..Len(Kids(value)) /\ Len(Kids(value)) \in Nat /\ Len(Kids(value)) <= MaxItems
    BY KidsFacts
  <2> QED BY <2>1, DepthAssumption DEF DepthAssumption, Slots
<1> DEFINE pos == <<i>> \o rest
<1>7. pos \in Positions /\ pos # << >> /\ Head(pos) = i /\ Tail(pos) = rest
  BY <1>5, <1>6, ConsPosition
<1>8. Has(value, pos)
  <2> HIDE DEF pos
  <2> QED BY <1>7, HasFacts
<1> QED BY <1>7, <1>8

\* Nothing is left below a position of length one.
LEMMA RestFacts ==
  ASSUME NEW pos \in Positions, pos # << >>
  PROVE  Len(pos) = 1 <=> Tail(pos) = << >>
<1>1. /\ Tail(pos) \in Seq(Slots) /\ Len(Tail(pos)) = Len(pos) - 1
      /\ Len(pos) \in Nat \ {0}
  BY PositionFacts, TailPosition
<1> DEFINE rest == Tail(pos)
<1>2. Len(rest) = 0 <=> rest = << >>
  <2>1. rest \in Seq(Slots)
    BY <1>1
  <2> HIDE DEF rest
  <2> QED BY <2>1
<1> HIDE DEF rest
<1> QED BY <1>1, <1>2 DEF rest

\* All but the last of a sequence.
LEMMA FrontFacts ==
  ASSUME NEW S, NEW s \in Seq(S), s # << >>
  PROVE  /\ Front(s) \in Seq(S) /\ Len(Front(s)) = Len(s) - 1
         /\ \A n \in 1..(Len(s) - 1) : Front(s)[n] = s[n]
         /\ Len(s) \in Nat \ {0} /\ Last(s) = s[Len(s)]
<1>1. Len(s) \in Nat \ {0} /\ \A n \in 1..(Len(s) - 1) : s[n] \in S
  OBVIOUS
<1> DEFINE k == Len(s) - 1
<1>2. k \in Nat /\ Len(s) = k + 1
  BY <1>1
<1>3. Front(s) = SubSeq(s, 1, k)
  BY DEF Front
<1> HIDE DEF k
<1>4. /\ SubSeq(s, 1, k) \in Seq(S) /\ Len(SubSeq(s, 1, k)) = k
      /\ \A n \in 1..k : SubSeq(s, 1, k)[n] = s[n]
  <2>1. \A n \in 1..k : s[n] \in S
    BY <1>1, <1>2
  <2>2. /\ SubSeq(s, 1, k) \in Seq(S)
        /\ Len(SubSeq(s, 1, k)) = IF 1 <= k THEN k - 1 + 1 ELSE 0
        /\ \A n \in 1..(k - 1 + 1) : SubSeq(s, 1, k)[n] = s[1 + n - 1]
    BY <1>2, <2>1, SubSeqProperties
  <2> QED BY <1>2, <2>2
<1> QED BY <1>1, <1>2, <1>3, <1>4 DEF Last

\* The key that leads to an item, and to what is below it.
LEMMA KeyFacts ==
  ASSUME NEW value \in Value, NEW pos \in Positions, pos # << >>
  PROVE  /\ Len(pos) = 1 => KeyAt(value, pos) = IF value.t = "dict"
                                                  THEN value.items[Head(pos)][1] ELSE "none"
         /\ Len(pos) # 1 /\ Head(pos) \in DOMAIN Kids(value) =>
              KeyAt(value, pos) = KeyAt(Kids(value)[Head(pos)], Tail(pos))
<1>1. /\ pos \in Seq(Slots) /\ Len(pos) <= MaxDepth /\ Len(pos) \in Nat \ {0}
      /\ MaxDepth \in Nat /\ Head(pos) = pos[1]
  BY PositionFacts, TailPosition, DepthAssumption DEF DepthAssumption
<1>2. /\ Front(pos) \in Seq(Slots) /\ Len(Front(pos)) = Len(pos) - 1
      /\ \A n \in 1..(Len(pos) - 1) : Front(pos)[n] = pos[n]
      /\ Last(pos) = pos[Len(pos)]
  BY <1>1, FrontFacts
<1>3. Front(pos) \in Positions
  <2>1. Len(Front(pos)) <= MaxDepth
    BY <1>1, <1>2
  <2> QED BY <1>2, <2>1, PositionFacts
<1>4. CASE Len(pos) = 1
  <2>1. Front(pos) = << >> /\ Last(pos) = Head(pos)
    BY <1>1, <1>2, <1>4
  <2>2. Node[value][Front(pos)] = value
    BY <1>3, <2>1, NodeFacts
  <2> QED BY <1>4, <2>1, <2>2 DEF KeyAt
<1>5. CASE Len(pos) # 1 /\ Head(pos) \in DOMAIN Kids(value)
  <2>1. Front(pos) # << >> /\ Head(Front(pos)) = Head(pos)
    BY <1>1, <1>2, <1>5
  <2> DEFINE rest == Tail(pos)
  <2>2. /\ rest \in Seq(Slots) /\ Len(rest) = Len(pos) - 1
        /\ \A n \in 1..(Len(pos) - 1) : rest[n] = pos[n + 1]
    BY <1>1
  <2> HIDE DEF rest
  <2>3. /\ rest # << >>
        /\ Front(rest) \in Seq(Slots) /\ Len(Front(rest)) = Len(rest) - 1
        /\ \A n \in 1..(Len(rest) - 1) : Front(rest)[n] = rest[n]
        /\ Last(rest) = rest[Len(rest)]
    <3>1. rest # << >>
      BY <1>1, <1>5, <2>2
    <3> QED BY <2>2, <3>1, FrontFacts
  <2>4. Last(rest) = Last(pos)
    BY <1>1, <1>2, <1>5, <2>2, <2>3
  <2>5. Tail(Front(pos)) = Front(rest)
    <3> DEFINE f == Tail(Front(pos))
    <3>1. /\ f \in Seq(Slots) /\ Len(f) = Len(pos) - 2
          /\ \A n \in 1..(Len(pos) - 2) : f[n] = Front(pos)[n + 1]
      BY <1>1, <1>2, <1>5, <2>1
    <3>2. Len(Front(rest)) = Len(pos) - 2
      BY <1>1, <2>2, <2>3
    <3>3. ASSUME NEW n \in 1..(Len(pos) - 2) PROVE f[n] = Front(rest)[n]
      <4>1. /\ n + 1 \in 1..(Len(pos) - 1) /\ n \in 1..(Len(pos) - 1)
            /\ n \in 1..(Len(rest) - 1)
        BY <1>1, <2>2
      <4> HIDE DEF f
      <4> QED BY <1>2, <2>2, <2>3, <3>1, <4>1
    <3> HIDE DEF f
    <3>4. f = Front(rest)
      BY <2>3, <3>1, <3>2, <3>3
    <3> QED BY <3>4 DEF f
  <2>6. Node[value][Front(pos)] = Node[Kids(value)[Head(pos)]][Front(rest)]
    BY <1>3, <1>5, <2>1, <2>5, NodeFacts
  <2> QED BY <1>5, <2>4, <2>6 DEF KeyAt, rest
<1> QED BY <1>4, <1>5

-----------------------------------------------------------------------------
(* The search for a plaintext credential.                                  *)

\* The body of PlaintextPath.
PathBody(walk, value) ==
  [path \in Path |->
     CASE value.t = "dict" -> FirstOf(DictPaths(walk, value, path))
       [] value.t = "list" -> FirstOf(ListPaths(walk, value, path))
       [] value = Leaf("login") -> path
       [] OTHER -> NoPath]

Paths == INSTANCE Recursion WITH Domain <- Value, Rank <- Depth, Body <- PathBody

LEMMA PathEquation ==
  \A value \in Value : PlaintextPath[value] = PathBody(PlaintextPath, value)
<1>1. Paths!Grounded
  <2>1. ASSUME NEW value \in Value, NEW g, NEW h,
               \A w \in Value : Depth[w] < Depth[value] => g[w] = h[w]
        PROVE  PathBody(g, value) = PathBody(h, value)
    <3>1. /\ value.t = "list" =>
               \A i \in DOMAIN value.items : g[value.items[i]] = h[value.items[i]]
          /\ value.t = "dict" =>
               \A i \in DOMAIN value.items : g[value.items[i][2]] = h[value.items[i][2]]
      BY <2>1, KidsFacts
    <3>2. ASSUME NEW path \in Path
          PROVE  /\ value.t = "dict" => DictPaths(g, value, path) = DictPaths(h, value, path)
                 /\ value.t = "list" => ListPaths(g, value, path) = ListPaths(h, value, path)
      BY <3>1 DEF DictPaths, ListPaths
    <3> QED BY <3>2 DEF PathBody
  <2> QED BY <2>1, DepthType DEF Paths!Grounded
<1>2. \E f : f = [value \in Value |-> PathBody(f, value)]
  BY <1>1, Paths!RecursiveFunction
<1>3. PlaintextPath = [value \in Value |-> PathBody(PlaintextPath, value)]
  BY <1>2 DEF PlaintextPath, PathBody
<1> QED BY <1>3

\* The first of some paths is one of them, if there is one.
LEMMA FirstOfFacts ==
  ASSUME NEW n \in Nat, NEW paths, DOMAIN paths = 1..n
  PROVE  FirstOf(paths) # NoPath <=> \E i \in 1..n : paths[i] # NoPath
<1>1. CASE \E i \in 1..n : paths[i] # NoPath
  <2> DEFINE S == {i \in 1..n : paths[i] # NoPath}
  <2>1. S \in SUBSET Nat /\ S # {}
    BY <1>1
  <2>2. PICK i \in S : \A j \in S : i <= j
    <3> HIDE DEF S
    <3> QED BY <2>1, Numbers!LeastNumber
  <2>3. ASSUME NEW j \in 1..(i - 1) PROVE paths[j] = NoPath
    <3>1. j \in 1..n /\ ~(i <= j)
      OBVIOUS
    <3> QED BY <2>2, <3>1
  <2>4. \E k \in DOMAIN paths :
          paths[k] # NoPath /\ \A j \in 1..(k - 1) : paths[j] = NoPath
    BY <2>2, <2>3
  <2>5. FirstOf(paths) # NoPath
    BY <1>1, <2>4 DEF FirstOf
  <2> QED BY <1>1, <2>5
<1>2. CASE ~\E i \in 1..n : paths[i] # NoPath
  BY <1>2 DEF FirstOf
<1> QED BY <1>1, <1>2

\* The path to an item.
Step(value, i, path) ==
  Append(path, IF value.t = "dict" THEN value.items[i][1] ELSE "[]")

\* The key of an item is refused, whatever is below.
Hit(value, i, top) ==
  /\ value.t = "dict" /\ value.items[i][1] \in Refused
  /\ value.items[i][2] # Leaf("empty")
  /\ ~(top /\ value.items[i][1] = "credential_ref")

\* IsPlaintext of a value that need not be the spec.
PlainAt(value, pos, top) ==
  \/ Node[value][pos] = Leaf("login")
  \/ /\ pos # << >> /\ Node[value][pos] # Leaf("empty")
     /\ KeyAt(value, pos) \in Refused
     /\ ~(top /\ Len(pos) = 1 /\ KeyAt(value, pos) = "credential_ref")

Found(value, path) == PlaintextPath[value][path] # NoPath

\* A sequence of length two.
LEMMA PairFacts ==
  ASSUME NEW S, NEW s \in Seq(S), Len(s) = 2
  PROVE  s = <<s[1], s[2]>>
OBVIOUS

LEMMA StepFacts ==
  ASSUME NEW value \in Value, NEW i \in DOMAIN Kids(value), NEW path \in Path, path # << >>
  PROVE  /\ Step(value, i, path) \in Path
         /\ Step(value, i, path) \notin {<< >>, <<"spec">>}
         /\ value.t = "dict" =>
              (Step(value, i, path) = <<"spec", "credential_ref">> <=>
                 path = <<"spec">> /\ value.items[i][1] = "credential_ref")
<1> DEFINE key == IF value.t = "dict" THEN value.items[i][1] ELSE "[]"
<1>1. key \in Keys \cup {"spec", "[]"}
  BY KidsFacts
<1>2. path \in Seq(Keys \cup {"spec", "[]"}) /\ Step(value, i, path) = Append(path, key)
  BY DEF Path, Step
<1> HIDE DEF key
<1> DEFINE child == Append(path, key)
<1>3. /\ child \in Seq(Keys \cup {"spec", "[]"}) /\ Len(path) \in Nat \ {0}
      /\ Len(child) = Len(path) + 1
      /\ child[Len(path) + 1] = key
      /\ \A n \in 1..Len(path) : child[n] = path[n]
  BY <1>1, <1>2
<1>4. ASSUME path = <<"spec">>, key = "credential_ref"
      PROVE  child = <<"spec", "credential_ref">>
  <2>1. Len(child) = 2 /\ child[1] = "spec" /\ child[2] = "credential_ref"
    <3> HIDE DEF child
    <3>1. Len(path) = 1 /\ path[1] = "spec"
      BY <1>4
    <3> QED BY <1>3, <1>4, <3>1
  <2> HIDE DEF child
  <2> QED BY <1>3, <2>1, PairFacts
<1> HIDE DEF child
<1>5. child \notin {<< >>, <<"spec">>}
  <2>1. Len(child) >= 2
    BY <1>3
  <2>2. Len(<< >>) = 0 /\ Len(<<"spec">>) = 1
    OBVIOUS
  <2> QED BY <2>1, <2>2
<1>6. ASSUME child = <<"spec", "credential_ref">>
      PROVE  path = <<"spec">> /\ key = "credential_ref"
  <2>1. Len(child) = 2 /\ child[1] = "spec" /\ child[2] = "credential_ref"
    BY <1>6
  <2>2. Len(path) = 1
    <3>1. Len(path) \in Nat /\ Len(path) + 1 = 2
      BY <1>3, <2>1
    <3>2. \A m \in Nat : m + 1 = 2 => m = 1
      OBVIOUS
    <3> QED BY <3>1, <3>2, Zenon
  <2>3. path[1] = "spec" /\ key = "credential_ref"
    BY <1>3, <2>1, <2>2
  <2> QED BY <1>2, <2>2, <2>3
<1> QED BY <1>2, <1>3, <1>4, <1>5, <1>6 DEF key, child, Path

\* The search finds something in a dict or list if it does in an item or if the
\* key of the item is one it refuses.
LEMMA FoundFacts ==
  ASSUME NEW value \in Value, NEW path \in Path, path # << >>
  PROVE  /\ value.t \in {"dict", "list"} =>
              (Found(value, path) <=>
                 \E i \in DOMAIN Kids(value) :
                   \/ Hit(value, i, path = <<"spec">>)
                   \/ Found(Kids(value)[i], Step(value, i, path)))
         /\ value.t \notin {"dict", "list"} => (Found(value, path) <=> value = Leaf("login"))
<1>1. PlaintextPath[value][path] = PathBody(PlaintextPath, value)[path]
  BY PathEquation
<1>2. CASE value.t = "dict"
  <2> DEFINE f == DictPaths(PlaintextPath, value, path)
  <2>1. PlaintextPath[value][path] = FirstOf(f)
    BY <1>1, <1>2 DEF PathBody, Leaf
  <2>2. /\ DOMAIN value.items = 1..Len(value.items) /\ Len(value.items) \in Nat
        /\ DOMAIN Kids(value) = DOMAIN value.items
        /\ \A i \in DOMAIN value.items : Kids(value)[i] = value.items[i][2]
    BY <1>2, KidsFacts
  <2>3. DOMAIN f = 1..Len(value.items)
    BY <2>2 DEF DictPaths
  <2>4. ASSUME NEW i \in DOMAIN value.items
        PROVE  f[i] # NoPath <=> \/ Hit(value, i, path = <<"spec">>)
                                 \/ Found(Kids(value)[i], Step(value, i, path))
    <3>1. Step(value, i, path) = Append(path, value.items[i][1])
      BY <1>2 DEF Step
    <3>2. /\ Step(value, i, path) # << >>
          /\ Step(value, i, path) = <<"spec", "credential_ref">> <=>
               path = <<"spec">> /\ value.items[i][1] = "credential_ref"
      BY <1>2, <2>2, StepFacts
    <3>3. f[i] = IF Hit(value, i, path = <<"spec">>) THEN Step(value, i, path)
                 ELSE PlaintextPath[Kids(value)[i]][Step(value, i, path)]
      BY <1>2, <2>2, <3>1, <3>2 DEF Hit, DictPaths
    <3> HIDE DEF f
    <3> QED BY <3>2, <3>3 DEF Found, NoPath
  <2> HIDE DEF f
  <2>5. FirstOf(f) # NoPath <=> \E i \in 1..Len(value.items) : f[i] # NoPath
    BY <2>2, <2>3, FirstOfFacts
  <2> QED BY <1>2, <2>1, <2>2, <2>4, <2>5 DEF Found
<1>3. CASE value.t = "list"
  <2> DEFINE f == ListPaths(PlaintextPath, value, path)
  <2>1. PlaintextPath[value][path] = FirstOf(f)
    BY <1>1, <1>3 DEF PathBody, Leaf
  <2>2. /\ Kids(value) = value.items
        /\ DOMAIN value.items = 1..Len(value.items) /\ Len(value.items) \in Nat
    BY <1>3, KidsFacts
  <2>3. DOMAIN f = 1..Len(value.items)
    BY <2>2 DEF ListPaths
  <2>4. ASSUME NEW i \in DOMAIN value.items
        PROVE  f[i] # NoPath <=> \/ Hit(value, i, path = <<"spec">>)
                                 \/ Found(Kids(value)[i], Step(value, i, path))
    BY <1>3, <2>2 DEF Hit, Found, Step, ListPaths
  <2> HIDE DEF f
  <2>5. FirstOf(f) # NoPath <=> \E i \in 1..Len(value.items) : f[i] # NoPath
    BY <2>2, <2>3, FirstOfFacts
  <2> QED BY <1>3, <2>1, <2>2, <2>4, <2>5 DEF Found
<1>4. CASE value.t \notin {"dict", "list"}
  BY <1>1, <1>4 DEF PathBody, Found, NoPath
<1> QED BY <1>2, <1>3, <1>4

\* A position below an item is plaintext in the item, or the item itself is for
\* its key.
LEMMA PlainBelow ==
  ASSUME NEW value \in Value, NEW pos \in Positions, pos # << >>,
         Head(pos) \in DOMAIN Kids(value), NEW top \in BOOLEAN
  PROVE  PlainAt(value, pos, top) <=>
           \/ PlainAt(Kids(value)[Head(pos)], Tail(pos), FALSE)
           \/ Tail(pos) = << >> /\ Hit(value, Head(pos), top)
<1> DEFINE kid == Kids(value)[Head(pos)]
<1>1. Node[value][pos] = Node[kid][Tail(pos)]
  BY NodeFacts
<1>2. /\ kid \in Value /\ Tail(pos) \in Positions
      /\ value.t = "dict" => kid = value.items[Head(pos)][2]
  BY KidsFacts, TailPosition
<1>3. /\ Len(pos) = 1 => KeyAt(value, pos) = IF value.t = "dict"
                                               THEN value.items[Head(pos)][1] ELSE "none"
      /\ Len(pos) # 1 => KeyAt(value, pos) = KeyAt(kid, Tail(pos))
  BY KeyFacts
<1>4. Len(pos) = 1 <=> Tail(pos) = << >>
  BY RestFacts
<1> HIDE DEF kid
<1>5. CASE Len(pos) = 1
  <2>1. Tail(pos) = << >> /\ Node[kid][Tail(pos)] = kid
    BY <1>2, <1>4, <1>5, NodeFacts
  <2>2. "none" \notin Refused
    BY DEF Refused
  <2> QED BY <1>1, <1>2, <1>3, <1>5, <2>1, <2>2 DEF PlainAt, Hit, kid
<1>6. CASE Len(pos) # 1
  BY <1>1, <1>3, <1>4, <1>6 DEF PlainAt, kid
<1> QED BY <1>5, <1>6

\* The search finds something exactly if there is something to find.
THEOREM PlaintextWalk ==
  ASSUME NEW value \in Value, NEW path \in Path, path # << >>
  PROVE  Found(value, path) <=>
           \E p \in Positions : Has(value, p) /\ PlainAt(value, p, path = <<"spec">>)
<1> DEFINE Right(v, w) == Found(v, w) <=>
             \E p \in Positions : Has(v, p) /\ PlainAt(v, p, w = <<"spec">>)
           S == {v \in Value : \A w \in Path : w # << >> => Right(v, w)}
<1>1. ASSUME NEW v \in Value, \A u \in Value : Depth[u] < Depth[v] => u \in S
      PROVE  v \in S
  <2> SUFFICES ASSUME NEW w \in Path, w # << >> PROVE Right(v, w)
    OBVIOUS
  <2>1. << >> \in Positions /\ Has(v, << >>) /\ Node[v][<< >>] = v
    BY PositionFacts, HasFacts, NodeFacts
  <2>2. CASE v.t \notin {"dict", "list"}
    <3>1. Kids(v) = << >>
      BY <2>2, KidsFacts
    <3>2. \A p \in Positions : Has(v, p) => p = << >>
      BY <3>1, HasFacts
    <3>3. PlainAt(v, << >>, w = <<"spec">>) <=> v = Leaf("login")
      BY <2>1 DEF PlainAt
    <3>4. Found(v, w) <=> v = Leaf("login")
      BY <2>2, FoundFacts
    <3> QED BY <2>1, <3>2, <3>3, <3>4
  <2>3. CASE v.t \in {"dict", "list"}
    <3>1. Found(v, w) <=> \E i \in DOMAIN Kids(v) :
                            \/ Hit(v, i, w = <<"spec">>)
                            \/ Found(Kids(v)[i], Step(v, i, w))
      BY <2>3, FoundFacts
    <3>2. ASSUME NEW i \in DOMAIN Kids(v)
          PROVE  /\ Kids(v)[i] \in Value
                 /\ Found(Kids(v)[i], Step(v, i, w)) <=>
                      \E p \in Positions : Has(Kids(v)[i], p) /\ PlainAt(Kids(v)[i], p, FALSE)
      <4> DEFINE kid == Kids(v)[i]
                 child == Step(v, i, w)
      <4>1. kid \in Value /\ Depth[kid] < Depth[v]
        BY KidsFacts
      <4>2. child \in Path /\ child # << >> /\ (child = <<"spec">>) = FALSE
        BY StepFacts
      <4>3. kid \in S
        BY <1>1, <4>1
      <4>4. Right(kid, child)
        <5> HIDE DEF kid, child, Right
        <5> QED BY <4>2, <4>3
      <4> HIDE DEF kid, child
      <4>5. Found(kid, child) <=>
              \E p \in Positions : Has(kid, p) /\ PlainAt(kid, p, FALSE)
        BY <4>2, <4>4
      <4> QED BY <4>1, <4>5 DEF kid, child
    <3>3. ASSUME NEW i \in DOMAIN Kids(v), Hit(v, i, w = <<"spec">>)
          PROVE  \E p \in Positions : Has(v, p) /\ PlainAt(v, p, w = <<"spec">>)
      <4>1. Has(Kids(v)[i], << >>)
        BY <2>1, <3>2, HasFacts
      <4>2. LET p == <<i>> \o << >> IN
            p \in Positions /\ p # << >> /\ Head(p) = i /\ Tail(p) = << >> /\ Has(v, p)
        BY <2>1, <4>1, ItemPosition
      <4>3. PICK p \in Positions : p # << >> /\ Head(p) = i /\ Tail(p) = << >> /\ Has(v, p)
        BY <4>2
      <4>4. PlainAt(v, p, w = <<"spec">>)
        BY <3>3, <4>3, PlainBelow
      <4> QED BY <4>3, <4>4
    <3>4. ASSUME NEW i \in DOMAIN Kids(v), Found(Kids(v)[i], Step(v, i, w))
          PROVE  \E p \in Positions : Has(v, p) /\ PlainAt(v, p, w = <<"spec">>)
      <4>1. PICK r \in Positions : Has(Kids(v)[i], r) /\ PlainAt(Kids(v)[i], r, FALSE)
        BY <3>2, <3>4
      <4>2. LET p == <<i>> \o r IN
            p \in Positions /\ p # << >> /\ Head(p) = i /\ Tail(p) = r /\ Has(v, p)
        BY <4>1, ItemPosition
      <4>3. PICK p \in Positions : p # << >> /\ Head(p) = i /\ Tail(p) = r /\ Has(v, p)
        BY <4>2
      <4>4. PlainAt(v, p, w = <<"spec">>)
        BY <4>1, <4>3, PlainBelow
      <4> QED BY <4>3, <4>4
    <3>5. ASSUME NEW p \in Positions, Has(v, p), PlainAt(v, p, w = <<"spec">>)
          PROVE  Found(v, w)
      <4>1. p # << >>
        <5>1. v # Leaf("login")
          BY <2>3 DEF Leaf
        <5> QED BY <2>1, <3>5, <5>1 DEF PlainAt
      <4>2. Head(p) \in DOMAIN Kids(v) /\ Has(Kids(v)[Head(p)], Tail(p)) /\ Tail(p) \in Positions
        BY <3>5, <4>1, HasFacts, TailPosition
      <4>3. \/ PlainAt(Kids(v)[Head(p)], Tail(p), FALSE)
            \/ Hit(v, Head(p), w = <<"spec">>)
        BY <3>5, <4>1, <4>2, PlainBelow
      <4> QED BY <3>1, <3>2, <4>2, <4>3
    <3> QED BY <3>1, <3>3, <3>4, <3>5
  <2> QED BY <2>2, <2>3
<1>2. \A v \in Value : v \in S
  <2> HIDE DEF S
  <2> QED BY <1>1, ValueInduction
<1>3. \A w \in Path : w # << >> => Right(value, w)
  BY <1>2
<1> QED BY <1>3

-----------------------------------------------------------------------------
(* What redact makes of a value.                                           *)

\* The body of Redact.
RedactBody(redact, value) ==
  CASE value.t = "dict" -> Dict(DictItems(redact, value))
    [] value.t = "list" -> List(ListItems(redact, value))
    [] OTHER -> value

Redactions == INSTANCE Recursion WITH Domain <- Value, Rank <- Depth, Body <- RedactBody

LEMMA RedactEquation ==
  \A value \in Value : Redact[value] = RedactBody(Redact, value)
<1>1. Redactions!Grounded
  <2>1. ASSUME NEW value \in Value, NEW g, NEW h,
               \A w \in Value : Depth[w] < Depth[value] => g[w] = h[w]
        PROVE  RedactBody(g, value) = RedactBody(h, value)
    <3>1. /\ value.t = "list" =>
               \A i \in DOMAIN value.items : g[value.items[i]] = h[value.items[i]]
          /\ value.t = "dict" =>
               \A i \in DOMAIN value.items : g[value.items[i][2]] = h[value.items[i][2]]
      BY <2>1, KidsFacts
    <3>2. /\ value.t = "dict" => DictItems(g, value) = DictItems(h, value)
          /\ value.t = "list" => ListItems(g, value) = ListItems(h, value)
      BY <3>1 DEF DictItems, ListItems
    <3> QED BY <3>2 DEF RedactBody
  <2> QED BY <2>1, DepthType DEF Redactions!Grounded
<1>2. \E f : f = [value \in Value |-> RedactBody(f, value)]
  BY <1>1, Redactions!RecursiveFunction
<1>3. Redact = [value \in Value |-> RedactBody(Redact, value)]
  BY <1>2 DEF Redact, RedactBody
<1> QED BY <1>3

\* A function on 1..k is a sequence of length k.
LEMMA ListedFacts ==
  ASSUME NEW T, NEW k \in Nat, NEW f \in [1..k -> T]
  PROVE  f \in Seq(T) /\ Len(f) = k
OBVIOUS

\* What nests n deep is at most one level deeper when it is redacted.
LEMMA RedactDepth ==
  \A n \in 0..(MaxDepth - 1) : \A value \in Json[n] : Redact[value] \in Json[n + 1]
<1>0. MaxDepth \in Nat \ {0} /\ MaxItems \in Nat
  BY DepthAssumption DEF DepthAssumption
<1> DEFINE S == {n \in Nat : n \in 0..(MaxDepth - 1) =>
                               \A value \in Json[n] : Redact[value] \in Json[n + 1]}
<1>1. ASSUME NEW n \in Nat, NEW m \in 0..n PROVE Json[m] \subseteq Json[n]
  BY JsonGrows
<1>2. ASSUME NEW n \in 0..MaxDepth, NEW value \in Json[n]
      PROVE  value \in Value /\ Redact[value] = RedactBody(Redact, value)
  BY <1>0, <1>1, RedactEquation DEF Value
<1>3. ASSUME NEW n \in Nat
      PROVE  Json[n + 1] = Json[n]
                             \cup [t: {"list"}, items: Items(Json[n])]
                             \cup [t: {"dict"}, items: Items(Keys \X Json[n])]
                             \cup [t: {"str"}, of: Json[n]]
  <2>1. Json[n + 1] = JsonBody(Json, n + 1) /\ n + 1 # 0 /\ (n + 1) - 1 = n
    BY JsonEquation
  <2> QED BY <2>1 DEF JsonBody
<1>4. Json[0] = [t: {"leaf"}, v: LeafKinds \cup {"[REDACTED]"}]
  BY JsonEquation DEF JsonBody
<1>5. ASSUME NEW n \in Nat PROVE Redacted \in Json[n]
  <2>1. Redacted \in Json[0]
    BY <1>4 DEF Redacted, Leaf
  <2> QED BY <1>1, <2>1
<1>6. 0 \in S
  <2> SUFFICES ASSUME NEW value \in Json[0] PROVE Redact[value] \in Json[0 + 1]
    OBVIOUS
  <2>1. value.t = "leaf"
    BY <1>4
  <2>2. Redact[value] = value
    BY <1>0, <1>2, <2>1 DEF RedactBody
  <2> QED BY <1>1, <2>2
<1>7. ASSUME NEW n \in Nat, n \in S PROVE n + 1 \in S
  <2> SUFFICES ASSUME n + 1 \in 0..(MaxDepth - 1), NEW value \in Json[n + 1]
               PROVE  Redact[value] \in Json[n + 2]
    BY <1>0
  <2>1. \A w \in Json[n] : Redact[w] \in Json[n + 1]
    BY <1>0, <1>7
  <2>2. /\ n + 1 \in Nat /\ (n + 1) + 1 = n + 2 /\ n + 1 \in 0..MaxDepth
        /\ n + 1 \in 0..(n + 2) /\ n + 2 \in Nat
    BY <1>0
  <2>3. Redact[value] = RedactBody(Redact, value)
    BY <1>2, <2>2
  <2>4. /\ Json[n + 1] \subseteq Json[n + 2]
        /\ [t: {"list"}, items: Items(Json[n + 1])] \subseteq Json[n + 2]
        /\ [t: {"dict"}, items: Items(Keys \X Json[n + 1])] \subseteq Json[n + 2]
    <3>1. Json[(n + 1) + 1] = Json[n + 1]
                             \cup [t: {"list"}, items: Items(Json[n + 1])]
                             \cup [t: {"dict"}, items: Items(Keys \X Json[n + 1])]
                             \cup [t: {"str"}, of: Json[n + 1]]
      BY <1>3, <2>2
    <3> QED BY <2>2, <3>1
  <2>5. CASE value \in Json[n]
    BY <2>1, <2>4, <2>5
  <2>6. CASE value \in [t: {"list"}, items: Items(Json[n])]
    <3>1. value.t = "list" /\ value.items \in Seq(Json[n]) /\ Len(value.items) <= MaxItems
      BY <2>6 DEF Items
    <3> DEFINE out == ListItems(Redact, value)
    <3>2. Redact[value] = List(out)
      BY <2>3, <3>1 DEF RedactBody
    <3>3. \A i \in DOMAIN value.items : Redact[value.items[i]] \in Json[n + 1]
      BY <2>1, <3>1
    <3>4. out \in Seq(Json[n + 1]) /\ Len(out) = Len(value.items)
      BY <3>1, <3>3 DEF ListItems
    <3> HIDE DEF out
    <3> QED BY <2>4, <3>1, <3>2, <3>4 DEF List, Items
  <2>7. CASE value \in [t: {"dict"}, items: Items(Keys \X Json[n])]
    <3>1. /\ value.t = "dict" /\ value.items \in Seq(Keys \X Json[n])
          /\ Len(value.items) <= MaxItems
      BY <2>7 DEF Items
    <3> DEFINE out == DictItems(Redact, value)
    <3>2. Redact[value] = Dict(out)
      BY <2>3, <3>1 DEF RedactBody
    <3>3. ASSUME NEW i \in DOMAIN value.items PROVE out[i] \in Keys \X Json[n + 1]
      <4>1. value.items[i] \in Keys \X Json[n]
        BY <3>1
      <4>2. Redact[value.items[i][2]] \in Json[n + 1]
        BY <2>1, <4>1
      <4>3. Str(value.items[i][2]) \in Json[n + 1]
        BY <1>3, <4>1 DEF Str
      <4>4. Redacted \in Json[n + 1]
        BY <1>5, <2>2
      <4> QED BY <4>1, <4>2, <4>3, <4>4 DEF DictItems
    <3>4. DOMAIN out = DOMAIN value.items
      BY DEF DictItems
    <3>5. out \in Seq(Keys \X Json[n + 1]) /\ Len(out) = Len(value.items)
      <4>1. DOMAIN value.items = 1..Len(value.items) /\ Len(value.items) \in Nat
        BY <3>1
      <4>2. out = [i \in 1..Len(value.items) |-> out[i]]
        BY <4>1 DEF DictItems
      <4> HIDE DEF out
      <4> DEFINE k == Len(value.items)
                 T == Keys \X Json[n + 1]
      <4>3. k \in Nat /\ out \in [1..k -> T]
        BY <3>3, <4>1, <4>2
      <4> HIDE DEF k, T
      <4>4. out \in Seq(T) /\ Len(out) = k
        BY <4>3, ListedFacts
      <4> QED BY <4>4 DEF k, T
    <3> HIDE DEF out
    <3> QED BY <2>4, <3>1, <3>2, <3>5 DEF Dict, Items
  <2>8. CASE value \in [t: {"str"}, of: Json[n]]
    <3>1. Redact[value] = value
      BY <2>3, <2>8 DEF RedactBody
    <3> QED BY <2>4, <3>1
  <2> QED BY <1>3, <2>5, <2>6, <2>7, <2>8
<1>8. \A n \in Nat : n \in S
  <2> HIDE DEF S
  <2> QED BY <1>6, <1>7, Numbers!Induction
<1> QED BY <1>0, <1>8

LEMMA RedactType ==
  ASSUME NEW value \in RequestValue
  PROVE  value \in Value /\ Redact[value] \in Value
<1>1. MaxDepth - 1 \in 0..(MaxDepth - 1) /\ MaxDepth - 1 + 1 = MaxDepth /\ MaxDepth \in Nat
      /\ MaxDepth - 1 \in 0..MaxDepth
  BY DepthAssumption DEF DepthAssumption
<1>2. value \in Value
  BY <1>1, JsonGrows DEF RequestValue, Value
<1> QED BY <1>1, <1>2, RedactDepth DEF RequestValue, Value

\* What redact makes of a dict and of a list, item by item; the rest stays.
LEMMA RedactFacts ==
  ASSUME NEW value \in Value, Redact[value] \in Value
  PROVE  LET out == Redact[value] IN
         /\ out.t = value.t
         /\ DOMAIN Kids(out) = DOMAIN Kids(value)
         /\ value.t = "list" =>
              \A i \in DOMAIN Kids(value) : Kids(out)[i] = Redact[Kids(value)[i]]
         /\ value.t = "dict" =>
              \A i \in DOMAIN Kids(value) :
                /\ out.items[i][1] = value.items[i][1]
                /\ Kids(out)[i] =
                     IF value.items[i][1] = "credential_ref" THEN Str(Kids(value)[i])
                     ELSE IF value.items[i][1] \in Hidden THEN Redacted
                     ELSE Redact[Kids(value)[i]]
         /\ value.t \notin {"dict", "list"} => Kids(value) = << >>
<1> DEFINE out == Redact[value]
<1>1. out = RedactBody(Redact, value)
  BY RedactEquation
<1>2. CASE value.t = "list"
  <2>1. out.t = "list" /\ out.items = ListItems(Redact, value)
    BY <1>1, <1>2 DEF RedactBody, List
  <2>2. Kids(value) = value.items /\ Kids(out) = ListItems(Redact, value)
    BY <1>2, <2>1 DEF Kids
  <2> HIDE DEF out
  <2> QED BY <1>2, <2>1, <2>2 DEF ListItems, out
<1>3. CASE value.t = "dict"
  <2>1. out.t = "dict" /\ out.items = DictItems(Redact, value)
    BY <1>1, <1>3 DEF RedactBody, Dict
  <2>2. /\ DOMAIN Kids(value) = DOMAIN value.items
        /\ \A i \in DOMAIN value.items : Kids(value)[i] = value.items[i][2]
    BY <1>3 DEF Kids
  <2>3. /\ DOMAIN Kids(out) = DOMAIN value.items
        /\ \A i \in DOMAIN value.items :
             /\ out.items[i][1] = value.items[i][1]
             /\ Kids(out)[i] = DictItems(Redact, value)[i][2]
    <3> HIDE DEF out
    <3> QED BY <2>1 DEF Kids, DictItems
  <2>4. \A i \in DOMAIN value.items : Kids(out)[i] =
           IF value.items[i][1] = "credential_ref" THEN Str(Kids(value)[i])
           ELSE IF value.items[i][1] \in Hidden THEN Redacted
           ELSE Redact[Kids(value)[i]]
    <3> HIDE DEF out
    <3> QED BY <2>2, <2>3 DEF DictItems
  <2> HIDE DEF out
  <2> QED BY <1>3, <2>1, <2>2, <2>3, <2>4 DEF out
<1>4. CASE value.t \notin {"dict", "list"}
  <2>1. out = value
    BY <1>1, <1>4 DEF RedactBody
  <2>2. Kids(value) = << >>
    BY <1>4, KidsFacts
  <2> QED BY <1>4, <2>1, <2>2
<1> QED BY <1>2, <1>3, <1>4

\* No sensitive key keeps its value.
THEOREM RedactHides ==
  ASSUME NEW value \in Value, Redact[value] \in Value,
         NEW p \in Positions, p # << >>, Has(Redact[value], p),
         KeyAt(Redact[value], p) \in Hidden
  PROVE  Node[Redact[value]][p] = Redacted
<1> DEFINE Clean(out) == \A q \in Positions :
             q # << >> /\ Has(out, q) /\ KeyAt(out, q) \in Hidden => Node[out][q] = Redacted
           S == {v \in Value : Redact[v] \in Value => Clean(Redact[v])}
<1>0. "none" \notin Hidden /\ "credential_ref" \notin Hidden
  BY DEF Hidden
<1>1. ASSUME NEW v \in Value, \A u \in Value : Depth[u] < Depth[v] => u \in S
      PROVE  v \in S
  <2> SUFFICES ASSUME Redact[v] \in Value,
                      NEW q \in Positions, q # << >>, Has(Redact[v], q),
                      KeyAt(Redact[v], q) \in Hidden
               PROVE  Node[Redact[v]][q] = Redacted
    OBVIOUS
  <2> DEFINE out == Redact[v]
             i == Head(q)
             kid == Kids(v)[i]
             copy == Kids(out)[i]
  <2>1. i \in DOMAIN Kids(out) /\ Has(copy, Tail(q)) /\ Tail(q) \in Positions
    BY HasFacts, TailPosition
  <2>2. copy \in Value /\ Node[out][q] = Node[copy][Tail(q)]
    BY <2>1, KidsFacts, NodeFacts
  <2>3. i \in DOMAIN Kids(v) /\ kid \in Value /\ Depth[kid] < Depth[v] /\ out.t = v.t
    <3>1. DOMAIN Kids(out) = DOMAIN Kids(v) /\ out.t = v.t
      BY RedactFacts
    <3> QED BY <2>1, <3>1, KidsFacts
  <2>4. v.t \in {"dict", "list"}
    BY <2>3, RedactFacts
  <2>5. v.t = "dict" => /\ out.items[i][1] = v.items[i][1]
                        /\ copy = IF v.items[i][1] = "credential_ref" THEN Str(kid)
                                  ELSE IF v.items[i][1] \in Hidden THEN Redacted
                                  ELSE Redact[kid]
    BY <2>3, RedactFacts
  <2>6. v.t = "list" => copy = Redact[kid]
    BY <2>3, RedactFacts
  <2>7. /\ Len(q) = 1 => KeyAt(out, q) = IF out.t = "dict" THEN out.items[i][1] ELSE "none"
        /\ Len(q) # 1 => KeyAt(out, q) = KeyAt(copy, Tail(q))
    BY <2>1, KeyFacts
  <2>8. Len(q) = 1 <=> Tail(q) = << >>
    BY RestFacts
  <2>9. CASE Len(q) = 1
    <3>1. v.t = "dict" /\ v.items[i][1] \in Hidden
      <4> HIDE DEF out, i
      <4> QED BY <1>0, <2>3, <2>5, <2>7, <2>9 DEF out
    <3>2. copy = Redacted
      BY <1>0, <2>5, <3>1
    <3>3. Node[copy][<< >>] = copy
      BY <2>1, <2>2, <2>8, <2>9, NodeFacts
    <3> QED BY <2>2, <2>8, <2>9, <3>2, <3>3
  <2>10. CASE Len(q) # 1
    <3>1. Tail(q) # << >> /\ KeyAt(copy, Tail(q)) \in Hidden
      BY <2>7, <2>8, <2>10
    <3>2. Kids(copy) # << >>
      <4>1. Head(Tail(q)) \in DOMAIN Kids(copy)
        BY <2>1, <2>2, <3>1, HasFacts
      <4> QED BY <4>1
    <3>3. copy # Redacted /\ copy # Str(kid)
      <4>1. \A w : w.t \notin {"dict", "list"} => Kids(w) = << >>
        BY DEF Kids
      <4>2. Redacted.t = "leaf" /\ Str(kid).t = "str"
        BY DEF Redacted, Leaf, Str
      <4> HIDE DEF copy, kid
      <4> QED BY <3>2, <4>1, <4>2
    <3>4. copy = Redact[kid]
      <4> HIDE DEF copy, kid, i, out
      <4> QED BY <2>4, <2>5, <2>6, <3>3
    <3>5. Clean(Redact[kid])
      <4>1. kid \in S
        BY <1>1, <2>3
      <4> QED BY <2>2, <3>4, <4>1
    <3> HIDE DEF copy, kid
    <3> QED BY <2>1, <2>2, <3>1, <3>4, <3>5
  <2> QED BY <2>9, <2>10
<1>2. \A v \in Value : v \in S
  <2> HIDE DEF S
  <2> QED BY <1>1, ValueInduction
<1>3. Clean(Redact[value])
  BY <1>2
<1> QED BY <1>3

\* The first steps of a position.
LEMMA PrefixFacts ==
  ASSUME NEW pos \in Positions, pos # << >>, NEW n \in 1..Len(pos)
  PROVE  LET first == SubSeq(pos, 1, n) IN
         /\ first \in Positions /\ first # << >> /\ Len(first) = n
         /\ Head(first) = Head(pos)
         /\ n > 1 => Tail(first) = SubSeq(Tail(pos), 1, n - 1)
<1> DEFINE first == SubSeq(pos, 1, n)
           rest == Tail(pos)
<1>1. /\ pos \in Seq(Slots) /\ Len(pos) <= MaxDepth /\ Len(pos) \in Nat \ {0}
      /\ MaxDepth \in Nat /\ n \in Nat /\ n >= 1 /\ n <= Len(pos) /\ Head(pos) = pos[1]
  BY PositionFacts, TailPosition, DepthAssumption DEF DepthAssumption
<1>2. /\ rest \in Seq(Slots) /\ Len(rest) = Len(pos) - 1
      /\ \A m \in 1..(Len(pos) - 1) : rest[m] = pos[m + 1]
  BY PositionFacts, TailPosition
<1>3. first \in Seq(Slots) /\ Len(first) = n /\ \A m \in 1..n : first[m] = pos[m]
  <2>1. \A m \in 1..n : pos[m] \in Slots
    BY <1>1
  <2>2. /\ SubSeq(pos, 1, n) \in Seq(Slots)
        /\ Len(SubSeq(pos, 1, n)) = IF 1 <= n THEN n - 1 + 1 ELSE 0
        /\ \A m \in 1..(n - 1 + 1) : SubSeq(pos, 1, n)[m] = pos[1 + m - 1]
    BY <1>1, <2>1, SubSeqProperties
  <2> QED BY <1>1, <2>2
<1> HIDE DEF first, rest
<1>4. Len(first) <= MaxDepth
  BY <1>1, <1>3
<1>5. first \in Positions
  BY <1>3, <1>4, PositionFacts
<1>6. first # << >> /\ Head(first) = Head(pos)
  <2>1. first # << >>
    BY <1>1, <1>3
  <2>2. Head(first) = first[1]
    BY <1>5, <2>1, TailPosition
  <2> QED BY <1>1, <1>3, <2>1, <2>2
<1>7. ASSUME n > 1 PROVE Tail(first) = SubSeq(rest, 1, n - 1)
  <2>1. /\ Tail(first) \in Seq(Slots) /\ Len(Tail(first)) = n - 1
        /\ \A m \in 1..(n - 1) : Tail(first)[m] = first[m + 1]
    <3>1. Tail(first) \in Positions
      BY <1>5, <1>6, TailPosition
    <3>2. Tail(first) \in Seq(Slots)
      BY <3>1, PositionFacts
    <3> QED BY <1>3, <1>5, <1>6, <3>2, TailPosition
  <2> DEFINE k == n - 1
             short == SubSeq(rest, 1, k)
  <2>2. k \in Nat /\ k >= 1 /\ k <= Len(rest) /\ k + 1 = n
    BY <1>1, <1>2, <1>7
  <2>3. \A m \in 1..k : rest[m] \in Slots
    <3> HIDE DEF k
    <3> QED BY <1>2, <2>2
  <2>4. short \in Seq(Slots) /\ Len(short) = k /\ \A m \in 1..k : short[m] = rest[m]
    <3> HIDE DEF k
    <3>1. /\ SubSeq(rest, 1, k) \in Seq(Slots)
          /\ Len(SubSeq(rest, 1, k)) = IF 1 <= k THEN k - 1 + 1 ELSE 0
          /\ \A m \in 1..(k - 1 + 1) : SubSeq(rest, 1, k)[m] = rest[1 + m - 1]
      BY <2>2, <2>3, SubSeqProperties
    <3> QED BY <2>2, <3>1
  <2>5. ASSUME NEW m \in 1..k PROVE Tail(first)[m] = short[m]
    <3>1. m + 1 \in 1..n /\ m \in 1..(Len(pos) - 1) /\ m \in 1..(n - 1)
      BY <1>1, <1>2, <2>2
    <3> HIDE DEF short, k
    <3> QED BY <1>2, <1>3, <2>1, <2>4, <3>1
  <2>6. Len(Tail(first)) = k
    BY <2>1
  <2>7. Tail(first) = short
    <3> DEFINE left == Tail(first)
    <3>1. left \in Seq(Slots) /\ Len(left) = Len(short) /\ short \in Seq(Slots)
      BY <2>1, <2>4, <2>6
    <3>2. \A m \in 1..Len(short) : left[m] = short[m]
      BY <2>4, <2>5
    <3> HIDE DEF left, short
    <3>3. left = short
      BY <3>1, <3>2
    <3> QED BY <3>3 DEF left
  <2> QED BY <2>7
<1> QED BY <1>3, <1>5, <1>6, <1>7 DEF first, rest

\* A position with no hidden key and no credential_ref above it.
Open(value, p) ==
  \A n \in 1..Len(p) : KeyAt(value, SubSeq(p, 1, n)) \notin Hidden \cup {"credential_ref"}

\* Below an open position is one.
LEMMA OpenBelow ==
  ASSUME NEW value \in Value, NEW p \in Positions, p # << >>,
         Head(p) \in DOMAIN Kids(value), Open(value, p)
  PROVE  /\ value.t = "dict" =>
              value.items[Head(p)][1] \notin Hidden \cup {"credential_ref"}
         /\ Open(Kids(value)[Head(p)], Tail(p))
<1>1. Len(p) \in Nat \ {0} /\ Len(Tail(p)) = Len(p) - 1
  BY TailPosition
<1>2. value.t = "dict" => value.items[Head(p)][1] \notin Hidden \cup {"credential_ref"}
  <2> DEFINE first == SubSeq(p, 1, 1)
  <2>1. 1 \in 1..Len(p)
    BY <1>1
  <2>2. first \in Positions /\ first # << >> /\ Len(first) = 1 /\ Head(first) = Head(p)
    BY <2>1, PrefixFacts
  <2>3. KeyAt(value, first) \notin Hidden \cup {"credential_ref"}
    BY <2>1 DEF Open
  <2> HIDE DEF first
  <2>4. KeyAt(value, first) = IF value.t = "dict" THEN value.items[Head(first)][1] ELSE "none"
    BY <2>2, KeyFacts
  <2> QED BY <2>2, <2>3, <2>4
<1>3. ASSUME NEW n \in 1..Len(Tail(p))
      PROVE  KeyAt(Kids(value)[Head(p)], SubSeq(Tail(p), 1, n))
               \notin Hidden \cup {"credential_ref"}
  <2> DEFINE first == SubSeq(p, 1, n + 1)
  <2>1. n + 1 \in 1..Len(p) /\ n + 1 > 1 /\ (n + 1) - 1 = n /\ n + 1 # 1
    BY <1>1
  <2>2. /\ first \in Positions /\ first # << >> /\ Len(first) = n + 1
        /\ Head(first) = Head(p) /\ Tail(first) = SubSeq(Tail(p), 1, n)
    BY <2>1, PrefixFacts
  <2>3. KeyAt(value, first) \notin Hidden \cup {"credential_ref"}
    BY <2>1 DEF Open
  <2> HIDE DEF first
  <2>4. KeyAt(value, first) = KeyAt(Kids(value)[Head(first)], Tail(first))
    BY <2>1, <2>2, KeyFacts
  <2> QED BY <2>2, <2>3, <2>4
<1> QED BY <1>2, <1>3 DEF Open

\* What is open keeps its shape.
LEMMA RedactKeeps ==
  ASSUME NEW value \in Value, Redact[value] \in Value,
         NEW p \in Positions, Has(value, p), Open(value, p)
  PROVE  Has(Redact[value], p) /\ Node[Redact[value]][p].t = Node[value][p].t
<1> DEFINE Same(v, out) == \A q \in Positions :
             Has(v, q) /\ Open(v, q) => Has(out, q) /\ Node[out][q].t = Node[v][q].t
           S == {v \in Value : Redact[v] \in Value => Same(v, Redact[v])}
<1>1. ASSUME NEW v \in Value, \A u \in Value : Depth[u] < Depth[v] => u \in S
      PROVE  v \in S
  <2> SUFFICES ASSUME Redact[v] \in Value,
                      NEW q \in Positions, Has(v, q), Open(v, q)
               PROVE  Has(Redact[v], q) /\ Node[Redact[v]][q].t = Node[v][q].t
    OBVIOUS
  <2> DEFINE out == Redact[v]
             i == Head(q)
             kid == Kids(v)[i]
             copy == Kids(out)[i]
  <2>1. out.t = v.t /\ DOMAIN Kids(out) = DOMAIN Kids(v)
    BY RedactFacts
  <2>2. CASE q = << >>
    <3>1. Node[out][q] = out /\ Node[v][q] = v /\ Has(out, q)
      BY <2>2, NodeFacts, HasFacts
    <3> QED BY <2>1, <3>1
  <2>3. CASE q # << >>
    <3>1. i \in DOMAIN Kids(v) /\ Has(kid, Tail(q)) /\ Tail(q) \in Positions
      BY <2>3, HasFacts, TailPosition
    <3>2. kid \in Value /\ Depth[kid] < Depth[v] /\ copy \in Value
      BY <2>1, <3>1, KidsFacts
    <3>3. /\ v.t = "dict" => v.items[i][1] \notin Hidden \cup {"credential_ref"}
          /\ Open(kid, Tail(q))
      BY <2>3, <3>1, OpenBelow
    <3>4. copy = Redact[kid]
      <4>1. v.t \in {"dict", "list"}
        BY <3>1, RedactFacts
      <4>2. v.t = "list" => copy = Redact[kid]
        BY <3>1, RedactFacts
      <4>3. v.t = "dict" =>
              copy = IF v.items[i][1] = "credential_ref" THEN Str(kid)
                     ELSE IF v.items[i][1] \in Hidden THEN Redacted
                     ELSE Redact[kid]
        BY <3>1, RedactFacts
      <4> HIDE DEF copy, kid, i, out
      <4> QED BY <3>3, <4>1, <4>2, <4>3
    <3>5. Has(copy, Tail(q)) /\ Node[copy][Tail(q)].t = Node[kid][Tail(q)].t
      <4>1. Same(kid, Redact[kid])
        <5>1. kid \in S
          BY <1>1, <3>2
        <5> QED BY <3>2, <3>4, <5>1
      <4> HIDE DEF copy, kid
      <4> QED BY <3>1, <3>3, <3>4, <4>1
    <3>6. Has(out, q)
      BY <2>1, <2>3, <3>1, <3>5, HasFacts
    <3>7. Node[out][q] = Node[copy][Tail(q)] /\ Node[v][q] = Node[kid][Tail(q)]
      BY <2>1, <2>3, <3>1, NodeFacts
    <3> HIDE DEF out, copy, kid
    <3> QED BY <3>5, <3>6, <3>7 DEF out
  <2> QED BY <2>2, <2>3
<1>2. \A v \in Value : v \in S
  <2> HIDE DEF S
  <2> QED BY <1>1, ValueInduction
<1>3. Same(value, Redact[value])
  BY <1>2
<1> QED BY <1>3

=============================================================================

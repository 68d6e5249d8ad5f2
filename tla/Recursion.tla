------------------------------ MODULE Recursion ------------------------------
(***************************************************************************)
(* Recursive functions: when the equation that defines one has a solution. *)
(* A module that proves about such a function takes an instance of this    *)
(* one, with the body of the function for Body.                            *)
(***************************************************************************)
EXTENDS Integers, FiniteSets, FiniteSetTheorems, Functions, TLAPS

CONSTANTS
  Domain,        \* the arguments
  Rank,          \* a number for each, smaller in the calls the body makes
  Body(_, _)     \* the body, of the function itself and an argument

\* The value at an argument is made of the values at arguments of lower rank.
Grounded ==
  /\ Rank \in [Domain -> Nat]
  /\ \A x \in Domain : \A g, h :
       (\A y \in Domain : Rank[y] < Rank[x] => g[y] = h[y]) => Body(g, x) = Body(h, x)

\* How many elements of a set of numbers are less than a number.
Fewer(S, d) == Cardinality({e \in S : e < d})

\* Each element of a finite set has another number of smaller ones, less than the
\* size of the set: every such number is taken.
LEMMA FewerOnto ==
  ASSUME NEW S \in SUBSET Nat, IsFiniteSet(S), NEW i \in 0..(Cardinality(S) - 1)
  PROVE  \E d \in S : Fewer(S, d) = i
<1> DEFINE Low(d) == {e \in S : e < d}
           rank == [d \in S |-> Fewer(S, d)]
           N == 0..(Cardinality(S) - 1)
<1>0. \A d \in S : d \in Nat
  OBVIOUS
<1>1. ASSUME NEW d \in S
      PROVE  IsFiniteSet(Low(d)) /\ Fewer(S, d) \in Nat /\ Fewer(S, d) < Cardinality(S)
  <2>1. Low(d) \in SUBSET S /\ Low(d) # S
    OBVIOUS
  <2>2. Fewer(S, d) = Cardinality(Low(d))
    BY DEF Fewer
  <2> HIDE DEF Low
  <2>3. IsFiniteSet(Low(d)) /\ Cardinality(Low(d)) <= Cardinality(S)
        /\ (Cardinality(S) = Cardinality(Low(d)) => S = Low(d))
    BY <2>1, FS_Subset
  <2>4. Cardinality(Low(d)) \in Nat /\ Cardinality(S) \in Nat
    BY <2>3, FS_CardinalityType
  <2> QED BY <2>1, <2>2, <2>3, <2>4
<1>2. ASSUME NEW d \in S, NEW e \in S, d < e PROVE Fewer(S, d) < Fewer(S, e)
  <2>1. Low(d) \in SUBSET Low(e) /\ Low(d) # Low(e)
    <3>1. d \in Low(e) /\ d \notin Low(d)
      BY <1>0, <1>2
    <3>2. \A c \in Low(d) : c \in Low(e)
      BY <1>0, <1>2
    <3> QED BY <3>1, <3>2
  <2>2. Fewer(S, d) = Cardinality(Low(d)) /\ Fewer(S, e) = Cardinality(Low(e))
    BY DEF Fewer
  <2> HIDE DEF Low
  <2>3. Cardinality(Low(d)) <= Cardinality(Low(e))
        /\ (Cardinality(Low(e)) = Cardinality(Low(d)) => Low(e) = Low(d))
    BY <1>1, <2>1, FS_Subset
  <2>4. Fewer(S, d) \in Nat /\ Fewer(S, e) \in Nat
    BY <1>1
  <2> QED BY <2>1, <2>2, <2>3, <2>4
<1>3. Cardinality(S) \in Nat
  BY FS_CardinalityType
<1>4. IsFiniteSet(N) /\ Cardinality(N) = Cardinality(S)
  BY <1>3, FS_Interval
<1>5. rank \in [S -> N]
  <2>1. ASSUME NEW d \in S PROVE Fewer(S, d) \in N
    <3>1. Fewer(S, d) \in Nat /\ Fewer(S, d) < Cardinality(S)
      BY <1>1
    <3> QED BY <1>3, <3>1
  <2> HIDE DEF N
  <2> QED BY <2>1
<1>6. ASSUME NEW d \in S, NEW e \in S, rank[d] = rank[e] PROVE d = e
  <2>1. rank[d] = Fewer(S, d) /\ rank[e] = Fewer(S, e)
    OBVIOUS
  <2>2. Fewer(S, d) \in Nat /\ Fewer(S, e) \in Nat
    BY <1>1
  <2>3. Fewer(S, d) = Fewer(S, e)
    BY <1>6, <2>1
  <2>4. ASSUME d < e \/ e < d PROVE FALSE
    <3>1. Fewer(S, d) < Fewer(S, e) \/ Fewer(S, e) < Fewer(S, d)
      BY <1>2, <2>4
    <3> QED BY <2>2, <2>3, <3>1
  <2>5. d \in Nat /\ e \in Nat
    BY <1>0
  <2> QED BY <2>4, <2>5
<1>7. rank \in Surjection(S, N)
  <2> HIDE DEF rank, N
  <2>1. rank \in Injection(S, N)
    BY <1>5, <1>6 DEF Injection, IsInjective
  <2> QED BY <1>4, <2>1, FS_Injection
<1>8. PICK d \in S : rank[d] = i
  <2> HIDE DEF rank
  <2> QED BY <1>7 DEF Surjection
<1> QED BY <1>8

\* A set of numbers has a least one.
LEMMA LeastNumber ==
  ASSUME NEW S \in SUBSET Nat, S # {}
  PROVE  \E n \in S : \A m \in S : n <= m
<1>1. PICK k \in S : k \in Nat
  OBVIOUS
<1> DEFINE T == {m \in S : m <= k}
           Low(d) == {e \in T : e < d}
<1>2. IsFiniteSet(T)
  <2>1. IsFiniteSet(0..k)
    BY <1>1, FS_Interval
  <2>2. T \in SUBSET (0..k)
    <3>1. \A m \in T : m \in Nat /\ m <= k
      OBVIOUS
    <3> HIDE DEF T
    <3> QED BY <1>1, <3>1
  <2> HIDE DEF T
  <2> QED BY <2>1, <2>2, FS_Subset
<1>3. T \in SUBSET Nat /\ k \in T
  <2>1. k <= k
    BY <1>1
  <2> QED BY <2>1
<1>4. PICK n \in T : Fewer(T, n) = 0
  <2> HIDE DEF T
  <2>1. Cardinality(T) \in Nat /\ Cardinality(T) # 0
    BY <1>2, <1>3, FS_CardinalityType, FS_EmptySet
  <2> QED BY <1>2, <1>3, <2>1, FewerOnto
<1>5. Low(n) = {}
  <2>1. Low(n) \in SUBSET T /\ Cardinality(Low(n)) = 0
    BY <1>4 DEF Fewer
  <2> HIDE DEF T, Low
  <2>2. IsFiniteSet(Low(n))
    BY <1>2, <2>1, FS_Subset
  <2> QED BY <2>1, <2>2, FS_EmptySet
<1>6. ASSUME NEW m \in S PROVE n <= m
  BY <1>1, <1>3, <1>5
<1> QED BY <1>6

\* A set that 0 is in and that n + 1 is in with n holds every number.
LEMMA Induction ==
  ASSUME NEW S, 0 \in S, \A n \in Nat : n \in S => n + 1 \in S
  PROVE  \A n \in Nat : n \in S
<1> SUFFICES ASSUME Nat \ S # {} PROVE FALSE
  OBVIOUS
<1>1. PICK n \in Nat \ S : \A m \in Nat \ S : n <= m
  BY LeastNumber
<1>2. n # 0 /\ n - 1 \in Nat /\ n - 1 \in S
  BY <1>1
<1> QED BY <1>1, <1>2

\* What solves the equation below some rank.
Solves(g, n) == \A x \in Domain : Rank[x] < n => g[x] = Body(g, x)

\* Two solutions agree.
LEMMA Unique ==
  ASSUME Grounded, NEW g, NEW h, NEW n \in Nat, Solves(g, n), Solves(h, n),
         NEW x \in Domain, Rank[x] < n
  PROVE  g[x] = h[x]
<1> DEFINE T == {Rank[y] : y \in {z \in Domain : Rank[z] < n /\ g[z] # h[z]}}
<1> SUFFICES ASSUME T # {} PROVE FALSE
  OBVIOUS
<1>1. T \in SUBSET Nat
  BY DEF Grounded
<1>2. PICK r \in T : \A m \in T : r <= m
  <2> HIDE DEF T
  <2> QED BY <1>1, LeastNumber
<1>3. PICK y \in Domain : Rank[y] = r /\ Rank[y] < n /\ g[y] # h[y]
  OBVIOUS
<1>4. ASSUME NEW z \in Domain, Rank[z] < Rank[y] PROVE g[z] = h[z]
  <2>1. Rank[z] \in Nat /\ Rank[y] \in Nat
    BY DEF Grounded
  <2>2. Rank[z] \notin T
    BY <1>2, <1>3, <1>4, <2>1
  <2> QED BY <1>3, <1>4, <2>1, <2>2
<1>5. Body(g, y) = Body(h, y)
  BY <1>4 DEF Grounded
<1> QED BY <1>3, <1>5 DEF Solves

\* Below every rank there is one.
LEMMA Partial ==
  ASSUME Grounded
  PROVE  \A n \in Nat : \E g : Solves(g, n)
<1> DEFINE S == {n \in Nat : \E g : Solves(g, n)}
<1>1. 0 \in S
  BY DEF Solves, Grounded
<1>2. ASSUME NEW n \in Nat, n \in S PROVE n + 1 \in S
  <2>1. PICK g : Solves(g, n)
    BY <1>2
  <2> DEFINE h == [x \in Domain |-> Body(g, x)]
  <2>2. ASSUME NEW x \in Domain, Rank[x] < n + 1 PROVE h[x] = Body(h, x)
    <3>1. ASSUME NEW y \in Domain, Rank[y] < Rank[x] PROVE g[y] = h[y]
      BY <2>1, <2>2, <3>1 DEF Solves, Grounded
    <3>2. Body(g, x) = Body(h, x)
      <4> HIDE DEF h
      <4> QED BY <3>1 DEF Grounded
    <3> QED BY <3>2
  <2>3. Solves(h, n + 1)
    <3> HIDE DEF h
    <3> QED BY <2>2 DEF Solves
  <2> QED BY <2>3
<1>3. \A n \in Nat : n \in S
  <2> HIDE DEF S
  <2> QED BY <1>1, <1>2, Induction
<1> QED BY <1>3

\* The equation of a grounded body has a solution, hence the function the
\* definition chooses is one.
LEMMA RecursiveFunction ==
  Grounded => \E f : f = [x \in Domain |-> Body(f, x)]
<1> SUFFICES ASSUME Grounded PROVE \E f : f = [x \in Domain |-> Body(f, x)]
  OBVIOUS
<1> DEFINE Below(n) == CHOOSE g : Solves(g, n)
           f == [x \in Domain |-> Below(Rank[x] + 1)[x]]
<1>1. ASSUME NEW n \in Nat PROVE Solves(Below(n), n)
  BY Partial
<1>2. ASSUME NEW x \in Domain PROVE f[x] = Body(f, x)
  <2> DEFINE g == Below(Rank[x] + 1)
  <2>1. Rank[x] \in Nat /\ Solves(g, Rank[x] + 1)
    BY <1>1 DEF Grounded
  <2>2. ASSUME NEW y \in Domain, Rank[y] < Rank[x] PROVE g[y] = f[y]
    <3>1. Rank[y] \in Nat /\ Solves(Below(Rank[y] + 1), Rank[y] + 1)
      BY <1>1 DEF Grounded
    <3>2. Solves(g, Rank[y] + 1)
      BY <2>1, <2>2, <3>1 DEF Solves, Grounded
    <3>3. f[y] = Below(Rank[y] + 1)[y]
      OBVIOUS
    <3> HIDE DEF f, g, Below
    <3> QED BY <3>1, <3>2, <3>3, Unique
  <2>3. f[x] = g[x]
    OBVIOUS
  <2> HIDE DEF f, g, Below
  <2>4. Body(g, x) = Body(f, x)
    BY <2>2 DEF Grounded
  <2> QED BY <2>1, <2>3, <2>4 DEF Solves
<1>3. f = [x \in Domain |-> f[x]]
  OBVIOUS
<1> HIDE DEF f
<1> QED BY <1>2, <1>3
=============================================================================

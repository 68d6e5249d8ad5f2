------------------------- MODULE TaskConsumerProofs -------------------------
(***************************************************************************)
(* TaskConsumer holds no delivery twice and implements DeliveryQueue, for  *)
(* every number of channels and deliveries, every claim_count and any      *)
(* choice of times.                                                        *)
(***************************************************************************)
EXTENDS TaskConsumer, FiniteSetTheorems, TLAPS

-----------------------------------------------------------------------------
(* The order in which XAUTOCLAIM goes through the entries.                 *)

\* An entry has more entries before it than an older one has.
LEMMA LaterHasMore ==
  ASSUME NEW S \in SUBSET Nat, IsFiniteSet(S), NEW d \in S, NEW e \in S, d < e
  PROVE  /\ Cardinality(Before(S, d)) \in Nat /\ Cardinality(Before(S, e)) \in Nat
         /\ Cardinality(Before(S, d)) < Cardinality(Before(S, e))
<1>1. Before(S, e) \in SUBSET S /\ Before(S, d) \in SUBSET Before(S, e)
  <2>1. ASSUME NEW x \in S, x < d PROVE x < e
    <3>1. x \in Nat /\ d \in Nat /\ e \in Nat
      OBVIOUS
    <3> QED BY <2>1, <3>1
  <2> QED BY <2>1 DEF Before
<1>2. IsFiniteSet(Before(S, e))
  BY <1>1, FS_Subset
<1>3. /\ IsFiniteSet(Before(S, d))
      /\ Cardinality(Before(S, d)) <= Cardinality(Before(S, e))
      /\ Cardinality(Before(S, e)) = Cardinality(Before(S, d))
           => Before(S, e) = Before(S, d)
  BY <1>1, <1>2, FS_Subset
<1>4. d \in Before(S, e) /\ d \notin Before(S, d)
  BY DEF Before
<1>5. Cardinality(Before(S, d)) \in Nat /\ Cardinality(Before(S, e)) \in Nat
  BY <1>2, <1>3, FS_CardinalityType
<1> QED BY <1>3, <1>4, <1>5

\* The position of an entry among those of a finite set.
Rank(S) == [d \in S |-> Cardinality(Before(S, d)) + 1]

\* Each entry has a position of its own, and each position an entry.
LEMMA RankBijective ==
  ASSUME NEW S \in SUBSET Nat, IsFiniteSet(S)
  PROVE  /\ Cardinality(S) \in Nat
         /\ \A d, e \in S : d < e <=> Rank(S)[d] < Rank(S)[e]
         /\ Rank(S) \in [S -> 1..Cardinality(S)]
         /\ \A i \in 1..Cardinality(S) : \E d \in S : Rank(S)[d] = i
<1>1. Cardinality(S) \in Nat
  BY FS_CardinalityType
<1>2. ASSUME NEW d \in S
      PROVE  Cardinality(Before(S, d)) \in Nat /\ Cardinality(Before(S, d)) < Cardinality(S)
  <2>1. Before(S, d) \in SUBSET S /\ d \notin Before(S, d)
    BY DEF Before
  <2>2. /\ IsFiniteSet(Before(S, d))
        /\ Cardinality(Before(S, d)) <= Cardinality(S)
        /\ Cardinality(S) = Cardinality(Before(S, d)) => S = Before(S, d)
    BY <2>1, FS_Subset
  <2>3. Cardinality(Before(S, d)) \in Nat
    BY <2>2, FS_CardinalityType
  <2> QED BY <1>1, <2>1, <2>2, <2>3
<1>3. Rank(S) \in [S -> 1..Cardinality(S)]
  BY <1>1, <1>2 DEF Rank
<1>4. ASSUME NEW d \in S, NEW e \in S, d < e PROVE Rank(S)[d] < Rank(S)[e]
  BY <1>4, LaterHasMore DEF Rank
<1>5. ASSUME NEW d \in S, NEW e \in S PROVE d < e <=> Rank(S)[d] < Rank(S)[e]
  <2>1. d < e \/ d = e \/ e < d
    OBVIOUS
  <2>2. Rank(S)[d] \in Nat /\ Rank(S)[e] \in Nat
    BY <1>1, <1>3
  <2> QED BY <1>4, <2>1, <2>2
<1>6. Rank(S) \in Injection(S, 1..Cardinality(S))
  <2>1. ASSUME NEW d \in S, NEW e \in S, Rank(S)[d] = Rank(S)[e] PROVE d = e
    BY <1>1, <1>3, <1>5, <2>1
  <2> QED BY <1>3, <2>1 DEF Injection, IsInjective
<1>7. IsFiniteSet(1..Cardinality(S)) /\ Cardinality(1..Cardinality(S)) = Cardinality(S)
  BY <1>1, FS_Interval
<1>8. Rank(S) \in Surjection(S, 1..Cardinality(S))
  BY <1>6, <1>7, FS_Injection
<1> QED BY <1>1, <1>3, <1>5, <1>8 DEF Surjection

\* A page lists the entries of a set in their order.
LEMMA InOrderFacts ==
  ASSUME NEW S \in SUBSET Nat, IsFiniteSet(S)
  PROVE  /\ InOrder(S) \in Seq(S) /\ IsInjective(InOrder(S))
         /\ Range(InOrder(S)) \subseteq S
<1> DEFINE n == Cardinality(S)
           Increasing(s) == \A i, j \in 1..n : i < j => s[i] < s[j]
           s0 == [i \in 1..n |-> CHOOSE d \in S : Rank(S)[d] = i]
<1>1. ASSUME NEW i \in 1..n PROVE s0[i] \in S /\ Rank(S)[s0[i]] = i
  BY RankBijective
<1>2. s0 \in [1..n -> S]
  BY <1>1
<1>3. Increasing(s0)
  <2>1. ASSUME NEW i \in 1..n, NEW j \in 1..n, i < j PROVE s0[i] < s0[j]
    <3>1. s0[i] \in S /\ s0[j] \in S /\ Rank(S)[s0[i]] = i /\ Rank(S)[s0[j]] = j
      BY <1>1
    <3>2. \A d, e \in S : d < e <=> Rank(S)[d] < Rank(S)[e]
      BY RankBijective
    <3>3. s0[i] < s0[j] <=> Rank(S)[s0[i]] < Rank(S)[s0[j]]
      <4> HIDE DEF s0
      <4> QED BY <3>1, <3>2
    <3> HIDE DEF s0, n
    <3> QED BY <2>1, <3>1, <3>3
  <2> QED BY <2>1
<1>4. InOrder(S) \in [1..n -> S] /\ Increasing(InOrder(S))
  <2> HIDE DEF s0
  <2> QED BY <1>2, <1>3 DEF InOrder
<1>5. n \in Nat
  BY FS_CardinalityType
<1> HIDE DEF n
<1>6. InOrder(S) \in Seq(S) /\ DOMAIN InOrder(S) = 1..n
  BY <1>4, <1>5
<1>7. ASSUME NEW i \in 1..n, NEW j \in 1..n, InOrder(S)[i] = InOrder(S)[j] PROVE i = j
  <2>1. InOrder(S)[i] \in Nat /\ InOrder(S)[j] \in Nat
    BY <1>4
  <2> QED BY <1>4, <1>5, <1>7, <2>1
<1> QED BY <1>4, <1>6, <1>7 DEF IsInjective, Range

\* Some entry is the oldest.
LEMMA Oldest ==
  ASSUME NEW S \in SUBSET Nat, IsFiniteSet(S), S # {}
  PROVE  \E d \in S : Before(S, d) = {}
<1>1. Cardinality(S) \in Nat /\ Cardinality(S) # 0
  BY FS_CardinalityType, FS_EmptySet
<1>2. PICK d \in S : Rank(S)[d] = 1
  BY <1>1, RankBijective
<1>3. Before(S, d) \in SUBSET S
  BY DEF Before
<1>4. IsFiniteSet(Before(S, d))
  BY <1>3, FS_Subset
<1>5. Cardinality(Before(S, d)) = 0
  <2>1. Cardinality(Before(S, d)) \in Nat
    BY <1>4, FS_CardinalityType
  <2> QED BY <1>2, <2>1 DEF Rank
<1> QED BY <1>4, <1>5, FS_EmptySet

-----------------------------------------------------------------------------
(* Pages, channels and clocks.                                             *)

\* Contains and Range say the same of a sequence.
LEMMA ContainsIsInRange ==
  ASSUME NEW S, NEW s \in Seq(S), NEW e
  PROVE  Contains(s, e) <=> e \in Range(s)
BY DEF Contains, Range

\* popleft takes the head out of the page, and nothing else.
LEMMA TailFacts ==
  ASSUME NEW S, NEW s \in Seq(S), s # << >>, IsInjective(s)
  PROVE  /\ Tail(s) \in Seq(S) /\ IsInjective(Tail(s))
         /\ Head(s) \in Range(s) /\ Head(s) \in S
         /\ Range(Tail(s)) = Range(s) \ {Head(s)}
<1>1. Len(s) \in Nat /\ Len(s) # 0 /\ DOMAIN s = 1..Len(s) /\ Head(s) = s[1]
  OBVIOUS
<1>2. /\ Tail(s) \in Seq(S) /\ Len(Tail(s)) = Len(s) - 1
      /\ DOMAIN Tail(s) = 1..(Len(s) - 1)
      /\ \A i \in 1..(Len(s) - 1) : Tail(s)[i] = s[i + 1]
  OBVIOUS
<1>3. \A i, j \in 1..Len(s) : s[i] = s[j] => i = j
  BY <1>1 DEF IsInjective
<1>4. IsInjective(Tail(s))
  <2>1. ASSUME NEW i \in 1..(Len(s) - 1), NEW j \in 1..(Len(s) - 1),
               Tail(s)[i] = Tail(s)[j]
        PROVE  i = j
    BY <1>1, <1>2, <1>3, <2>1
  <2> QED BY <1>2, <2>1 DEF IsInjective
<1>5. ASSUME NEW x \in Range(Tail(s)) PROVE x \in Range(s) \ {Head(s)}
  <2>1. PICK i \in 1..(Len(s) - 1) : x = Tail(s)[i]
    BY <1>2 DEF Range
  <2>2. x = s[i + 1] /\ i + 1 \in 1..Len(s) /\ 1 \in 1..Len(s) /\ i + 1 # 1
    BY <1>1, <1>2, <2>1
  <2> QED BY <1>1, <1>3, <2>2 DEF Range
<1>6. ASSUME NEW x \in Range(s) \ {Head(s)} PROVE x \in Range(Tail(s))
  <2>1. PICK i \in 1..Len(s) : x = s[i]
    BY <1>1 DEF Range
  <2>2. i # 1
    BY <1>1, <2>1
  <2>3. i - 1 \in 1..(Len(s) - 1) /\ Tail(s)[i - 1] = s[i]
    BY <1>1, <1>2, <2>2
  <2> QED BY <1>2, <2>1, <2>3 DEF Range
<1>7. Head(s) \in Range(s) /\ Head(s) \in S
  BY <1>1 DEF Range
<1> QED BY <1>2, <1>4, <1>5, <1>6, <1>7

\* The indexes of the loop stay inside the channels.
LEMMA IndexFacts ==
  ASSUME TypeOK
  PROVE  /\ N \in Nat \ {0}
         /\ RecoverChannel \in Channel
         /\ PollIndex \in 0..(N - 1) /\ PollChannel \in Channel
         /\ ServedNext \in 0..(N - 1)
<1>1. N \in Nat \ {0} /\ \A i \in 1..N : Operations[i] \in Channel
  BY ConsumerAssumption DEF N
<1>2. offset \in 0..(N - 1) /\ nextChannel \in 0..(N - 1)
  BY DEF TypeOK
<1>3. \A i \in Nat : i % N \in 0..(N - 1)
  BY <1>1
<1>4. PollIndex \in 0..(N - 1)
  BY <1>1, <1>2, <1>3 DEF PollIndex
<1>5. ServedNext \in 0..(N - 1)
  BY <1>1, <1>3, <1>4 DEF ServedNext
<1>6. PollChannel \in Channel
  BY <1>1, <1>4 DEF PollChannel
<1>7. RecoverChannel \in Channel
  BY <1>1, <1>2 DEF RecoverChannel
<1> QED BY <1>1, <1>4, <1>5, <1>6, <1>7

\* A step to the next channel keeps the offset inside them.
LEMMA OffsetFacts ==
  ASSUME TypeOK, NEW then \in {"poll", "loop"}, NextOffset(then)
  PROVE  offset' \in 0..(N - 1) /\ pc' \in {pc, then}
<1>1. N \in Nat \ {0} /\ offset \in 0..(N - 1)
  BY IndexFacts DEF TypeOK
<1> QED BY <1>1 DEF NextOffset

\* Idle times and the timer stay inside their bounds.
LEMMA ClockFacts ==
  ASSUME TypeOK, NEW t \in Nat
  PROVE  /\ Later(t) \in [Delivery -> 0..ClaimIdle]
         /\ Spend(t) => timer' \in 0..Interval
<1>1. ClaimIdle \in Nat /\ Interval \in Nat
  BY ConsumerAssumption
<1>2. ASSUME NEW d \in Delivery PROVE idle[d] \in 0..ClaimIdle
  BY DEF TypeOK
<1>3. ASSUME NEW d \in Delivery PROVE AtMost(idle[d] + t, ClaimIdle) \in 0..ClaimIdle
  BY <1>1, <1>2 DEF AtMost
<1>4. Later(t) \in [Delivery -> 0..ClaimIdle]
  BY <1>2, <1>3 DEF Later
<1>5. timer \in 0..Interval
  BY DEF TypeOK
<1>6. Spend(t) => timer' \in 0..Interval
  BY <1>1, <1>5 DEF Spend
<1> QED BY <1>4, <1>6

LEMMA TouchFacts ==
  ASSUME TypeOK, NEW ds, Touch(ds)
  PROVE  idle' \in [Delivery -> 0..ClaimIdle]
<1>1. ClaimIdle \in Nat
  BY ConsumerAssumption
<1> QED BY <1>1 DEF TypeOK, Touch

\* One XAUTOCLAIM: a page of at most claim_count entries of the channel, each of
\* them pending and in the page once, and a cursor that is an entry or 0-0.
LEMMA ClaimFacts ==
  ASSUME TypeOK, NEW c \in Channel
  PROVE  /\ Claimed(c) \in Seq(Delivery) /\ IsInjective(Claimed(c))
         /\ \A d \in Range(Claimed(c)) :
              d \in Delivery /\ queue[d] = "pending" /\ ChannelOf[d] = c
         /\ Cardinality(Range(Claimed(c))) <= ClaimCount
         /\ CursorAfter(c) \in Delivery \cup {0}
<1> DEFINE D == {d \in LookedAt(c) : Due(d)}
           rest == Ahead(c) \ LookedAt(c)
<1>1. /\ Ahead(c) \in SUBSET Delivery /\ Delivery \in SUBSET Nat
      /\ IsFiniteSet(Delivery) /\ ClaimCount \in Nat
  BY ConsumerAssumption DEF Ahead
<1>2. D \in SUBSET Ahead(c) /\ rest \in SUBSET Ahead(c)
  BY DEF LookedAt
<1>3. IsFiniteSet(Ahead(c)) /\ IsFiniteSet(D) /\ IsFiniteSet(rest)
  <2>1. IsFiniteSet(Ahead(c))
    BY <1>1, FS_Subset
  <2> HIDE DEF D, rest
  <2> QED BY <1>2, <2>1, FS_Subset
<1>4. Cardinality(D) \in Nat /\ Cardinality(D) <= ClaimCount
  <2>1. Cardinality(D) \in Nat
    BY <1>3, FS_CardinalityType
  <2>2. ASSUME NEW d \in D
        PROVE  Cardinality(Before(D, d)) \in Nat /\ Cardinality(Before(D, d)) < ClaimCount
    <3> DEFINE E == {e \in Before(Ahead(c), d) : Due(e)}
    <3>1. Before(D, d) \in SUBSET E /\ E \in SUBSET Ahead(c)
      BY <1>2 DEF Before
    <3>2. Cardinality(E) < ClaimCount
      BY <2>2 DEF LookedAt
    <3> HIDE DEF D, E
    <3>3. IsFiniteSet(E)
      BY <1>3, <3>1, FS_Subset
    <3>4. IsFiniteSet(Before(D, d)) /\ Cardinality(Before(D, d)) <= Cardinality(E)
      BY <3>1, <3>3, FS_Subset
    <3>5. Cardinality(E) \in Nat /\ Cardinality(Before(D, d)) \in Nat
      BY <3>3, <3>4, FS_CardinalityType
    <3> QED BY <1>1, <3>2, <3>4, <3>5
  <2> HIDE DEF D
  <2>3. ASSUME Cardinality(D) > ClaimCount PROVE FALSE
    <3>0. D \in SUBSET Nat
      BY <1>1, <1>2
    <3>1. Cardinality(D) \in 1..Cardinality(D)
      BY <1>1, <2>1, <2>3
    <3>2. PICK d \in D : Rank(D)[d] = Cardinality(D)
      BY <1>3, <3>0, <3>1, RankBijective
    <3>3. Cardinality(Before(D, d)) + 1 = Cardinality(D)
      BY <3>2 DEF Rank
    <3> QED BY <1>1, <2>1, <2>2, <2>3, <3>3
  <2> QED BY <1>1, <2>1, <2>3
<1>5. Claimed(c) = InOrder(D)
  BY DEF Claimed
<1> HIDE DEF D
<1>6. InOrder(D) \in Seq(D) /\ IsInjective(InOrder(D)) /\ Range(InOrder(D)) \subseteq D
  <2>1. D \in SUBSET Nat
    BY <1>1, <1>2
  <2> QED BY <1>3, <2>1, InOrderFacts
<1>7. InOrder(D) \in Seq(Delivery)
  <2>1. D \subseteq Delivery
    BY <1>1, <1>2
  <2> QED BY <1>6, <2>1
<1>8. ASSUME NEW d \in Range(Claimed(c))
      PROVE  d \in Delivery /\ queue[d] = "pending" /\ ChannelOf[d] = c
  <2>1. d \in Ahead(c)
    BY <1>2, <1>5, <1>6
  <2> QED BY <2>1 DEF Ahead
<1>9. Cardinality(Range(Claimed(c))) <= ClaimCount
  <2>1. Range(Claimed(c)) \in SUBSET D
    BY <1>5, <1>6
  <2>2. /\ IsFiniteSet(Range(Claimed(c)))
        /\ Cardinality(Range(Claimed(c))) <= Cardinality(D)
    BY <1>3, <2>1, FS_Subset
  <2>3. Cardinality(Range(Claimed(c))) \in Nat
    BY <2>2, FS_CardinalityType
  <2> QED BY <1>1, <1>4, <2>2, <2>3
<1>10. CursorAfter(c) \in Delivery \cup {0}
  <2>1. CursorAfter(c) = IF rest = {} THEN 0 ELSE CHOOSE d \in rest : Before(rest, d) = {}
    BY DEF CursorAfter
  <2> HIDE DEF rest
  <2>2. CASE rest = {}
    BY <2>1, <2>2
  <2>3. CASE rest # {}
    <3>1. rest \in SUBSET Nat
      BY <1>1, <1>2
    <3>2. \E d \in rest : Before(rest, d) = {}
      BY <1>3, <2>3, <3>1, Oldest
    <3>3. CursorAfter(c) \in rest
      BY <2>1, <2>3, <3>2
    <3> QED BY <1>1, <1>2, <3>3
  <2> QED BY <2>2, <2>3
<1> QED BY <1>5, <1>6, <1>7, <1>8, <1>9, <1>10

-----------------------------------------------------------------------------
(* The invariant.                                                          *)

\* A page holds entries of its own channel that Redis has delivered already, and
\* so does the hand, which is full exactly inside handle.
Delivered ==
  /\ \A c \in Channel : \A d \in Range(page[c]) :
       ChannelOf[d] = c /\ queue[d] # "unread"
  /\ pc = "handle" <=> hand # 0
  /\ hand # 0 => queue[hand] # "unread"
  /\ \A d \in taken : queue[d] # "unread"

ConsumerInv == TypeOK /\ Delivered /\ HeldOnce

\* A failing call is counted.
LEMMA FaultFacts ==
  ASSUME TypeOK, Fault \/ UNCHANGED bounds
  PROVE  faults' \in 0..MaxFaults /\ stops' \in 0..MaxStops /\ takes' \in 0..MaxTaken
<1>1. faults \in 0..MaxFaults /\ stops \in 0..MaxStops /\ takes \in 0..MaxTaken
  BY DEF TypeOK
<1>2. MaxFaults \in Nat
  BY ConsumerAssumption
<1>3. /\ faults' = faults \/ (faults < MaxFaults /\ faults' = faults + 1)
      /\ stops' = stops /\ takes' = takes
  BY DEF Fault, bounds
<1> QED BY <1>1, <1>2, <1>3

\* 0, an empty hand, is no delivery.
LEMMA ZeroIsNone ==
  0 \notin Delivery
BY ConsumerAssumption

\* HeldOnce by Range.
LEMMA HeldOnceByRange ==
  ASSUME page \in [Channel -> Seq(Delivery)]
  PROVE  HeldOnce <=> \A c \in Channel : IsInjective(page[c]) /\ hand \notin Range(page[c])
<1>1. ASSUME NEW c \in Channel PROVE Contains(page[c], hand) <=> hand \in Range(page[c])
  <2>1. page[c] \in Seq(Delivery)
    OBVIOUS
  <2> QED BY <2>1, ContainsIsInRange
<1> QED BY <1>1 DEF HeldOnce

LEMMA HeldOnceByRangeNext ==
  ASSUME page' \in [Channel -> Seq(Delivery)]
  PROVE  HeldOnce' <=>
           \A c \in Channel : IsInjective(page'[c]) /\ hand' \notin Range(page'[c])
<1>1. ASSUME NEW c \in Channel
      PROVE  Contains(page'[c], hand') <=> hand' \in Range(page'[c])
  <2>1. page'[c] \in Seq(Delivery)
    OBVIOUS
  <2> QED BY <2>1, ContainsIsInRange
<1> QED BY <1>1 DEF HeldOnce

\* Nothing is held before the first poll.
LEMMA ConsumerInit ==
  ASSUME Init
  PROVE  ConsumerInv
<1>1. N \in Nat \ {0} /\ ClaimIdle \in Nat /\ Interval \in Nat
      /\ MaxFaults \in Nat /\ MaxStops \in Nat /\ MaxTaken \in Nat
  BY ConsumerAssumption DEF N
<1>2. TypeOK
  BY <1>1 DEF Init, TypeOK
<1>3. \A c \in Channel : page[c] = << >>
  BY DEF Init
<1>4. Delivered
  BY <1>3 DEF Init, Delivered, Range
<1>5. HeldOnce
  BY <1>3 DEF HeldOnce, IsInjective, Contains
<1> QED BY <1>2, <1>4, <1>5 DEF ConsumerInv

\* A step that leaves the pages and the hand alone, and returns no entry to the
\* unread ones, keeps what is held.
LEMMA HeldAlone ==
  ASSUME ConsumerInv, UNCHANGED <<page, hand, taken>>,
         pc' = "handle" <=> pc = "handle",
         \A d \in Delivery : queue[d] # "unread" => queue'[d] # "unread"
  PROVE  Delivered' /\ HeldOnce'
<1>1. HeldOnce'
  BY DEF ConsumerInv, HeldOnce
<1>2. \A c \in Channel : Range(page[c]) \subseteq Delivery
  BY DEF ConsumerInv, TypeOK, Range
<1>3. hand \in Delivery \cup {0} /\ taken \subseteq Delivery
  BY DEF ConsumerInv, TypeOK
<1> QED BY <1>1, <1>2, <1>3 DEF ConsumerInv, Delivered

LEMMA BeginLoopKeeps ==
  ASSUME ConsumerInv, BeginLoop
  PROVE  ConsumerInv'
<1>1. N \in Nat \ {0} /\ Interval \in Nat
  BY ConsumerAssumption, IndexFacts DEF ConsumerInv
<1>2. TypeOK'
  BY <1>1 DEF ConsumerInv, TypeOK, BeginLoop, group, bounds
<1>3. Delivered' /\ HeldOnce'
  <2>1. pc' # "handle" /\ pc # "handle" /\ UNCHANGED <<queue, page, hand, taken>>
    BY DEF BeginLoop, group
  <2> QED BY <2>1, HeldAlone
<1> QED BY <1>2, <1>3 DEF ConsumerInv

LEMMA RecoverKeeps ==
  ASSUME ConsumerInv, Recover
  PROVE  ConsumerInv'
<1> DEFINE c == RecoverChannel
<1>0. TypeOK /\ c \in Channel /\ N \in Nat \ {0}
  BY IndexFacts DEF ConsumerInv
<1>1. /\ pc = "recover" /\ hand = 0 /\ UNCHANGED <<queue, timer, nextChannel, hand, taken>>
      /\ offset' \in 0..(N - 1) /\ pc' \in {"recover", "poll"}
  <2>1. NextOffset("poll")
    BY DEF Recover
  <2>2. offset' \in 0..(N - 1) /\ pc' \in {pc, "poll"}
    BY <1>0, <2>1, OffsetFacts
  <2> QED BY <2>2 DEF Recover, ConsumerInv, Delivered
<1>2. CASE UNCHANGED <<cursor, page>>
  <2>1. Fault \/ UNCHANGED bounds
    BY <1>2 DEF Recover
  <2>2. faults' \in 0..MaxFaults /\ stops' \in 0..MaxStops /\ takes' \in 0..MaxTaken
    BY <1>0, <2>1, FaultFacts
  <2>3. idle' \in [Delivery -> 0..ClaimIdle]
    <3>1. Touch(Range(Claimed(c))) \/ UNCHANGED idle
      BY DEF Recover
    <3> QED BY <1>0, <3>1, TouchFacts DEF TypeOK
  <2>4. TypeOK'
    BY <1>0, <1>1, <1>2, <2>2, <2>3 DEF TypeOK
  <2>5. Delivered' /\ HeldOnce'
    BY <1>1, <1>2, HeldAlone
  <2> QED BY <2>4, <2>5 DEF ConsumerInv
<1>3. CASE /\ page[c] = << >> /\ Touch(Range(Claimed(c))) /\ UNCHANGED bounds
           /\ page' = [page EXCEPT ![c] = Claimed(c)]
           /\ cursor' = [cursor EXCEPT ![c] = CursorAfter(c)]
  <2>1. /\ Claimed(c) \in Seq(Delivery) /\ IsInjective(Claimed(c))
        /\ CursorAfter(c) \in Delivery \cup {0}
        /\ \A d \in Range(Claimed(c)) :
             d \in Delivery /\ queue[d] = "pending" /\ ChannelOf[d] = c
    BY <1>0, ClaimFacts
  <2>2. idle' \in [Delivery -> 0..ClaimIdle]
    BY <1>0, <1>3, TouchFacts
  <2>3. page \in [Channel -> Seq(Delivery)] /\ cursor \in [Channel -> Delivery \cup {0}]
    BY <1>0 DEF TypeOK
  <2> HIDE DEF c
  <2>4. /\ page' \in [Channel -> Seq(Delivery)]
        /\ cursor' \in [Channel -> Delivery \cup {0}]
        /\ page'[c] = Claimed(c) /\ \A b \in Channel : b # c => page'[b] = page[b]
    BY <1>0, <1>3, <2>1, <2>3
  <2>5. TypeOK'
    BY <1>0, <1>1, <1>3, <2>2, <2>4 DEF TypeOK, bounds
  <2>6. Delivered'
    <3>1. ASSUME NEW b \in Channel, NEW d \in Range(page'[b])
          PROVE  ChannelOf[d] = b /\ queue[d] # "unread"
      <4>1. CASE b = c
        BY <2>1, <2>4, <3>1, <4>1
      <4>2. CASE b # c
        BY <2>4, <3>1, <4>2 DEF ConsumerInv, Delivered
      <4> QED BY <4>1, <4>2
    <3> QED BY <1>1, <3>1 DEF ConsumerInv, Delivered
  <2>7. HeldOnce'
    <3>1. \A b \in Channel : IsInjective(page[b])
      BY DEF ConsumerInv, HeldOnce
    <3>2. \A b \in Channel : Range(page'[b]) \subseteq Delivery
      BY <2>4 DEF Range
    <3> QED BY <1>1, <2>1, <2>4, <3>1, <3>2, ZeroIsNone, HeldOnceByRangeNext
  <2> QED BY <2>5, <2>6, <2>7 DEF ConsumerInv
<1> QED BY <1>2, <1>3 DEF Recover

LEMMA PollClaimedKeeps ==
  ASSUME ConsumerInv, PollClaimed
  PROVE  ConsumerInv'
<1> DEFINE c == PollChannel
<1>0. TypeOK /\ c \in Channel /\ page \in [Channel -> Seq(Delivery)]
  BY IndexFacts DEF ConsumerInv, TypeOK
<1>1. /\ pc = "poll" /\ page[c] # << >> /\ hand' = Head(page[c]) /\ pc' = "handle"
      /\ page' = [page EXCEPT ![c] = Tail(page[c])]
      /\ UNCHANGED <<group, timer, cursor, nextChannel, taken, bounds, offset>>
  BY DEF PollClaimed, Hold
<1> HIDE DEF c
<1>2. /\ Tail(page[c]) \in Seq(Delivery) /\ IsInjective(Tail(page[c]))
      /\ Head(page[c]) \in Range(page[c]) /\ Head(page[c]) \in Delivery
      /\ Range(Tail(page[c])) = Range(page[c]) \ {Head(page[c])}
  <2>1. page[c] \in Seq(Delivery) /\ IsInjective(page[c])
    BY <1>0 DEF ConsumerInv, HeldOnce
  <2> QED BY <1>1, <2>1, TailFacts
<1>3. /\ page' \in [Channel -> Seq(Delivery)]
      /\ page'[c] = Tail(page[c]) /\ \A b \in Channel : b # c => page'[b] = page[b]
  BY <1>0, <1>1, <1>2
<1>4. TypeOK'
  BY <1>0, <1>1, <1>2, <1>3 DEF TypeOK, group, bounds
<1>5. \A b \in Channel : Range(page'[b]) \subseteq Range(page[b])
  BY <1>2, <1>3
<1>6. Delivered'
  <2>1. hand' # 0 /\ queue[hand'] # "unread"
    BY <1>0, <1>1, <1>2, ZeroIsNone DEF ConsumerInv, Delivered
  <2> QED BY <1>1, <1>5, <2>1 DEF ConsumerInv, Delivered, group
<1>7. HeldOnce'
  <2>1. ASSUME NEW b \in Channel PROVE hand' \notin Range(page'[b])
    <3>1. CASE b = c
      BY <1>1, <1>2, <1>3, <3>1
    <3>2. CASE b # c
      BY <1>0, <1>1, <1>2, <1>3, <3>2 DEF ConsumerInv, Delivered
    <3> QED BY <3>1, <3>2
  <2>2. ASSUME NEW b \in Channel PROVE IsInjective(page'[b])
    BY <1>2, <1>3 DEF ConsumerInv, HeldOnce
  <2> QED BY <1>3, <2>1, <2>2, HeldOnceByRangeNext
<1> QED BY <1>4, <1>6, <1>7 DEF ConsumerInv

LEMMA PollNewKeeps ==
  ASSUME ConsumerInv, PollNew
  PROVE  ConsumerInv'
<1>0. TypeOK /\ page \in [Channel -> Seq(Delivery)]
      /\ queue \in [Delivery -> {"unread", "pending", "acked"}]
  BY DEF ConsumerInv, TypeOK
<1>1. PICK d \in Unread(PollChannel) :
        /\ queue' = [queue EXCEPT ![d] = "pending"]
        /\ \/ Hold(d) /\ UNCHANGED bounds
           \/ Fault /\ NextOffset("loop") /\ UNCHANGED hand
  BY DEF PollNew
<1>2. d \in Delivery /\ queue[d] = "unread"
  BY DEF Unread
<1>3. pc = "poll" /\ UNCHANGED <<idle, timer, cursor, page, nextChannel, taken>>
  BY DEF PollNew
<1>4. /\ queue' \in [Delivery -> {"unread", "pending", "acked"}]
      /\ queue'[d] = "pending"
      /\ \A e \in Delivery : queue[e] # "unread" => queue'[e] # "unread"
  BY <1>0, <1>1, <1>2
<1>5. faults' \in 0..MaxFaults /\ stops' \in 0..MaxStops /\ takes' \in 0..MaxTaken
  <2>1. Fault \/ UNCHANGED bounds
    BY <1>1
  <2> QED BY <1>0, <2>1, FaultFacts
<1>6. CASE Hold(d)
  <2>1. hand' = d /\ pc' = "handle" /\ UNCHANGED offset
    BY <1>6 DEF Hold
  <2>2. TypeOK'
    BY <1>0, <1>2, <1>3, <1>4, <1>5, <2>1 DEF TypeOK
  <2>3. \A c \in Channel : Range(page[c]) \subseteq Delivery
    BY <1>0 DEF Range
  <2>4. Delivered'
    <3>1. d # 0 /\ taken \subseteq Delivery
      BY <1>0, <1>2, ZeroIsNone DEF TypeOK
    <3> QED BY <1>3, <1>4, <2>1, <2>3, <3>1 DEF ConsumerInv, Delivered
  <2>5. HeldOnce'
    <3>1. \A c \in Channel : d \notin Range(page[c])
      BY <1>2 DEF ConsumerInv, Delivered
    <3>2. \A c \in Channel : IsInjective(page[c])
      BY DEF ConsumerInv, HeldOnce
    <3>3. page' \in [Channel -> Seq(Delivery)]
      BY <1>0, <1>3
    <3> QED BY <1>3, <2>1, <3>1, <3>2, <3>3, HeldOnceByRangeNext
  <2> QED BY <2>2, <2>4, <2>5 DEF ConsumerInv
<1>7. CASE NextOffset("loop") /\ UNCHANGED hand
  <2>1. offset' \in 0..(N - 1) /\ pc' \in {"poll", "loop"}
    BY <1>0, <1>3, <1>7, OffsetFacts
  <2>2. TypeOK'
    BY <1>0, <1>3, <1>4, <1>5, <1>7, <2>1 DEF TypeOK
  <2>3. Delivered' /\ HeldOnce'
    <3>1. pc' # "handle" /\ pc # "handle" /\ UNCHANGED <<page, hand, taken>>
      BY <1>3, <1>7, <2>1
    <3> QED BY <1>4, <3>1, HeldAlone
  <2> QED BY <2>2, <2>3 DEF ConsumerInv
<1> QED BY <1>1, <1>6, <1>7

LEMMA PollEmptyKeeps ==
  ASSUME ConsumerInv, PollEmpty
  PROVE  ConsumerInv'
<1>0. TypeOK
  BY DEF ConsumerInv
<1>1. /\ pc = "poll" /\ idle' = Later(1) /\ Spend(1) /\ NextOffset("loop")
      /\ UNCHANGED <<queue, cursor, page, nextChannel, hand, taken, bounds>>
  BY DEF PollEmpty
<1>2. offset' \in 0..(N - 1) /\ pc' \in {"poll", "loop"}
  BY <1>0, <1>1, OffsetFacts
<1>3. idle' \in [Delivery -> 0..ClaimIdle] /\ timer' \in 0..Interval
  BY <1>0, <1>1, ClockFacts
<1>4. TypeOK'
  BY <1>0, <1>1, <1>2, <1>3 DEF TypeOK, bounds
<1>5. Delivered' /\ HeldOnce'
  <2>1. pc' # "handle" /\ pc # "handle"
    BY <1>1, <1>2
  <2> QED BY <1>1, <2>1, HeldAlone
<1> QED BY <1>4, <1>5 DEF ConsumerInv

LEMMA HandleKeeps ==
  ASSUME ConsumerInv, NEW t \in 0..MaxHandle, Handle(t)
  PROVE  ConsumerInv'
<1>0. /\ TypeOK /\ t \in Nat /\ N \in Nat \ {0} /\ ClaimIdle \in Nat
      /\ queue \in [Delivery -> {"unread", "pending", "acked"}]
  <2>1. TypeOK /\ queue \in [Delivery -> {"unread", "pending", "acked"}]
    BY DEF ConsumerInv, TypeOK
  <2>2. t \in Nat /\ ClaimIdle \in Nat
    BY ConsumerAssumption
  <2> QED BY <2>1, <2>2, IndexFacts
<1>1. /\ pc = "handle" /\ Spend(t) /\ nextChannel' = ServedNext /\ hand' = 0
      /\ pc' = "loop" /\ offset' = 0 /\ UNCHANGED <<cursor, page, taken>>
  BY DEF Handle
<1>2. hand \in Delivery
  BY <1>1 DEF ConsumerInv, Delivered, TypeOK
<1>3. timer' \in 0..Interval /\ Later(t) \in [Delivery -> 0..ClaimIdle]
  BY <1>0, <1>1, ClockFacts
<1>4. idle' \in [Delivery -> 0..ClaimIdle]
  BY <1>0, <1>3 DEF Handle
<1>5. /\ queue' \in [Delivery -> {"unread", "pending", "acked"}]
      /\ \A e \in Delivery : queue[e] # "unread" => queue'[e] # "unread"
  BY <1>0, <1>2 DEF Handle
<1>6. faults' \in 0..MaxFaults /\ stops' \in 0..MaxStops /\ takes' \in 0..MaxTaken
  <2>1. Fault \/ UNCHANGED bounds
    BY DEF Handle
  <2> QED BY <1>0, <2>1, FaultFacts
<1>7. nextChannel' \in 0..(N - 1)
  BY <1>0, <1>1, IndexFacts
<1>8. TypeOK'
  BY <1>0, <1>1, <1>3, <1>4, <1>5, <1>6, <1>7 DEF TypeOK
<1>9. \A c \in Channel : Range(page[c]) \subseteq Delivery
  BY <1>0 DEF TypeOK, Range
<1>10. Delivered'
  <2>1. taken \subseteq Delivery
    BY <1>0 DEF TypeOK
  <2> QED BY <1>1, <1>5, <1>9, <2>1 DEF ConsumerInv, Delivered
<1>11. HeldOnce'
  <2>1. page' \in [Channel -> Seq(Delivery)]
    BY <1>0, <1>1 DEF TypeOK
  <2> QED BY <1>1, <1>9, <2>1, ZeroIsNone, HeldOnceByRangeNext DEF ConsumerInv, HeldOnce
<1> QED BY <1>8, <1>10, <1>11 DEF ConsumerInv

LEMMA CrashKeeps ==
  ASSUME ConsumerInv, Crash
  PROVE  ConsumerInv'
<1>0. TypeOK /\ N \in Nat \ {0} /\ Interval \in Nat /\ MaxStops \in Nat
  BY ConsumerAssumption, IndexFacts DEF ConsumerInv
<1>1. TypeOK'
  BY <1>0 DEF TypeOK, Crash, group
<1>2. \A c \in Channel : page'[c] = << >>
  BY DEF Crash
<1>3. Delivered'
  BY <1>2 DEF ConsumerInv, Delivered, Crash, Range, group
<1>4. HeldOnce'
  BY <1>2 DEF HeldOnce, IsInjective, Contains
<1> QED BY <1>1, <1>3, <1>4 DEF ConsumerInv

LEMMA RestartKeeps ==
  ASSUME ConsumerInv, Restart
  PROVE  ConsumerInv'
<1>0. TypeOK /\ ClaimIdle \in Nat
  BY ConsumerAssumption DEF ConsumerInv
<1>1. idle' \in [Delivery -> 0..ClaimIdle]
  <2>1. PICK t \in 0..ClaimIdle : idle' = Later(t)
    BY DEF Restart
  <2>2. t \in Nat
    BY <1>0
  <2> QED BY <1>0, <2>1, <2>2, ClockFacts
<1>2. TypeOK'
  BY <1>0, <1>1 DEF TypeOK, Restart, bounds
<1>3. Delivered' /\ HeldOnce'
  <2>1. /\ pc' # "handle" /\ pc # "handle" /\ UNCHANGED <<queue, page, hand, taken>>
    BY DEF Restart
  <2> QED BY <2>1, HeldAlone
<1> QED BY <1>2, <1>3 DEF ConsumerInv

LEMMA OthersKeep ==
  ASSUME ConsumerInv, NEW d \in Delivery, OtherTakes(d) \/ OtherAcks(d)
  PROVE  ConsumerInv'
<1>0. /\ TypeOK /\ ClaimIdle \in Nat /\ MaxTaken \in Nat
      /\ queue \in [Delivery -> {"unread", "pending", "acked"}]
  BY ConsumerAssumption DEF ConsumerInv, TypeOK
<1>1. /\ UNCHANGED memory
      /\ queue' \in [Delivery -> {"unread", "pending", "acked"}]
      /\ queue'[d] # "unread"
      /\ \A e \in Delivery : queue[e] # "unread" => queue'[e] # "unread"
      /\ taken' \subseteq taken \cup {d}
      /\ idle' = [idle EXCEPT ![d] = 0]
  <2>1. PICK state \in {"pending", "acked"} : queue' = [queue EXCEPT ![d] = state]
    BY DEF OtherTakes, OtherAcks
  <2>2. /\ UNCHANGED memory /\ taken' \subseteq taken \cup {d}
        /\ idle' = [idle EXCEPT ![d] = 0]
    BY DEF OtherTakes, OtherAcks
  <2> QED BY <1>0, <2>1, <2>2
<1>2. takes' \in 0..MaxTaken /\ faults' = faults /\ stops' = stops
  BY <1>0 DEF OtherTakes, OtherAcks, TypeOK, bounds
<1>3. TypeOK'
  BY <1>0, <1>1, <1>2 DEF TypeOK, memory
<1>4. \A c \in Channel : Range(page[c]) \subseteq Delivery
  BY <1>0 DEF TypeOK, Range
<1>5. Delivered'
  <2>1. taken \subseteq Delivery /\ hand \in Delivery \cup {0}
    BY <1>0 DEF TypeOK
  <2> QED BY <1>1, <1>4, <2>1 DEF ConsumerInv, Delivered, memory
<1>6. HeldOnce'
  BY <1>1 DEF ConsumerInv, HeldOnce, memory
<1> QED BY <1>3, <1>5, <1>6 DEF ConsumerInv

\* ConsumerInv is inductive.
LEMMA ConsumerInductive ==
  ASSUME ConsumerInv, [Next]_vars
  PROVE  ConsumerInv'
<1>1. CASE LoopStep
  BY <1>1, BeginLoopKeeps, RecoverKeeps, PollClaimedKeeps, PollNewKeeps, PollEmptyKeeps,
     HandleKeeps DEF LoopStep
<1>2. CASE Crash \/ Restart
  BY <1>2, CrashKeeps, RestartKeeps
<1>3. CASE \E d \in Delivery : OtherTakes(d) \/ OtherAcks(d)
  BY <1>3, OthersKeep
<1>4. CASE UNCHANGED vars
  BY <1>4 DEF vars, ConsumerInv, TypeOK, Delivered, HeldOnce
<1> QED BY <1>1, <1>2, <1>3, <1>4 DEF Next

\* The loop of the provider keeps ConsumerInv.
THEOREM ConsumerInvariant ==
  Spec => []ConsumerInv
<1>1. Init => ConsumerInv
  BY ConsumerInit
<1>2. ConsumerInv /\ [Next]_vars => ConsumerInv'
  BY ConsumerInductive
<1> QED BY <1>1, <1>2, PTL DEF Spec

\* The types of the consumer: the indexes of run_once stay inside the channels
\* and the cursor of recover_pending is an entry or 0-0.
THEOREM ConsumerTypes ==
  Spec => []TypeOK
<1>1. ConsumerInv => TypeOK
  BY DEF ConsumerInv
<1> QED BY <1>1, ConsumerInvariant, PTL

\* No delivery is held twice: recover_pending claims no page on top of one that
\* is not used up, and what poll hands out is in no page any more.
THEOREM DeliveriesHeldOnce ==
  Spec => []HeldOnce
<1>1. ConsumerInv => HeldOnce
  BY DEF ConsumerInv
<1> QED BY <1>1, ConsumerInvariant, PTL

-----------------------------------------------------------------------------
(* The refinement.  The pages of all channels together are what the queue  *)
(* calls claimed.                                                          *)

Held == UNION {Range(page[c]) : c \in Channel}
AbsClaimed == [p \in {"self"} |-> Held]
AbsHand == [p \in {"self"} |-> hand]

\* The pages hold deliveries, and an empty page stands for no claimed entry of
\* its channel.
LEMMA HeldFacts ==
  ASSUME ConsumerInv
  PROVE  /\ Held \subseteq Delivery
         /\ AbsClaimed["self"] = Held /\ AbsHand["self"] = hand
         /\ \A c \in Channel :
              page[c] = << >> => {d \in AbsClaimed["self"] : ChannelOf[d] = c} = {}
         /\ hand # 0 => hand \notin Held
<1>1. \A c \in Channel : Range(page[c]) \subseteq Delivery
  BY DEF ConsumerInv, TypeOK, Range
<1>2. AbsClaimed["self"] = Held /\ AbsHand["self"] = hand
  BY DEF AbsClaimed, AbsHand
<1>3. ASSUME NEW c \in Channel, page[c] = << >>, NEW d \in Held PROVE ChannelOf[d] # c
  <2>1. PICK b \in Channel : d \in Range(page[b])
    BY DEF Held
  <2>2. b # c
    BY <1>3, <2>1 DEF Range
  <2> QED BY <2>1, <2>2 DEF ConsumerInv, Delivered
<1>4. hand # 0 => hand \notin Held
  BY HeldOnceByRange DEF Held, ConsumerInv, TypeOK
<1> QED BY <1>1, <1>2, <1>3, <1>4 DEF Held

\* A step that shows in neither the group, the pages nor the hand.
LEMMA ConsumerStutter ==
  ASSUME UNCHANGED <<queue, page, hand>>
  PROVE  UNCHANGED Queue!vars
BY DEF Queue!vars

\* recover_pending is a claim, or shows in nothing but idle times and cursor.
LEMMA RecoverImplements ==
  ASSUME ConsumerInv, Recover
  PROVE  [Queue!Next]_(Queue!vars)
<1> DEFINE c == RecoverChannel
<1>0. TypeOK /\ c \in Channel /\ page \in [Channel -> Seq(Delivery)]
  BY IndexFacts DEF ConsumerInv, TypeOK
<1>1. pc = "recover" /\ hand = 0 /\ UNCHANGED <<queue, hand>>
  BY DEF Recover, ConsumerInv, Delivered
<1>2. CASE UNCHANGED page
  BY <1>1, <1>2, ConsumerStutter
<1>3. CASE page[c] = << >> /\ page' = [page EXCEPT ![c] = Claimed(c)]
  <2>1. /\ \A d \in Range(Claimed(c)) :
             d \in Delivery /\ queue[d] = "pending" /\ ChannelOf[d] = c
        /\ Cardinality(Range(Claimed(c))) <= ClaimCount
    BY <1>0, ClaimFacts
  <2> HIDE DEF c
  <2>2. page'[c] = Claimed(c) /\ \A b \in Channel : b # c => page'[b] = page[b]
    BY <1>0, <1>3
  <2>3. Held' = Held \cup Range(Claimed(c))
    <3>1. ASSUME NEW d \in Held' PROVE d \in Held \cup Range(Claimed(c))
      <4>1. PICK b \in Channel : d \in Range(page'[b])
        BY <3>1 DEF Held
      <4> QED BY <2>2, <4>1 DEF Held
    <3>2. ASSUME NEW d \in Range(Claimed(c)) PROVE d \in Held'
      BY <1>0, <2>2, <3>2 DEF Held
    <3>3. ASSUME NEW d \in Held PROVE d \in Held'
      <4>1. PICK b \in Channel : d \in Range(page[b])
        BY <3>3 DEF Held
      <4>2. b # c
        BY <1>3, <4>1 DEF Range
      <4>3. d \in Range(page'[b])
        BY <2>2, <4>1, <4>2
      <4> QED BY <4>3 DEF Held
    <3> QED BY <3>1, <3>2, <3>3
  <2>4. AbsClaimed' = [AbsClaimed EXCEPT !["self"] = @ \cup Range(Claimed(c))]
    BY <2>3 DEF AbsClaimed
  <2>5. Queue!Waiting("self", c) = {} /\ AbsHand["self"] = 0
    BY <1>0, <1>1, <1>3, HeldFacts DEF Queue!Waiting, AbsClaimed, Held
  <2>6. Range(Claimed(c)) \in SUBSET Queue!Of(c, "pending")
    BY <2>1 DEF Queue!Of
  <2>7. Queue!Cardinality(Range(Claimed(c))) = Cardinality(Range(Claimed(c)))
    BY DEF Queue!Cardinality, Cardinality
  <2>8. Queue!Claim("self", c)
    BY <1>1, <2>1, <2>4, <2>5, <2>6, <2>7 DEF Queue!Claim, AbsClaimed, AbsHand, Held
  <2> QED BY <1>0, <2>8 DEF Queue!Next
<1> QED BY <1>2, <1>3 DEF Recover

\* poll hands out the first entry of a page, ...
LEMMA PollClaimedImplements ==
  ASSUME ConsumerInv, PollClaimed
  PROVE  Queue!Next
<1> DEFINE c == PollChannel
<1>0. TypeOK /\ c \in Channel /\ page \in [Channel -> Seq(Delivery)]
  BY IndexFacts DEF ConsumerInv, TypeOK
<1>1. /\ hand = 0 /\ page[c] # << >> /\ hand' = Head(page[c])
      /\ page' = [page EXCEPT ![c] = Tail(page[c])] /\ UNCHANGED queue
  BY DEF PollClaimed, Hold, ConsumerInv, Delivered, group
<1> HIDE DEF c
<1>2. /\ Head(page[c]) \in Range(page[c])
      /\ Range(Tail(page[c])) = Range(page[c]) \ {Head(page[c])}
  <2>1. page[c] \in Seq(Delivery) /\ IsInjective(page[c])
    BY <1>0 DEF ConsumerInv, HeldOnce
  <2> QED BY <1>1, <2>1, TailFacts
<1>3. page'[c] = Tail(page[c]) /\ \A b \in Channel : b # c => page'[b] = page[b]
  BY <1>0, <1>1
<1>4. Held' = Held \ {hand'} /\ hand' \in Held
  <2>1. ASSUME NEW b \in Channel PROVE Range(page'[b]) = Range(page[b]) \ {hand'}
    <3>1. CASE b = c
      BY <1>1, <1>2, <1>3, <3>1
    <3>2. CASE b # c
      <4>1. hand' \notin Range(page[b])
        BY <1>0, <1>1, <1>2, <3>2 DEF ConsumerInv, Delivered
      <4> QED BY <1>3, <3>2, <4>1
    <3> QED BY <3>1, <3>2
  <2>2. hand' \in Held
    BY <1>0, <1>1, <1>2 DEF Held
  <2>3. ASSUME NEW d \in Held' PROVE d \in Held \ {hand'}
    <3>1. PICK b \in Channel : d \in Range(page'[b])
      BY <2>3 DEF Held
    <3> QED BY <2>1, <3>1 DEF Held
  <2>4. ASSUME NEW d \in Held \ {hand'} PROVE d \in Held'
    <3>1. PICK b \in Channel : d \in Range(page[b])
      BY <2>4 DEF Held
    <3>2. d \in Range(page'[b])
      BY <2>1, <2>4, <3>1
    <3> QED BY <3>2 DEF Held
  <2> QED BY <2>2, <2>3, <2>4
<1>5. /\ AbsClaimed' = [AbsClaimed EXCEPT !["self"] = @ \ {hand'}]
      /\ AbsHand' = [AbsHand EXCEPT !["self"] = hand'] /\ AbsHand["self"] = 0
      /\ hand' \in AbsClaimed["self"]
  BY <1>1, <1>4 DEF AbsClaimed, AbsHand
<1>6. Queue!TakeClaimed("self")
  BY <1>1, <1>5 DEF Queue!TakeClaimed, AbsClaimed, AbsHand, Held
<1> QED BY <1>6 DEF Queue!Next

\* ... or, when the page is empty, the oldest unread entry of the channel.
LEMMA PollNewImplements ==
  ASSUME ConsumerInv, PollNew
  PROVE  Queue!Next
<1> DEFINE c == PollChannel
<1>0. TypeOK /\ c \in Channel
  BY IndexFacts DEF ConsumerInv, TypeOK
<1>1. hand = 0 /\ page[c] = << >> /\ UNCHANGED page
  BY DEF PollNew, ConsumerInv, Delivered
<1>2. PICK d \in Unread(c) :
        /\ \A e \in Unread(c) : d <= e
        /\ queue' = [queue EXCEPT ![d] = "pending"]
        /\ hand' = d \/ UNCHANGED hand
  BY DEF PollNew, Hold
<1> HIDE DEF c
<1>3. Unread(c) = Queue!Of(c, "unread")
  BY DEF Unread, Queue!Of
<1>4. /\ AbsHand' = [AbsHand EXCEPT !["self"] = d] \/ UNCHANGED AbsHand
      /\ UNCHANGED AbsClaimed /\ AbsHand["self"] = 0
  BY <1>1, <1>2 DEF AbsHand, AbsClaimed, Held
<1>5. Queue!Waiting("self", c) = {}
  BY <1>0, <1>1, HeldFacts DEF Queue!Waiting, AbsClaimed, Held
<1>6. Queue!TakeNew("self", c)
  BY <1>2, <1>3, <1>4, <1>5 DEF Queue!TakeNew, AbsClaimed, AbsHand, Held
<1> QED BY <1>0, <1>6 DEF Queue!Next

\* The outcome of handle finishes the delivery in hand.
LEMMA HandleImplements ==
  ASSUME ConsumerInv, NEW t \in 0..MaxHandle, Handle(t)
  PROVE  Queue!Next
<1>1. /\ hand # 0 /\ hand' = 0 /\ UNCHANGED page
      /\ queue' = [queue EXCEPT ![hand] = "acked"] \/ UNCHANGED queue
  BY DEF Handle, ConsumerInv, Delivered
<1>2. /\ AbsHand["self"] = hand /\ AbsHand' = [AbsHand EXCEPT !["self"] = 0]
      /\ UNCHANGED AbsClaimed
  BY <1>1 DEF AbsHand, AbsClaimed, Held
<1>3. Queue!Finish("self")
  BY <1>1, <1>2 DEF Queue!Finish, AbsClaimed, AbsHand, Held
<1> QED BY <1>3 DEF Queue!Next

\* A crash loses pages and hand, and nothing in Redis.
LEMMA CrashImplements ==
  ASSUME ConsumerInv, Crash
  PROVE  Queue!Next
<1>1. /\ \A c \in Channel : page'[c] = << >>
      /\ hand' = 0 /\ UNCHANGED queue
  BY DEF Crash, group
<1>2. Held' = {}
  BY <1>1 DEF Held, Range
<1>3. /\ AbsClaimed' = [AbsClaimed EXCEPT !["self"] = {}]
      /\ AbsHand' = [AbsHand EXCEPT !["self"] = 0]
  BY <1>1, <1>2 DEF AbsClaimed, AbsHand
<1>4. Queue!Vanish("self")
  BY <1>1, <1>3 DEF Queue!Vanish, AbsClaimed, AbsHand, Held
<1> QED BY <1>4 DEF Queue!Next

\* The other providers are the outsiders of the queue.
LEMMA OthersImplement ==
  ASSUME ConsumerInv, NEW d \in Delivery, OtherTakes(d) \/ OtherAcks(d)
  PROVE  [Queue!Next]_(Queue!vars)
<1>0. queue \in [Delivery -> {"unread", "pending", "acked"}]
  BY DEF ConsumerInv, TypeOK
<1>1. UNCHANGED <<page, hand>> /\ UNCHANGED <<AbsClaimed, AbsHand>>
  BY DEF OtherTakes, OtherAcks, memory, AbsClaimed, AbsHand, Held
<1>2. \/ queue[d] = "unread" /\ queue' = [queue EXCEPT ![d] = "pending"]
      \/ queue[d] = "pending" /\ queue' = [queue EXCEPT ![d] = "acked"]
      \/ UNCHANGED queue
  <2>1. CASE OtherTakes(d)
    BY <1>0, <2>1 DEF OtherTakes
  <2>2. CASE OtherAcks(d)
    <3>1. queue[d] \in {"pending", "acked"}
      BY <1>0, <2>2 DEF OtherAcks, ConsumerInv, Delivered
    <3> QED BY <1>0, <2>2, <3>1 DEF OtherAcks
  <2> QED BY <2>1, <2>2
<1>3. CASE UNCHANGED queue
  BY <1>1, <1>3, ConsumerStutter
<1>4. CASE ~UNCHANGED queue
  <2>1. Queue!Outside(d)
    BY <1>1, <1>2, <1>4 DEF Queue!Outside, AbsClaimed, AbsHand, Held
  <2> QED BY <2>1 DEF Queue!Next
<1> QED BY <1>3, <1>4

\* Cursor, pages, idle times and rotation implement the plain consumer group:
\* every step of the loop, of a crash and of the other providers is a step of
\* DeliveryQueue or shows in none of its variables.
THEOREM ConsumerImplementsQueue ==
  Spec => ImplementsQueue
<1>1. Init => Queue!Init
  <2> SUFFICES ASSUME Init PROVE Queue!Init
    OBVIOUS
  <2>2. Held = {}
    <3>1. \A c \in Channel : page[c] = << >>
      BY DEF Init
    <3> QED BY <3>1 DEF Held, Range
  <2>3. AbsClaimed = [p \in {"self"} |-> {}] /\ AbsHand = [p \in {"self"} |-> 0]
    BY <2>2 DEF AbsClaimed, AbsHand, Init
  <2> QED BY <2>3 DEF Init, Queue!Init, Held, AbsClaimed, AbsHand
<1>2. ConsumerInv /\ [Next]_vars => [Queue!Next]_(Queue!vars)
  <2>1. SUFFICES ASSUME ConsumerInv, [Next]_vars PROVE [Queue!Next]_(Queue!vars)
    OBVIOUS
  <2>2. CASE BeginLoop \/ PollEmpty \/ Restart \/ UNCHANGED vars
    <3>1. UNCHANGED <<queue, page, hand>>
      BY <2>2 DEF BeginLoop, PollEmpty, Restart, vars, group
    <3> QED BY <3>1, ConsumerStutter
  <2>3. CASE Recover
    BY <2>1, <2>3, RecoverImplements
  <2>4. CASE PollClaimed \/ PollNew \/ Crash \/ \E t \in 0..MaxHandle : Handle(t)
    BY <2>1, <2>4, PollClaimedImplements, PollNewImplements, CrashImplements,
       HandleImplements
  <2>5. CASE \E d \in Delivery : OtherTakes(d) \/ OtherAcks(d)
    BY <2>1, <2>5, OthersImplement
  <2> QED BY <2>1, <2>2, <2>3, <2>4, <2>5 DEF Next, LoopStep
<1> QED BY <1>1, <1>2, ConsumerInvariant, PTL DEF Spec, Queue!Spec, ImplementsQueue

=============================================================================

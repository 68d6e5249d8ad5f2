---------------------------- MODULE TaskConsumer ----------------------------
(***************************************************************************)
(* The delivery side of one provider in detail: RedisTaskConsumer for both *)
(* channels, and the loop of RedisBrokerRuntime around them (run_once,     *)
(* _recover_pending) with its clock.  handle is reduced to its outcome and *)
(* to the time it takes.  Other providers of the group take entries and    *)
(* acknowledge them.                                                       *)
(***************************************************************************)
EXTENDS Naturals, Sequences, FiniteSets, SequencesExt

CONSTANTS
  Delivery,      \* entries of the task streams, by increasing stream id
  Operations,    \* the channels in the order of run_once
  ChannelOf,     \* the stream an entry belongs to
  Stuck,         \* deliveries whose handling always ends in RETRY
  ClaimCount,    \* transport.claim_count
  ClaimIdle,     \* transport.claim_idle_ms, in units of block_ms
  Interval,      \* _PENDING_RECOVERY_INTERVAL_SECONDS, in the same units
  MaxHandle,     \* bound: the longest handle, in the same units
  Quick,         \* a handle up to this long is not a slow one
  MaxFaults,     \* bound: failing calls in a behaviour
  MaxStops,      \* bound: crashes of this provider in a behaviour
  MaxTaken       \* bound: entries other providers take in a behaviour

VARIABLES
  queue,         \* per delivery: unread, pending in the group, or acked
  idle,          \* per delivery: time since it was last delivered, up to ClaimIdle
  timer,         \* time left until _next_pending_recovery
  cursor,        \* per channel: _claim_cursor, 0 is "0-0"
  page,          \* per channel: _pending_messages
  nextChannel,   \* _next_channel
  pc,            \* where the loop stands
  offset,        \* the channel that is recovered or polled, from 0
  hand,          \* the delivery inside handle; 0 if none
  taken,         \* what other providers of the group hold
  faults, stops, takes

group == <<queue, idle>>
memory == <<timer, cursor, page, nextChannel, pc, offset, hand>>
bounds == <<faults, stops, takes>>
vars == <<queue, idle, timer, cursor, page, nextChannel, pc, offset, hand, taken,
          faults, stops, takes>>

Channel == Range(Operations)
N == Len(Operations)

ASSUME ConsumerAssumption ==
  /\ Delivery \subseteq Nat \ {0} /\ IsFiniteSet(Delivery) /\ Stuck \subseteq Delivery
  /\ Operations \in Seq(Channel) /\ Operations # << >> /\ IsInjective(Operations)
  /\ ChannelOf \in [Delivery -> Channel]
  /\ ClaimCount \in Nat \ {0} /\ ClaimIdle \in Nat /\ Interval \in Nat
  /\ MaxHandle \in Nat /\ Quick \in Nat
  /\ MaxFaults \in Nat /\ MaxStops \in Nat /\ MaxTaken \in Nat

TypeOK ==
  /\ queue \in [Delivery -> {"unread", "pending", "acked"}]
  /\ idle \in [Delivery -> 0..ClaimIdle]
  /\ timer \in 0..Interval
  /\ cursor \in [Channel -> Delivery \cup {0}]
  /\ page \in [Channel -> Seq(Delivery)]
  /\ nextChannel \in 0..(N - 1) /\ offset \in 0..(N - 1)
  /\ pc \in {"loop", "recover", "poll", "handle", "down"}
  /\ hand \in Delivery \cup {0}
  /\ taken \subseteq Delivery
  /\ faults \in 0..MaxFaults /\ stops \in 0..MaxStops /\ takes \in 0..MaxTaken

Init ==
  /\ queue = [d \in Delivery |-> "unread"]
  /\ idle = [d \in Delivery |-> 0]
  /\ timer = 0
  /\ cursor = [c \in Channel |-> 0]
  /\ page = [c \in Channel |-> << >>]
  /\ nextChannel = 0
  /\ pc = "loop"
  /\ offset = 0
  /\ hand = 0
  /\ taken = {}
  /\ faults = 0 /\ stops = 0 /\ takes = 0

AtMost(x, y) == IF x < y THEN x ELSE y
Fault == faults < MaxFaults /\ faults' = faults + 1 /\ UNCHANGED <<stops, takes>>

\* idle is what Redis makes of it while this provider spends t.
Later(t) ==
  [d \in Delivery |-> IF queue[d] = "pending" THEN AtMost(idle[d] + t, ClaimIdle)
                                              ELSE idle[d]]
Spend(t) == timer' = IF timer > t THEN timer - t ELSE 0

-----------------------------------------------------------------------------
(* _recover_pending: one XAUTOCLAIM page per channel, at most once in an   *)
(* Interval.                                                               *)

BeginLoop ==
  /\ pc = "loop"
  /\ IF timer = 0 THEN pc' = "recover" /\ timer' = Interval
                  ELSE pc' = "poll" /\ UNCHANGED timer
  /\ offset' = 0
  /\ UNCHANGED <<group, cursor, page, nextChannel, hand, taken, bounds>>

\* Bug: min-idle-time 0.
DueAtOnce(d) == TRUE
Due(d) == idle[d] >= ClaimIdle

\* XAUTOCLAIM goes through the pending entries from the cursor on, looks at no
\* more than ten times COUNT of them and takes up to COUNT that are idle long
\* enough; the new cursor is the entry after the last one it looked at.
Ahead(c) ==
  {d \in Delivery : queue[d] = "pending" /\ ChannelOf[d] = c /\ d >= cursor[c]}
Before(S, d) == {e \in S : e < d}
LookedAt(c) ==
  {d \in Ahead(c) :
     /\ Cardinality(Before(Ahead(c), d)) < 10 * ClaimCount
     /\ Cardinality({e \in Before(Ahead(c), d) : Due(e)}) < ClaimCount}

InOrder(S) ==
  CHOOSE s \in [1..Cardinality(S) -> S] :
    \A i, j \in 1..Cardinality(S) : i < j => s[i] < s[j]
Claimed(c) == InOrder({d \in LookedAt(c) : Due(d)})

\* Bug: the cursor stays where it is.
CursorStays(c) == cursor[c]
CursorAfter(c) ==
  LET rest == Ahead(c) \ LookedAt(c) IN
  IF rest = {} THEN 0 ELSE CHOOSE d \in rest : Before(rest, d) = {}

Touch(ds) == idle' = [d \in Delivery |-> IF d \in ds THEN 0 ELSE idle[d]]

\* Bug: off by one.
NextOffsetPast(then) ==
  IF offset < N THEN offset' = offset + 1 /\ UNCHANGED pc
                ELSE offset' = 0 /\ pc' = then

NextOffset(then) ==
  IF offset + 1 < N THEN offset' = offset + 1 /\ UNCHANGED pc
                    ELSE offset' = 0 /\ pc' = then

RecoverChannel == Operations[offset + 1]

\* Bug: a page is claimed while the last one is not used up.
RecoverAlways ==
  /\ pc = "recover"
  /\ LET c == RecoverChannel IN
     /\ Touch(Range(Claimed(c)))
     /\ page' = [page EXCEPT ![c] = @ \o Claimed(c)]
     /\ cursor' = [cursor EXCEPT ![c] = CursorAfter(c)]
  /\ NextOffset("poll")
  /\ UNCHANGED <<queue, timer, nextChannel, hand, taken, bounds>>

\* recover_pending; the caller catches what it raises, and then Redis may have
\* taken the entries over all the same.
Recover ==
  /\ pc = "recover"
  /\ LET c == RecoverChannel IN
     IF page[c] # << >>
       THEN UNCHANGED <<idle, cursor, page, bounds>>
       ELSE \/ /\ Touch(Range(Claimed(c)))
               /\ page' = [page EXCEPT ![c] = Claimed(c)]
               /\ cursor' = [cursor EXCEPT ![c] = CursorAfter(c)]
               /\ UNCHANGED bounds
            \/ /\ Fault
               /\ Touch(Range(Claimed(c))) \/ UNCHANGED idle
               /\ UNCHANGED <<cursor, page>>
  /\ NextOffset("poll")
  /\ UNCHANGED <<queue, timer, nextChannel, hand, taken>>

-----------------------------------------------------------------------------
(* run_once after the recovery: the channels are polled in turn, the one   *)
(* after the last served first.                                            *)

PollIndex == (nextChannel + offset) % N
PollChannel == Operations[PollIndex + 1]
Unread(c) == {d \in Delivery : queue[d] = "unread" /\ ChannelOf[d] = c}

Hold(d) == hand' = d /\ pc' = "handle" /\ UNCHANGED offset

PollClaimed ==
  /\ pc = "poll" /\ page[PollChannel] # << >>
  /\ Hold(Head(page[PollChannel]))
  /\ page' = [page EXCEPT ![PollChannel] = Tail(@)]
  /\ UNCHANGED <<group, timer, cursor, nextChannel, taken, bounds>>

\* Bug: new entries come before claimed ones.
PollNewFirst ==
  /\ pc = "poll"
  /\ \E d \in Unread(PollChannel) :
       /\ \A e \in Unread(PollChannel) : d <= e
       /\ queue' = [queue EXCEPT ![d] = "pending"]
       /\ Hold(d) /\ UNCHANGED bounds
  /\ UNCHANGED <<idle, timer, cursor, page, nextChannel, taken>>

\* XREADGROUP with a new entry; a TimeoutError may lose the reply, and the poll
\* then counts as an empty one.
PollNew ==
  /\ pc = "poll" /\ page[PollChannel] = << >>
  /\ \E d \in Unread(PollChannel) :
       /\ \A e \in Unread(PollChannel) : d <= e
       /\ queue' = [queue EXCEPT ![d] = "pending"]
       /\ \/ Hold(d) /\ UNCHANGED bounds
          \/ Fault /\ NextOffset("loop") /\ UNCHANGED hand
  /\ UNCHANGED <<idle, timer, cursor, page, nextChannel, taken>>

\* XREADGROUP blocks for block_ms and returns nothing.
PollEmpty ==
  /\ pc = "poll" /\ page[PollChannel] = << >> /\ Unread(PollChannel) = {}
  /\ idle' = Later(1) /\ Spend(1)
  /\ NextOffset("loop")
  /\ UNCHANGED <<queue, cursor, page, nextChannel, hand, taken, bounds>>

\* Bug: the channel that was served is polled first again.
ServedSame == PollIndex
ServedNext == (PollIndex + 1) % N

\* handle and _apply_outcome after t units; any delivery may end in RETRY once
\* in a while, a stuck one always does.
Handle(t) ==
  /\ pc = "handle"
  /\ \/ /\ hand \notin Stuck
        /\ queue' = [queue EXCEPT ![hand] = "acked"]
        /\ idle' = [Later(t) EXCEPT ![hand] = 0]
        /\ UNCHANGED bounds
     \/ /\ IF hand \in Stuck THEN UNCHANGED bounds ELSE Fault
        /\ idle' = Later(t)
        /\ UNCHANGED queue
  /\ Spend(t)
  /\ nextChannel' = ServedNext
  /\ hand' = 0 /\ pc' = "loop" /\ offset' = 0
  /\ UNCHANGED <<cursor, page, taken>>

-----------------------------------------------------------------------------
(* Crashes of this provider, and the other providers of the group.         *)

\* All that is in memory is lost, the cursors and the claimed pages too.
Crash ==
  /\ pc # "down" /\ stops < MaxStops
  /\ stops' = stops + 1
  /\ timer' = 0
  /\ cursor' = [c \in Channel |-> 0]
  /\ page' = [c \in Channel |-> << >>]
  /\ nextChannel' = 0 /\ pc' = "down" /\ offset' = 0 /\ hand' = 0
  /\ UNCHANGED <<group, taken, faults, takes>>

\* Some time later it is started again, and recovers at once.
Restart ==
  /\ pc = "down"
  /\ pc' = "loop"
  /\ \E t \in 0..ClaimIdle : idle' = Later(t)
  /\ UNCHANGED <<queue, timer, cursor, page, nextChannel, offset, hand, taken,
                 bounds>>

\* Another provider reads a new entry or claims an idle one, ...
OtherTakes(d) ==
  /\ takes < MaxTaken /\ takes' = takes + 1
  /\ \/ queue[d] = "unread" /\ (\A e \in Unread(ChannelOf[d]) : d <= e)
     \/ queue[d] = "pending" /\ Due(d)
  /\ queue' = [queue EXCEPT ![d] = "pending"]
  /\ idle' = [idle EXCEPT ![d] = 0]
  /\ taken' = taken \cup {d}
  /\ UNCHANGED <<memory, faults, stops>>

\* ... and acknowledges it, also when this one has claimed it since.
OtherAcks(d) ==
  /\ d \in taken \ Stuck
  /\ queue' = [queue EXCEPT ![d] = "acked"]
  /\ idle' = [idle EXCEPT ![d] = 0]
  /\ taken' = taken \ {d}
  /\ UNCHANGED <<memory, bounds>>

LoopStep ==
  \/ BeginLoop \/ Recover \/ PollClaimed \/ PollNew \/ PollEmpty
  \/ \E t \in 0..MaxHandle : Handle(t)

Next ==
  \/ LoopStep \/ Crash \/ Restart
  \/ \E d \in Delivery : OtherTakes(d) \/ OtherAcks(d)

\* The loop runs on, and a provider that crashed is started again.
Spec == Init /\ [][Next]_vars /\ WF_vars(LoopStep) /\ WF_vars(Restart)

-----------------------------------------------------------------------------
(* Properties.                                                             *)

\* No delivery is held twice by this provider, in the pages of
\* _pending_messages and in hand: recover_pending leaves a page alone until it
\* is used up, although its entries grow idle in it and the cursor comes round.
HeldOnce ==
  \A c \in Channel :
    IsInjective(page[c]) /\ ~Contains(page[c], hand)

\* A pending delivery is handed out again and again until it is acknowledged,
\* however long handle takes and however many stuck deliveries share the
\* channel: the cursor of recover_pending leaves none of them out.
PendingHandedOut ==
  \A d \in Delivery : queue[d] = "pending" ~> hand = d \/ queue[d] = "acked"

\* The deliveries of a channel without stuck ones are all acknowledged, however
\* slow and stuck the other channel is: run_once serves the channels in turn.
HealthyChannelSettles ==
  \A d \in Delivery :
    (\A e \in Stuck : ChannelOf[e] # ChannelOf[d]) => <>(queue[d] = "acked")

SlowHandle == \E t \in (Quick + 1)..MaxHandle : Handle(t)

\* Stuck deliveries do not keep the new ones of their own channel unread, once a
\* round of them, with the block_ms the other channel's empty poll adds to each,
\* takes less than claim_idle_ms.
NewSettles ==
  <>[][~SlowHandle]_vars =>
    \A d \in Delivery \ Stuck : <>(queue[d] = "acked")

Queue == INSTANCE DeliveryQueue WITH
  Provider <- {"self"}, Outsiders <- TRUE, Nothing <- 0,
  claimed <- [p \in {"self"} |-> UNION {Range(page[c]) : c \in Channel}],
  hand <- [p \in {"self"} |-> hand]

\* Cursor, pages, idle times and rotation implement the plain consumer group.
ImplementsQueue == Queue!Spec

=============================================================================

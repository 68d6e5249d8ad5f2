--------------------------- MODULE DeliveryQueue ---------------------------
(***************************************************************************)
(* What the consumer group of a task stream promises to the code that      *)
(* handles the deliveries: an entry is read once as new, oldest first,     *)
(* then stays pending, is handed out again as often as it is claimed, and  *)
(* is acknowledged only by a provider that has it in hand.  TaskConsumer   *)
(* (cursor, pages, idle times, rotation of the channels) and               *)
(* OperationLifecycle (handle, the watcher, Ray) both implement it.        *)
(***************************************************************************)
EXTENDS Naturals, FiniteSets

CONSTANTS
  Provider,      \* the provider processes that are looked at
  Delivery,      \* entries of the task streams, by increasing stream id
  Channel,       \* operation types
  ChannelOf,     \* the stream an entry belongs to
  ClaimCount,    \* transport.claim_count
  Outsiders,     \* are there other providers in the group?
  Nothing        \* no delivery in hand

VARIABLES
  queue,         \* per delivery: unread, pending in the group, or acked
  claimed,       \* per provider: RedisTaskConsumer._pending_messages
  hand           \* per provider: the delivery inside handle

vars == <<queue, claimed, hand>>

Init ==
  /\ queue = [d \in Delivery |-> "unread"]
  /\ claimed = [p \in Provider |-> {}]
  /\ hand = [p \in Provider |-> Nothing]

Of(c, state) == {d \in Delivery : queue[d] = state /\ ChannelOf[d] = c}
Waiting(p, c) == {d \in claimed[p] : ChannelOf[d] = c}

\* A page of pending entries, taken over from whoever had them; a failing call
\* takes them over in Redis only and leaves nothing here.
Claim(p, c) ==
  /\ hand[p] = Nothing /\ Waiting(p, c) = {}
  /\ \E page \in SUBSET Of(c, "pending") :
       /\ Cardinality(page) <= ClaimCount
       /\ claimed' = [claimed EXCEPT ![p] = @ \cup page]
  /\ UNCHANGED <<queue, hand>>

TakeClaimed(p) ==
  /\ hand[p] = Nothing
  /\ \E d \in claimed[p] :
       /\ claimed' = [claimed EXCEPT ![p] = @ \ {d}]
       /\ hand' = [hand EXCEPT ![p] = d]
  /\ UNCHANGED queue

\* The oldest new entry of a channel with no claimed one waiting; the reply may
\* be lost, and the entry is then pending with nobody.
TakeNew(p, c) ==
  /\ hand[p] = Nothing /\ Waiting(p, c) = {}
  /\ \E d \in Of(c, "unread") :
       /\ \A e \in Of(c, "unread") : d <= e
       /\ queue' = [queue EXCEPT ![d] = "pending"]
       /\ hand' = [hand EXCEPT ![p] = d] \/ UNCHANGED hand
  /\ UNCHANGED claimed

\* The outcome of handle: XACK, or the entry is left pending.
Finish(p) ==
  /\ hand[p] # Nothing
  /\ queue' = [queue EXCEPT ![hand[p]] = "acked"] \/ UNCHANGED queue
  /\ hand' = [hand EXCEPT ![p] = Nothing]
  /\ UNCHANGED claimed

Vanish(p) ==
  /\ claimed' = [claimed EXCEPT ![p] = {}]
  /\ hand' = [hand EXCEPT ![p] = Nothing]
  /\ UNCHANGED queue

\* Another provider of the group reads or acknowledges an entry.
Outside(d) ==
  /\ Outsiders
  /\ \/ queue[d] = "unread" /\ queue' = [queue EXCEPT ![d] = "pending"]
     \/ queue[d] = "pending" /\ queue' = [queue EXCEPT ![d] = "acked"]
  /\ UNCHANGED <<claimed, hand>>

Next ==
  \/ \E p \in Provider :
       \/ \E c \in Channel : Claim(p, c) \/ TakeNew(p, c)
       \/ TakeClaimed(p) \/ Finish(p) \/ Vanish(p)
  \/ \E d \in Delivery : Outside(d)

Spec == Init /\ [][Next]_vars

=============================================================================

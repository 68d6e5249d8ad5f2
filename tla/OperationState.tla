--------------------------- MODULE OperationState ---------------------------
(***************************************************************************)
(* The state shared by the parts of the provider: the Redis task group,    *)
(* the cancel keys and event streams, the Ray jobs, and what every         *)
(* provider process keeps in memory.  RayJobs, Admission and CancelWatcher *)
(* define the actions on it; OperationLifecycle composes them.             *)
(***************************************************************************)
EXTENDS Naturals, Sequences, FiniteSets

CONSTANTS
  Provider,         \* provider processes of one consumer group
  Delivery,         \* entries of the task streams, by increasing stream id
  Channel,          \* operation types: training and batch_inference
  Operation,        \* operation ids
  Submission,       \* deterministic Ray submission ids
  Profile,          \* execution profiles
  Digest,           \* request digests
  Request,          \* what each delivery asks for
  Null,             \* absent submission, digest, deadline, message or item
  Lookback,         \* _TERMINAL_LOOKBACK
  MaxStreamLength,  \* transport.max_stream_length
  ClaimCount,       \* transport.claim_count
  Cancellable,      \* the operations whose cancel key a client may set
  AmbiguousSubmit,  \* can submit_ray_job raise although Ray made the job?
  MaxFaults,        \* bound: failing calls in a behaviour
  MaxStops,         \* bound: provider crashes and shutdowns in a behaviour
  MaxTime,          \* bound: the clock
  MaxProgress       \* bound: nonterminal driver events per submission

VARIABLES
  queue,            \* per delivery: unread, pending in the group, or acked
  marker,           \* the cancel keys that exist
  log,              \* per operation: every event ever appended, oldest first
  trimmed,          \* per operation: how many of them MAXLEN has removed
  job,              \* the Ray jobs
  now,              \* wall clock
  mode,             \* per provider: down, up or closing
  buffer,           \* per provider: RedisTaskConsumer._pending_messages
  pc,               \* per provider: where RedisBrokerRuntime.handle stands
  msg,              \* per provider: the message being handled
  active,           \* per provider: ActiveSubmissionMap, by operation id
  stopRequested,    \* per provider: CancelWatcher._stop_requested
  timeoutRequested, \* per provider: CancelWatcher._timeout_requested
  watch,            \* per provider: where CancelWatcher.check_once stands
  faults, stops     \* bookkeeping for MaxFaults and MaxStops

mainVars  == <<mode, buffer, pc, msg>>
watchVars == <<stopRequested, timeoutRequested, watch>>
vars == <<queue, marker, log, trimmed, job, now, mode, buffer, pc, msg, active,
          stopRequested, timeoutRequested, watch, faults, stops>>

-----------------------------------------------------------------------------
(* Data.                                                                   *)

\* What validation makes of a task: "anonymous" has no usable outer
\* operation_id, "invalid" fails the envelope, protocol or mapping checks,
\* "oversize" only the driver-input limit that is checked after them.
Kind == {"valid", "anonymous", "invalid", "oversize"}

RequestType ==
  [ch: Channel, op: Operation, sub: Submission, profile: Profile,
   digest: Digest \cup {Null}, timeout: Nat \cup {Null}, kind: Kind]

\* ActiveSubmission, and the Ray metadata it is rebuilt from.
Item ==
  [ch: Channel, op: Operation, sub: Submission, profile: Profile,
   digest: Digest \cup {Null}, deadline: Nat \cup {Null}]

Message == [id: Delivery, recv: Nat]

TerminalType == {"COMPLETED", "FAILED", "CANCELLED"}
FallbackCode == {"EXECUTION_TIMEOUT", "RAY_JOB_FAILED",
                 "TERMINAL_EVENT_MISSING", "RAY_JOB_STOPPED"}
Code == FallbackCode \cup
        {"NONE", "REJECTED", "EXECUTION_FAILED",
         "TERMINAL_EVENT_PUBLICATION_FAILED"}
Event == [type: TerminalType \cup {"ACCEPTED", "PROGRESS"},
          sub: Submission \cup {Null}, code: Code]

LiveStatus  == {"PENDING", "RUNNING"}
EndedStatus == {"STOPPED", "SUCCEEDED", "FAILED"}
Job == [status: LiveStatus \cup EndedStatus \cup {"ABSENT"},
        item: Item \cup {Null},
        stopFor: {"none", "cancel", "timeout"},
        driver: {"executing", "completed", "unpublished", "failing", "failed"}]

MainPc == {"idle", "check", "cancelled", "reject", "resume", "confirm",
           "reaccept", "admit", "submit", "accept", "ack"}
WatchPc == {"idle", "status", "markers", "report", "remove", "cancel", "timeout"}
Watch == [pc: WatchPc, todo: SUBSET Item, item: Item \cup {Null},
          status: LiveStatus \cup EndedStatus \cup {Null},
          event: Event \cup {Null}]

ASSUME DeliveryAssumption == Delivery \subseteq Nat
ASSUME RequestAssumption == Request \in [Delivery -> RequestType]

\* submit_ray_job derives the submission id from the operation namespace, the
\* run and the attempt; a run belongs to one operation of one channel.
ASSUME SubmissionAssumption ==
  \A d, e \in Delivery : Request[d].sub = Request[e].sub =>
    Request[d].ch = Request[e].ch /\ Request[d].op = Request[e].op

ASSUME NullAssumption ==
  /\ Null \notin Submission /\ Null \notin Digest /\ Null \notin Nat
  /\ Null \notin Item /\ Null \notin Message /\ Null \notin Event
  /\ Null \notin LiveStatus \cup EndedStatus

ASSUME BoundAssumption ==
  /\ Lookback \in Nat \ {0} /\ MaxStreamLength \in Nat \ {0}
  /\ ClaimCount \in Nat \ {0} /\ MaxFaults \in Nat /\ MaxStops \in Nat
  /\ MaxTime \in Nat /\ MaxProgress \in Nat /\ AmbiguousSubmit \in BOOLEAN

Key == Channel \X Operation
KeyOf(x) == <<x.ch, x.op>>

ASSUME CancelAssumption == Cancellable \subseteq Key

-----------------------------------------------------------------------------
(* Type correctness.                                                       *)

NoWatch == [pc |-> "idle", todo |-> {}, item |-> Null, status |-> Null,
            event |-> Null]
NoJob == [status |-> "ABSENT", item |-> Null, stopFor |-> "none",
          driver |-> "executing"]

\* The type invariant: every variable stays in the data types above, and no
\* event stream is trimmed past its end.
TypeOK ==
  /\ queue \in [Delivery -> {"unread", "pending", "acked"}]
  /\ marker \subseteq Key
  /\ log \in [Key -> Seq(Event)]
  /\ trimmed \in [Key -> Nat]
  /\ \A k \in Key : trimmed[k] <= Len(log[k])
  /\ job \in [Submission -> Job]
  /\ now \in 0..MaxTime
  /\ mode \in [Provider -> {"down", "up", "closing"}]
  /\ buffer \in [Provider -> SUBSET Message]
  /\ pc \in [Provider -> MainPc]
  /\ msg \in [Provider -> Message \cup {Null}]
  /\ active \in [Provider -> [Operation -> Item \cup {Null}]]
  /\ stopRequested \in [Provider -> SUBSET Operation]
  /\ timeoutRequested \in [Provider -> SUBSET Operation]
  /\ watch \in [Provider -> Watch]
  /\ faults \in 0..MaxFaults
  /\ stops \in 0..MaxStops

-----------------------------------------------------------------------------
(* RedisEventReporter.publish: one XADD on the operation's event stream    *)
(* with MAXLEN ~ max_stream_length.  Approximate trimming removes old      *)
(* entries at any time but never goes below the limit.                     *)

AppendEvent(k, e) ==
  /\ log' = [log EXCEPT ![k] = Append(@, e)]
  /\ \E t \in trimmed[k]..(Len(log[k]) + 1) :
       /\ t = trimmed[k] \/ Len(log[k]) + 1 - t >= MaxStreamLength
       /\ trimmed' = [trimmed EXCEPT ![k] = t]

\* A call that raises: at most MaxFaults of them happen.
Fault == faults < MaxFaults /\ faults' = faults + 1

Publish(k, e) == AppendEvent(k, e) /\ UNCHANGED faults

\* The XADD raises: Redis may or may not have applied it.
PublishRaises(k, e) ==
  /\ Fault
  /\ AppendEvent(k, e) \/ UNCHANGED <<log, trimmed>>

\* What XREVRANGE ... COUNT _TERMINAL_LOOKBACK returns.
Recent(k) ==
  {log[k][i] : i \in {j \in (trimmed[k] + 1)..Len(log[k]) :
                        j + Lookback > Len(log[k])}}

\* terminal_event_published without a matcher.
TerminalPublished(item) ==
  \E e \in Recent(KeyOf(item)) : e.type \in TerminalType /\ e.sub = item.sub

=============================================================================

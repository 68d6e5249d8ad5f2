# The Redis broker of Tributo, specified in TLA+

`tributo-broker-redis` takes training and batch-inference tasks from Redis
streams, runs each one as a Ray job, and reports on it through a Redis event
stream per operation. This directory holds TLA+ modules that model the program,
the TLC configurations that check them on small instances, and proofs that
TLAPS checks for every instance. Source paths below are relative to
`src/tributo_broker_redis/`.

## 1. The system

### Components

| component | state it keeps | operations |
|---|---|---|
| `RedisBrokerRuntime` (`runtime.py`) | the active map, the running flag | `start` with `_recover_active_submissions`, `run_once`, `handle`, `_resume_existing_submission`, `_invalid`, `_apply_outcome`, `close` |
| `CancelWatcher`, `ActiveSubmissionMap` (`cancellation.py`) | `_stop_requested`, `_timeout_requested`, the snapshot of a pass | `check_once` on a daemon thread; `put`, `remove`, `get`, `snapshot` |
| `RedisTaskConsumer` (`consumer.py`) | claimed messages not yet handled, claim cursors, whose turn it is | `poll`, `recover_pending`, `ack`, `retry` |
| `RedisEventReporter` (`reporter.py`) | the identity and the limits of one operation | `publish` and the calls named after event types |
| execution driver (`execution_driver.py`) | none; runs in the Ray job | `main`, `_run_training`, `_run_batch_inference`, `_publish_completed` |
| protocol and mappings (`protocol.py`, `operations.py`) | none | `parse_request`, `prepare_operation` |
| driver transport (`driver_transport.py`) | temporary files | packing and loading `DriverInput` |
| configuration (`config.py`) | none after loading | validation |
| `redis_client.py`, `cli.py`, `plugin.py` | none | construction, signal handlers, registration |
| Redis, Ray (external) | streams, groups, keys; jobs and their metadata | XREADGROUP, XAUTOCLAIM, XACK, XADD, XREVRANGE, EXISTS; submit, status, stop, list |

### How they interact

A provider process has two threads. The main thread polls one delivery at a
time and takes it through `handle`; the watcher looks every so often at a
snapshot of the active map. They share that map. Everything else they share
with the driver, with other providers and with clients is remote: Redis and
Ray, one call at a time, and any call may raise, with or without having had its
effect. Nothing is persisted by the provider: after a restart the active map is
rebuilt from the metadata of Ray's jobs and from the event streams.

### What is hard

- the order of remote calls of four kinds of actor (main thread, watcher,
  driver, client), and of several providers of one consumer group;
- a crash between any two calls, above all between Ray's admission and XACK;
- calls that raise after they took effect (XADD, `submit_ray_job`,
  `stop_ray_job`, XREADGROUP whose reply is lost);
- state keyed by operation id while decisions are about one submission;
- a snapshot, a terminal-event lookup or a job status that is old when used;
- event streams that MAXLEN trims, and lookups that see only the newest events;
- the pace of recovery: a cursor over pending entries, pages of claimed ones,
  idle times and a slow `handle` decide who is served.

`PROJECT.json` lists each hazard at its line, with the properties aimed at it.

### What makes each component correct

- **runtime**: a delivery is acknowledged only when Ray has the job, or it was
  rejected or cancelled; it is acknowledged in the end; a later attempt waits
  for the earlier one; every acknowledged request is answered.
- **watcher**: a cancel key or a deadline ends the job; every ended job gets a
  terminal event, with the right reason, once.
- **active map**: an entry always stands for an existing job of its operation,
  and is not overwritten or dropped while its job is unreported.
- **consumer**: no delivery is lost or held twice; none is starved by one that
  is retried.
- **driver**: it reads its own input; no COMPLETED before the work is done; the
  terminal event and the exit status agree; it ends once the work has.
- **protocol and mappings**: one identity from the envelope to the submission;
  no credential gets in.
- **reporter**: no credential gets out.
- **configuration**: what is accepted gives the driver a valid connection that
  follows the provider's except where the section says otherwise, and channels
  of the two operations with names of their own.

## 2. The modules

| module | models |
|---|---|
| `OperationState` | constants, variables, data types, `TypeOK`; `RedisEventReporter.publish` and `terminal_event_published` |
| `RayJobs` | Ray as the provider uses it (external) and the driver inside a job, in five steps |
| `Admission` | the main thread: start with recovery, crash, close, claim, poll, every step of `handle`, acknowledgement |
| `CancelWatcher` | the watcher thread, one action per remote call of `check_once` |
| `OperationLifecycle` | the composition with clients and the clock; fairness; its properties; the parts of the inductive invariant |
| `DeliveryQueue` | abstract: what a consumer group promises to the code that handles deliveries |
| `ClientView` | abstract: what a client can rely on that wrote a task entry |
| `TaskConsumer` | `RedisTaskConsumer` for both channels and the loop of `run_once`: cursor, pages, idle times, rotation, time |
| `DriverTransport` | packing and reading the driver's input |
| `ExecutionDriver` | `main` of the driver, call by call, in a job that Ray may stop or lose |
| `Credentials` | the two recursive walks over JSON, and what they should find |
| `Configuration` | validation of connections and names, the driver connection, the client |
| `Intake` | loading a configuration, then one entry through every check up to the submission |
| `MCOperationLifecycle`, `MCTaskConsumer`, `MCExecutionDriver`, `MCIntake` | the small instances |
| `OperationLifecycleProofs` | proofs about the life cycle: types, acknowledgements, entries, cancellations; it implements `DeliveryQueue` |
| `ReportProofs` | what the watchers say of a job |
| `AttemptProofs` | what keeps attempts apart; the life cycle implements `ClientView` |
| `TaskConsumerProofs` | the consumer's types and page; it implements `DeliveryQueue` |
| `ExecutionDriverProofs` | proofs about the driver; it implements the driver of `RayJobs` |
| `Recursion` | recursive functions: that they satisfy their defining equations, and induction |
| `CredentialsProofs` | what the two walks over JSON compute |
| `IntakeProofs` | what a provider lets in |

The first five EXTEND each other in this order and speak of one state. The
detailed modules are tied to them by refinement:

- `TaskConsumer` and `OperationLifecycle` both implement `DeliveryQueue`
  (`ImplementsQueue`, one in each). The life cycle may therefore treat pages as
  sets and channels as unordered: whatever cursor, idle times and rotation do is
  a behaviour of the abstract group, and the life cycle uses no other.
- `ExecutionDriver` implements the driver of `RayJobs` (`ImplementsRayJobs`):
  each call of `main` is one of its five steps or a stutter, with the same
  events, the same failing publications and the same end.

- `OperationLifecycle` implements `ClientView` (`ImplementsClientView`). Its
  state is what a client, or somebody with Ray's dashboard, can see: the entries
  that are acknowledged, the cancel keys, the event streams, and of each job
  whether it lives and how it ended. Providers, threads, pages, the active map
  and failing calls are gone; an event is one action, with its ground as guard.

`Intake` and `Credentials` stand alone: they settle, entry by entry, what
`OperationState` calls the kind of a request.

Definitions whose comment begins with "Bug:" are mutated forms of the operator
that follows them; no specification uses them. `PROJECT.json` says which run
each one must make fail.

### State and code

| variable | in the code |
|---|---|
| `queue` | a task entry is unread, in the group's pending list, or acknowledged |
| `marker` | the cancel keys that exist (`ChannelConfig.cancel_key`); clients set them, nothing deletes them |
| `log`, `trimmed` | an operation's event stream: all events ever appended, and how many of the oldest are gone |
| `job` | Ray's status, metadata (`item`), why the provider asked for a stop (history), and where the driver stands |
| `mode` | process down, in `run_forever`, or after `close` |
| `buffer` | `RedisTaskConsumer._pending_messages` |
| `pc`, `msg` | where `handle` stands and on which message |
| `active` | `ActiveSubmissionMap`, by operation id alone as in the code |
| `stopRequested`, `timeoutRequested` | the watcher's two sets, by operation id |
| `watch` | the rest of the snapshot, the entry in hand, the status and the report decided on |
| `now` | `time.time()` |
| `faults`, `stops` | count failing calls and stops, against `MaxFaults` and `MaxStops` |

An action is one remote call with the local code up to the next one. `handle`
becomes

    check -> cancelled -> ack          an existing cancel key, no entry
    check -> ack                       an existing cancel key, an entry
    check -> reject -> ack             faults of envelope, protocol, mapping
    check -> resume -> confirm -> ack             the job is already reported
                    -> confirm -> reaccept -> ack it is still active
                    -> idle                       another attempt is active
    resume -> admit -> cancelled | reject | submit -> accept -> ack

and RETRY is the step back to `idle`, which leaves the delivery pending. The
watcher goes `idle -> status -> markers -> report -> remove`, or from `markers`
to `cancel` or `timeout` and back to `idle`, or from `idle` to `remove` when a
terminal event is already there.

`TaskConsumer` has `queue` as above, `idle` (time since a pending entry was last
delivered, which Redis keeps), `timer` (`_next_pending_recovery`), `cursor`,
`page` (`_pending_messages`), `nextChannel`, and where the loop stands. Time is
counted in units of `block_ms` and passes where the code spends it: in an empty
XREADGROUP and in `handle`. `ExecutionDriver` has where `main` stands, its place
in the list of calls and events of the operation (`Plan`), the exception in
flight, the return value and the events. `Intake` has the configuration, the
entry and the verdict.

### Abstractions

- A request is what validation makes of it (`kind`) and the fields the protocol
  is about; payloads, wording and credentials are left out. An absent digest is
  `Null`: a redelivery that cannot be compared is retried until the job ends.
- A submission id belongs to one operation of one channel
  (`SubmissionAssumption`): `submit_ray_job` derives it from the operation's
  namespace, the run and the attempt. `submit_ray_job` for a job that exists
  reconciles and succeeds; that library is not part of this repository.
- `Start` makes recovery one step. The main thread is the only one running
  then; a startup that raises leaves the process down, which is a stutter. One
  unreported job per operation is adopted.
- `Crash` stands for a kill and for the exceptions that no handler catches
  (poll, XACK, the terminal lookup of `_resume_existing_submission`).
- After `close` only the delivery in hand and the current pass go on. A poll
  under way when `close` is called commutes with it, so polls need mode `up`.
- A claimed page is a set: any subset of the pending entries up to
  `ClaimCount`, held by anyone, whatever their idle time. Channels are polled in
  any order. This allows more than the code's cursor and round robin do, which
  are in `TaskConsumer`.
- The watcher's cancel-key lookup and its reading of the clock are one step.
- MAXLEN is approximate: an append may trim anything that leaves at least
  `MaxStreamLength` events.
- In `RayJobs` the driver is reduced to its events, the except clauses of `main`
  and the exit status; all nonterminal events are PROGRESS.
- In `TaskConsumer` `handle` is a time and an outcome. A delivery is stuck (it
  always ends in RETRY) or ends in RETRY now and then, as a failing call. Other
  providers take and acknowledge up to `MaxTaken` entries.
- XAUTOCLAIM is modelled after Redis: it looks at up to ten times COUNT pending
  entries from the cursor on and returns the entry after the last one.
- In `ExecutionDriver` a result is characterised by whether its metrics and the
  whole of it can be encoded in an event; environments by the two transport
  variables. A failing publication is a fault, done or not.
- In `Intake` every field of an entry has the values that some check tells
  apart. A URL is well formed or not; a channel's names are compared and not taken
  apart. `Tributo`'s request models are one verdict.
- In `Credentials` a key stands for the way the two key patterns judge it. The
  pattern of `reporter.py` knows fewer words than the one of `protocol.py`, and
  `redact` looks at keys only, not at URLs with user information. Values nest up
  to `MaxDepth` and hold up to `MaxItems` items, both arbitrary; a request's spec
  is one level less deep, because `redact` turns what `credential_ref` holds into
  a string, which the model keeps as a node around it.
- In `Configuration` the text of a setting is a member of the set `Setting`; what
  validation asks of it is whether it is absent, unset or malformed. `UrlDatabase`
  is the database `Redis.from_url` takes from a URL. `driver_url` may name another
  server or database than `url`, and the driver's events then go where no client
  and no watcher looks; the life cycle assumes that they name the same one.
- Deadlines: `prepare_operation` in this repository never sets
  `timeout_seconds`; an injected preparer can, and `handle` supports it.
- `terminal_event_matcher`, a hook for other drivers, is not modelled.
- `AmbiguousSubmit` says whether `submit_ray_job` may raise although Ray made
  the job. It is TRUE unless a property is known to need otherwise: then the
  entry is missing until the redelivery, a second attempt may slip in, and
  `AttemptsDoNotOverlap`, `CancelStopsJob` and the deadline have no ground.

## 3. The runs

Deadlock checking is off in the runs of the life cycle: a system with all its
work done may stop. The loop of the consumer never stops, and deadlock is
checked there.

| run | instance | checks |
|---|---|---|
| `LoneProvider` | one provider, one task with a time limit; cancel key, one failing call, two stops, ambiguous submission | `TypeOK`, `AckedIsSettled`, `CancelledOnlyAfterStopped`, `ForeignStopOnly`, `TimeoutOnlyAfterDeadline`, `WatcherReportsOnce`, `ImplementsClientView` |
| `TwoProviders` | two providers that take each other's deliveries and adopt the same job, the second started at any time; cancel key | `AckedIsSettled`, `CancelledOnlyAfterStopped`, `ForeignStopOnly` |
| `Attempts` | two attempts of an operation; progress events, one stop | `AttemptsDoNotOverlap`, `EntryNeverReplaced`, `ImplementsQueue`, `ImplementsClientView` |
| `CancelLiveness` | a job that never ends by itself; cancel key, one failing call, one stop, a stream trimmed down to one event | `EndedJobReported`, `CancelStopsJob`, `DeliverySettles`, `AckAnswered` |
| `Handover` | two attempts, the first with a deadline | `DeliverySettles`, `DeadlineEndsJob` |
| `Answers` | a good task behind three rejected ones, each operation with a stream of its own; cancel key, one stop | `AckAnswered`, `ImplementsClientView` |
| `Consumer` | three training deliveries, two of them stuck, one inference; pages of one, idle limit 3, `handle` of 0 to 3 units; one failing call, one crash, one entry taken by another provider | `TypeOK`, `HeldOnce`, `PendingHandedOut`, `HealthyChannelSettles`, `NewSettles`, `ImplementsQueue` |
| `Driver` | both operations, inputs on both sides of the inline limit, stale variables in the configuration and on the node, results that can be encoded or not; three failing calls, stop and loss at any time | `TypeOK`, `OwnInput`, `SucceededSaidCompleted`, `SuccessNotReplaced`, `ExitSaysOne`, `RanEnds`, `ImplementsRayJobs` |
| `Intake` | 8192 transport sections whose URLs name the same and different databases, 256 pairs of channel names, entries with up to two deviating fields, JSON specs of depth four | `DriverFollowsSection`, `OneIdentity`, `PlaintextFound`, `RedactedClean` |
| `FallbackRace`, `LostSubmission`, `DroppedEntry` | see section 5 | one property each, which fails |

The bounds are the smallest at which the cases meet: one failing call hits each
call of each actor once, with and without effect; two stops allow a crash
during the work that follows a recovery; one tick separates "before the
deadline" from "at it"; two attempts are what a map keyed by operation can
confuse. Failing calls and stops together are in `LoneProvider` and
`CancelLiveness`; with two providers or two attempts they make the state space
ten times larger. Such instances were explored once and keep the same
properties; what is proved holds in all of them.

`TimeoutOnlyAfterDeadline` and `WatcherReportsOnce` are claims about a lone
provider: of two providers that both adopted a job, each may report it; and
where one makes the job from a delivery the other received earlier, the other
has an earlier deadline in its entry than Ray has in the metadata.

`Consumer` has two stuck deliveries because one cannot starve the channel
through the page, and a page of one so that cursor and page wrap around. Three
failing calls in `Driver` are two for one nonterminal event and one more for
the terminal event. `Intake` has one step per entry, so that two deviations are
enough to see which check comes first. Its JSON values are of depth four and have
two items at most (`MaxDepth`, `MaxItems`), so that a credential can be below a
list in a dict in a list, and beside another one.

`ImplementsClientView` is checked in three runs because they differ in what they
reach: a time limit, failing calls and ambiguous submissions in `LoneProvider`,
two jobs on one stream and progress events in `Attempts`, the four kinds of
request in `Answers`.

`AckAnswered` asks for an answer to this delivery, not for any event on its
stream: a valid request has to be accepted, end, or be cancelled; a faulty one
needs its rejection or the CANCELLED of its operation. Every request of `Answers`
has an operation, and so a stream, of its own, except the two on the third: one
of them has no usable id and is owed no event. `CancelLiveness` checks the same of
a valid request over a failing call and a crash. The rejection is best effort in
the code, and is asked for only where no call failed.

`DeliverySettles` is checked twice: in `Handover` against a second attempt that
has to wait for the deadline of the first, in `CancelLiveness` against a failing
call, among them an XREADGROUP whose reply is lost after Redis made the delivery
pending, and a crash.

### What `Consumer` says about starvation

`PendingHandedOut` and `HealthyChannelSettles` need no assumption: no pending
delivery is left out by the cursor, and a channel is never starved by the
other. Within a channel, `poll` reads a new entry only when no claimed one
waits. `NewSettles` therefore holds only if `handle` is not slow for ever: a
round of the stuck deliveries of the channel, each with its handling time and
the `block_ms` of the empty poll of the other channel, has to take less than
`claim_idle_ms`. With the defaults (60 s, 1 s) some sixty deliveries that are
always retried, or one whose handling takes a minute, keep the new entries of
their channel unread; so does `claim_idle_ms = 0`, which the configuration
accepts.

### Fairness

`FairSpec` assumes weak fairness of what the code's loops do whenever they can:
a stopped process is restarted (`Start`) or leaves (`Exit`), the main thread
goes on with `handle` and takes buffered messages, the watcher goes on with its
pass. `PollNew` gets strong fairness, because every turn of `run_once` polls but
can do so only between two deliveries. `ClaimDelivery` gets it for each delivery:
a claim takes a page of any pending entries, and that none is passed over for
ever is what `PendingHandedOut` shows of the cursor in `TaskConsumer`. Ray
carries out a stop it accepted, the except clauses and the exit of a driver
happen, and time passes. Nothing makes a job start or its workload end, no
client has to cancel, and stops and failing calls are bounded, so they end.

`TaskConsumer` assumes weak fairness of the loop (`run_forever`) and of the
restart after a crash; other providers need not do anything. `ExecutionDriver`
assumes weak fairness of the calls of `main` except the workload, which may run
for ever, and none of Ray.

## 4. The proofs

`OperationLifecycleProofs` proves, for every number of providers, deliveries,
channels, operations and submissions and every bound:

| theorem | says |
|---|---|
| `ShapeInvariant`, `TypeCorrect` | types; every entry a provider or its watcher holds stands for an existing Ray job of the same operation |
| `AcknowledgedIsSettled` | `Spec => []AckedIsSettled` |
| `HandleInvariant` | what `handle` has established at each of its steps |
| `EntriesKept` | `Spec => EntryNeverReplaced` |
| `CancelledIsStopped` | `Spec => []CancelledOnlyAfterStopped` |

They rest on the named assumptions of `OperationState`: deliveries are numbers,
requests have their type, a submission belongs to one operation, `Null` is none
of the values it stands beside, bounds are naturals, cancellable keys are keys.

None of the properties is inductive. The invariant is built in three layers,
each proved with the help of the ones before.

1. `Shape` = `TypeOK`, `JobInv` (a job's metadata names it, and some delivery
   asked for it), `ActiveInv`, `MainInv` (no `handle` without a process and a
   message; a process that is down holds nothing), `WatchInv`. Without it the
   key of a watched job, hence the stream a report goes to, is unknown.
2. `HandleInv` with `AckedIsSettled`: an acknowledgement is right because at
   `ack` the request is settled, and that is so because of what `confirm`,
   `cancelled`, `reject` and `accept` know. The steps of other actors keep it
   since jobs, cancel keys and events never disappear (`SettledKeep`), and since
   only the main thread adds entries, which gives `EntriesKept`: at `submit` the
   map has no entry for the operation.
3. `StopInv` and `LogInv`: a stop this process remembers was asked for; an ended
   status the watcher holds is still Ray's; a CANCELLED report about to be
   published is about a STOPPED job; and so is every one on a stream.

### What the watchers say

`ReportProofs` and `AttemptProofs` turn to properties that are not true of every
instance, and say what they need. A hypothesis is stated on the constants, or
as a state or step property of the behaviour (`Spec /\ []H => []P`).

| theorem | says | where |
|---|---|---|
| `CancelKeepsItsReason` | a job stopped for its cancel key is never reported RAY_JOB_STOPPED | always |
| `ForeignStops` | `ForeignStopOnly` | `DeadlinesAgree`: entries carry the deadline of Ray's metadata |
| `ForeignStopsWithoutTimeouts` | `ForeignStopOnly` | no request has a time limit |
| `WatcherSaysItOnce` | `WatcherReportsOnce` | one provider; `WindowHolds`: the lookup still finds what the watcher said |
| `TimeoutsAreDue` | `TimeoutOnlyAfterDeadline` | one submission id per operation; `NotEarlier`: no entry has an earlier deadline than the metadata |
| `LoneTimeoutsAreDue` | `TimeoutOnlyAfterDeadline` | one provider, one submission id per operation, one time limit per submission id |
| `AttemptsTakeTurns` | `AttemptsDoNotOverlap` | one provider, no ambiguous submission, at most two submission ids per operation |
| `ReportedBeforeTheNext` | `AttemptsDoNotOverlap`, and at most one job of an operation is unreported | one provider, no ambiguous submission; `EntryLeavesReported`; the lookup still finds every terminal event |

Each hypothesis excludes something the code does, and TLC has the
counterexample. A redelivery handled after a report makes an entry with a later
deadline, and a watcher that forgot its stop then finds no reason for it
(`ForeignStopOnly`). Sixteen later events hide a report
(`WatcherReportsOnce`). Two providers that receive a delivery at different times
disagree about its deadline, and a flag that outlives its entry explains the end
of the next attempt (`TimeoutOnlyAfterDeadline`; with two providers, or with the
requests of `DroppedEntry`). A lost submission has no entry
(`AttemptsDoNotOverlap`); the entry `DroppedEntry` drops leaves the way free for
a third attempt, but not for a second, because then the dropped one is the
second.

The arguments:

- All of them use `NewEvent`: an event on a stream is one of `handle`, which
  names no submission or is an ACCEPTED, one of a driver, which is never
  CANCELLED or a fallback, or the report of a watcher that stood at `report`.
- `WhyInv(why)`: a stop has its reason, the cancel key or a deadline that has
  passed; a watcher about to say RAY_JOB_STOPPED has an ended job that was not
  stopped for `why`. It is inductive because a reason never goes away, so a
  watcher that lost its memory finds it again. For timeouts it needs `AgreeInv`,
  that what the watcher took from the active map has the deadline of the job.
- `OnceInv`: between its look at the stream and its report, a watcher has an item
  of which nothing was said. Nobody but the same watcher says such a thing.
- `TimeInv`: a remembered timeout is one of a job past its deadline. Its ground
  for a lone provider is `ReceiptInv`: all a provider holds of a channel was
  received at one time, since it claims or reads only when the last page is used
  up, and no job has a later deadline than what is held of it would give.
- `SaidInv`: a terminal event names a job whose workload is over, and a watcher
  at `remove` has one for its item. `TurnInv`: while a busy job is the only one
  of its operation, a provider that is up has an entry for it, so `handle` does
  not reach `submit` for another. `OneUnreported`: the one job of an operation
  without a terminal event is the one with the entry.

### The queue

`OperationLifecycleProofs` also proves `LifecycleImplementsQueue`, that is
`Spec => ImplementsQueue`, from the same assumptions. Each step of the main
thread maps to one step of `DeliveryQueue`: XAUTOCLAIM to `Claim`, the two ways
of `poll` to `TakeClaimed` and `TakeNew`, the return of `handle` with or without
XACK to `Finish`, a crash or an exit to `Vanish`; all other steps of the main
thread, the watcher, Ray, clients and the clock are invisible. Besides `Shape`
(a provider inside `handle` has a message) it needs `HeldOnce`: no two messages
in `_pending_messages` carry the same delivery. Without it, handing one of them
out would leave the delivery claimed as well. It holds because a channel is
claimed only when its last page is used up.

`TaskConsumerProofs` proves `ConsumerTypes` (`TypeOK`), `DeliveriesHeldOnce`
(`HeldOnce`) and `ConsumerImplementsQueue` (`ImplementsQueue`) for every finite
set of deliveries, any number of channels, every page size, idle limit and bound
(`ConsumerAssumption`). The invariant is `ConsumerInv`: types, `HeldOnce`, and
`Delivered`: a page holds entries of its own channel that Redis has already
delivered, and the hand is full exactly inside `handle`. Without the last part
a new entry could already be in the page. The work is in the page XAUTOCLAIM
returns: `InOrder` lists a finite set by stream id (`InOrderFacts`, by the rank
of each entry), so a page repeats nothing, is taken from the pending entries
past the cursor, and is no longer than `claim_count` (`ClaimFacts`).

### The driver

`ExecutionDriverProofs` proves, for every inline limit, every set of inputs of
any length and every number of failing calls (`DriverAssumption`):

| theorem | says |
|---|---|
| `DriverInvariant` | what `main` has established at each of its points |
| `DriverTypes` | `Spec => []TypeOK` |
| `SuccessIsAnnounced` | `Spec => []SucceededSaidCompleted` |
| `SuccessStands` | `Spec => []SuccessNotReplaced` |
| `ExitIsTold` | `Spec => []ExitSaysOne` |
| `ReadsOwnInput` | `Spec => []OwnInput` |

`DriverInv` has two parts. `Points` keeps program counter, plan step and flags in
their ranges. `MainOK` says, point by point, what the stream may hold: only
nonterminal events while the plan runs (`Quiet`), COMPLETED as the last event
once `main` is to return 0, and no EXECUTION_FAILED once the workload has
returned. The properties speak of the end of the job, several failed calls
after the event they depend on, so they need the statement at every point in
between. `ExitInv` adds, for a run without failing calls, that an exception has
nothing terminal before it and that an error return has said FAILED, as the
last event. `ReadsOwnInput` holds from the start, by what `driver_transport`
packs and `read_driver_input` reads back, and no step changes what it speaks of.

It also proves `DriverImplementsRayJobs`, that is
`Spec => ImplementsRayJobs`: a nonterminal publication maps to `DriverProgress`,
the publication of the result to `DriverCompletes`, what fails before it to
`DriverFails`, the except clauses to `DriverExcept`, the end of `main` to
`DriverExit`; connecting, reading the input and the workload itself are
invisible. `PathInv` says which exceptions can be in flight where, without which
`except` could stand for two steps, and bounds the events of a plan by two for
each of its steps, without which `MaxProgress` of `RayJobs` would not cover them.

### The client's view

`AttemptProofs` proves `LifecycleImplementsClientView`, that is
`Spec => ImplementsClientView`, for any number of providers and from the
assumptions of `OperationState` alone. An XADD that took effect maps to the action
of `ClientView` that says its event, whether the call returned or raised; XACK to
`Acknowledge`, the creation of a job to `Admit`, its end to `End`, a client's
cancel key to `Cancel`; every other step is invisible. Each guard of `ClientView`
needs to be known at the step, so beyond `Shape`, `HandleInv`, `StopInv` and
`SaidInv` the invariant has four parts:

- `KindInv`: past the checks of `handle` a request has none of the faults they
  look for, so what reaches `submit` is valid. Without it `Admit` has no ground.
- `LimitInv`: every deadline, in Ray's metadata, the active map or a watcher's
  hands, every remembered timeout and every EXECUTION_TIMEOUT about to be said
  goes back to a request of the operation with a time limit.
- `RulingInv`: a watcher that stands at `report` has an event that is right about
  the end of its job. It was right when it was decided, several steps earlier;
  it still is because an ended job does not change and a cancel key stays.
- `TalkInv`: the verdicts on a live job are its own driver's, and they are what
  the driver's place in `main` says they can be: none while it executes, at most
  the COMPLETED that may have been applied although the call raised, at most the
  FAILED of a first attempt to report a failure. `handle` and the watchers add
  none (`OthersAreSilent`): the former names no submission in a terminal event,
  the latter speak only of jobs that have ended.

So a COMPLETED may be followed by the driver's own
TERMINAL_EVENT_PUBLICATION_FAILED, by an ACCEPTED that is late, by what a watcher
says of the end, and by nothing else of the same job. `ClientView` is no stronger
than the code: it does not promise that a report comes, nor that a watcher is
silent about an end the driver has announced (TERMINAL_EVENT_MISSING may follow a
COMPLETED), nor that EXECUTION_TIMEOUT is about the time limit of the same
attempt; and of a CANCELLED before admission it says that the cancel key exists,
not that no job does. These are disagreements of section 5.

### The intake

`IntakeProofs` proves all four invariants of `Intake` for every set of
situations (`SituationAssumption`: transport sections, names and specs have their
types), every choice of databases in the URLs (`UrlAssumption`), and every depth
and width of values (`DepthAssumption`).

| theorem | says |
|---|---|
| `DriverFollows` | `Spec => []DriverFollowsSection` |
| `SingleIdentity` | `Spec => []OneIdentity` |
| `SearchFinds` | `Spec => []PlaintextFound` |
| `RedactionClean` | `Spec => []RedactedClean` |

The invariant is `Checked` (`CheckedHolds`): the situation is one of those given,
a configuration in use has passed its validation, and a verdict is that of the
entry. The rest is about the operators. `DriverConnectionFacts` follows
validation, derivation and validation again, mode by mode: master and credentials
stay, Sentinel keeps the database, and a difference in address or database is one
that `driver_url` or `driver_sentinel_nodes` asked for. `ChecksFacts` and `AdmittedFacts` turn the ordered list of checks
into what an admitted entry has passed. The last two rest on `CredentialsProofs`:

- `PlaintextWalk`: `_plaintext_credential_path` finds something in a value exactly
  if some position holds a credential;
- `RedactHides`: in what `redact` returns, nothing stands under a sensitive key
  but the replacement.

Both are statements about recursive definitions for every input, and so need two
things the prover does not offer: that a recursive definition satisfies its
equation, and induction over data. `Recursion` supplies the first: `Grounded` asks
that the body of a function depend only on arguments of lower rank, and
the lemma `RecursiveFunction` then has the function whose equation it is, built from the
partial solutions below each rank. Its parameters are CONSTANTS, not arguments of
a theorem; `CredentialsProofs` takes an instance for each recursive function, with
its body (`JsonBody`, `NodeBody`, `PathBody`, ...) and the depth of a value as
rank, proves `Grounded`, and has the equation (`JsonEquation`, `NodeEquation`,
`PathEquation`, ...). For the second, `ValueInduction` is stated for a set in place
of a predicate: a set that has each value as soon as it has all values less deep,
has all values. It follows from `LeastNumber`, that a nonempty set of numbers has a
least element, and so does induction over numbers. `Depth` is the least nesting
at which a value is found (`DepthFacts`); its items are found below (`ValueFacts`).

### Only model-checked

All liveness, since the prover has no rule for fairness: `EndedJobReported`,
`CancelStopsJob`, `DeadlineEndsJob`, `DeliverySettles`, `AckAnswered`,
`PendingHandedOut`, `HealthyChannelSettles`, `NewSettles`, `RanEnds`. Every safety
property, action property and refinement that a passing run checks is also a
theorem, under the hypotheses given above.

## 5. Where the code and its documents disagree

These runs end in a counterexample of TLC; `PROJECT.json` quotes the lines.

- `FallbackRace`: the watcher looks for a terminal event, then asks for the
  status. A driver that publishes COMPLETED and exits in between is reported
  FAILED, TERMINAL_EVENT_MISSING, as well.
- `LostSubmission`: after an ambiguous submission, a redelivery that finds a
  cancel key says CANCELLED and acknowledges, while the job runs on.
- `DroppedEntry`: the watcher removes by operation id what it decided about one
  submission, and can remove the entry of the next attempt.

The same models show five more, for which no run is kept.

- A job succeeds and is reported while its delivery is pending; a cancel key
  set then makes the redelivery say CANCELLED, where `docs/operations.md` says
  that a later cancel key has no effect.
- An operation id used in both channels shares one entry of the active map: an
  inference cancelled beside an active training of the same id is acknowledged
  without an answer (`AckAnswered` fails with such a pair of requests).
- A job that nobody in the provider stopped is past its deadline when the watcher
  looks, and is reported EXECUTION_TIMEOUT where `docs/operations.md` promises
  RAY_JOB_STOPPED.
- `handle` removes the entry of an attempt that timed out and leaves the
  watcher's timeout flag, which goes by operation id. If the next attempt has no
  deadline and is stopped from outside, it is reported EXECUTION_TIMEOUT (TLC
  finds this with the requests of `DroppedEntry` and a tick).
- The validation of the channels compares each name with the same name of the
  other channel only. An event prefix equal to a cancel prefix, of the same
  channel or of the other, is accepted, and the first event of the operation then
  exists as its cancel key; the docstring of `ChannelConfig` calls the names
  independent. Names that nest, `a` and `a:b`, can meet too.

The hazards without a property say in `PROJECT.json` why they have none: the
lookback window of 16 events, a terminal event that MAXLEN trims before anybody
reads it, the later deadline of a redelivery, a `driver_url` that leads to another
database.

## 6. Not modelled

- The syntax of URLs, nodes, extension modules, pip requirements and field
  names, and numeric ranges: one value passes, one does not. They are local
  checks of a string without state.
- Tributo's request models, Ray and Redis beyond what the provider sees of
  them, redis-py.
- The fields of an event that no decision depends on (times, phases, wording),
  and the temporary directory of the driver transport, which lives as long as
  one call.
- `cli.py` and `plugin.py`: argument parsing and registration. The signal
  handler is the `Close` action.
- Exceptions that no clause of `handle` names (from the JSON parser or from
  pydantic) are a crash; that a delivery causes the same crash after each
  redelivery is not a property of this model.
- Two operations that share a run id and an attempt id, and so a submission id,
  are excluded by `SubmissionAssumption`.

## 7. Plan

Done: the life cycle, the consumer, the driver and the intake, the four
refinements, and a theorem for every safety property the passing runs check.

What is left:

1. A run of the life cycle with a redelivery after an ambiguous submission and
   deadlines, for `DeadlineEndsJob` beyond the case it is checked in.
2. `TaskConsumer` with several providers that each have a cursor, in place of
   other providers that take and acknowledge at will.
3. Liveness from `ClientView`: what a client may wait for, stated once in the
   abstract specification instead of in terms of the life cycle's state.

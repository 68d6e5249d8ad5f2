------------------------- MODULE OperationLifecycle -------------------------
(***************************************************************************)
(* The life of an operation from its task entry to its terminal event:     *)
(* clients, Redis, Ray with the drivers, and provider processes of one     *)
(* consumer group, each with a main thread and a watcher thread.           *)
(***************************************************************************)
EXTENDS CancelWatcher

Init ==
  /\ queue = [d \in Delivery |-> "unread"]
  /\ marker = {}
  /\ log = [k \in Key |-> << >>]
  /\ trimmed = [k \in Key |-> 0]
  /\ job = [s \in Submission |-> NoJob]
  /\ now = 0
  /\ mode = [p \in Provider |-> "down"]
  /\ buffer = [p \in Provider |-> {}]
  /\ pc = [p \in Provider |-> "idle"]
  /\ msg = [p \in Provider |-> Null]
  /\ active = [p \in Provider |-> [o \in Operation |-> Null]]
  /\ stopRequested = [p \in Provider |-> {}]
  /\ timeoutRequested = [p \in Provider |-> {}]
  /\ watch = [p \in Provider |-> NoWatch]
  /\ faults = 0
  /\ stops = 0

\* A client sets the cancel key of an operation; the provider only reads it.
ClientCancel(k) ==
  /\ k \in Cancellable \ marker
  /\ marker' = marker \cup {k}
  /\ UNCHANGED <<queue, log, trimmed, job, now, mainVars, active, watchVars,
                 faults, stops>>

Tick ==
  /\ now < MaxTime
  /\ now' = now + 1
  /\ UNCHANGED <<queue, marker, log, trimmed, job, mainVars, active, watchVars,
                 faults, stops>>

Next ==
  \/ \E p \in Provider : MainStep(p) \/ WatchStep(p)
  \/ \E s \in Submission : RayStep(s)
  \/ \E k \in Cancellable : ClientCancel(k)
  \/ Tick

Spec == Init /\ [][Next]_vars

-----------------------------------------------------------------------------
(* Fairness: threads that can take a step do, a stopped provider is        *)
(* started again, time passes, Ray carries out a stop and ends a job whose *)
(* driver has returned.  The workload itself may run for ever.             *)

\* XAUTOCLAIM hands out this delivery, as it does in the end with every pending
\* one: PendingHandedOut of TaskConsumer.
ClaimDelivery(p, d) ==
  Claim(p, Request[d].ch) /\ \E m \in buffer'[p] : m.id = d

Fairness ==
  /\ \A p \in Provider :
       /\ WF_vars(Start(p)) /\ WF_vars(Exit(p))
       /\ WF_vars(HandleStep(p)) /\ WF_vars(WatchStep(p))
       /\ WF_vars(PollClaimed(p)) /\ SF_vars(PollNew(p))
       /\ \A d \in Delivery : SF_vars(ClaimDelivery(p, d))
  /\ \A s \in Submission :
       /\ WF_vars(StopTakesEffect(s))
       /\ WF_vars(DriverExcept(s)) /\ WF_vars(DriverExit(s))
  /\ WF_vars(Tick)

FairSpec == Spec /\ Fairness

-----------------------------------------------------------------------------
(* Safety.                                                                 *)

Has(k, e) == \E i \in DOMAIN log[k] : log[k][i] = e
KeyOfJob(s) == KeyOf(job[s].item)
Reported(s, type, code) == Exists(s) /\ Has(KeyOfJob(s), DriverEvent(s, type, code))

\* What an acknowledgement rests on.
Settled(r) ==
  \/ Exists(r.sub)
  \/ r.kind # "valid"
  \/ /\ KeyOf(r) \in marker
     /\ \/ Has(KeyOf(r), QueuedCancel)
        \/ \E s \in Submission : Exists(s) /\ job[s].item.op = r.op

\* "ACK means Ray accepted the execution": an acknowledged request has its Ray
\* job, or was rejected by validation, or its operation was cancelled, which
\* the client was told or which a job of the operation is left to show.  Covers
\* handle, its retries, redelivery and every crash between Ray and XACK.
AckedIsSettled ==
  \A d \in Delivery : queue[d] = "acked" => Settled(Request[d])

\* check_once publishes CANCELLED for a submission only after Ray reported it
\* STOPPED, and only for an operation id somebody asked to cancel.
CancelledOnlyAfterStopped ==
  \A s \in Submission : Reported(s, "CANCELLED", "NONE") =>
    /\ Status(s) = "STOPPED"
    /\ \E c \in Channel : <<c, job[s].item.op>> \in marker

\* RAY_JOB_STOPPED is only said of a job nobody in the provider stopped: the
\* reason of a stop survives a crash between stop_job and STOPPED, and an
\* ambiguous stop_job, although the watcher's memory of it does not.
ForeignStopOnly ==
  \A s \in Submission :
    Reported(s, "FAILED", "RAY_JOB_STOPPED") => job[s].stopFor = "none"

\* EXECUTION_TIMEOUT is only said of a job whose deadline has passed.
TimeoutOnlyAfterDeadline ==
  \A s \in Submission : Reported(s, "FAILED", "EXECUTION_TIMEOUT") =>
    job[s].item.deadline # Null /\ now >= job[s].item.deadline

\* The watcher of a lone provider reports a submission at most once, over
\* crashes, restarts and XADDs that raised after Redis applied them.
WatcherReports(s) ==
  {i \in DOMAIN log[KeyOfJob(s)] :
     LET e == log[KeyOfJob(s)][i] IN
     e.sub = s /\ (e.type = "CANCELLED" \/ e.code \in FallbackCode)}
WatcherReportsOnce ==
  \A s \in Submission : Exists(s) => Cardinality(WatcherReports(s)) <= 1

\* No two attempts of an operation execute their workload at the same time: the
\* later one is left pending until the earlier one is reported, over crashes
\* and restarts, provided submit_ray_job never loses a job it created.
AttemptsDoNotOverlap ==
  \A s, t \in Submission :
    s # t /\ Live(s) /\ Live(t) /\ KeyOfJob(s) = KeyOfJob(t) =>
      job[s].driver # "executing" \/ job[t].driver # "executing"

\* An entry of the active map is never overwritten by another submission: the
\* watcher would lose sight of the first one.
EntryNeverReplaced ==
  [][\A p \in Provider, o \in Operation :
       active[p][o] # Null /\ active'[p][o] # Null =>
         active'[p][o].sub = active[p][o].sub]_vars

Queue == INSTANCE DeliveryQueue WITH
  ChannelOf <- [d \in Delivery |-> Request[d].ch],
  Outsiders <- FALSE, Nothing <- Null,
  claimed <- [p \in Provider |-> {m.id : m \in buffer[p]}],
  hand <- [p \in Provider |-> IF pc[p] = "idle" THEN Null ELSE msg[p].id]

\* Whatever handle, the watcher and Ray do, each provider uses the consumer group
\* as DeliveryQueue says: it acknowledges only what it has in hand, and reads a
\* new entry only when no claimed one waits.
ImplementsQueue == Queue!Spec

Client == INSTANCE ClientView WITH
  acked <- {d \in Delivery : queue[d] = "acked"}, asked <- marker, said <- log,
  work <- [s \in Submission |-> IF Live(s) THEN "LIVE" ELSE Status(s)]

\* Whatever the interleaving of handle, watchers, drivers, crashes and failing
\* calls, a client finds no event without the ground that ClientView gives it (an
\* accepted job exists, a result comes from a live job, a fallback names the way
\* Ray says the job ended, though a result may have been announced before it), no
\* progress or result after a terminal event of the driver, and no acknowledgement
\* or job without its ground.
ImplementsClientView == Client!Spec

-----------------------------------------------------------------------------
(* The inductive invariant behind the theorems.                            *)

\* The job an entry stands for exists and belongs to the same operation.
Tracked(i) == Exists(i.sub) /\ KeyOfJob(i.sub) = KeyOf(i)

CancelAsked(o) == \E c \in Channel : <<c, o>> \in marker

JobInv ==
  \A s \in Submission : Exists(s) =>
    /\ job[s].item \in Item
    /\ job[s].item.sub = s
    /\ \E d \in Delivery :
         Request[d].sub = s /\ KeyOf(Request[d]) = KeyOf(job[s].item)

ActiveInv ==
  \A p \in Provider, o \in Operation : active[p][o] # Null =>
    active[p][o].op = o /\ Tracked(active[p][o])

MainInv ==
  \A p \in Provider :
    /\ pc[p] # "idle" => mode[p] # "down" /\ msg[p] \in Message
    /\ mode[p] = "down" => \A o \in Operation : active[p][o] = Null

WatchInv ==
  \A p \in Provider :
    /\ \A i \in watch[p].todo : Tracked(i)
    /\ watch[p].pc # "idle" => watch[p].item \in Item /\ Tracked(watch[p].item)
    /\ watch[p].pc = "report" => watch[p].event \in Event

\* What handle has established by the time it stands at each step.
HandleOK(p) ==
  /\ pc[p] \in {"admit", "submit"} => ~HasEntry(p)
  /\ pc[p] = "cancelled" => MainKey(p) \in marker
  /\ pc[p] = "reject" => Req(p).kind # "valid"
  /\ pc[p] \in {"confirm", "reaccept", "accept"} => Exists(Req(p).sub)
  /\ pc[p] = "ack" => Settled(Req(p))
HandleInv == \A p \in Provider : HandleOK(p)

\* What check_once may conclude from a STOPPED status.
StopOK(p) ==
  /\ \A o \in stopRequested[p] : CancelAsked(o)
  /\ watch[p].pc = "cancel" => CancelAsked(watch[p].item.op)
  /\ watch[p].pc = "markers" /\ watch[p].status \in EndedStatus =>
       Status(watch[p].item.sub) = watch[p].status
  /\ watch[p].pc = "report" /\ watch[p].event.type = "CANCELLED" =>
       /\ watch[p].event.sub = watch[p].item.sub
       /\ Status(watch[p].item.sub) = "STOPPED"
       /\ CancelAsked(watch[p].item.op)
StopInv == \A p \in Provider : StopOK(p)

\* Every CANCELLED event that names a submission.
LogInv ==
  \A k \in Key : \A i \in DOMAIN log[k] :
    log[k][i].type = "CANCELLED" /\ log[k][i].sub # Null =>
      Status(log[k][i].sub) = "STOPPED" /\ CancelAsked(k[2])

-----------------------------------------------------------------------------
(* What docs/operations.md and the tests say and the code does not keep.   *)

\* docs/operations.md: a fallback is for a job that ended "without a terminal
\* provider event", so TERMINAL_EVENT_MISSING never joins a COMPLETED event.
FallbackOnlyWhenMissing ==
  \A s \in Submission :
    ~(/\ Reported(s, "COMPLETED", "NONE")
      /\ Reported(s, "FAILED", "TERMINAL_EVENT_MISSING"))

\* docs/operations.md: where a cancel key found before admission produced
\* CANCELLED, "no Ray Job is created".
QueuedCancelMeansNoJob ==
  \A s \in Submission : Live(s) => ~Has(KeyOfJob(s), QueuedCancel)

\* An old attempt's terminal event does not hide the active submission: an
\* entry is dropped from the active map only when its own job was reported.
EntryLeavesReported ==
  [][\A p \in Provider, o \in Operation :
       active[p][o] # Null /\ active'[p][o] = Null /\ mode'[p] # "down" =>
         TerminalPublished(active[p][o])]_vars

-----------------------------------------------------------------------------
(* Liveness.                                                               *)

TerminalSaid(s) ==
  /\ Exists(s)
  /\ \E i \in DOMAIN log[KeyOfJob(s)] :
       LET e == log[KeyOfJob(s)][i] IN e.type \in TerminalType /\ e.sub = s

\* A job that ended is reported to the client by a terminal event, whoever
\* ended it and whatever crashed meanwhile.
EndedJobReported == \A s \in Submission : Ended(s) ~> TerminalSaid(s)

\* A cancel key ends the job of its operation, even one that would run for ever.
CancelStopsJob ==
  \A s \in Submission : (Live(s) /\ KeyOfJob(s) \in marker) ~> Ended(s)

\* A job past its deadline is ended.
DeadlineEndsJob ==
  \A s \in Submission :
    (Live(s) /\ job[s].item.deadline # Null /\ now >= job[s].item.deadline)
      ~> Ended(s)

\* Every task entry is acknowledged in the end, whatever it holds, unless other
\* jobs keep running: an attempt is retried until the earlier one is over.
DeliverySettles ==
  \A d \in Delivery :
    <>[](\A s \in Submission : s # Request[d].sub => ~Live(s))
      => <>(queue[d] = "acked")

\* What a client can find on the event stream of its operation: of a good
\* request that its job was accepted or how it ended, of a faulty one that it was
\* rejected, of either that it was cancelled before admission.
Answered(r) ==
  \/ Has(KeyOf(r), QueuedCancel)
  \/ /\ r.kind = "valid"
     /\ Has(KeyOf(r), Accepted(r.sub)) \/ TerminalSaid(r.sub)
  \/ r.kind # "valid" /\ Has(KeyOf(r), Rejection)

\* No acknowledged request stays without an answer of its own on its event
\* stream; only the rejection of a faulty one, which _invalid acknowledges also
\* when its FAILED event could not be published, may be lost to a failing call.
AckAnswered ==
  \A d \in Delivery :
    (/\ queue[d] = "acked"
     /\ \/ Request[d].kind = "valid"
        \/ Request[d].kind \in {"invalid", "oversize"} /\ faults = 0)
      ~> Answered(Request[d])

=============================================================================

---------------------------- MODULE ReportProofs ----------------------------
(***************************************************************************)
(* What the watchers say of a job: why it was stopped, how often, and that *)
(* a timeout is only reported of a job past its deadline.                  *)
(***************************************************************************)
EXTENDS OperationLifecycleProofs, FiniteSetTheorems

-----------------------------------------------------------------------------
(* Who writes what.                                                        *)

\* An event of handle: it names no submission, or is an ACCEPTED.
ByHandle(e) == (e.sub = Null \/ e.type = "ACCEPTED") /\ e.code \in {"NONE", "REJECTED"}

\* An event of the watcher about a submission.
ByWatcher(e) == e.sub # Null /\ (e.type = "CANCELLED" \/ e.code \in FallbackCode)

Writes(k, e) == Publish(k, e) \/ PublishRaises(k, e)

\* A driver publishes in its job's stream, never what is the watcher's to say, and
\* a terminal event only when its workload is over.
LEMMA DriverWrites ==
  ASSUME Shape, NEW s \in Submission, RayStep(s), log' # log
  PROVE  /\ Exists(s) /\ KeyOfJob(s) \in Key /\ UNCHANGED watch
         /\ \E e \in Event :
              /\ Writes(KeyOfJob(s), e) /\ e.sub = s
              /\ e.type # "CANCELLED" /\ e.code \notin FallbackCode
              /\ e.type \in TerminalType => job'[s].driver # "executing"
<1>0. TypeOK /\ JobInv
  BY DEF Shape
<1>1. Exists(s)
  BY DEF RayStep, JobStarts, JobLost, StopTakesEffect, ExternalStop, DriverProgress,
         DriverCompletes, DriverFails, DriverExcept, DriverExit, Executing, Exists
<1>2. KeyOfJob(s) = DriverKey(s) /\ KeyOfJob(s) \in Key
  BY <1>0, <1>1, DriverKeyType DEF KeyOfJob, DriverKey
<1>3. UNCHANGED watch
  BY RayLemma DEF ProviderSide, watchVars
<1> DEFINE codes == {"NONE", "EXECUTION_FAILED", "TERMINAL_EVENT_PUBLICATION_FAILED"}
<1>4. \A c \in codes : c \in Code /\ c \notin FallbackCode
  BY DEF Code, FallbackCode
<1>5. PICK type \in {"COMPLETED", "FAILED", "PROGRESS"}, code \in codes :
        /\ Writes(DriverKey(s), DriverEvent(s, type, code))
        /\ type = "PROGRESS" \/
             \E st \in {"completed", "unpublished", "failing", "failed"} : SetDriver(s, st)
  <2>1. CASE DriverProgress(s)
    BY <2>1 DEF DriverProgress, Writes
  <2>2. CASE DriverCompletes(s)
    BY <2>2 DEF DriverCompletes, Writes
  <2>3. ASSUME NEW code \in codes, DriverReportsFailure(s, code)
        PROVE  Writes(DriverKey(s), DriverEvent(s, "FAILED", code)) /\ SetDriver(s, "failed")
    BY <2>3 DEF DriverReportsFailure, Writes
  <2>4. CASE DriverFails(s)
    <3>1. CASE DriverReportsFailure(s, "EXECUTION_FAILED")
      BY <2>3, <3>1
    <3>2. CASE ~DriverReportsFailure(s, "EXECUTION_FAILED")
      BY <2>4, <3>2 DEF DriverFails, Writes
    <3> QED BY <3>1, <3>2
  <2>5. CASE DriverExcept(s)
    BY <2>3, <2>5 DEF DriverExcept
  <2>6. CASE JobStarts(s) \/ JobLost(s) \/ StopTakesEffect(s) \/ ExternalStop(s)
             \/ DriverExit(s)
    BY <2>6 DEF JobStarts, JobLost, StopTakesEffect, ExternalStop, DriverExit
  <2> QED BY <2>1, <2>2, <2>4, <2>5, <2>6 DEF RayStep
<1>6. ASSUME NEW st \in {"completed", "unpublished", "failing", "failed"},
             SetDriver(s, st)
      PROVE  job'[s].driver # "executing"
  BY <1>0, <1>6 DEF SetDriver, TypeOK, Job
<1>7. DriverEvent(s, type, code) \in Event
  BY <1>4, DriverEventType DEF TerminalType
<1>8. /\ DriverEvent(s, type, code).sub = s /\ DriverEvent(s, type, code).type = type
      /\ DriverEvent(s, type, code).code = code
  BY DEF DriverEvent
<1>9. type \in TerminalType => job'[s].driver # "executing"
  BY <1>5, <1>6 DEF TerminalType
<1> HIDE DEF codes
<1> QED BY <1>1, <1>2, <1>3, <1>4, <1>5, <1>7, <1>8, <1>9

\* handle publishes its own kind of events.
LEMMA HandleWrites ==
  ASSUME Shape, NEW p \in Provider, HandleStep(p), log' # log
  PROVE  \E k \in Key, e \in Event : Writes(k, e) /\ ByHandle(e)
<1>1. pc[p] # "idle"
  BY DEF HandleStep, CheckCancel, CheckCancelRaises, PublishCancelled, Reject,
         Resume, Confirm, Reaccept, CheckCancelAgain, Submit, Accept, Ack, At
<1>2. MainKey(p) \in Key /\ Req(p).sub \in Submission
  BY <1>1, RequestLemma DEF RequestType
<1>3. \E e \in {QueuedCancel, Rejection, Accepted(Req(p).sub)} : Writes(MainKey(p), e)
  BY DEF HandleStep, CheckCancel, CheckCancelRaises, PublishCancelled, Reject,
         Resume, Confirm, Reaccept, CheckCancelAgain, Submit, Accept, Ack, Announce,
         Writes
<1>4. \A e \in {QueuedCancel, Rejection, Accepted(Req(p).sub)} : ByHandle(e)
  BY DEF QueuedCancel, Rejection, Accepted, ByHandle
<1> QED BY <1>2, <1>3, <1>4, EventTypes

\* An event stream grows by one event at a time.
LEMMA OneEvent ==
  ASSUME TypeOK, NEW j \in Key, NEW e \in Event, Writes(j, e),
         NEW k \in Key, NEW i \in DOMAIN log'[k], i \notin DOMAIN log[k]
  PROVE  k = j /\ log'[k][i] = e /\ i = Len(log[k]) + 1
<1>1. k = j /\ log'[k][i] = e
  BY PublishLemma DEF Writes
<1>2. log' = [log EXCEPT ![j] = Append(log[j], e)]
  BY DEF Writes, Publish, PublishRaises, AppendEvent
<1>3. log \in [Key -> Seq(Event)]
  BY DEF TypeOK
<1>4. log'[k] = Append(log[k], e) /\ log[k] \in Seq(Event)
  BY <1>1, <1>2, <1>3
<1>5. DOMAIN log'[k] = 1..(Len(log[k]) + 1) /\ DOMAIN log[k] = 1..Len(log[k])
      /\ Len(log[k]) \in Nat
  BY <1>4
<1> QED BY <1>1, <1>5

\* The three writers of the event streams.
LEMMA NewEvent ==
  ASSUME Shape, [Next]_vars, NEW k \in Key, NEW i \in DOMAIN log'[k],
         i \notin DOMAIN log[k]
  PROVE  /\ i = Len(log[k]) + 1
         /\ \/ ByHandle(log'[k][i]) /\ UNCHANGED watch
            \/ \E s \in Submission :
                 /\ Exists(s) /\ k = KeyOfJob(s) /\ log'[k][i].sub = s
                 /\ log'[k][i].type # "CANCELLED" /\ log'[k][i].code \notin FallbackCode
                 /\ log'[k][i].type \in TerminalType => job'[s].driver # "executing"
                 /\ UNCHANGED watch
            \/ \E p \in Provider :
                 /\ watch[p].pc = "report" /\ Report(p) /\ k = KeyOf(Watched(p))
                 /\ log'[k][i] = watch[p].event /\ UNCHANGED job
<1>0. TypeOK
  BY DEF Shape
<1>1. log' # log
  OBVIOUS
<1>2. CASE \E s \in Submission : RayStep(s)
  <2>1. PICK s \in Submission : RayStep(s)
    BY <1>2
  <2>2. /\ Exists(s) /\ KeyOfJob(s) \in Key /\ UNCHANGED watch
        /\ \E e \in Event :
             /\ Writes(KeyOfJob(s), e) /\ e.sub = s
             /\ e.type # "CANCELLED" /\ e.code \notin FallbackCode
             /\ e.type \in TerminalType => job'[s].driver # "executing"
    BY <1>1, <2>1, DriverWrites
  <2>3. PICK e \in Event :
          /\ Writes(KeyOfJob(s), e) /\ e.sub = s
          /\ e.type # "CANCELLED" /\ e.code \notin FallbackCode
          /\ e.type \in TerminalType => job'[s].driver # "executing"
    BY <2>2
  <2>4. k = KeyOfJob(s) /\ log'[k][i] = e /\ i = Len(log[k]) + 1
    BY <1>0, <2>2, <2>3, OneEvent
  <2> QED BY <2>2, <2>3, <2>4
<1>3. CASE \E p \in Provider : HandleStep(p)
  <2>1. PICK p \in Provider : HandleStep(p)
    BY <1>3
  <2>2. PICK j \in Key, e \in Event : Writes(j, e) /\ ByHandle(e)
    BY <1>1, <2>1, HandleWrites
  <2>3. log'[k][i] = e /\ i = Len(log[k]) + 1
    BY <1>0, <2>2, OneEvent
  <2>4. UNCHANGED watch
    BY <2>1 DEF HandleStep, CheckCancel, CheckCancelRaises, PublishCancelled, Reject,
         Resume, Confirm, Reaccept, CheckCancelAgain, Submit, Accept, Ack, Announce,
         Elsewhere, watchVars
  <2> QED BY <2>2, <2>3, <2>4
<1>4. CASE \E p \in Provider : WatchStep(p)
  <2>1. PICK p \in Provider : WatchStep(p)
    BY <1>4
  <2>2. CASE ~Report(p)
    <3>1. UNCHANGED log
      BY <2>1, <2>2 DEF WatchStep, BeginPass, Observe, GetStatus, LookupRaises,
           Decide, RemoveEntry, StopCancelled, StopTimedOut, StopRaises
    <3> QED BY <1>1, <3>1
  <2>3. CASE Report(p)
    <3>1. /\ watch[p].pc = "report" /\ UNCHANGED job
          /\ Writes(KeyOf(Watched(p)), watch[p].event)
      BY <2>3 DEF Report, Watching, Writes
    <3>2. KeyOf(Watched(p)) \in Key /\ watch[p].event \in Event
      BY <3>1, WatchedLemma DEF Shape, WatchInv
    <3>3. /\ k = KeyOf(Watched(p)) /\ log'[k][i] = watch[p].event
          /\ i = Len(log[k]) + 1
      BY <1>0, <3>1, <3>2, OneEvent
    <3> QED BY <2>3, <3>1, <3>3
  <2> QED BY <2>2, <2>3
<1>5. CASE \/ \E p \in Provider : MainStep(p) /\ ~HandleStep(p)
           \/ (\E c \in Cancellable : ClientCancel(c)) \/ Tick \/ UNCHANGED vars
  <2>1. UNCHANGED log
    BY <1>5 DEF MainStep, Start, Crash, Close, Exit, Forget, Claim, PollClaimed,
         PollNew, ClientCancel, Tick, vars
  <2> QED BY <1>1, <2>1
<1> QED BY <1>2, <1>3, <1>4, <1>5 DEF Next

-----------------------------------------------------------------------------
(* How a watcher moves.                                                    *)

\* Where one step of the watcher leads.
Observes(p) ==
  /\ watch[p].pc = "idle" /\ watch'[p].item \in watch[p].todo
  /\ watch'[p].pc = IF TerminalPublished(watch'[p].item) THEN "remove" ELSE "status"
Queries(p) ==
  /\ watch[p].pc = "status" /\ watch'[p].pc = "markers"
  /\ watch'[p].item = watch[p].item
Decides(p) ==
  /\ watch[p].pc = "markers" /\ watch'[p].item = watch[p].item
  /\ \/ /\ watch'[p].pc = "report" /\ watch[p].status \in EndedStatus
        /\ watch'[p].event = TerminalReport(p)
     \/ watch'[p].pc = "cancel" /\ Cancelled(p)
     \/ watch'[p].pc = "timeout" /\ TimedOut(p)
Tells(p) ==
  /\ watch[p].pc = "report" /\ watch'[p].pc = "remove"
  /\ watch'[p].item = watch[p].item
  /\ Publish(KeyOf(watch[p].item), watch[p].event)

LEMMA WatchMoves ==
  ASSUME Shape, NEW p \in Provider, WatchStep(p)
  PROVE  \/ /\ watch'[p].pc = "idle"
            /\ watch'[p].todo \subseteq
                 watch[p].todo \cup ({active[p][o] : o \in Operation} \ {Null})
         \/ /\ Observes(p) \/ Queries(p) \/ Decides(p)
            /\ watch'[p].todo \subseteq watch[p].todo
            /\ UNCHANGED <<log, trimmed, job>>
         \/ /\ Tells(p) /\ watch'[p].todo = watch[p].todo /\ UNCHANGED job
<1>0. watch \in [Provider -> Watch] /\ watch[p] \in Watch
  BY DEF Shape, TypeOK
<1>1. ASSUME Skip(p) PROVE watch'[p].pc = "idle" /\ watch'[p].todo = watch[p].todo
  BY <1>0, <1>1 DEF Skip, NoWatch
<1>2. ASSUME NEW step, Move(p, step)
      PROVE  /\ watch'[p].pc = step /\ watch'[p].item = watch[p].item
             /\ watch'[p].todo = watch[p].todo
  BY <1>0, <1>2 DEF Move, Watch
<1>a. CASE BeginPass(p)
  BY <1>0, <1>a DEF BeginPass, Watching, Watch
<1>b. CASE Observe(p)
  <2>1. PICK i \in watch[p].todo :
          watch' = [watch EXCEPT
                      ![p].todo = @ \ {i}, ![p].item = i,
                      ![p].pc = IF TerminalPublished(i) THEN "remove" ELSE "status"]
    BY <1>b DEF Observe
  <2>2. /\ watch'[p].item = i /\ watch'[p].todo = watch[p].todo \ {i}
        /\ watch'[p].pc = IF TerminalPublished(i) THEN "remove" ELSE "status"
    BY <1>0, <2>1 DEF Watch
  <2> QED BY <1>b, <2>2 DEF Observe, Observes, Watching
<1>c. CASE GetStatus(p)
  <2>1. watch'[p].pc = "markers" /\ watch'[p].item = watch[p].item
        /\ watch'[p].todo = watch[p].todo
    BY <1>0, <1>c DEF GetStatus, Watch
  <2> QED BY <1>c, <2>1 DEF GetStatus, Queries, Watching
<1>d. CASE LookupRaises(p)
  <2>1. CASE Skip(p)
    BY <1>1, <2>1
  <2>2. CASE /\ watch[p].pc = "idle"
             /\ \E i : watch' = [watch EXCEPT ![p].todo = @ \ {i}]
    BY <1>0, <2>2 DEF Watch
  <2> QED BY <1>d, <2>1, <2>2 DEF LookupRaises, Watching
<1>e. CASE Decide(p)
  <2>1. watch[p].pc = "markers" /\ UNCHANGED <<log, trimmed, job>>
    BY <1>e DEF Decide, Watching
  <2>2. CASE /\ watch' = [watch EXCEPT ![p].event = TerminalReport(p), ![p].pc = "report"]
             /\ watch[p].status \in EndedStatus
    <3>1. /\ watch'[p].pc = "report" /\ watch'[p].item = watch[p].item
          /\ watch'[p].event = TerminalReport(p) /\ watch'[p].todo = watch[p].todo
      BY <1>0, <2>2 DEF Watch
    <3> QED BY <2>1, <2>2, <3>1 DEF Decides
  <2>3. CASE Move(p, "cancel") /\ Cancelled(p)
    BY <1>2, <2>1, <2>3 DEF Decides
  <2>4. CASE Move(p, "timeout") /\ TimedOut(p)
    BY <1>2, <2>1, <2>4 DEF Decides
  <2>5. CASE Skip(p)
    BY <1>1, <2>5
  <2> QED BY <1>e, <2>2, <2>3, <2>4, <2>5 DEF Decide
<1>f. CASE Report(p)
  <2>1. watch[p].pc = "report" /\ UNCHANGED job
    BY <1>f DEF Report, Watching
  <2>2. CASE Publish(KeyOf(Watched(p)), watch[p].event) /\ Move(p, "remove")
    BY <1>2, <2>1, <2>2 DEF Tells, Watched
  <2>3. CASE Skip(p)
    BY <1>1, <2>3
  <2> QED BY <1>f, <2>2, <2>3 DEF Report
<1>g. CASE RemoveEntry(p) \/ StopCancelled(p) \/ StopTimedOut(p) \/ StopRaises(p)
  BY <1>1, <1>g DEF RemoveEntry, StopCancelled, StopTimedOut, StopRaises
<1> QED BY <1>a, <1>b, <1>c, <1>d, <1>e, <1>f, <1>g DEF WatchStep

\* A watcher moves by its own steps, ends with its process, or stands still.
LEMMA WatchCases ==
  ASSUME Shape, [Next]_vars, NEW p \in Provider
  PROVE  \/ WatchStep(p) /\ UNCHANGED <<marker, now>>
         \/ watch'[p].pc = "idle" /\ watch'[p].todo = {}
         \/ watch'[p] = watch[p]
<1>0. TypeOK
  BY DEF Shape
<1>1. CASE WatchStep(p)
  BY <1>1 DEF WatchStep, BeginPass, Observe, GetStatus, LookupRaises, Decide,
       Report, RemoveEntry, StopCancelled, StopTimedOut, StopRaises, Untouched
<1>2. CASE Crash(p) \/ Exit(p)
  BY <1>0, <1>2 DEF Crash, Exit, Forget, NoWatch, TypeOK
<1>3. CASE MainStep(p) /\ ~Crash(p) /\ ~Exit(p)
  <2>1. UNCHANGED watch
    BY <1>3 DEF MainStep, Start, Close, Claim, PollClaimed, PollNew, HandleStep,
         CheckCancel, CheckCancelRaises, PublishCancelled, Reject, Resume, Confirm,
         Reaccept, CheckCancelAgain, Submit, Accept, Ack, Announce, Elsewhere,
         watchVars
  <2> QED BY <2>1
<1>4. CASE \E q \in Provider : q # p /\ (MainStep(q) \/ WatchStep(q))
  BY <1>0, <1>4, OthersLemma
<1>5. CASE ~ \E q \in Provider : MainStep(q) \/ WatchStep(q)
  BY <1>5, OutsideLemma
<1> QED BY <1>1, <1>2, <1>3, <1>4, <1>5

\* The clock does not go back.
LEMMA ClockGoesOn ==
  ASSUME Shape, [Next]_vars
  PROVE  now \in Nat /\ now' \in Nat /\ now <= now'
<1>0. now \in 0..MaxTime /\ MaxTime \in Nat
  BY BoundAssumption DEF Shape, TypeOK
<1>1. CASE \E p \in Provider : HandleStep(p)
  BY <1>0, <1>1 DEF HandleStep, CheckCancel, CheckCancelRaises, PublishCancelled, Reject,
       Resume, Confirm, Reaccept, CheckCancelAgain, Submit, Accept, Ack, Announce,
       Elsewhere
<1>2. CASE \E p \in Provider : MainStep(p) /\ ~HandleStep(p)
  BY <1>0, <1>2 DEF MainStep, Start, Crash, Close, Exit, Forget, Claim, PollClaimed,
       PollNew
<1>3. CASE \E p \in Provider : WatchStep(p)
  <2>1. UNCHANGED now
    BY <1>3 DEF WatchStep, BeginPass, Observe, GetStatus, LookupRaises, Decide,
         Report, RemoveEntry, StopCancelled, StopTimedOut, StopRaises, Untouched
  <2> QED BY <1>0, <2>1
<1>4. CASE \E s \in Submission : RayStep(s)
  BY <1>0, <1>4, RayLemma DEF ProviderSide
<1>5. CASE (\E k \in Cancellable : ClientCancel(k)) \/ Tick \/ UNCHANGED vars
  BY <1>0, <1>5 DEF ClientCancel, Tick, vars
<1> QED BY <1>1, <1>2, <1>3, <1>4, <1>5 DEF Next

\* A reason to stop comes from a watcher that stands at the call, and the reason
\* of an ended job stays.
LEMMA StopForStep ==
  ASSUME Shape, [Next]_vars, NEW s \in Submission
  PROVE  /\ Ended(s) => job'[s].stopFor = job[s].stopFor
         /\ \/ job'[s].stopFor \in {job[s].stopFor, "none"}
            \/ \E p \in Provider : /\ watch[p].pc \in {"cancel", "timeout"}
                                   /\ watch[p].item.sub = s
                                   /\ job'[s].stopFor = watch[p].pc
<1>0. job \in [Submission -> Job]
  BY DEF Shape, TypeOK
<1>1. CASE \E p \in Provider : HandleStep(p)
  <2>1. PICK p \in Provider : HandleStep(p)
    BY <1>1
  <2>2. UNCHANGED job \/ CreateJob(NewItem(p))
    BY <2>1 DEF HandleStep, CheckCancel, CheckCancelRaises, PublishCancelled, Reject,
         Resume, Confirm, Reaccept, CheckCancelAgain, Submit, Accept, Ack, Announce
  <2>3. CASE job' = [job EXCEPT ![NewItem(p).sub] =
                       [NoJob EXCEPT !.status = "PENDING", !.item = NewItem(p)]]
             /\ ~Exists(NewItem(p).sub)
    <3>1. CASE s = NewItem(p).sub
      BY <1>0, <2>3, <3>1 DEF NoJob, Ended, Exists, Status, EndedStatus
    <3>2. CASE s # NewItem(p).sub
      BY <1>0, <2>3, <3>2
    <3> QED BY <3>1, <3>2
  <2>4. CASE UNCHANGED job
    BY <2>4
  <2> QED BY <2>2, <2>3, <2>4 DEF CreateJob
<1>2. CASE \E p \in Provider : WatchStep(p)
  <2>1. PICK p \in Provider : WatchStep(p)
    BY <1>2
  <2>2. CASE UNCHANGED job
    BY <2>2
  <2>3. CASE job' # job
    <3>1. PICK why \in {"cancel", "timeout"} :
            watch[p].pc = why /\ RequestStop(Watched(p).sub, why)
      BY <2>1, <2>3 DEF WatchStep, BeginPass, Observe, GetStatus, LookupRaises, Decide,
           Report, RemoveEntry, StopCancelled, StopTimedOut, StopRaises, Watching
    <3>2. Live(Watched(p).sub) /\ job' = [job EXCEPT ![Watched(p).sub].stopFor = why]
      BY <2>3, <3>1 DEF RequestStop
    <3>3. CASE s = Watched(p).sub
      <4>1. job'[s].stopFor = why
        BY <1>0, <3>2, <3>3 DEF Job
      <4>2. ~Ended(s)
        BY <3>2, <3>3 DEF Ended, Live, LiveStatus, EndedStatus
      <4> QED BY <3>1, <3>3, <4>1, <4>2 DEF Watched
    <3>4. CASE s # Watched(p).sub
      BY <1>0, <3>2, <3>4
    <3> QED BY <3>3, <3>4
  <2> QED BY <2>2, <2>3
<1>3. CASE \E t \in Submission : RayStep(t)
  <2>1. PICK t \in Submission : RayStep(t)
    BY <1>3
  <2>2. UNCHANGED job \/ (\E st : SetStatus(t, st)) \/ (\E st : SetDriver(t, st))
    BY <2>1 DEF RayStep, JobStarts, JobLost, StopTakesEffect, ExternalStop,
         DriverProgress, DriverCompletes, DriverFails, DriverExcept,
         DriverReportsFailure, DriverExit
  <2>3. job'[s].stopFor = job[s].stopFor
    BY <1>0, <2>2 DEF SetStatus, SetDriver, Job
  <2> QED BY <2>3
<1>4. CASE \/ \E p \in Provider : MainStep(p) /\ ~HandleStep(p)
           \/ (\E c \in Cancellable : ClientCancel(c)) \/ Tick \/ UNCHANGED vars
  <2>1. UNCHANGED job
    BY <1>4 DEF MainStep, Start, Crash, Close, Exit, Forget, Claim, PollClaimed,
         PollNew, ClientCancel, Tick, vars
  <2> QED BY <2>1
<1> QED BY <1>1, <1>2, <1>3, <1>4 DEF Next

-----------------------------------------------------------------------------
(* The reason of a stop.                                                   *)

\* What a stop for why rests on: the cancel key of the job's operation, or the
\* deadline in the job's metadata.
Reason(s, why) ==
  /\ Exists(s)
  /\ IF why = "cancel" THEN KeyOfJob(s) \in marker
     ELSE job[s].item.deadline # Null /\ now >= job[s].item.deadline

\* An ended job that was not stopped for why.
Spared(s, why) == s \in Submission /\ Ended(s) /\ job[s].stopFor # why

\* Every stop has its reason, and no job that was stopped for why is, or is about
\* to be, reported as stopped by somebody else.
WhyInv(why) ==
  /\ \A s \in Submission : job[s].stopFor = why => Reason(s, why)
  /\ \A p \in Provider : watch[p].pc = why => Reason(watch[p].item.sub, why)
  /\ \A p \in Provider :
       watch[p].pc = "report" /\ watch[p].event.code = "RAY_JOB_STOPPED" =>
         Spared(watch[p].event.sub, why)
  /\ \A k \in Key : \A i \in DOMAIN log[k] :
       log[k][i].code = "RAY_JOB_STOPPED" => Spared(log[k][i].sub, why)

\* An entry whose deadline is the one in its job's metadata.
Agree(i) == i.deadline = job[i.sub].item.deadline
AgreeInv ==
  \A p \in Provider :
    /\ \A i \in watch[p].todo : Agree(i)
    /\ watch[p].pc # "idle" => Agree(watch[p].item)

\* Reasons last.
LEMMA ReasonLasts ==
  ASSUME Shape, [Next]_vars, NEW s \in Submission, NEW why \in {"cancel", "timeout"}
  PROVE  /\ Reason(s, why) => Reason(s, why)'
         /\ Spared(s, why) => Spared(s, why)'
<1>0. Shape' /\ Monotone
  BY StepLemma
<1>1. ASSUME Exists(s) PROVE Exists(s)' /\ job'[s].item = job[s].item
  BY <1>0, <1>1 DEF Monotone, JobsKeep
<1>2. ASSUME Reason(s, why) PROVE Reason(s, why)'
  <2>1. Exists(s)
    BY <1>2 DEF Reason
  <2>2. CASE why = "cancel"
    BY <1>0, <1>1, <1>2, <2>1, <2>2 DEF Reason, Monotone, KeyOfJob
  <2>3. CASE why # "cancel"
    <3>1. job[s].item \in Item
      BY <2>1 DEF Shape, JobInv
    <3>2. job[s].item.deadline \in Nat
      BY <1>2, <2>3, <3>1 DEF Reason, Item
    <3>3. now \in Nat /\ now' \in Nat /\ now <= now'
      BY ClockGoesOn
    <3>4. now >= job[s].item.deadline
      BY <1>2, <2>3 DEF Reason
    <3>5. now' >= job'[s].item.deadline /\ job'[s].item.deadline # Null
      BY <1>1, <2>1, <3>2, <3>3, <3>4, NullAssumption
    <3> QED BY <1>1, <2>1, <2>3, <3>5 DEF Reason
  <2> QED BY <2>2, <2>3
<1>3. ASSUME Spared(s, why) PROVE Spared(s, why)'
  <2>1. Ended(s) /\ Exists(s)
    BY <1>3 DEF Spared, Ended, Exists, EndedStatus
  <2>2. Ended(s)'
    BY <1>0, <2>1 DEF Monotone, JobsKeep, Ended, Status
  <2>3. job'[s].stopFor = job[s].stopFor
    BY <2>1, StopForStep
  <2> QED BY <1>3, <2>2, <2>3 DEF Spared
<1> QED BY <1>2, <1>3

\* What check_once says of a stopped job.
LEMMA ForeignVerdict ==
  ASSUME NEW p \in Provider, watch[p].status \in EndedStatus,
         TerminalReport(p).code = "RAY_JOB_STOPPED"
  PROVE  /\ TerminalReport(p).sub = Watched(p).sub
         /\ ~Cancelled(p) /\ ~TimedOut(p)
<1>1. ASSUME TimeoutStop(p) PROVE FALSE
  BY <1>1 DEF TerminalReport, Fallback
<1>2. ASSUME watch[p].status \in {"FAILED", "SUCCEEDED"} PROVE FALSE
  BY <1>1, <1>2 DEF TerminalReport, Fallback
<1>3. watch[p].status = "STOPPED"
  BY <1>2 DEF EndedStatus
<1>4. ASSUME Cancelled(p) \/ Watched(p).op \in stopRequested[p] PROVE FALSE
  BY <1>1, <1>3, <1>4 DEF TerminalReport, CancelReport
<1>5. TerminalReport(p) = Fallback(p, "RAY_JOB_STOPPED")
  BY <1>1, <1>3, <1>4 DEF TerminalReport
<1>6. ~TimedOut(p)
  BY <1>1, <1>4 DEF TimeoutStop
<1> QED BY <1>4, <1>5, <1>6 DEF Fallback

\* WhyInv is inductive; for timeouts, as long as the deadlines agree.
LEMMA WhyInductive ==
  ASSUME Shape, StopInv, [Next]_vars, NEW why \in {"cancel", "timeout"},
         WhyInv(why), why = "timeout" => AgreeInv
  PROVE  WhyInv(why)'
<1>0. Shape' /\ Monotone
  BY StepLemma
<1>1. ASSUME NEW s \in Submission, job'[s].stopFor = why PROVE Reason(s, why)'
  <2>1. CASE job[s].stopFor = why
    BY <2>1, ReasonLasts DEF WhyInv
  <2>2. CASE \E p \in Provider : watch[p].pc = why /\ watch[p].item.sub = s
    BY <2>2, ReasonLasts DEF WhyInv
  <2> QED BY <1>1, <2>1, <2>2, StopForStep
<1>2. ASSUME NEW p \in Provider, watch[p].pc # "idle"
      PROVE  /\ watch[p].item \in Item /\ watch[p].item.sub \in Submission
             /\ Exists(watch[p].item.sub) /\ KeyOfJob(watch[p].item.sub) = KeyOf(watch[p].item)
  BY <1>2, WatchedLemma DEF Watched, Tracked
<1>3. ASSUME NEW p \in Provider, watch'[p].pc = why
      PROVE  Reason(watch[p].item.sub, why)'
  <2>1. watch[p].pc # "idle" /\ watch'[p].item = watch[p].item
        /\ (watch[p].pc = why \/ (why = "cancel" /\ Cancelled(p))
                              \/ (why = "timeout" /\ TimedOut(p)))
    BY <1>3, WatchCases, WatchMoves DEF Observes, Queries, Decides, Tells
  <2>2. Reason(watch[p].item.sub, why)
    <3>1. CASE watch[p].pc = why
      BY <3>1 DEF WhyInv
    <3>2. CASE why = "cancel" /\ Cancelled(p)
      BY <1>2, <2>1, <3>2 DEF Reason, Cancelled, Watched
    <3>3. CASE why = "timeout" /\ TimedOut(p)
      <4>1. watch[p].item.deadline = job[watch[p].item.sub].item.deadline
        BY <2>1, <3>3 DEF AgreeInv, Agree
      <4> QED BY <1>2, <2>1, <3>3, <4>1 DEF Reason, TimedOut, Watched
    <3> QED BY <2>1, <3>1, <3>2, <3>3
  <2>3. PICK s \in Submission : s = watch[p].item.sub
    BY <1>2, <2>1
  <2>4. Reason(s, why)'
    BY <2>2, <2>3, ReasonLasts DEF Reason, KeyOfJob, Exists, Status
  <2> QED BY <2>1, <2>3, <2>4 DEF Reason, KeyOfJob, Exists, Status
<1>4. ASSUME NEW p \in Provider,
             watch'[p].pc = "report" /\ watch'[p].event.code = "RAY_JOB_STOPPED"
      PROVE  Spared(watch[p].event.sub, why)'
  <2>1. CASE watch'[p] = watch[p]
    <3>1. Spared(watch[p].event.sub, why)
      BY <1>4, <2>1 DEF WhyInv
    <3>2. PICK s \in Submission : s = watch[p].event.sub
      BY <3>1 DEF Spared
    <3>3. Spared(s, why)'
      BY <3>1, <3>2, ReasonLasts DEF Spared, Ended, Status
    <3> QED BY <2>1, <3>2, <3>3 DEF Spared, Ended, Status
  <2>2. CASE /\ watch[p].pc = "markers" /\ watch[p].status \in EndedStatus
             /\ watch'[p].event = TerminalReport(p)
    <3>1. /\ TerminalReport(p).sub = watch[p].item.sub
          /\ ~Cancelled(p) /\ ~TimedOut(p)
      BY <1>4, <2>2, ForeignVerdict DEF Watched
    <3>2. PICK s \in Submission : s = watch[p].item.sub
      BY <1>2, <2>2
    <3>3. Ended(s)
      BY <2>2, <3>2 DEF StopInv, StopOK, Ended, Status
    <3>4. ~Reason(s, why)
      <4>1. CASE why = "cancel"
        BY <1>2, <2>2, <3>1, <3>2, <4>1 DEF Reason, Cancelled, Watched
      <4>2. CASE why = "timeout"
        <5>1. watch[p].item.deadline = job[s].item.deadline
          BY <2>2, <3>2, <4>2 DEF AgreeInv, Agree
        <5> QED BY <3>1, <4>2, <5>1 DEF Reason, TimedOut, Watched
      <4> QED BY <4>1, <4>2
    <3>5. Spared(s, why)
      BY <3>2, <3>3, <3>4 DEF Spared, WhyInv
    <3>6. Spared(s, why)'
      BY <3>5, ReasonLasts
    <3> QED BY <2>2, <3>1, <3>2, <3>6 DEF Spared, Ended, Status
  <2> QED BY <1>4, <2>1, <2>2, WatchCases, WatchMoves
          DEF Observes, Queries, Decides, Tells
<1>5. ASSUME NEW k \in Key, NEW i \in DOMAIN log'[k], log'[k][i].code = "RAY_JOB_STOPPED"
      PROVE  Spared(log[k][i].sub, why)'
  <2>1. Spared(log'[k][i].sub, why)
    <3>1. CASE i \in DOMAIN log[k]
      <4>1. log'[k][i] = log[k][i]
        BY <1>0, <3>1 DEF Monotone, LogGrows
      <4> QED BY <1>5, <3>1, <4>1 DEF WhyInv
    <3>2. CASE i \notin DOMAIN log[k]
      <4>1. \E p \in Provider : watch[p].pc = "report" /\ log'[k][i] = watch[p].event
        BY <1>5, <3>2, NewEvent DEF ByHandle, FallbackCode
      <4> QED BY <1>5, <4>1 DEF WhyInv
    <3> QED BY <3>1, <3>2
  <2>2. PICK s \in Submission : s = log'[k][i].sub
    BY <2>1 DEF Spared
  <2>3. Spared(s, why)'
    BY <2>1, <2>2, ReasonLasts
  <2> QED BY <2>2, <2>3 DEF Spared, Ended, Status
<1> QED BY <1>1, <1>3, <1>4, <1>5 DEF WhyInv

\* Deadlines that agree in the active maps agree in the watchers.
DeadlinesAgree ==
  \A p \in Provider, o \in Operation : active[p][o] # Null => Agree(active[p][o])

LEMMA AgreeInductive ==
  ASSUME Shape, AgreeInv, DeadlinesAgree, [Next]_vars
  PROVE  AgreeInv'
<1>0. Monotone
  BY StepLemma
<1>1. ASSUME NEW i \in Item, Tracked(i), Agree(i) PROVE Agree(i)'
  BY <1>0, <1>1 DEF Monotone, JobsKeep, Tracked, Agree, Item
<1> SUFFICES ASSUME NEW p \in Provider
             PROVE  /\ \A i \in watch'[p].todo : Agree(i)'
                    /\ watch'[p].pc # "idle" => Agree(watch[p].item)'
  BY DEF AgreeInv
<1>2. /\ watch[p].todo \subseteq Item /\ \A i \in watch[p].todo : Tracked(i) /\ Agree(i)
      /\ watch[p].pc # "idle" =>
           watch[p].item \in Item /\ Tracked(watch[p].item) /\ Agree(watch[p].item)
  BY WatchedLemma DEF AgreeInv, Watched
<1>3. ASSUME NEW i \in {active[p][o] : o \in Operation} \ {Null}
      PROVE  i \in Item /\ Tracked(i) /\ Agree(i)
  BY DEF Shape, TypeOK, ActiveInv, DeadlinesAgree
<1>4. \A i \in watch'[p].todo : i \in Item /\ Tracked(i) /\ Agree(i)
  <2>1. watch'[p].todo \subseteq
          watch[p].todo \cup ({active[p][o] : o \in Operation} \ {Null})
    BY WatchCases, WatchMoves
  <2> QED BY <1>2, <1>3, <2>1
<1>5. watch'[p].pc # "idle" =>
        watch'[p].item \in Item /\ Tracked(watch'[p].item) /\ Agree(watch'[p].item)
  <2> SUFFICES ASSUME watch'[p].pc # "idle"
               PROVE  watch'[p].item \in Item /\ Tracked(watch'[p].item)
                      /\ Agree(watch'[p].item)
    OBVIOUS
  <2>1. watch'[p].item \in watch[p].todo
        \/ (watch'[p].item = watch[p].item /\ watch[p].pc # "idle")
    BY WatchCases, WatchMoves DEF Observes, Queries, Decides, Tells
  <2> QED BY <1>2, <2>1
<1>6. watch'[p].pc # "idle" => Agree(watch[p].item)'
  <2> SUFFICES ASSUME watch'[p].pc # "idle" PROVE Agree(watch[p].item)'
    OBVIOUS
  <2>1. PICK i \in Item : i = watch'[p].item
    BY <1>5
  <2>2. Agree(i)'
    BY <1>1, <1>5, <2>1
  <2> QED BY <2>1, <2>2 DEF Agree
<1> QED BY <1>1, <1>4, <1>6

\* At the start nobody has stopped or said anything.
LEMMA WhyInit ==
  ASSUME Init
  PROVE  StopInv /\ AgreeInv /\ \A why \in {"cancel", "timeout"} : WhyInv(why)
<1>1. StopInv
  BY DEF Init, StopInv, StopOK, NoWatch
<1>2. AgreeInv
  BY DEF Init, AgreeInv, NoWatch
<1>3. ASSUME NEW why \in {"cancel", "timeout"} PROVE WhyInv(why)
  BY DEF Init, WhyInv, NoWatch, NoJob
<1> QED BY <1>1, <1>2, <1>3

\* What StopInv says of the watchers, always.
THEOREM StopInvariant == Spec => []StopInv
<1>1. Init => StopInv
  BY WhyInit
<1>2. Shape /\ StopInv /\ [Next]_vars => StopInv'
  BY StopInductive
<1> QED BY <1>1, <1>2, ShapeInvariant, PTL DEF Spec

\* What Reported says of a stop, by WhyInv.
LEMMA ReportedSpared ==
  ASSUME Shape, NEW why \in {"cancel", "timeout"}, WhyInv(why),
         NEW s \in Submission, Reported(s, "FAILED", "RAY_JOB_STOPPED")
  PROVE  job[s].stopFor # why
<1>1. Exists(s) /\ Has(KeyOfJob(s), DriverEvent(s, "FAILED", "RAY_JOB_STOPPED"))
  BY DEF Reported
<1>2. KeyOfJob(s) \in Key
  BY <1>1 DEF Shape, JobInv, KeyOfJob, KeyOf, Key, Item
<1>3. PICK i \in DOMAIN log[KeyOfJob(s)] :
        log[KeyOfJob(s)][i] = DriverEvent(s, "FAILED", "RAY_JOB_STOPPED")
  BY <1>1 DEF Has
<1> QED BY <1>2, <1>3 DEF WhyInv, Spared, DriverEvent

\* A job the provider stopped because of its cancel key is never reported as
\* stopped by somebody else, whichever process stopped it, whether or not
\* stop_job raised, and whatever crashed before Ray said STOPPED.
CancelNeverForeign ==
  \A s \in Submission :
    Reported(s, "FAILED", "RAY_JOB_STOPPED") => job[s].stopFor # "cancel"

\* It holds for every number of providers, without any hypothesis.
THEOREM CancelKeepsItsReason == Spec => []CancelNeverForeign
<1>1. Init => WhyInv("cancel")
  BY WhyInit
<1>2. Shape /\ StopInv /\ WhyInv("cancel") /\ [Next]_vars => WhyInv("cancel")'
  BY WhyInductive
<1>3. Shape /\ WhyInv("cancel") => CancelNeverForeign
  BY ReportedSpared DEF CancelNeverForeign
<1> QED BY <1>1, <1>2, <1>3, ShapeInvariant, StopInvariant, PTL DEF Spec

\* RAY_JOB_STOPPED is only said of a job nobody in the provider stopped, as long
\* as the entries of the active maps carry the deadlines of Ray's metadata.
THEOREM ForeignStops == Spec /\ []DeadlinesAgree => []ForeignStopOnly
<1>1. Init => AgreeInv /\ WhyInv("cancel") /\ WhyInv("timeout")
  BY WhyInit
<1>2. Shape /\ AgreeInv /\ DeadlinesAgree /\ [Next]_vars => AgreeInv'
  BY AgreeInductive
<1>3. Shape /\ StopInv /\ WhyInv("cancel") /\ [Next]_vars => WhyInv("cancel")'
  BY WhyInductive
<1>4. Shape /\ StopInv /\ AgreeInv /\ WhyInv("timeout") /\ [Next]_vars
        => WhyInv("timeout")'
  BY WhyInductive
<1>5. Shape /\ WhyInv("cancel") /\ WhyInv("timeout") => ForeignStopOnly
  <2> SUFFICES ASSUME Shape, WhyInv("cancel"), WhyInv("timeout"), NEW s \in Submission,
                      Reported(s, "FAILED", "RAY_JOB_STOPPED")
               PROVE  job[s].stopFor = "none"
    BY DEF ForeignStopOnly
  <2>1. job[s].stopFor # "cancel" /\ job[s].stopFor # "timeout"
    BY ReportedSpared
  <2>2. job[s].stopFor \in {"none", "cancel", "timeout"}
    BY DEF Shape, TypeOK, Job
  <2> QED BY <2>1, <2>2
<1> QED BY <1>1, <1>2, <1>3, <1>4, <1>5, ShapeInvariant, StopInvariant, PTL DEF Spec

-----------------------------------------------------------------------------
(* Where entries and jobs come from.                                       *)

\* A new entry is adopted at the start or made by a confirmed submission.
LEMMA EntryOrigin ==
  ASSUME Shape, [Next]_vars, NEW p \in Provider, NEW o \in Operation,
         active'[p][o] # Null, active'[p][o] # active[p][o]
  PROVE  \/ Start(p) /\ active'[p][o] \in Unreported(o)
         \/ /\ Submit(p) /\ pc[p] = "submit" /\ CreateJob(NewItem(p))
            /\ o = Req(p).op /\ active'[p][o] = NewItem(p)
<1>0. active \in [Provider -> [Operation -> Item \cup {Null}]] /\ TypeOK
  BY DEF Shape, TypeOK
<1>1. CASE Start(p)
  BY <1>0, <1>1 DEF Start
<1>2. CASE Submit(p)
  <2>1. pc[p] = "submit" /\ CreateJob(NewItem(p)) /\ Put(p, NewItem(p))
    BY <1>2 DEF Submit, At
  <2>2. NewItem(p).op = Req(p).op /\ Req(p).op \in Operation
    BY <2>1, NewItemLemma, RequestLemma DEF RequestType
  <2>3. o = Req(p).op
    BY <1>0, <2>1, <2>2 DEF Put
  <2> QED BY <1>0, <1>2, <2>1, <2>2, <2>3 DEF Put
<1>3. CASE MainStep(p) /\ ~Start(p) /\ ~Submit(p)
  <2>1. \/ UNCHANGED active
        \/ \E x : active' = [active EXCEPT ![p][x] = Null]
        \/ active' = [active EXCEPT ![p] = [x \in Operation |-> Null]]
    BY <1>3 DEF MainStep, Crash, Close, Exit, Forget, Claim, PollClaimed, PollNew,
         HandleStep, CheckCancel, CheckCancelRaises, PublishCancelled, Reject, Resume,
         Confirm, Reaccept, CheckCancelAgain, Accept, Ack, Announce, Remove
  <2> QED BY <1>0, <2>1
<1>4. CASE WatchStep(p)
  <2>1. UNCHANGED active \/ \E x : active' = [active EXCEPT ![p][x] = Null]
    BY <1>4 DEF WatchStep, BeginPass, Observe, GetStatus, LookupRaises, Decide,
         Report, RemoveEntry, StopCancelled, StopTimedOut, StopRaises, Remove
  <2> QED BY <1>0, <2>1
<1>5. CASE \E q \in Provider : q # p /\ (MainStep(q) \/ WatchStep(q))
  BY <1>0, <1>5, OthersLemma
<1>6. CASE ~ \E q \in Provider : MainStep(q) \/ WatchStep(q)
  BY <1>6, OutsideLemma
<1> QED BY <1>1, <1>2, <1>3, <1>4, <1>5, <1>6

\* A new job is made by a submission, which records its entry unless it raises.
LEMMA JobOrigin ==
  ASSUME Shape, [Next]_vars, NEW s \in Submission, Exists(s)', ~Exists(s)
  PROVE  \E p \in Provider :
           /\ Submit(p) /\ pc[p] = "submit" /\ s = Req(p).sub
           /\ job'[s].item = NewItem(p) /\ NewItem(p) \in Item
           /\ \A t \in Submission : t # s => job'[t] = job[t]
           /\ Put(p, NewItem(p)) \/ AmbiguousSubmit
<1>0. job \in [Submission -> Job]
  BY DEF Shape, TypeOK
<1>1. CASE \E p \in Provider : Submit(p)
  <2>1. PICK p \in Provider : Submit(p)
    BY <1>1
  <2>2. pc[p] = "submit"
    BY <2>1 DEF Submit, At
  <2>3. /\ NewItem(p) \in Item /\ NewItem(p).sub = Req(p).sub
        /\ Req(p).sub \in Submission
    BY <2>2, NewItemLemma, RequestLemma DEF RequestType
  <2>4. CreateJob(NewItem(p)) /\ (Put(p, NewItem(p)) \/ AmbiguousSubmit)
    <3>1. job' # job
      BY DEF Exists, Status
    <3> QED BY <2>1, <3>1 DEF Submit
  <2>5. job' = [job EXCEPT ![Req(p).sub] =
                  [NoJob EXCEPT !.status = "PENDING", !.item = NewItem(p)]]
    <3>1. job' # job
      BY DEF Exists, Status
    <3> QED BY <2>3, <2>4, <3>1 DEF CreateJob
  <2>6. s = Req(p).sub
    BY <1>0, <2>3, <2>5 DEF Exists, Status
  <2>7. job'[s].item = NewItem(p)
    BY <1>0, <2>5, <2>6 DEF NoJob
  <2>8. \A t \in Submission : t # s => job'[t] = job[t]
    BY <1>0, <2>5, <2>6
  <2> QED BY <2>1, <2>2, <2>3, <2>4, <2>6, <2>7, <2>8
<1>2. CASE \E p \in Provider : MainStep(p) /\ ~Submit(p)
  <2>1. UNCHANGED job
    BY <1>2 DEF MainStep, Start, Crash, Close, Exit, Forget, Claim, PollClaimed,
         PollNew, HandleStep, CheckCancel, CheckCancelRaises, PublishCancelled, Reject,
         Resume, Confirm, Reaccept, CheckCancelAgain, Accept, Ack, Announce
  <2> QED BY <2>1 DEF Exists, Status
<1>3. CASE \E p \in Provider : WatchStep(p)
  <2>1. UNCHANGED job \/ \E t, why : job' = [job EXCEPT ![t].stopFor = why]
    BY <1>3 DEF WatchStep, BeginPass, Observe, GetStatus, LookupRaises, Decide,
         Report, RemoveEntry, StopCancelled, StopTimedOut, StopRaises, RequestStop
  <2> QED BY <1>0, <2>1 DEF Exists, Status, Job
<1>4. CASE \E t \in Submission : RayStep(t)
  BY <1>4, RayLemma DEF NoNewJob
<1>5. CASE (\E c \in Cancellable : ClientCancel(c)) \/ Tick \/ UNCHANGED vars
  <2>1. UNCHANGED job
    BY <1>5 DEF ClientCancel, Tick, vars
  <2> QED BY <2>1 DEF Exists, Status
<1> QED BY <1>1, <1>2, <1>3, <1>4, <1>5 DEF Next, MainStep, HandleStep

-----------------------------------------------------------------------------
(* Deadlines that agree because there are none.                            *)

NoTimeouts == \A d \in Delivery : Request[d].timeout = Null

NoDeadlines ==
  /\ \A s \in Submission : Exists(s) => job[s].item.deadline = Null
  /\ \A p \in Provider, o \in Operation :
       active[p][o] # Null => active[p][o].deadline = Null

LEMMA NoDeadlinesInductive ==
  ASSUME NoTimeouts, Shape, NoDeadlines, [Next]_vars
  PROVE  NoDeadlines'
<1>0. Monotone
  BY StepLemma
<1>1. ASSUME NEW p \in Provider, pc[p] = "submit" PROVE NewItem(p).deadline = Null
  <2>1. Req(p).timeout = Null
    BY <1>1, RequestLemma DEF NoTimeouts
  <2> QED BY <2>1 DEF NewItem
<1>2. ASSUME NEW s \in Submission, Exists(s)' PROVE job'[s].item.deadline = Null
  <2>1. CASE Exists(s)
    BY <1>0, <2>1 DEF Monotone, JobsKeep, NoDeadlines
  <2>2. CASE ~Exists(s)
    BY <1>1, <1>2, <2>2, JobOrigin
  <2> QED BY <2>1, <2>2
<1>3. ASSUME NEW p \in Provider, NEW o \in Operation, active'[p][o] # Null
      PROVE  active'[p][o].deadline = Null
  <2>1. CASE active'[p][o] = active[p][o]
    BY <1>3, <2>1 DEF NoDeadlines
  <2>2. CASE active'[p][o] \in Unreported(o)
    BY <2>2 DEF Unreported, Adoptable, NoDeadlines
  <2>3. CASE pc[p] = "submit" /\ active'[p][o] = NewItem(p)
    BY <1>1, <2>3
  <2> QED BY <1>3, <2>1, <2>2, <2>3, EntryOrigin
<1> QED BY <1>2, <1>3 DEF NoDeadlines

\* Where no request has a time limit, no job that the provider stopped is ever
\* said to have been stopped by somebody else, for any number of providers.
THEOREM ForeignStopsWithoutTimeouts ==
  ASSUME NoTimeouts
  PROVE  Spec => []ForeignStopOnly
<1>1. Init => NoDeadlines
  BY DEF Init, NoDeadlines, Exists, Status, NoJob
<1>2. Shape /\ NoDeadlines /\ [Next]_vars => NoDeadlines'
  BY NoDeadlinesInductive
<1>3. Shape /\ NoDeadlines => DeadlinesAgree
  BY DEF Shape, ActiveInv, TypeOK, Item, NoDeadlines, DeadlinesAgree, Agree, Tracked
<1> QED BY <1>1, <1>2, <1>3, ShapeInvariant, ForeignStops, PTL DEF Spec

-----------------------------------------------------------------------------
(* The watcher of a lone provider says it once.                            *)

\* The terminal-event lookup still reaches what a watcher has said.
WindowHolds ==
  \A k \in Key : \A i \in DOMAIN log[k] :
    ByWatcher(log[k][i]) => log[k][i] \in Recent(k)

\* Nothing was said of an item's submission.
Unsaid(i) ==
  \A n \in DOMAIN log[KeyOf(i)] :
    ~(ByWatcher(log[KeyOf(i)][n]) /\ log[KeyOf(i)][n].sub = i.sub)

\* Between its look at the stream and its report a watcher has an item nothing was
\* said of; what it says is terminal; no stream has two reports of a submission.
OnceInv ==
  /\ \A p \in Provider :
       watch[p].pc \notin {"idle", "remove"} => Unsaid(watch[p].item)
  /\ \A p \in Provider :
       watch[p].pc = "report" =>
         watch[p].event.sub = watch[p].item.sub /\ watch[p].event.type \in TerminalType
  /\ \A k \in Key : \A i \in DOMAIN log[k] :
       ByWatcher(log[k][i]) => log[k][i].type \in TerminalType
  /\ \A k \in Key : \A m, n \in DOMAIN log[k] :
       /\ ByWatcher(log[k][m]) /\ ByWatcher(log[k][n])
       /\ log[k][m].sub = log[k][n].sub
       => m = n

\* What check_once says names the submission it looked at, and is terminal.
LEMMA VerdictNames ==
  ASSUME NEW p \in Provider
  PROVE  /\ TerminalReport(p).sub = Watched(p).sub
         /\ TerminalReport(p).type \in TerminalType
BY DEF TerminalReport, Fallback, CancelReport, TerminalType

LEMMA OnceInductive ==
  ASSUME Shape, OnceInv, WindowHolds, [Next]_vars,
         \A p, q \in Provider : p = q
  PROVE  OnceInv'
<1>0. Shape' /\ Monotone /\ TypeOK
  BY StepLemma DEF Shape
<1>1. ASSUME NEW p \in Provider, watch'[p].pc = "report"
      PROVE  /\ watch'[p].event.sub = watch'[p].item.sub
             /\ watch'[p].event.type \in TerminalType
  <2>1. \/ watch'[p] = watch[p]
        \/ watch'[p].item = watch[p].item /\ watch'[p].event = TerminalReport(p)
    BY <1>1, WatchCases, WatchMoves DEF Observes, Queries, Decides, Tells
  <2> QED BY <1>1, <2>1, VerdictNames DEF OnceInv, Watched
\* A new report is the watcher's own, at the end of the stream of its item.
<1>2. ASSUME NEW k \in Key, NEW i \in DOMAIN log'[k], i \notin DOMAIN log[k],
             ByWatcher(log'[k][i])
      PROVE  /\ i = Len(log[k]) + 1
             /\ \E p \in Provider :
                  /\ watch[p].pc = "report" /\ Report(p) /\ k = KeyOf(watch[p].item)
                  /\ log'[k][i].sub = watch[p].item.sub
             /\ log'[k][i].type \in TerminalType
  <2>1. ~ByHandle(log'[k][i])
    BY <1>2 DEF ByHandle, ByWatcher, FallbackCode
  <2>2. PICK p \in Provider :
          /\ watch[p].pc = "report" /\ Report(p) /\ k = KeyOf(Watched(p))
          /\ log'[k][i] = watch[p].event
    BY <1>2, <2>1, NewEvent DEF ByWatcher
  <2> QED BY <1>2, <2>2, NewEvent DEF OnceInv, Watched
<1>3. ASSUME NEW k \in Key, NEW m \in DOMAIN log'[k], NEW n \in DOMAIN log'[k],
             ByWatcher(log'[k][m]), ByWatcher(log'[k][n]), log'[k][m].sub = log'[k][n].sub
      PROVE  m = n
  <2>1. ASSUME NEW i \in DOMAIN log'[k], NEW j \in DOMAIN log'[k],
               ByWatcher(log'[k][i]), ByWatcher(log'[k][j]),
               log'[k][i].sub = log'[k][j].sub,
               i \notin DOMAIN log[k], j \in DOMAIN log[k]
        PROVE  FALSE
    <3>1. PICK p \in Provider :
            /\ watch[p].pc = "report" /\ k = KeyOf(watch[p].item)
            /\ log'[k][i].sub = watch[p].item.sub
      BY <1>2, <2>1
    <3>2. log'[k][j] = log[k][j]
      BY <1>0, <2>1 DEF Monotone, LogGrows
    <3> QED BY <2>1, <3>1, <3>2 DEF OnceInv, Unsaid
  <2>2. CASE m \in DOMAIN log[k] /\ n \in DOMAIN log[k]
    <3>1. log'[k][m] = log[k][m] /\ log'[k][n] = log[k][n]
      BY <1>0, <2>2 DEF Monotone, LogGrows
    <3> QED BY <1>3, <2>2, <3>1 DEF OnceInv
  <2>3. CASE m \notin DOMAIN log[k] /\ n \notin DOMAIN log[k]
    BY <1>2, <1>3, <2>3
  <2> QED BY <1>3, <2>1, <2>2, <2>3
<1>4. ASSUME NEW p \in Provider, watch'[p].pc \notin {"idle", "remove"}
      PROVE  Unsaid(watch[p].item)'
  <2>0. watch'[p].item \in Item /\ KeyOf(watch'[p].item) \in Key
    BY <1>0, <1>4 DEF Shape, WatchInv, Item, KeyOf, Key
  <2>1. ASSUME NEW n \in DOMAIN log'[KeyOf(watch'[p].item)],
               ByWatcher(log'[KeyOf(watch'[p].item)][n]),
               log'[KeyOf(watch'[p].item)][n].sub = watch'[p].item.sub
        PROVE  FALSE
    <3> DEFINE k == KeyOf(watch'[p].item)
    <3>1. ASSUME NEW q \in Provider, Report(q) PROVE watch'[p].pc \in {"idle", "remove"}
      <4>1. q = p /\ watch \in [Provider -> Watch]
        BY <1>0 DEF TypeOK
      <4>2. Move(p, "remove") \/ Skip(p)
        BY <3>1, <4>1 DEF Report
      <4> QED BY <4>1, <4>2 DEF Move, Skip, NoWatch, Watch
    <3>2. n \in DOMAIN log[k] /\ log'[k][n] = log[k][n]
      <4>1. n \in DOMAIN log[k]
        BY <1>2, <1>4, <2>0, <2>1, <3>1
      <4> QED BY <1>0, <2>0, <4>1 DEF Monotone, LogGrows
    <3>3. CASE Unsaid(watch'[p].item)
      BY <2>1, <3>2, <3>3 DEF Unsaid
    <3>4. CASE Observes(p) /\ UNCHANGED <<log, trimmed>>
      <4>1. ~TerminalPublished(watch'[p].item)
        BY <1>4, <3>4 DEF Observes
      <4>2. log[k][n] \in Recent(k)
        BY <2>0, <2>1, <3>2 DEF WindowHolds
      <4>3. log[k][n].type \in TerminalType
        BY <2>0, <2>1, <3>2 DEF OnceInv
      <4> QED BY <2>1, <3>2, <4>1, <4>2, <4>3 DEF TerminalPublished
    <3>5. Unsaid(watch'[p].item) \/ (Observes(p) /\ UNCHANGED <<log, trimmed>>)
      <4>1. \/ watch'[p].item = watch[p].item /\ watch[p].pc \notin {"idle", "remove"}
            \/ Observes(p) /\ UNCHANGED <<log, trimmed>>
        BY <1>4, WatchCases, WatchMoves DEF Queries, Decides, Tells, Observes
      <4> QED BY <4>1 DEF OnceInv
    <3> QED BY <3>3, <3>4, <3>5
  <2> QED BY <2>1 DEF Unsaid, KeyOf
<1>5. ASSUME NEW k \in Key, NEW i \in DOMAIN log'[k], ByWatcher(log'[k][i])
      PROVE  log'[k][i].type \in TerminalType
  <2>1. CASE i \in DOMAIN log[k]
    <3>1. log'[k][i] = log[k][i]
      BY <1>0, <2>1 DEF Monotone, LogGrows
    <3> QED BY <1>5, <2>1, <3>1 DEF OnceInv
  <2> QED BY <1>2, <1>5, <2>1
<1> QED BY <1>1, <1>3, <1>4, <1>5 DEF OnceInv

\* A lone provider's watcher reports a submission at most once, over crashes,
\* restarts and XADDs that raised after Redis applied them, as long as its
\* terminal-event lookup still reaches what it said: check_once looks before it
\* reports, and nobody else reports between the two.
THEOREM WatcherSaysItOnce ==
  ASSUME \A p, q \in Provider : p = q
  PROVE  Spec /\ []WindowHolds => []WatcherReportsOnce
<1>1. Init => OnceInv
  BY DEF Init, OnceInv, NoWatch
<1>2. Shape /\ OnceInv /\ WindowHolds /\ [Next]_vars => OnceInv'
  BY OnceInductive
<1>3. Shape /\ OnceInv => WatcherReportsOnce
  <2> SUFFICES ASSUME Shape, OnceInv, NEW s \in Submission, Exists(s)
               PROVE  Cardinality(WatcherReports(s)) <= 1
    BY DEF WatcherReportsOnce
  <2>1. KeyOfJob(s) \in Key /\ s # Null
    BY NullAssumption DEF Shape, JobInv, Item, KeyOfJob, KeyOf, Key
  <2>2. \A m, n \in WatcherReports(s) : m = n
    BY <2>1 DEF WatcherReports, OnceInv, ByWatcher
  <2>3. CASE WatcherReports(s) = {}
    BY <2>3, FS_EmptySet
  <2>4. ASSUME NEW m \in WatcherReports(s)
        PROVE  Cardinality(WatcherReports(s)) <= 1
    <3>1. WatcherReports(s) = {m}
      BY <2>2, <2>4
    <3>2. Cardinality({m}) = 1
      BY FS_Singleton
    <3> QED BY <3>1, <3>2
  <2> QED BY <2>3, <2>4
<1> QED BY <1>1, <1>2, <1>3, ShapeInvariant, PTL DEF Spec

-----------------------------------------------------------------------------
(* What EXECUTION_TIMEOUT rests on.                                        *)

\* An operation is asked for under one submission id only.
OneAttempt ==
  \A d, e \in Delivery : Request[d].op = Request[e].op => Request[d].sub = Request[e].sub

\* An entry whose deadline is not before the one in its job's metadata.
Due(i) ==
  i.deadline # Null =>
    job[i.sub].item.deadline # Null /\ job[i.sub].item.deadline <= i.deadline
NotEarlier ==
  \A p \in Provider, o \in Operation : active[p][o] # Null => Due(active[p][o])

\* A stop for a timeout that is remembered, about to be requested or reported is one
\* of a job past its deadline.
TimeInv ==
  /\ \A p \in Provider :
       /\ \A i \in watch[p].todo : Due(i)
       /\ watch[p].pc # "idle" => Due(watch[p].item)
  /\ \A p \in Provider : \A o \in timeoutRequested[p] :
       \E s \in Submission : job[s].item.op = o /\ Reason(s, "timeout")
  /\ \A p \in Provider :
       watch[p].pc = "timeout" => Reason(watch[p].item.sub, "timeout")
  /\ \A p \in Provider :
       watch[p].pc = "report" /\ watch[p].event.code = "EXECUTION_TIMEOUT" =>
         watch[p].event.sub \in Submission /\ Reason(watch[p].event.sub, "timeout")
  /\ \A k \in Key : \A i \in DOMAIN log[k] :
       log[k][i].code = "EXECUTION_TIMEOUT" =>
         log[k][i].sub \in Submission /\ Reason(log[k][i].sub, "timeout")

\* The deadlines a watcher holds are those of the active map.
LEMMA DueInductive ==
  ASSUME Shape, TimeInv, NotEarlier, [Next]_vars, NEW p \in Provider
  PROVE  /\ \A i \in watch'[p].todo : Due(i)'
         /\ watch'[p].pc # "idle" => Due(watch[p].item)'
<1>0. Monotone
  BY StepLemma
<1>1. ASSUME NEW i \in Item, Tracked(i), Due(i) PROVE Due(i)'
  BY <1>0, <1>1 DEF Monotone, JobsKeep, Tracked, Due, Item
<1>2. /\ watch[p].todo \subseteq Item /\ \A i \in watch[p].todo : Tracked(i) /\ Due(i)
      /\ watch[p].pc # "idle" =>
           watch[p].item \in Item /\ Tracked(watch[p].item) /\ Due(watch[p].item)
  BY WatchedLemma DEF TimeInv, Watched
<1>3. ASSUME NEW i \in {active[p][o] : o \in Operation} \ {Null}
      PROVE  i \in Item /\ Tracked(i) /\ Due(i)
  BY DEF Shape, TypeOK, ActiveInv, NotEarlier
<1>4. \A i \in watch'[p].todo : i \in Item /\ Tracked(i) /\ Due(i)
  <2>1. watch'[p].todo \subseteq
          watch[p].todo \cup ({active[p][o] : o \in Operation} \ {Null})
    BY WatchCases, WatchMoves
  <2> QED BY <1>2, <1>3, <2>1
<1>5. ASSUME watch'[p].pc # "idle" PROVE Due(watch[p].item)'
  <2>1. watch'[p].item \in watch[p].todo
        \/ (watch'[p].item = watch[p].item /\ watch[p].pc # "idle")
    BY <1>5, WatchCases, WatchMoves DEF Observes, Queries, Decides, Tells
  <2>2. PICK i \in Item : i = watch'[p].item /\ Tracked(i) /\ Due(i)
    BY <1>2, <2>1
  <2>3. Due(i)'
    BY <1>1, <2>2
  <2> QED BY <2>2, <2>3 DEF Due
<1> QED BY <1>1, <1>4, <1>5

\* A process remembers a new timeout from its stop_ray_job only.
LEMMA TimeoutOrigin ==
  ASSUME Shape, [Next]_vars, NEW p \in Provider, NEW o \in timeoutRequested'[p]
  PROVE  o \in timeoutRequested[p] \/ (watch[p].pc = "timeout" /\ o = watch[p].item.op)
<1>0. timeoutRequested \in [Provider -> SUBSET Operation]
  BY DEF Shape, TypeOK
<1>1. CASE \E q \in Provider : WatchStep(q)
  <2>1. PICK q \in Provider : WatchStep(q)
    BY <1>1
  <2>2. CASE StopTimedOut(q)
    BY <1>0, <2>2 DEF StopTimedOut, Watching, Watched
  <2>3. CASE RemoveEntry(q)
    BY <1>0, <2>3 DEF RemoveEntry
  <2>4. CASE ~StopTimedOut(q) /\ ~RemoveEntry(q)
    <3>1. UNCHANGED timeoutRequested
      BY <2>1, <2>4 DEF WatchStep, BeginPass, Observe, GetStatus, LookupRaises, Decide,
           Report, StopCancelled, StopRaises, Flags
    <3> QED BY <3>1
  <2> QED BY <2>2, <2>3, <2>4
<1>2. CASE \E q \in Provider : HandleStep(q)
  BY <1>2 DEF HandleStep, CheckCancel, CheckCancelRaises, PublishCancelled, Reject,
       Resume, Confirm, Reaccept, CheckCancelAgain, Submit, Accept, Ack, Announce,
       Elsewhere, watchVars
<1>3. CASE \E q \in Provider : MainStep(q) /\ ~HandleStep(q)
  BY <1>0, <1>3 DEF MainStep, Start, Crash, Close, Exit, Forget, Claim, PollClaimed,
       PollNew, watchVars
<1>4. CASE \E s \in Submission : RayStep(s)
  BY <1>4, RayLemma DEF ProviderSide, watchVars
<1>5. CASE (\E c \in Cancellable : ClientCancel(c)) \/ Tick \/ UNCHANGED vars
  BY <1>5 DEF ClientCancel, Tick, vars, watchVars
<1> QED BY <1>1, <1>2, <1>3, <1>4, <1>5 DEF Next

\* What check_once calls a timeout is one.
LEMMA TimeoutVerdict ==
  ASSUME Shape, TimeInv, OneAttempt, NEW p \in Provider, watch[p].pc # "idle",
         TimedOut(p) \/ TimeoutStop(p)
  PROVE  Reason(watch[p].item.sub, "timeout")
<1>1. watch[p].item \in Item /\ Tracked(watch[p].item) /\ watch[p].item.sub \in Submission
  BY DEF Shape, WatchInv, Item
<1>2. CASE TimedOut(p)
  <2>1. /\ watch[p].item.deadline # Null /\ now >= watch[p].item.deadline
        /\ Due(watch[p].item)
    BY <1>2 DEF TimedOut, Watched, TimeInv
  <2>2. job[watch[p].item.sub].item \in Item /\ now \in Nat
    BY <1>1, BoundAssumption DEF Tracked, Shape, JobInv, TypeOK
  <2>3. /\ watch[p].item.deadline \in Nat /\ job[watch[p].item.sub].item.deadline \in Nat
        /\ job[watch[p].item.sub].item.deadline # Null
    BY <1>1, <2>1, <2>2 DEF Item, Due
  <2>4. now >= job[watch[p].item.sub].item.deadline
    BY <2>1, <2>2, <2>3 DEF Due
  <2> QED BY <1>1, <2>3, <2>4 DEF Reason, Tracked
<1>3. CASE watch[p].item.op \in timeoutRequested[p]
  <2>1. PICK s \in Submission :
          job[s].item.op = watch[p].item.op /\ Reason(s, "timeout")
    BY <1>3 DEF TimeInv
  <2>2. ASSUME NEW t \in Submission, Exists(t)
        PROVE  \E d \in Delivery : Request[d].sub = t /\ Request[d].op = job[t].item.op
    BY <2>2 DEF Shape, JobInv, KeyOf
  <2>3. job[watch[p].item.sub].item.op = watch[p].item.op
    BY <1>1 DEF Tracked, KeyOfJob, KeyOf
  <2>4. s = watch[p].item.sub
    BY <1>1, <2>1, <2>2, <2>3 DEF OneAttempt, Reason, Tracked
  <2> QED BY <2>1, <2>4
<1> QED BY <1>2, <1>3 DEF TimeoutStop, Watched

LEMMA TimeInductive ==
  ASSUME Shape, TimeInv, NotEarlier, OneAttempt, [Next]_vars
  PROVE  TimeInv'
<1>0. Shape' /\ Monotone /\ TypeOK'
  BY StepLemma DEF Shape
<1>s. ASSUME NEW s \in Submission, Reason(s, "timeout") PROVE Reason(s, "timeout")'
  BY <1>s, ReasonLasts
<1>1. ASSUME NEW p \in Provider, NEW o \in timeoutRequested'[p]
      PROVE  \E s \in Submission : job'[s].item.op = o /\ Reason(s, "timeout")'
  <2>1. \E s \in Submission : job[s].item.op = o /\ Reason(s, "timeout")
    <3>1. CASE o \in timeoutRequested[p]
      BY <3>1 DEF TimeInv
    <3>2. CASE watch[p].pc = "timeout" /\ o = watch[p].item.op
      BY <3>2 DEF TimeInv, Shape, WatchInv, Tracked, KeyOfJob, KeyOf, Item
    <3> QED BY <3>1, <3>2, TimeoutOrigin
  <2> QED BY <1>0, <1>s, <2>1 DEF Monotone, JobsKeep, Reason
<1>2. ASSUME NEW p \in Provider, watch'[p].pc = "timeout"
      PROVE  Reason(watch[p].item.sub, "timeout")'
  <2>1. PICK s \in Submission : s = watch'[p].item.sub
    BY <1>0, <1>2 DEF Shape, WatchInv, Item
  <2>2. Reason(s, "timeout")
    <3>1. CASE watch'[p] = watch[p]
      BY <1>2, <2>1, <3>1 DEF TimeInv
    <3>2. CASE Decides(p)
      BY <1>2, <2>1, <3>2, TimeoutVerdict DEF Decides
    <3> QED BY <1>2, <3>1, <3>2, WatchCases, WatchMoves DEF Observes, Queries, Tells
  <2>3. Reason(s, "timeout")'
    BY <1>s, <2>2
  <2> QED BY <2>1, <2>3 DEF Reason, Exists, Status
<1>3. ASSUME NEW p \in Provider, watch'[p].pc = "report",
             watch'[p].event.code = "EXECUTION_TIMEOUT"
      PROVE  (watch[p].event.sub \in Submission /\ Reason(watch[p].event.sub, "timeout"))'
  <2>1. \E s \in Submission : s = watch'[p].event.sub /\ Reason(s, "timeout")
    <3>1. CASE watch'[p] = watch[p]
      BY <1>3, <3>1 DEF TimeInv
    <3>2. CASE Decides(p)
      <4>1. /\ watch[p].pc = "markers" /\ watch[p].status \in EndedStatus
            /\ watch'[p].event = TerminalReport(p)
        BY <1>3, <3>2 DEF Decides
      <4>2. TimeoutStop(p)
        BY <1>3, <4>1 DEF TerminalReport, Fallback, CancelReport
      <4>3. Reason(watch[p].item.sub, "timeout") /\ watch[p].item.sub \in Submission
        BY <4>1, <4>2, TimeoutVerdict DEF Shape, WatchInv, Item
      <4> QED BY <4>1, <4>3, VerdictNames DEF Watched
    <3> QED BY <1>3, <3>1, <3>2, WatchCases, WatchMoves DEF Observes, Queries, Tells
  <2>2. PICK s \in Submission : s = watch'[p].event.sub /\ Reason(s, "timeout")
    BY <2>1
  <2>3. Reason(s, "timeout")'
    BY <1>s, <2>2
  <2> QED BY <2>2, <2>3 DEF Reason, Exists, Status
<1>4. ASSUME NEW k \in Key, NEW i \in DOMAIN log'[k],
             log'[k][i].code = "EXECUTION_TIMEOUT"
      PROVE  (log[k][i].sub \in Submission /\ Reason(log[k][i].sub, "timeout"))'
  <2>1. log'[k][i].sub \in Submission /\ Reason(log'[k][i].sub, "timeout")
    <3>1. CASE i \in DOMAIN log[k]
      <4>1. log'[k][i] = log[k][i]
        BY <1>0, <3>1 DEF Monotone, LogGrows
      <4> QED BY <1>4, <3>1, <4>1 DEF TimeInv
    <3>2. CASE i \notin DOMAIN log[k]
      <4>1. ~ByHandle(log'[k][i]) /\ log'[k][i].code \in FallbackCode
        BY <1>4 DEF ByHandle, FallbackCode
      <4>2. PICK p \in Provider :
              watch[p].pc = "report" /\ log'[k][i] = watch[p].event
        BY <1>4, <3>2, <4>1, NewEvent
      <4> QED BY <1>4, <4>2 DEF TimeInv
    <3> QED BY <3>1, <3>2
  <2>2. PICK s \in Submission : s = log'[k][i].sub /\ Reason(s, "timeout")
    BY <2>1
  <2>3. Reason(s, "timeout")'
    BY <1>s, <2>2
  <2> QED BY <2>2, <2>3 DEF Reason, Exists, Status
<1> QED BY <1>1, <1>2, <1>3, <1>4, DueInductive DEF TimeInv

\* EXECUTION_TIMEOUT is only said of a job whose deadline has passed, for any number
\* of providers, as long as no entry of an active map carries an earlier deadline
\* than Ray's metadata and operations have one attempt each.
THEOREM TimeoutsAreDue ==
  ASSUME OneAttempt
  PROVE  Spec /\ []NotEarlier => []TimeoutOnlyAfterDeadline
<1>1. Init => TimeInv
  BY DEF Init, TimeInv, NoWatch
<1>2. Shape /\ TimeInv /\ NotEarlier /\ [Next]_vars => TimeInv'
  BY TimeInductive
<1>3. Shape /\ TimeInv => TimeoutOnlyAfterDeadline
  <2> SUFFICES ASSUME Shape, TimeInv, NEW s \in Submission,
                      Reported(s, "FAILED", "EXECUTION_TIMEOUT")
               PROVE  job[s].item.deadline # Null /\ now >= job[s].item.deadline
    BY DEF TimeoutOnlyAfterDeadline
  <2>1. Exists(s) /\ KeyOfJob(s) \in Key
    BY DEF Reported, Shape, JobInv, KeyOfJob, KeyOf, Key, Item
  <2>2. PICK i \in DOMAIN log[KeyOfJob(s)] :
          log[KeyOfJob(s)][i] = DriverEvent(s, "FAILED", "EXECUTION_TIMEOUT")
    BY DEF Reported, Has
  <2>3. Reason(s, "timeout")
    BY <2>1, <2>2 DEF TimeInv, DriverEvent
  <2> QED BY <2>3 DEF Reason
<1> QED BY <1>1, <1>2, <1>3, ShapeInvariant, PTL DEF Spec

-----------------------------------------------------------------------------
(* A lone provider never makes an entry with an earlier deadline: what it  *)
(* holds of a channel was received at one time, and not before the jobs.   *)

\* Deliveries of a submission ask for the same time limit.
SameLimit ==
  \A d, e \in Delivery :
    Request[d].sub = Request[e].sub => Request[d].timeout = Request[e].timeout

\* The messages in the buffer and in hand.
Held(p) == buffer[p] \cup (IF pc[p] = "idle" THEN {} ELSE {msg[p]})

\* The deadline of a request's job is at most what its limit makes of time t.
By(s, limit, t) ==
  Exists(s) /\ limit # Null =>
    job[s].item.deadline # Null /\ job[s].item.deadline <= t + limit

ReceiptInv ==
  /\ \A p \in Provider : \A m \in Held(p) : m.recv <= now
  /\ \A p \in Provider : \A m, n \in Held(p) :
       Request[m.id].ch = Request[n.id].ch => m.recv = n.recv
  /\ \A d \in Delivery : By(Request[d].sub, Request[d].timeout, now)
  /\ \A p \in Provider : \A m \in Held(p) :
       By(Request[m.id].sub, Request[m.id].timeout, m.recv)

\* What is held are messages.
LEMMA HeldMessages ==
  ASSUME Shape, NEW p \in Provider, NEW m \in Held(p)
  PROVE  /\ m \in Message /\ m.id \in Delivery /\ m.recv \in Nat
         /\ Request[m.id] \in RequestType
<1>1. m \in Message
  BY DEF Held, Shape, TypeOK, MainInv
<1> QED BY <1>1, RequestAssumption DEF Message

\* Polling brings messages received now, of a channel of which none was held; every
\* other step at most drops some.
LEMMA HeldStep ==
  ASSUME Shape, [Next]_vars, NEW p \in Provider, \A q \in Provider : q = p
  PROVE  \/ Held(p)' \subseteq Held(p)
         \/ /\ UNCHANGED <<now, job>>
            /\ \E c \in Channel :
                 /\ \A m \in Held(p) : Request[m.id].ch # c
                 /\ \A m \in Held(p)' :
                      m \in Held(p) \/ (Request[m.id].ch = c /\ m.recv = now)
<1>0. /\ buffer \in [Provider -> SUBSET Message] /\ pc \in [Provider -> MainPc]
      /\ msg \in [Provider -> Message \cup {Null}]
  BY DEF Shape, TypeOK
<1>1. CASE HandleStep(p)
  <2>1. UNCHANGED buffer /\ pc[p] # "idle"
    BY <1>1 DEF HandleStep, CheckCancel, CheckCancelRaises, PublishCancelled, Reject,
         Resume, Confirm, Reaccept, CheckCancelAgain, Submit, Accept, Ack, Announce,
         Elsewhere, At
  <2>2. Done(p) \/ \E step \in MainPc : Goto(p, step)
    BY <1>1 DEF HandleStep, CheckCancel, CheckCancelRaises, PublishCancelled, Reject,
         Resume, Confirm, Reaccept, CheckCancelAgain, Submit, Accept, Ack, Announce,
         MainPc
  <2>3. pc'[p] = "idle" \/ msg'[p] = msg[p]
    BY <1>0, <2>2 DEF Done, Goto
  <2> QED BY <2>1, <2>3 DEF Held
<1>2. CASE Start(p) \/ Close(p)
  BY <1>2 DEF Start, Close, Held
<1>3. CASE Crash(p) \/ Exit(p)
  BY <1>0, <1>3 DEF Crash, Exit, Forget, Held
<1>4. CASE \E c \in Channel : Claim(p, c)
  <2>1. PICK c \in Channel : Claim(p, c)
    BY <1>4
  <2>2. PICK page \in SUBSET Pending(c) :
          buffer' = [buffer EXCEPT ![p] =
                       @ \cup {[id |-> d, recv |-> now] : d \in page}]
    BY <2>1 DEF Claim
  <2>3. /\ pc[p] = "idle" /\ Buffered(p, c) = {} /\ UNCHANGED <<pc, msg, now, job>>
    BY <2>1 DEF Claim
  <2>4. /\ Held(p) = buffer[p] /\ Held(p)' = buffer'[p]
        /\ buffer'[p] = buffer[p] \cup {[id |-> d, recv |-> now] : d \in page}
    BY <1>0, <2>2, <2>3 DEF Held
  <2>5. \A m \in Held(p) : Request[m.id].ch # c
    BY <2>3, <2>4 DEF Buffered, InChannel
  <2>6. \A m \in {[id |-> d, recv |-> now] : d \in page} :
          Request[m.id].ch = c /\ m.recv = now
    BY <2>2 DEF Pending, InChannel
  <2> QED BY <2>3, <2>4, <2>5, <2>6
<1>5. CASE PollClaimed(p)
  <2>1. PICK m \in buffer[p] :
          /\ buffer' = [buffer EXCEPT ![p] = @ \ {m}]
          /\ msg' = [msg EXCEPT ![p] = m]
    BY <1>5 DEF PollClaimed
  <2>2. buffer'[p] \subseteq buffer[p] /\ msg'[p] = m
    BY <1>0, <2>1
  <2> QED BY <2>1, <2>2 DEF Held
<1>6. CASE PollNew(p)
  <2>1. /\ pc[p] = "idle" /\ UNCHANGED <<buffer, now, job>>
    BY <1>6 DEF PollNew
  <2>c. PICK c \in Channel : \E d \in Unread(c) :
          /\ Buffered(p, c) = {}
          /\ \/ msg' = [msg EXCEPT ![p] = [id |-> d, recv |-> now]]
             \/ UNCHANGED <<msg, pc>>
    BY <1>6 DEF PollNew
  <2>2. PICK d \in Unread(c) :
          /\ Buffered(p, c) = {}
          /\ \/ msg' = [msg EXCEPT ![p] = [id |-> d, recv |-> now]]
             \/ UNCHANGED <<msg, pc>>
    BY <2>c
  <2>3. Held(p) = buffer[p]
    BY <2>1 DEF Held
  <2>4. \A m \in Held(p) : Request[m.id].ch # c
    BY <2>2, <2>3 DEF Buffered, InChannel
  <2>5. CASE UNCHANGED <<msg, pc>>
    BY <2>1, <2>5 DEF Held
  <2>6. CASE msg' = [msg EXCEPT ![p] = [id |-> d, recv |-> now]]
    <3>1. msg'[p] = [id |-> d, recv |-> now] /\ Request[d].ch = c
      BY <1>0, <2>2, <2>6 DEF Unread, InChannel
    <3>2. \A m \in Held(p)' : m \in Held(p) \/ (Request[m.id].ch = c /\ m.recv = now)
      BY <2>1, <2>3, <3>1 DEF Held
    <3> QED BY <2>1, <2>4, <3>2
  <2> QED BY <2>2, <2>5, <2>6
<1>7. CASE WatchStep(p)
  <2>1. UNCHANGED <<buffer, pc, msg>>
    BY <1>7 DEF WatchStep, BeginPass, Observe, GetStatus, LookupRaises, Decide,
         Report, RemoveEntry, StopCancelled, StopTimedOut, StopRaises, Untouched
  <2> QED BY <2>1 DEF Held
<1>8. CASE \E s \in Submission : RayStep(s)
  <2>1. UNCHANGED <<buffer, pc, msg>>
    BY <1>8, RayLemma DEF ProviderSide, mainVars
  <2> QED BY <2>1 DEF Held
<1>9. CASE (\E k \in Cancellable : ClientCancel(k)) \/ Tick \/ UNCHANGED vars
  <2>1. UNCHANGED <<buffer, pc, msg>>
    BY <1>9 DEF ClientCancel, Tick, vars, mainVars
  <2> QED BY <2>1 DEF Held
<1> QED BY <1>1, <1>2, <1>3, <1>4, <1>5, <1>6, <1>7, <1>8, <1>9 DEF Next, MainStep

\* A job is due by any later time, too.
LEMMA ByLater ==
  ASSUME Shape, NEW d \in Delivery, NEW t \in Nat, NEW u \in Nat, t <= u,
         By(Request[d].sub, Request[d].timeout, t)
  PROVE  By(Request[d].sub, Request[d].timeout, u)
<1> SUFFICES ASSUME Exists(Request[d].sub), Request[d].timeout # Null
             PROVE  /\ job[Request[d].sub].item.deadline # Null
                    /\ job[Request[d].sub].item.deadline <= u + Request[d].timeout
  BY DEF By
<1>1. Request[d].sub \in Submission /\ Request[d].timeout \in Nat
  BY RequestAssumption DEF RequestType
<1>2. job[Request[d].sub].item.deadline \in Nat \cup {Null}
  BY <1>1 DEF Shape, JobInv, Item
<1> QED BY <1>1, <1>2 DEF By

\* The step of a job: it is new and made from the message in hand, or as it was.
LEMMA ByStep ==
  ASSUME Shape, ReceiptInv, SameLimit, [Next]_vars, NEW p \in Provider,
         \A q \in Provider : q = p, NEW d \in Delivery, NEW t \in Nat,
         Exists(Request[d].sub) => By(Request[d].sub, Request[d].timeout, t),
         pc[p] # "idle" /\ Request[d].sub = Req(p).sub => msg[p].recv <= t
  PROVE  By(Request[d].sub, Request[d].timeout, t)'
<1>0. Request[d].sub \in Submission /\ Request[d].timeout \in Nat \cup {Null}
  BY RequestAssumption DEF RequestType
<1>1. CASE Exists(Request[d].sub)
  <2>1. job'[Request[d].sub].item = job[Request[d].sub].item
    BY <1>0, <1>1, StepLemma DEF Monotone, JobsKeep
  <2> QED BY <1>1, <2>1 DEF By
<1>2. CASE ~Exists(Request[d].sub) /\ Exists(Request[d].sub)'
  <2>1. /\ pc[p] = "submit" /\ Request[d].sub = Req(p).sub
        /\ job'[Request[d].sub].item = NewItem(p)
    BY <1>0, <1>2, JobOrigin
  <2>2. msg[p].recv \in Nat /\ Req(p).timeout = Request[d].timeout
    BY <2>1, RequestLemma DEF Message, SameLimit
  <2>3. Request[d].timeout # Null => NewItem(p).deadline = msg[p].recv + Request[d].timeout
    BY <2>2 DEF NewItem
  <2>4. Request[d].timeout # Null =>
          NewItem(p).deadline \in Nat /\ NewItem(p).deadline <= t + Request[d].timeout
    BY <1>0, <2>1, <2>2, <2>3
  <2> QED BY <2>1, <2>4, NullAssumption DEF By
<1> QED BY <1>1, <1>2 DEF By

LEMMA ReceiptInductive ==
  ASSUME Shape, ReceiptInv, SameLimit, [Next]_vars, \A p, q \in Provider : p = q
  PROVE  ReceiptInv'
<1>0. Shape' /\ now \in Nat /\ now' \in Nat /\ now <= now'
  BY StepLemma, ClockGoesOn
\* The message in hand is the oldest of its channel.
<1>h. ASSUME NEW p \in Provider, pc[p] # "idle"
      PROVE  msg[p] \in Held(p) /\ msg[p].recv \in Nat /\ msg[p].recv <= now
  BY <1>h, HeldMessages DEF Held, ReceiptInv
<1>1. ASSUME NEW p \in Provider, NEW m \in Held(p)' PROVE m.recv <= now'
  <2>1. m.recv <= now /\ m.recv \in Nat
    <3>1. CASE m \in Held(p)
      BY <3>1, HeldMessages DEF ReceiptInv
    <3> QED BY <1>0, <1>1, <3>1, HeldStep
  <2> QED BY <1>0, <2>1
<1>2. ASSUME NEW p \in Provider, NEW m \in Held(p)', NEW n \in Held(p)',
             Request[m.id].ch = Request[n.id].ch
      PROVE  m.recv = n.recv
  BY <1>2, HeldStep DEF ReceiptInv
<1>3. ASSUME NEW d \in Delivery PROVE By(Request[d].sub, Request[d].timeout, now)'
  <2>1. By(Request[d].sub, Request[d].timeout, now')
    BY <1>0, ByLater DEF ReceiptInv
  <2>2. PICK t \in Nat : t = now'
    BY <1>0
  <2>3. CASE \E p \in Provider : TRUE
    <3>1. PICK p \in Provider : TRUE
      BY <2>3
    <3>2. pc[p] # "idle" => msg[p].recv <= t
      BY <1>0, <1>h, <2>2
    <3>3. By(Request[d].sub, Request[d].timeout, t)'
      BY <2>1, <2>2, <3>2, ByStep
    <3> QED BY <2>2, <3>3 DEF By
  <2>4. CASE ~ \E p \in Provider : TRUE
    <3>1. Request[d].sub \in Submission
      BY RequestAssumption DEF RequestType
    <3>2. Exists(Request[d].sub)' => Exists(Request[d].sub)
      BY <2>4, <3>1, JobOrigin
    <3>3. Exists(Request[d].sub) => job'[Request[d].sub].item = job[Request[d].sub].item
      BY <3>1, StepLemma DEF Monotone, JobsKeep
    <3> QED BY <2>1, <3>2, <3>3 DEF By
  <2> QED BY <2>3, <2>4
<1>4. ASSUME NEW p \in Provider, NEW m \in Held(p)'
      PROVE  By(Request[m.id].sub, Request[m.id].timeout, m.recv)'
  <2>1. CASE m \in Held(p)
    <3>1. m.id \in Delivery /\ m.recv \in Nat
      BY <2>1, HeldMessages
    <3>2. pc[p] # "idle" /\ Request[m.id].sub = Req(p).sub => msg[p].recv <= m.recv
      <4> SUFFICES ASSUME pc[p] # "idle", Request[m.id].sub = Req(p).sub
                   PROVE  msg[p].recv <= m.recv
        OBVIOUS
      <4>1. Request[m.id].ch = Request[msg[p].id].ch
        BY <3>1, RequestLemma, SubmissionAssumption
      <4>2. m.recv = msg[p].recv
        BY <1>h, <2>1, <4>1 DEF ReceiptInv
      <4> QED BY <3>1, <4>2
    <3>3. By(Request[m.id].sub, Request[m.id].timeout, m.recv)
      BY <2>1 DEF ReceiptInv
    <3> QED BY <3>1, <3>2, <3>3, ByStep
  <2>2. CASE UNCHANGED <<now, job>> /\ m.recv = now
    <3>1. m.id \in Delivery
      BY <1>0, <1>4 DEF Held, Shape, TypeOK, MainInv, Message
    <3>2. By(Request[m.id].sub, Request[m.id].timeout, m.recv)
      BY <2>2, <3>1 DEF ReceiptInv
    <3> QED BY <2>2, <3>2 DEF By, Exists, Status
  <2> QED BY <1>4, <2>1, <2>2, HeldStep
<1> QED BY <1>1, <1>2, <1>3, <1>4 DEF ReceiptInv

LEMMA NotEarlierInductive ==
  ASSUME Shape, ReceiptInv, NotEarlier, [Next]_vars
  PROVE  NotEarlier'
<1>0. Shape' /\ Monotone
  BY StepLemma
<1> SUFFICES ASSUME NEW p \in Provider, NEW o \in Operation, active'[p][o] # Null
             PROVE  Due(active[p][o])'
  BY DEF NotEarlier
<1>1. PICK i \in Item : i = active'[p][o]
  BY <1>0 DEF Shape, TypeOK
<1>2. CASE Due(i) /\ Exists(i.sub)
  <2>1. job'[i.sub].item = job[i.sub].item
    BY <1>0, <1>2 DEF Monotone, JobsKeep, Item
  <2> QED BY <1>1, <1>2, <2>1 DEF Due
<1>3. CASE active'[p][o] = active[p][o]
  <2>1. Due(i) /\ Exists(i.sub)
    BY <1>1, <1>3 DEF NotEarlier, Shape, ActiveInv, Tracked
  <2> QED BY <1>2, <2>1
<1>4. CASE active'[p][o] \in Unreported(o)
  <2>1. PICK s \in Submission : Exists(s) /\ i = job[s].item
    BY <1>1, <1>4 DEF Unreported, Adoptable
  <2>2. i.sub = s /\ i.deadline \in Nat \cup {Null}
    BY <2>1 DEF Shape, JobInv, Item
  <2>3. Due(i) /\ Exists(i.sub)
    BY <2>1, <2>2 DEF Due
  <2> QED BY <1>2, <2>3
<1>5. CASE pc[p] = "submit" /\ CreateJob(NewItem(p)) /\ active'[p][o] = NewItem(p)
  <2>1. /\ i = NewItem(p) /\ i.sub = Req(p).sub /\ i.sub \in Submission
        /\ i.deadline \in Nat \cup {Null}
    BY <1>1, <1>5, NewItemLemma DEF Item
  <2>2. CASE Exists(i.sub)
    <3>1. By(Req(p).sub, Req(p).timeout, msg[p].recv)
      BY <1>5 DEF ReceiptInv, Held, Req
    <3>2. i.deadline # Null =>
            Req(p).timeout # Null /\ i.deadline = msg[p].recv + Req(p).timeout
      BY <2>1 DEF NewItem
    <3>3. Due(i)
      BY <2>1, <2>2, <3>1, <3>2 DEF Due, By
    <3> QED BY <1>2, <2>2, <3>3
  <2>3. CASE ~Exists(i.sub)
    <3>1. job' = [job EXCEPT ![i.sub] = [NoJob EXCEPT !.status = "PENDING", !.item = i]]
      BY <1>5, <2>1, <2>3 DEF CreateJob
    <3>2. job'[i.sub].item = i
      BY <2>1, <3>1 DEF Shape, TypeOK, NoJob
    <3> QED BY <1>1, <2>1, <3>2 DEF Due
  <2> QED BY <2>2, <2>3
<1> QED BY <1>3, <1>4, <1>5, EntryOrigin

\* EXECUTION_TIMEOUT is only said of a job whose deadline has passed, where one
\* provider serves operations of one attempt each: a delivery that is handled again
\* was not received before the one its job was made from.
THEOREM LoneTimeoutsAreDue ==
  ASSUME OneAttempt, SameLimit, \A p, q \in Provider : p = q
  PROVE  Spec => []TimeoutOnlyAfterDeadline
<1>1. Init => ReceiptInv /\ NotEarlier
  <2>1. \A d \in Delivery : Request[d].sub \in Submission
    BY RequestAssumption DEF RequestType
  <2>2. Init => (\A p \in Provider : Held(p) = {}) /\ \A s \in Submission : ~Exists(s)
    BY DEF Init, Held, Exists, Status, NoJob
  <2>3. Init => NotEarlier
    BY DEF Init, NotEarlier
  <2> QED BY <2>1, <2>2, <2>3 DEF ReceiptInv, By
<1>2. Shape /\ ReceiptInv /\ [Next]_vars => ReceiptInv'
  BY ReceiptInductive
<1>3. Shape /\ ReceiptInv /\ NotEarlier /\ [Next]_vars => NotEarlier'
  BY NotEarlierInductive
<1>4. Spec => []NotEarlier
  BY <1>1, <1>2, <1>3, ShapeInvariant, PTL DEF Spec
<1> QED BY <1>4, TimeoutsAreDue, PTL

=============================================================================

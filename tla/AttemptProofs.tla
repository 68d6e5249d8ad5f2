---------------------------- MODULE AttemptProofs ----------------------------
(***************************************************************************)
(* What keeps two attempts of an operation apart: a lone provider does not *)
(* run the workload of one attempt beside that of another.  And what a     *)
(* client can rely on: OperationLifecycle implements ClientView.           *)
(***************************************************************************)
EXTENDS ReportProofs

-----------------------------------------------------------------------------
(* A workload that is over stays over, and only then is there a terminal   *)
(* event.                                                                  *)

Busy(s) == Live(s) /\ job[s].driver = "executing"

\* No driver goes back to its workload.
LEMMA DriverGoesOn ==
  ASSUME Shape, [Next]_vars, NEW s \in Submission, Exists(s), Busy(s)'
  PROVE  Busy(s)
<1>0. job \in [Submission -> Job] /\ JobsKeep
  BY StepLemma DEF Shape, TypeOK, Monotone
<1>1. Live(s)
  BY <1>0 DEF Busy, Live, Ended, Exists, Status, Job, JobsKeep, LiveStatus, EndedStatus
<1>2. job'[s].driver = "executing"
  BY DEF Busy
<1>3. CASE \E t \in Submission : RayStep(t)
  <2>1. PICK t \in Submission : RayStep(t)
    BY <1>3
  <2>2. \/ UNCHANGED job
        \/ \E x : job' = [job EXCEPT ![t].status = x]
        \/ \E x \in {"completed", "unpublished", "failing", "failed"} :
             job' = [job EXCEPT ![t].driver = x]
    BY <2>1 DEF RayStep, JobStarts, JobLost, StopTakesEffect, ExternalStop,
         DriverProgress, DriverCompletes, DriverFails, DriverExcept, DriverExit,
         DriverReportsFailure, SetStatus, SetDriver
  <2>3. job[s].driver = "executing"
    BY <1>0, <1>2, <2>2 DEF Job
  <2> QED BY <1>1, <2>3 DEF Busy
<1>4. CASE \E p \in Provider : WatchStep(p)
  <2>1. UNCHANGED job \/ \E t, why : job' = [job EXCEPT ![t].stopFor = why]
    BY <1>4 DEF WatchStep, BeginPass, Observe, GetStatus, LookupRaises, Decide,
         Report, RemoveEntry, StopCancelled, StopTimedOut, StopRaises, RequestStop
  <2> QED BY <1>0, <1>1, <1>2, <2>1 DEF Busy, Job
<1>5. CASE \E p \in Provider : Submit(p)
  <2>1. UNCHANGED job \/ \E p \in Provider : pc[p] = "submit" /\ CreateJob(NewItem(p))
    BY <1>5 DEF Submit, At
  <2>2. CASE UNCHANGED job
    BY <1>1, <1>2, <2>2 DEF Busy
  <2>3. ASSUME NEW p \in Provider, pc[p] = "submit", CreateJob(NewItem(p))
        PROVE  job'[s] = job[s]
    BY <1>0, <2>3 DEF CreateJob
  <2> QED BY <1>1, <1>2, <2>1, <2>2, <2>3 DEF Busy
<1>6. CASE \E p \in Provider : MainStep(p) /\ ~Submit(p)
  <2>1. UNCHANGED job
    BY <1>6 DEF MainStep, Start, Crash, Close, Exit, Forget, Claim, PollClaimed,
         PollNew, HandleStep, CheckCancel, CheckCancelRaises, PublishCancelled, Reject,
         Resume, Confirm, Reaccept, CheckCancelAgain, Accept, Ack, Announce
  <2> QED BY <1>1, <1>2, <2>1 DEF Busy
<1>7. CASE (\E c \in Cancellable : ClientCancel(c)) \/ Tick \/ UNCHANGED vars
  <2>1. UNCHANGED job
    BY <1>7 DEF ClientCancel, Tick, vars
  <2> QED BY <1>1, <1>2, <2>1 DEF Busy
<1> QED BY <1>3, <1>4, <1>5, <1>6, <1>7 DEF Next

\* A terminal event names a job whose workload is over; the watcher says one of an
\* ended job only, and drops an entry only for a job of which one was said.
SaidInv ==
  /\ \A k \in Key : \A i \in DOMAIN log[k] :
       log[k][i].type \in TerminalType /\ log[k][i].sub # Null =>
         Exists(log[k][i].sub) /\ ~Busy(log[k][i].sub)
  /\ \A p \in Provider : watch[p].pc = "report" =>
       /\ watch[p].event.sub = watch[p].item.sub
       /\ watch[p].event.type \in TerminalType /\ Ended(watch[p].item.sub)
  /\ \A p \in Provider :
       watch[p].pc = "remove" => TerminalSaid(watch[p].item.sub)

\* What was said stays said.
LEMMA SaidStays ==
  ASSUME Shape, Monotone, NEW s \in Submission, TerminalSaid(s)
  PROVE  TerminalSaid(s)'
<1>1. Exists(s) /\ KeyOfJob(s) \in Key
  BY DEF TerminalSaid, Shape, JobInv, Item, KeyOfJob, KeyOf, Key
<1>2. Exists(s)' /\ KeyOfJob(s)' = KeyOfJob(s)
  BY <1>1 DEF Monotone, JobsKeep, KeyOfJob, KeyOf
<1> QED BY <1>1, <1>2 DEF TerminalSaid, Monotone, LogGrows

\* What terminal_event_published finds of an item was said of its job.
LEMMA PublishedWasSaid ==
  ASSUME Shape, NEW i, Tracked(i), i.sub \in Submission, TerminalPublished(i)
  PROVE  TerminalSaid(i.sub)
<1>1. Exists(i.sub) /\ KeyOfJob(i.sub) = KeyOf(i) /\ KeyOfJob(i.sub) \in Key
  BY DEF Tracked, Shape, JobInv, Item, KeyOfJob, KeyOf, Key
<1>2. log[KeyOf(i)] \in Seq(Event) /\ trimmed[KeyOf(i)] \in Nat
  BY <1>1 DEF Shape, TypeOK
<1>3. PICK e \in Recent(KeyOf(i)) : e.type \in TerminalType /\ e.sub = i.sub
  BY DEF TerminalPublished
<1>4. PICK j \in (trimmed[KeyOf(i)] + 1)..Len(log[KeyOf(i)]) : e = log[KeyOf(i)][j]
  BY <1>3 DEF Recent
<1>5. j \in DOMAIN log[KeyOf(i)]
  BY <1>2, <1>4
<1> QED BY <1>1, <1>3, <1>4, <1>5 DEF TerminalSaid

LEMMA SaidInductive ==
  ASSUME Shape, StopInv, SaidInv, [Next]_vars
  PROVE  SaidInv'
<1>0. Shape' /\ Monotone /\ TypeOK /\ TypeOK'
  BY StepLemma DEF Shape
<1>1. ASSUME NEW k \in Key, NEW i \in DOMAIN log'[k],
             log'[k][i].type \in TerminalType, log'[k][i].sub # Null
      PROVE  (Exists(log[k][i].sub) /\ ~Busy(log[k][i].sub))'
  <2>0. log'[k][i].sub \in Submission
    <3>1. log'[k] \in Seq(Event)
      BY <1>0 DEF TypeOK
    <3>2. log'[k][i] \in Event
      BY <1>1, <3>1
    <3> QED BY <1>1, <3>2 DEF Event
  <2>s. PICK s \in Submission : s = log'[k][i].sub
    BY <2>0
  <2> SUFFICES Exists(s)' /\ ~Busy(s)'
    BY <2>s DEF Exists, Busy, Live, Status
  <2>1. CASE Exists(s) /\ ~Busy(s)
    BY <1>0, <2>1, DriverGoesOn DEF Monotone, JobsKeep
  <2>2. CASE i \in DOMAIN log[k]
    <3>1. log'[k][i] = log[k][i]
      BY <1>0, <2>2 DEF Monotone, LogGrows
    <3> QED BY <1>1, <2>s, <2>1, <2>2, <3>1 DEF SaidInv
  <2>3. CASE i \notin DOMAIN log[k]
    <3>1. ~ByHandle(log'[k][i])
      BY <1>1 DEF ByHandle, TerminalType
    <3>2. CASE Exists(s) /\ job'[s].driver # "executing"
      BY <1>0, <3>2 DEF Busy, Monotone, JobsKeep
    <3>3. CASE \E p \in Provider : watch[p].pc = "report" /\ log'[k][i] = watch[p].event
      <4>1. Ended(s)
        BY <2>s, <3>3 DEF SaidInv
      <4>2. Exists(s) /\ ~Busy(s)
        BY <4>1 DEF Ended, Exists, Busy, Live, EndedStatus, LiveStatus
      <4> QED BY <2>1, <4>2
    <3> QED BY <1>1, <2>s, <2>3, <3>1, <3>2, <3>3, NewEvent
  <2> QED BY <2>2, <2>3
<1>2. ASSUME NEW p \in Provider, watch'[p].pc = "report"
      PROVE  /\ watch'[p].event.sub = watch'[p].item.sub
             /\ watch'[p].event.type \in TerminalType /\ Ended(watch[p].item.sub)'
  <2>1. PICK s \in Submission : s = watch'[p].item.sub
    BY <1>0, <1>2 DEF Shape, WatchInv, Item
  <2>2. /\ Ended(s)
        /\ watch'[p].event.sub = watch'[p].item.sub
        /\ watch'[p].event.type \in TerminalType
    <3>1. CASE watch'[p] = watch[p]
      BY <1>2, <2>1, <3>1 DEF SaidInv
    <3>2. CASE Decides(p)
      <4>1. Status(watch[p].item.sub) = watch[p].status /\ watch[p].status \in EndedStatus
        BY <1>2, <3>2 DEF Decides, StopInv, StopOK
      <4> QED BY <1>2, <2>1, <3>2, <4>1, VerdictNames DEF Decides, Ended, Watched
    <3> QED BY <1>2, <3>1, <3>2, WatchCases, WatchMoves DEF Observes, Queries, Tells
  <2>3. Ended(s)'
    BY <1>0, <2>1, <2>2 DEF Monotone, JobsKeep, Ended, Exists, Status, EndedStatus
  <2> QED BY <2>1, <2>2, <2>3 DEF Ended, Status
<1>3. ASSUME NEW p \in Provider, watch'[p].pc = "remove"
      PROVE  TerminalSaid(watch[p].item.sub)'
  <2>0. watch'[p].item \in Item /\ Tracked(watch[p].item)'
    BY <1>0, <1>3 DEF Shape, WatchInv
  <2>1. PICK i \in Item : i = watch'[p].item
    BY <2>0
  <2> SUFFICES TerminalSaid(i.sub)'
    BY <2>1 DEF TerminalSaid, Exists, Status, KeyOfJob, KeyOf
  <2>s. i.sub \in Submission
    BY DEF Item
  <2>2. CASE watch'[p] = watch[p]
    BY <1>0, <1>3, <2>1, <2>s, <2>2, SaidStays DEF SaidInv
  <2>3. CASE Observes(p)
    <3>1. TerminalPublished(i) /\ Tracked(i)
      BY <1>3, <2>1, <2>3 DEF Observes, Shape, WatchInv
    <3> QED BY <1>0, <2>s, <3>1, PublishedWasSaid, SaidStays
  <2>4. CASE Tells(p)
    <3>1. watch[p].pc = "report" /\ i = watch[p].item /\ Publish(KeyOf(i), watch[p].event)
      BY <2>1, <2>4 DEF Tells
    <3>2. PICK e \in Event : e = watch[p].event
      BY <3>1 DEF Shape, WatchInv
    <3>3. KeyOf(i) \in Key /\ e.sub = i.sub /\ e.type \in TerminalType
      BY <3>1, <3>2 DEF SaidInv, Item, KeyOf, Key
    <3>4. Has(KeyOf(i), e)'
      BY <1>0, <3>1, <3>2, <3>3, PublishedLemma
    <3>5. Tracked(i)'
      BY <2>0, <2>1 DEF Tracked, Exists, Status, KeyOfJob, KeyOf
    <3> QED BY <3>3, <3>4, <3>5 DEF Has, TerminalSaid, Tracked, KeyOf
  <2> QED BY <1>3, <2>2, <2>3, <2>4, WatchCases, WatchMoves DEF Queries, Decides
<1> QED BY <1>1, <1>2, <1>3 DEF SaidInv

-----------------------------------------------------------------------------
(* Starts and entries.                                                     *)

\* A process comes up by adopting, for every operation, a job of which no terminal
\* event is found, if there is one.
LEMMA ComesUp ==
  ASSUME Shape, [Next]_vars, NEW p \in Provider, \A q \in Provider : q = p,
         mode[p] = "down", mode'[p] # "down"
  PROVE  /\ UNCHANGED <<job, log, trimmed>>
         /\ \A o \in Operation :
              Unreported(o) # {} => active'[p][o] \in Unreported(o)
<1>0. /\ mode \in [Provider -> {"down", "up", "closing"}]
      /\ active \in [Provider -> [Operation -> Item \cup {Null}]]
  BY DEF Shape, TypeOK
<1>1. CASE Start(p)
  BY <1>0, <1>1 DEF Start
<1>2. CASE \E q \in Provider : MainStep(q) /\ ~Start(q)
  <2>1. pc[p] = "idle"
    BY DEF Shape, MainInv
  <2> QED BY <1>0, <1>2, <2>1 DEF MainStep, Crash, Close, Exit, Forget, Claim,
       PollClaimed, PollNew, HandleStep, CheckCancel, CheckCancelRaises,
       PublishCancelled, Reject, Resume, Confirm, Reaccept, CheckCancelAgain, Submit,
       Accept, Ack, At
<1>3. CASE \E q \in Provider : WatchStep(q)
  <2>1. UNCHANGED mode
    BY <1>3 DEF WatchStep, BeginPass, Observe, GetStatus, LookupRaises, Decide,
         Report, RemoveEntry, StopCancelled, StopTimedOut, StopRaises, Untouched
  <2> QED BY <2>1
<1>4. CASE \E s \in Submission : RayStep(s)
  BY <1>4, RayLemma DEF ProviderSide, mainVars
<1>5. CASE (\E c \in Cancellable : ClientCancel(c)) \/ Tick \/ UNCHANGED vars
  BY <1>5 DEF ClientCancel, Tick, vars, mainVars
<1> QED BY <1>1, <1>2, <1>3, <1>4, <1>5 DEF Next

\* While its process is up, an entry leaves the map only after a terminal event was
\* said of a job of its operation, if not of the entry's own.
LEMMA EntryLeaves ==
  ASSUME Shape, HandleInv, SaidInv, [Next]_vars, NEW p \in Provider,
         NEW o \in Operation, active[p][o] # Null, active'[p][o] = Null,
         mode'[p] # "down"
  PROVE  \E s \in Submission : TerminalSaid(s) /\ job[s].item.op = o
<1>0. TypeOK /\ active \in [Provider -> [Operation -> Item \cup {Null}]]
  BY DEF Shape, TypeOK
<1>1. CASE Confirm(p)
  <2>1. TerminalPublished(Req(p)) /\ Remove(p, Req(p).op) /\ pc[p] = "confirm"
    BY <1>1 DEF Confirm, At
  <2>2. Exists(Req(p).sub) /\ Req(p).sub \in Submission
    BY <2>1, RequestLemma DEF HandleInv, HandleOK, RequestType
  <2>3. KeyOfJob(Req(p).sub) = KeyOf(Req(p))
    <3>1. PICK d \in Delivery :
            /\ Request[d].sub = Req(p).sub
            /\ KeyOf(Request[d]) = KeyOf(job[Req(p).sub].item)
      BY <2>2 DEF Shape, JobInv
    <3>2. Request[d].ch = Req(p).ch /\ Request[d].op = Req(p).op
      BY <2>1, <3>1, RequestLemma, SubmissionAssumption
    <3> QED BY <3>1, <3>2 DEF KeyOfJob, KeyOf
  <2>4. TerminalSaid(Req(p).sub)
    BY <2>1, <2>2, <2>3, PublishedWasSaid DEF Tracked
  <2>5. o = Req(p).op
    BY <1>0, <2>1 DEF Remove
  <2> QED BY <2>2, <2>3, <2>4, <2>5 DEF KeyOfJob, KeyOf
<1>2. CASE RemoveEntry(p)
  <2>1. watch[p].pc = "remove" /\ Remove(p, watch[p].item.op)
    BY <1>2 DEF RemoveEntry, Watching, Watched
  <2>2. /\ TerminalSaid(watch[p].item.sub) /\ watch[p].item \in Item
        /\ Tracked(watch[p].item)
    BY <2>1 DEF SaidInv, Shape, WatchInv
  <2>3. o = watch[p].item.op
    BY <1>0, <2>1 DEF Remove
  <2> QED BY <2>2, <2>3 DEF Tracked, KeyOfJob, KeyOf, Item
<1>3. CASE Start(p)
  BY <1>3 DEF Start, Shape, MainInv
<1>4. CASE Submit(p)
  <2>1. UNCHANGED active \/ (Put(p, NewItem(p)) /\ pc[p] = "submit")
    BY <1>4 DEF Submit, At
  <2>2. CASE Put(p, NewItem(p)) /\ pc[p] = "submit"
    BY <1>0, <2>2, NewItemLemma, NullAssumption DEF Put
  <2> QED BY <2>1, <2>2
<1>5. CASE Crash(p) \/ Exit(p)
  BY <1>0, <1>5 DEF Crash, Exit, Forget, TypeOK
<1>6. CASE /\ MainStep(p) /\ ~Confirm(p) /\ ~Start(p) /\ ~Submit(p)
           /\ ~Crash(p) /\ ~Exit(p)
  <2>1. UNCHANGED active
    BY <1>6 DEF MainStep, Close, Claim, PollClaimed, PollNew, HandleStep, CheckCancel,
         CheckCancelRaises, PublishCancelled, Reject, Resume, Reaccept,
         CheckCancelAgain, Accept, Ack, Announce
  <2> QED BY <2>1
<1>7. CASE WatchStep(p) /\ ~RemoveEntry(p)
  <2>1. UNCHANGED active
    BY <1>7 DEF WatchStep, BeginPass, Observe, GetStatus, LookupRaises, Decide,
         Report, StopCancelled, StopTimedOut, StopRaises
  <2> QED BY <2>1
<1>8. CASE \E q \in Provider : q # p /\ (MainStep(q) \/ WatchStep(q))
  BY <1>0, <1>8, OthersLemma
<1>9. CASE ~ \E q \in Provider : MainStep(q) \/ WatchStep(q)
  BY <1>9, OutsideLemma
<1> QED BY <1>1, <1>2, <1>3, <1>4, <1>5, <1>6, <1>7, <1>8, <1>9

\* A terminal event keeps a job out of the entries: nothing was said of a busy one.
LEMMA BusyUnsaid ==
  ASSUME Shape, SaidInv, NEW s \in Submission, Busy(s)
  PROVE  Exists(s) /\ ~TerminalSaid(s)
<1>1. Exists(s) /\ KeyOfJob(s) \in Key
  BY DEF Busy, Live, Exists, LiveStatus, Shape, JobInv, Item, KeyOfJob, KeyOf, Key
<1> QED BY <1>1, NullAssumption DEF TerminalSaid, SaidInv

\* A job of which nothing was said is there to be adopted.
LEMMA UnsaidAdoptable ==
  ASSUME Shape, NEW s \in Submission, Exists(s), ~TerminalSaid(s)
  PROVE  job[s].item.op \in Operation /\ job[s].item \in Unreported(job[s].item.op)
<1>1. job[s].item \in Item /\ job[s].item.sub = s /\ Tracked(job[s].item)
  BY DEF Shape, JobInv, Tracked, KeyOfJob
<1>2. ~TerminalPublished(job[s].item)
  BY <1>1, PublishedWasSaid
<1> QED BY <1>1, <1>2 DEF Unreported, Adoptable, Item

\* A submission of a lone provider that always learns what became of it is only made
\* where the operation has no entry, and leaves one.
LEMMA NewJobEntry ==
  ASSUME Shape, HandleInv, [Next]_vars, NEW p \in Provider, \A q \in Provider : q = p,
         ~AmbiguousSubmit, NEW s \in Submission, Exists(s)', ~Exists(s)
  PROVE  /\ mode[p] # "down" /\ job'[s].item.op \in Operation
         /\ active[p][job'[s].item.op] = Null
         /\ active'[p][job'[s].item.op] # Null
         /\ active'[p][job'[s].item.op].sub = s
         /\ \A t \in Submission : t # s => job'[t] = job[t]
<1>1. /\ pc[p] = "submit" /\ s = Req(p).sub /\ job'[s].item = NewItem(p)
      /\ \A t \in Submission : t # s => job'[t] = job[t]
      /\ Put(p, NewItem(p))
  BY JobOrigin
<1>2. /\ NewItem(p) \in Item /\ NewItem(p).op = Req(p).op /\ NewItem(p).sub = Req(p).sub
      /\ mode[p] # "down" /\ NewItem(p).op \in Operation
  BY <1>1, NewItemLemma, RequestLemma DEF Item
<1>3. active[p][Req(p).op] = Null
  BY <1>1 DEF HandleInv, HandleOK, HasEntry
<1>4. active'[p][NewItem(p).op] = NewItem(p)
  BY <1>1, <1>2 DEF Put, Shape, TypeOK
<1> QED BY <1>1, <1>2, <1>3, <1>4, NullAssumption

-----------------------------------------------------------------------------
(* Two attempts.                                                           *)

\* No operation is asked for under more than two submission ids.
TwoAttempts ==
  \A d, e, f \in Delivery :
    Request[d].op = Request[e].op /\ Request[e].op = Request[f].op =>
      \/ Request[d].sub = Request[e].sub \/ Request[e].sub = Request[f].sub
      \/ Request[d].sub = Request[f].sub

\* The only job of its operation so far.
Alone(s) ==
  \A t \in Submission : Exists(t) /\ job[t].item.op = job[s].item.op => t = s

\* One workload of an operation at a time; while it is the only one there ever was,
\* a provider that is up has an entry for it.
TurnInv ==
  /\ \A s, t \in Submission :
       Busy(s) /\ Busy(t) /\ job[s].item.op = job[t].item.op => s = t
  /\ \A p \in Provider, s \in Submission :
       Busy(s) /\ Alone(s) /\ mode[p] # "down" => active[p][job[s].item.op] # Null

LEMMA TurnInductive ==
  ASSUME Shape, HandleInv, SaidInv, TurnInv, [Next]_vars,
         TwoAttempts, ~AmbiguousSubmit, \A p, q \in Provider : p = q
  PROVE  TurnInv'
<1>0. Shape' /\ Monotone
  BY StepLemma
<1>e. ASSUME NEW x \in Submission, Busy(x)' PROVE Exists(x)'
  BY <1>e DEF Busy, Live, Exists, LiveStatus
<1>k. ASSUME NEW x \in Submission, Exists(x) PROVE Exists(x)' /\ job'[x].item = job[x].item
  BY <1>0, <1>k DEF Monotone, JobsKeep
\* A new attempt finds no busy one.
<1>n. ASSUME NEW s \in Submission, NEW t \in Submission, Exists(s)', ~Exists(s),
             Busy(t), job'[s].item.op = job[t].item.op
      PROVE  FALSE
  <2>1. PICK p \in Provider : Submit(p)
    BY <1>n, JobOrigin
  <2>2. mode[p] # "down" /\ active[p][job[t].item.op] = Null
    BY <1>n, NewJobEntry
  <2>3. Exists(t)
    BY <1>n, BusyUnsaid
  <2>4. ASSUME NEW u \in Submission, Exists(u), job[u].item.op = job[t].item.op
        PROVE  u = t
    <3>1. JobInv' /\ Exists(t)' /\ Exists(u)' /\ job'[t].item = job[t].item
          /\ job'[u].item = job[u].item
      BY <1>0, <1>k, <2>3, <2>4 DEF Shape
    <3>2. \A x \in {s, t, u} : \E d \in Delivery :
            Request[d].sub = x /\ Request[d].op = job[t].item.op
      BY <1>n, <2>4, <3>1 DEF JobInv, KeyOf
    <3>3. s = t \/ t = u \/ s = u
      BY <3>2 DEF TwoAttempts
    <3> QED BY <1>n, <2>3, <2>4, <3>3
  <2> QED BY <1>n, <2>2, <2>4 DEF TurnInv, Alone
<1>1. ASSUME NEW s \in Submission, NEW t \in Submission, Busy(s)', Busy(t)',
             job'[s].item.op = job'[t].item.op
      PROVE  s = t
  <2>1. CASE Exists(s) /\ Exists(t)
    BY <1>1, <1>k, <2>1, DriverGoesOn DEF TurnInv
  <2>2. ASSUME NEW x \in Submission, NEW y \in Submission, x # y, Busy(x)', Busy(y)',
               job'[x].item.op = job'[y].item.op, ~Exists(x)
        PROVE  FALSE
    <3>1. Exists(x)'
      BY <1>e, <2>2
    <3>2. job'[y] = job[y]
      BY <2>2, <3>1, JobOrigin
    <3>3. Busy(y)
      BY <2>2, <3>2 DEF Busy, Live, Status
    <3> QED BY <1>n, <2>2, <3>1, <3>2, <3>3
  <2> QED BY <1>1, <2>1, <2>2
<1>2. ASSUME NEW p \in Provider, NEW s \in Submission, Busy(s)', Alone(s)',
             mode'[p] # "down"
      PROVE  active'[p][job'[s].item.op] # Null
  <2>1. CASE ~Exists(s)
    BY <1>2, <1>e, <2>1, NewJobEntry
  <2>2. CASE Exists(s)
    <3>1. Busy(s) /\ job'[s].item = job[s].item /\ job[s].item.op \in Operation
      BY <1>2, <1>k, <2>2, DriverGoesOn DEF Shape, JobInv, Item
    <3>2. Alone(s)
      BY <1>2, <1>k, <3>1 DEF Alone, Exists, Status
    <3>3. CASE mode[p] = "down"
      <4>1. job[s].item \in Unreported(job[s].item.op)
        BY <2>2, <3>1, BusyUnsaid, UnsaidAdoptable
      <4>2. active'[p][job[s].item.op] \in Unreported(job[s].item.op)
        BY <1>2, <3>1, <3>3, <4>1, ComesUp
      <4>3. Null \notin Unreported(job[s].item.op)
        BY NullAssumption DEF Unreported, Adoptable, Shape, JobInv
      <4> QED BY <3>1, <4>2, <4>3
    <3>4. CASE mode[p] # "down"
      <4>1. active[p][job[s].item.op] # Null
        BY <3>1, <3>2, <3>4 DEF TurnInv
      <4>2. ASSUME active'[p][job[s].item.op] = Null PROVE FALSE
        <5>1. PICK t \in Submission : TerminalSaid(t) /\ job[t].item.op = job[s].item.op
          BY <1>2, <3>1, <4>1, <4>2, EntryLeaves
        <5>2. t = s
          BY <3>2, <5>1 DEF Alone, TerminalSaid
        <5> QED BY <3>1, <5>1, <5>2, BusyUnsaid
      <4> QED BY <3>1, <4>2
    <3> QED BY <3>3, <3>4
  <2> QED BY <2>1, <2>2
<1> QED BY <1>1, <1>2 DEF TurnInv

\* Two attempts of an operation never execute their workloads at the same time, over
\* crashes and restarts, where a lone provider always learns what became of its
\* submissions: handle holds the second back while the first has an entry, an entry
\* is dropped once its job was reported, and a restart adopts what was not.
THEOREM AttemptsTakeTurns ==
  ASSUME TwoAttempts, ~AmbiguousSubmit, \A p, q \in Provider : p = q
  PROVE  Spec => []AttemptsDoNotOverlap
<1> DEFINE Inv == SaidInv /\ TurnInv
<1>1. Init => Inv
  BY DEF Init, SaidInv, TurnInv, NoWatch, NoJob, Busy, Live, Status, LiveStatus
<1>2. Shape /\ HandleInv /\ StopInv /\ Inv /\ [Next]_vars => Inv'
  BY SaidInductive, TurnInductive
<1>3. Inv => AttemptsDoNotOverlap
  BY DEF TurnInv, AttemptsDoNotOverlap, Busy, KeyOfJob, KeyOf
<1> HIDE DEF Inv
<1> QED BY <1>1, <1>2, <1>3, ShapeInvariant, HandleInvariant, StopInvariant, PTL DEF Spec

-----------------------------------------------------------------------------
(* Any number of attempts, where no entry is dropped on account of another *)
(* job of its operation.                                                   *)

\* The terminal-event lookup still reaches a terminal event of every job that has one.
TerminalsInReach ==
  \A s \in Submission : TerminalSaid(s) => TerminalPublished(job[s].item)

\* At most one job of an operation was not reported, and it has the entry.
OneUnreported ==
  /\ \A s, t \in Submission :
       /\ Exists(s) /\ Exists(t) /\ job[s].item.op = job[t].item.op
       /\ ~TerminalSaid(s) /\ ~TerminalSaid(t)
       => s = t
  /\ \A p \in Provider, s \in Submission :
       Exists(s) /\ ~TerminalSaid(s) /\ mode[p] # "down" =>
         /\ active[p][job[s].item.op] # Null
         /\ active[p][job[s].item.op].sub = s

\* The step of EntryLeavesReported.
LeavesReported ==
  \A p \in Provider, o \in Operation :
    active[p][o] # Null /\ active'[p][o] = Null /\ mode'[p] # "down" =>
      TerminalPublished(active[p][o])

LEMMA UnreportedInductive ==
  ASSUME Shape, HandleInv, SaidInv, OneUnreported, TerminalsInReach, [Next]_vars,
         [LeavesReported]_vars, ~AmbiguousSubmit, \A p, q \in Provider : p = q
  PROVE  OneUnreported'
<1>0. Shape' /\ Monotone /\ TypeOK
  BY StepLemma DEF Shape
<1>k. ASSUME NEW x \in Submission, Exists(x), ~TerminalSaid(x)'
      PROVE  /\ job'[x].item = job[x].item /\ ~TerminalSaid(x)
             /\ job[x].item.op \in Operation
  BY <1>0, <1>k, SaidStays DEF Monotone, JobsKeep, Shape, JobInv, Item
\* A new attempt finds every other one reported.
<1>n. ASSUME NEW s \in Submission, NEW t \in Submission, s # t, Exists(s)', ~Exists(s),
             Exists(t)', job'[s].item.op = job'[t].item.op, ~TerminalSaid(t)'
      PROVE  FALSE
  <2>1. PICK p \in Provider : Submit(p)
    BY <1>n, JobOrigin
  <2>2. /\ mode[p] # "down" /\ active[p][job'[s].item.op] = Null
        /\ job'[t] = job[t]
    BY <1>n, NewJobEntry
  <2>3. Exists(t)
    BY <1>n, <2>2 DEF Exists, Status
  <2> QED BY <1>k, <1>n, <2>2, <2>3 DEF OneUnreported
<1>1. ASSUME NEW s \in Submission, NEW t \in Submission, Exists(s)', Exists(t)',
             job'[s].item.op = job'[t].item.op, ~TerminalSaid(s)', ~TerminalSaid(t)'
      PROVE  s = t
  <2>1. CASE Exists(s) /\ Exists(t)
    BY <1>1, <1>k, <2>1 DEF OneUnreported
  <2> QED BY <1>1, <1>n, <2>1
<1>2. ASSUME NEW p \in Provider, NEW s \in Submission, Exists(s)', ~TerminalSaid(s)',
             mode'[p] # "down"
      PROVE  /\ active'[p][job'[s].item.op] # Null
             /\ active'[p][job'[s].item.op].sub = s
  <2>1. CASE ~Exists(s)
    BY <1>2, <2>1, NewJobEntry
  <2>2. CASE Exists(s)
    <3> DEFINE o == job[s].item.op
    <3>1. job'[s].item = job[s].item /\ ~TerminalSaid(s) /\ o \in Operation
      BY <1>2, <1>k, <2>2
    <3>2. CASE mode[p] = "down"
      <4>1. active'[p][o] \in Unreported(o)
        BY <1>2, <2>2, <3>1, <3>2, UnsaidAdoptable, ComesUp
      <4>2. PICK t \in Submission : Exists(t) /\ active'[p][o] = job[t].item
        BY <4>1 DEF Unreported, Adoptable
      <4>3. ~TerminalSaid(t) /\ job[t].item.op = o
        BY <4>1, <4>2 DEF TerminalsInReach, Unreported
      <4>4. t = s
        BY <2>2, <3>1, <4>2, <4>3 DEF OneUnreported
      <4>5. job[s].item \in Item /\ job[s].item.sub = s
        BY <2>2 DEF Shape, JobInv
      <4> QED BY <3>1, <4>2, <4>4, <4>5, NullAssumption
    <3>3. CASE mode[p] # "down"
      <4>1. active[p][o] # Null /\ active[p][o].sub = s
        BY <2>2, <3>1, <3>3 DEF OneUnreported
      <4>2. active'[p][o] # Null
        <5> SUFFICES ASSUME active'[p][o] = Null PROVE FALSE
          OBVIOUS
        <5>1. active' # active
          BY <4>1
        <5>2. TerminalPublished(active[p][o])
          BY <1>2, <3>1, <4>1, <5>1 DEF LeavesReported, vars
        <5>3. Tracked(active[p][o]) /\ active[p][o].sub \in Submission
          BY <3>1, <4>1 DEF Shape, ActiveInv
        <5> QED BY <3>1, <4>1, <5>2, <5>3, PublishedWasSaid
      <4>3. active'[p][o] = active[p][o]
        BY <1>0, <3>1, <3>3, <4>1, <4>2, EntryOrigin DEF Start, HandleInv, HandleOK,
           HasEntry
      <4> QED BY <3>1, <4>1, <4>3
    <3> QED BY <3>2, <3>3
  <2> QED BY <2>1, <2>2
<1> QED BY <1>1, <1>2 DEF OneUnreported

\* Any number of attempts take turns, and each is reported before the next one is
\* submitted, where no entry is dropped on account of another job's terminal event
\* and the terminal-event lookup still reaches what was said: the removal by
\* operation id and the bounded lookup are the only ways to an overlap.
THEOREM ReportedBeforeTheNext ==
  ASSUME ~AmbiguousSubmit, \A p, q \in Provider : p = q
  PROVE  Spec /\ EntryLeavesReported /\ []TerminalsInReach
           => [](OneUnreported /\ AttemptsDoNotOverlap)
<1> DEFINE Inv == SaidInv /\ OneUnreported
<1>1. Init => Inv
  BY DEF Init, SaidInv, OneUnreported, NoWatch, NoJob, Exists, Status
<1>2. /\ Shape /\ HandleInv /\ StopInv /\ Inv /\ TerminalsInReach
      /\ [Next]_vars /\ [LeavesReported]_vars
      => Inv'
  BY SaidInductive, UnreportedInductive
<1>3. Shape /\ Inv => OneUnreported /\ AttemptsDoNotOverlap
  <2> SUFFICES ASSUME Shape, Inv, NEW s \in Submission, NEW t \in Submission,
                      s # t, Live(s), Live(t), KeyOfJob(s) = KeyOfJob(t),
                      job[s].driver = "executing", job[t].driver = "executing"
               PROVE  FALSE
    BY DEF AttemptsDoNotOverlap
  <2>1. /\ Exists(s) /\ ~TerminalSaid(s)
        /\ Exists(t) /\ ~TerminalSaid(t)
    BY BusyUnsaid DEF Busy
  <2> QED BY <2>1 DEF OneUnreported, KeyOfJob, KeyOf
<1>4. EntryLeavesReported => [][LeavesReported]_vars
  BY PTL DEF EntryLeavesReported, LeavesReported
<1> HIDE DEF Inv
<1> QED BY <1>1, <1>2, <1>3, <1>4, ShapeInvariant, HandleInvariant, StopInvariant,
           PTL DEF Spec

-----------------------------------------------------------------------------
(* The client's view: which requests reach Ray.                            *)

\* Past its checks a request has none of the faults they look for.
Checked(p) ==
  /\ pc[p] \in {"resume", "admit"} => Req(p).kind \in {"valid", "oversize"}
  /\ pc[p] = "submit" => Req(p).kind = "valid"
KindInv == \A p \in Provider : Checked(p)

LEMMA KindInductive ==
  ASSUME Shape, KindInv, [Next]_vars
  PROVE  KindInv'
<1>0. TypeOK
  BY DEF Shape
<1> SUFFICES ASSUME NEW p \in Provider PROVE Checked(p)'
  BY DEF KindInv
<1>1. Checked(p)
  BY DEF KindInv
<1>2. ASSUME UNCHANGED <<pc[p], msg[p]>> PROVE Checked(p)'
  BY <1>1, <1>2 DEF Checked, Req
<1>3. ASSUME pc'[p] \notin {"resume", "admit", "submit"} PROVE Checked(p)'
  BY <1>3 DEF Checked
<1>4. CASE HandleStep(p)
  <2>1. pc[p] # "idle"
    BY <1>4 DEF HandleStep, CheckCancel, CheckCancelRaises, PublishCancelled, Reject,
         Resume, Confirm, Reaccept, CheckCancelAgain, Submit, Accept, Ack, At
  <2>2. Req(p).kind \in Kind
    BY <2>1, RequestLemma DEF RequestType
  <2>3. ASSUME NEW step, Goto(p, step) PROVE pc'[p] = step /\ Req(p)' = Req(p)
    BY <1>0, <2>3 DEF Goto, Req, TypeOK
  <2>4. ASSUME Done(p) PROVE Checked(p)'
    BY <1>0, <1>3, <2>4 DEF Done, TypeOK
  <2>5. ASSUME NEW step \in {"cancelled", "reject", "confirm", "reaccept", "accept", "ack"},
               Goto(p, step)
        PROVE  Checked(p)'
    BY <1>3, <2>3, <2>5
  <2>a. CASE CheckCancel(p)
    <3>1. CASE Goto(p, "resume")
      <4>1. Req(p).kind \notin {"anonymous", "invalid"}
        BY <1>0, <2>a, <3>1 DEF CheckCancel, Goto, TypeOK
      <4> QED BY <2>2, <2>3, <3>1, <4>1 DEF Checked, Kind
    <3> QED BY <2>a, <2>5, <3>1 DEF CheckCancel
  <2>b. CASE Resume(p)
    <3>1. pc[p] = "resume"
      BY <2>b DEF Resume, At
    <3>2. CASE Goto(p, "admit")
      BY <1>1, <2>3, <3>1, <3>2 DEF Checked
    <3> QED BY <2>b, <2>4, <2>5, <3>2 DEF Resume
  <2>c. CASE CheckCancelAgain(p)
    <3>1. pc[p] = "admit"
      BY <2>c DEF CheckCancelAgain, At
    <3>2. CASE Goto(p, "submit")
      <4>1. Req(p).kind # "oversize"
        BY <1>0, <2>c, <3>2 DEF CheckCancelAgain, Goto, TypeOK
      <4> QED BY <1>1, <2>3, <3>1, <3>2, <4>1 DEF Checked
    <3> QED BY <2>c, <2>5, <3>2 DEF CheckCancelAgain
  <2>d. CASE CheckCancelRaises(p) \/ PublishCancelled(p) \/ Reject(p) \/ Confirm(p)
             \/ Reaccept(p) \/ Submit(p) \/ Accept(p) \/ Ack(p)
    BY <2>4, <2>5, <2>d DEF CheckCancelRaises, PublishCancelled, Reject, Confirm,
       Reaccept, Submit, Accept, Ack, Announce
  <2> QED BY <1>4, <2>a, <2>b, <2>c, <2>d DEF HandleStep
<1>5. CASE MainStep(p) /\ ~HandleStep(p)
  <2>1. pc'[p] \in {"idle", "check"} \/ UNCHANGED <<pc, msg>>
    BY <1>0, <1>5 DEF MainStep, Start, Crash, Close, Exit, Forget, Claim, PollClaimed,
         PollNew, TypeOK
  <2> QED BY <1>2, <1>3, <2>1
<1>6. CASE WatchStep(p)
  <2>1. UNCHANGED <<pc, msg>>
    BY <1>6 DEF WatchStep, BeginPass, Observe, GetStatus, LookupRaises, Decide, Report,
         RemoveEntry, StopCancelled, StopTimedOut, StopRaises, Untouched
  <2> QED BY <1>2, <2>1
<1>7. CASE \E q \in Provider : q # p /\ (MainStep(q) \/ WatchStep(q))
  BY <1>0, <1>2, <1>7, OthersLemma
<1>8. CASE ~ \E q \in Provider : MainStep(q) \/ WatchStep(q)
  BY <1>2, <1>8, OutsideLemma
<1> QED BY <1>4, <1>5, <1>6, <1>7, <1>8

-----------------------------------------------------------------------------
(* The client's view: time limits.                                         *)

\* Somebody asked for a time limit on the operation.
Limited(o) == \E d \in Delivery : Request[d].op = o /\ Request[d].timeout # Null
Allowed(i) == i.deadline # Null => Limited(i.op)

\* Deadlines, remembered timeouts and what is about to be said of one come from a
\* request with a time limit.
LimitInv ==
  /\ \A s \in Submission : Exists(s) => Allowed(job[s].item)
  /\ \A p \in Provider, o \in Operation : active[p][o] # Null => Allowed(active[p][o])
  /\ \A p \in Provider :
       /\ \A i \in watch[p].todo : Allowed(i)
       /\ watch[p].pc # "idle" => Allowed(watch[p].item)
       /\ \A o \in timeoutRequested[p] : Limited(o)
       /\ watch[p].pc = "timeout" => Limited(watch[p].item.op)
       /\ watch[p].pc = "report" /\ watch[p].event.code = "EXECUTION_TIMEOUT" =>
            Limited(watch[p].item.op)

LEMMA LimitInductive ==
  ASSUME Shape, LimitInv, [Next]_vars
  PROVE  LimitInv'
<1>0. Monotone
  BY StepLemma
<1>1. ASSUME NEW p \in Provider, pc[p] = "submit" PROVE Allowed(NewItem(p))
  <2>1. NewItem(p).op = Req(p).op /\ \E d \in Delivery : Req(p) = Request[d]
    BY <1>1, NewItemLemma, RequestLemma
  <2>2. NewItem(p).deadline # Null => Req(p).timeout # Null
    BY DEF NewItem
  <2> QED BY <2>1, <2>2 DEF Allowed, Limited
<1>2. ASSUME NEW s \in Submission, Exists(s)' PROVE Allowed(job'[s].item)
  <2>1. CASE Exists(s)
    BY <1>0, <2>1 DEF Monotone, JobsKeep, LimitInv
  <2>2. CASE ~Exists(s)
    BY <1>1, <1>2, <2>2, JobOrigin
  <2> QED BY <2>1, <2>2
<1>3. ASSUME NEW p \in Provider, NEW o \in Operation, active'[p][o] # Null
      PROVE  Allowed(active'[p][o])
  <2>1. CASE active'[p][o] = active[p][o]
    BY <1>3, <2>1 DEF LimitInv
  <2>2. CASE active'[p][o] \in Unreported(o)
    BY <2>2 DEF Unreported, Adoptable, LimitInv
  <2>3. CASE pc[p] = "submit" /\ active'[p][o] = NewItem(p)
    BY <1>1, <2>3
  <2> QED BY <1>3, <2>1, <2>2, <2>3, EntryOrigin
<1>4. ASSUME NEW p \in Provider
      PROVE  /\ \A i \in watch'[p].todo : Allowed(i)
             /\ watch'[p].pc # "idle" => Allowed(watch'[p].item)
             /\ \A o \in timeoutRequested'[p] : Limited(o)
             /\ watch'[p].pc = "timeout" => Limited(watch'[p].item.op)
             /\ watch'[p].pc = "report" /\ watch'[p].event.code = "EXECUTION_TIMEOUT" =>
                  Limited(watch'[p].item.op)
  <2>1. /\ \A i \in watch[p].todo : Allowed(i)
        /\ watch[p].pc # "idle" => Allowed(watch[p].item)
        /\ \A o \in timeoutRequested[p] : Limited(o)
        /\ watch[p].pc = "timeout" => Limited(watch[p].item.op)
        /\ watch[p].pc = "report" /\ watch[p].event.code = "EXECUTION_TIMEOUT" =>
             Limited(watch[p].item.op)
    BY DEF LimitInv
  <2>2. \A i \in {active[p][o] : o \in Operation} \ {Null} : Allowed(i)
    BY DEF LimitInv
  <2>3. \A i \in watch'[p].todo : Allowed(i)
    <3>1. watch'[p].todo \subseteq
            watch[p].todo \cup ({active[p][o] : o \in Operation} \ {Null})
      BY WatchCases, WatchMoves
    <3> QED BY <2>1, <2>2, <3>1
  <2>4. watch'[p].pc # "idle" => Allowed(watch'[p].item)
    <3> SUFFICES ASSUME watch'[p].pc # "idle" PROVE Allowed(watch'[p].item)
      OBVIOUS
    <3>1. watch'[p].item \in watch[p].todo
          \/ (watch'[p].item = watch[p].item /\ watch[p].pc # "idle")
      BY WatchCases, WatchMoves DEF Observes, Queries, Decides, Tells
    <3> QED BY <2>1, <3>1
  <2>5. \A o \in timeoutRequested'[p] : Limited(o)
    BY <2>1, TimeoutOrigin
  <2>6. watch'[p].pc = "timeout" => Limited(watch'[p].item.op)
    <3>1. CASE watch'[p].pc = "timeout" /\ Decides(p)
      BY <2>1, <3>1 DEF Decides, TimedOut, Watched, Allowed
    <3>2. watch'[p].pc = "timeout" => watch'[p] = watch[p] \/ Decides(p)
      BY WatchCases, WatchMoves DEF Observes, Queries, Tells
    <3> QED BY <2>1, <3>1, <3>2
  <2>7. watch'[p].pc = "report" /\ watch'[p].event.code = "EXECUTION_TIMEOUT" =>
          Limited(watch'[p].item.op)
    <3>1. CASE /\ watch'[p].pc = "report" /\ Decides(p)
               /\ watch'[p].event.code = "EXECUTION_TIMEOUT"
      <4>1. /\ watch[p].pc = "markers" /\ watch'[p].item = watch[p].item
            /\ watch[p].status \in EndedStatus /\ watch'[p].event = TerminalReport(p)
        BY <3>1 DEF Decides
      <4>2. TimeoutStop(p)
        BY <3>1, <4>1 DEF TerminalReport, Fallback, CancelReport
      <4> QED BY <2>1, <4>1, <4>2 DEF TimeoutStop, TimedOut, Watched, Allowed
    <3>2. watch'[p].pc = "report" => watch'[p] = watch[p] \/ Decides(p)
      BY WatchCases, WatchMoves DEF Observes, Queries, Tells
    <3> QED BY <2>1, <3>1, <3>2
  <2> QED BY <2>3, <2>4, <2>5, <2>6, <2>7
<1>5. LimitInv' <=>
        /\ \A s \in Submission : Exists(s)' => Allowed(job'[s].item)
        /\ \A p \in Provider, o \in Operation :
             active'[p][o] # Null => Allowed(active'[p][o])
        /\ \A p \in Provider :
             /\ \A i \in watch'[p].todo : Allowed(i)
             /\ watch'[p].pc # "idle" => Allowed(watch'[p].item)
             /\ \A o \in timeoutRequested'[p] : Limited(o)
             /\ watch'[p].pc = "timeout" => Limited(watch'[p].item.op)
             /\ watch'[p].pc = "report" /\ watch'[p].event.code = "EXECUTION_TIMEOUT" =>
                  Limited(watch'[p].item.op)
  BY DEF LimitInv, Allowed, Limited
<1> QED BY <1>2, <1>3, <1>4, <1>5

-----------------------------------------------------------------------------
(* The client's view: what a watcher is about to say.                      *)

\* A ruling of check_once on an entry, and its ground.
Ruling(e, i) ==
  /\ e.sub = i.sub /\ Ended(i.sub)
  /\ \/ /\ e = DriverEvent(i.sub, "FAILED", Client!EndCode[Status(i.sub)])
     \/ /\ e = DriverEvent(i.sub, "FAILED", "EXECUTION_TIMEOUT")
        /\ Limited(i.op)
     \/ /\ e = DriverEvent(i.sub, "CANCELLED", "NONE")
        /\ Status(i.sub) = "STOPPED" /\ CancelAsked(i.op)
RulingInv ==
  \A p \in Provider : watch[p].pc = "report" => Ruling(watch[p].event, watch[p].item)

LEMMA RulingLasts ==
  ASSUME Monotone, NEW i \in Item, NEW e, Ruling(e, i)
  PROVE  Ruling(e, i)'
<1>1. i.sub \in Submission
  BY DEF Item
<1>2. Exists(i.sub) /\ Ended(i.sub)
  BY DEF Ruling, Ended, Exists, EndedStatus
<1>3. Status(i.sub)' = Status(i.sub)
  BY <1>1, <1>2 DEF Monotone, JobsKeep, Status
<1>4. CancelAsked(i.op) => CancelAsked(i.op)'
  BY DEF Monotone, CancelAsked
<1>5. Ended(i.sub)'
  BY <1>2, <1>3 DEF Ended
<1> QED BY <1>3, <1>4, <1>5 DEF Ruling, DriverEvent, Client!EndCode, Limited

LEMMA RulingInductive ==
  ASSUME Shape, StopInv, LimitInv, RulingInv, [Next]_vars
  PROVE  RulingInv'
<1>0. Monotone /\ Shape'
  BY StepLemma
<1> SUFFICES ASSUME NEW p \in Provider, watch'[p].pc = "report"
             PROVE  Ruling(watch[p].event, watch[p].item)'
  BY DEF RulingInv
<1>1. PICK i \in Item : i = watch'[p].item
  BY <1>0 DEF Shape, WatchInv
<1>2. PICK e : e = watch'[p].event
  OBVIOUS
<1>3. Ruling(e, i)
  <2>1. CASE watch'[p] = watch[p]
    BY <1>1, <1>2, <2>1 DEF RulingInv
  <2>2. CASE Decides(p)
    <3>1. /\ watch[p].pc = "markers" /\ i = Watched(p)
          /\ watch[p].status \in EndedStatus /\ e = TerminalReport(p)
      BY <1>1, <1>2, <2>2 DEF Decides, Watched
    <3>2. Status(i.sub) = watch[p].status /\ Ended(i.sub)
      BY <3>1 DEF StopInv, StopOK, Watched, Ended
    <3>3. CASE TimeoutStop(p)
      <4>1. Limited(i.op)
        BY <3>1, <3>3 DEF TimeoutStop, TimedOut, Watched, LimitInv, Allowed
      <4> QED BY <3>1, <3>2, <3>3, <4>1 DEF TerminalReport, Fallback, DriverEvent, Ruling
    <3>4. CASE ~TimeoutStop(p)
      <4>1. CASE /\ watch[p].status = "STOPPED"
                 /\ Cancelled(p) \/ Watched(p).op \in stopRequested[p]
        <5>1. CancelAsked(i.op)
          BY <3>1, <4>1 DEF Cancelled, CancelAsked, StopInv, StopOK, Watched, KeyOf, Item
        <5>2. e = CancelReport(p)
          BY <3>1, <3>4, <4>1 DEF TerminalReport
        <5> QED BY <3>1, <3>2, <4>1, <5>1, <5>2 DEF CancelReport, DriverEvent, Ruling
      <4>2. CASE ~(/\ watch[p].status = "STOPPED"
                   /\ Cancelled(p) \/ Watched(p).op \in stopRequested[p])
        <5>1. e = Fallback(p, Client!EndCode[watch[p].status])
          BY <3>1, <3>4, <4>2 DEF TerminalReport, EndedStatus, Client!EndCode
        <5> QED BY <3>1, <3>2, <5>1 DEF Fallback, DriverEvent, Ruling
      <4> QED BY <4>1, <4>2
    <3> QED BY <3>3, <3>4
  <2> QED BY <2>1, <2>2, WatchCases, WatchMoves DEF Observes, Queries, Tells
<1>4. Ruling(e, i)'
  BY <1>0, <1>3, RulingLasts
<1> QED BY <1>1, <1>2, <1>4 DEF Ruling, Ended, Status, DriverEvent, Limited, CancelAsked,
           Client!EndCode

-----------------------------------------------------------------------------
(* The client's view: what a driver has said.                              *)

FailedEvent(s) == DriverEvent(s, "FAILED", "EXECUTION_FAILED")
CompletedEvent(s) == DriverEvent(s, "COMPLETED", "NONE")

\* The verdicts on a live job are those of its driver, which has given none while
\* the workload runs.
TalkOK(s) ==
  LET V == Client!Verdicts(KeyOfJob(s), s) IN
  /\ job[s].driver = "executing" => V = {}
  /\ job[s].driver = "completed" => V = {CompletedEvent(s)}
  /\ job[s].driver = "unpublished" => V \subseteq {CompletedEvent(s)}
  /\ job[s].driver = "failing" => V \subseteq {FailedEvent(s)}
TalkInv == \A s \in Submission : Live(s) => TalkOK(s)

\* An XADD adds its event to one stream, if it takes effect.
LEMMA ToldLemma ==
  ASSUME TypeOK, NEW j \in Key, NEW e \in Event, Writes(j, e)
  PROVE  /\ \A k \in Key : /\ Client!Told(k) \subseteq Client!Told(k)'
                           /\ Client!Told(k)' \subseteq Client!Told(k) \cup {e}
                           /\ k # j => Client!Told(k)' = Client!Told(k)
         /\ Publish(j, e) => e \in Client!Told(j)'
<1>1. LogGrows /\ \A k \in Key : \A i \in DOMAIN log'[k] :
                    i \in DOMAIN log[k] \/ (k = j /\ log'[k][i] = e)
  BY PublishLemma DEF Writes
<1>2. ASSUME NEW k \in Key
      PROVE  /\ Client!Told(k) \subseteq Client!Told(k)'
             /\ Client!Told(k)' \subseteq Client!Told(k) \cup {e}
             /\ k # j => Client!Told(k)' = Client!Told(k)
  BY <1>1 DEF LogGrows, Client!Told
<1>3. Publish(j, e) => e \in Client!Told(j)'
  BY PublishedLemma DEF Has, Client!Told
<1> QED BY <1>2, <1>3

\* What was told stays told.
LEMMA ToldStays ==
  ASSUME Monotone, NEW k \in Key
  PROVE  Client!Told(k) \subseteq Client!Told(k)'
BY DEF Monotone, LogGrows, Client!Told

\* A job and the stream of its operation.
LEMMA JobStream ==
  ASSUME Shape, NEW s \in Submission, Exists(s)
  PROVE  /\ KeyOfJob(s) \in Key /\ KeyOfJob(s) = DriverKey(s)
         /\ Client!Belongs(s, KeyOfJob(s)) /\ KeyOfJob(s)[2] = job[s].item.op
<1>1. PICK d \in Delivery : Request[d].sub = s /\ KeyOf(Request[d]) = KeyOf(job[s].item)
  BY DEF Shape, JobInv
<1>2. KeyOfJob(s) \in Key /\ KeyOfJob(s) = DriverKey(s)
  BY DEF Shape, JobInv, Item, KeyOfJob, DriverKey, KeyOf, Key
<1> QED BY <1>1, <1>2 DEF Client!Belongs, Client!AskedFor, Client!StreamOf, KeyOfJob, KeyOf

\* Only its own driver adds a verdict on a live job, and only its own driver moves.
LEMMA OthersAreSilent ==
  ASSUME Shape, SaidInv, [Next]_vars, NEW s \in Submission, Exists(s), Live(s)',
         ~RayStep(s), NEW k, k = KeyOfJob(s)
  PROVE  /\ job'[s].driver = job[s].driver
         /\ Client!Verdicts(k, s)' = Client!Verdicts(k, s)
<1>0. Shape' /\ Monotone /\ TypeOK /\ k \in Key /\ job \in [Submission -> Job]
  BY StepLemma, JobStream DEF Shape, TypeOK
<1>1. ~Ended(s)
  BY <1>0 DEF Monotone, JobsKeep, Live, Ended, Status, LiveStatus, EndedStatus
<1>2. job'[s].driver = job[s].driver
  <2>1. CASE \E t \in Submission : RayStep(t)
    <3>1. PICK t \in Submission : RayStep(t)
      BY <2>1
    <3>2. \/ UNCHANGED job
          \/ \E x : SetStatus(t, x)
          \/ \E x : SetDriver(t, x)
      BY <3>1 DEF RayStep, JobStarts, JobLost, StopTakesEffect, ExternalStop,
           DriverProgress, DriverCompletes, DriverFails, DriverExcept, DriverExit,
           DriverReportsFailure
    <3>3. t # s
      BY <3>1
    <3> QED BY <1>0, <3>2, <3>3 DEF SetStatus, SetDriver
  <2>2. CASE \E p \in Provider : WatchStep(p)
    <3>1. UNCHANGED job \/ \E t, why : job' = [job EXCEPT ![t].stopFor = why]
      BY <2>2 DEF WatchStep, BeginPass, Observe, GetStatus, LookupRaises, Decide,
           Report, RemoveEntry, StopCancelled, StopTimedOut, StopRaises, RequestStop
    <3> QED BY <1>0, <3>1 DEF Job
  <2>3. CASE \E p \in Provider : Submit(p)
    <3>1. UNCHANGED job \/ \E p \in Provider : CreateJob(NewItem(p))
      BY <2>3 DEF Submit
    <3> QED BY <1>0, <3>1 DEF CreateJob
  <2>4. CASE \/ \E p \in Provider : MainStep(p) /\ ~Submit(p)
             \/ (\E c \in Cancellable : ClientCancel(c)) \/ Tick \/ UNCHANGED vars
    BY <2>4 DEF MainStep, Start, Crash, Close, Exit, Forget, Claim, PollClaimed,
       PollNew, HandleStep, CheckCancel, CheckCancelRaises, PublishCancelled, Reject,
       Resume, Confirm, Reaccept, CheckCancelAgain, Accept, Ack, Announce,
       ClientCancel, Tick, vars
  <2> QED BY <2>1, <2>2, <2>3, <2>4 DEF Next
<1>3. ASSUME NEW e \in Client!Verdicts(k, s)' PROVE e \in Client!Verdicts(k, s)
  <2>1. /\ e \in Client!Told(k)' /\ e.sub = s
        /\ e.type \in {"COMPLETED", "FAILED", "CANCELLED"}
    BY <1>3 DEF Client!Verdicts
  <2>2. PICK i \in DOMAIN log'[k] : e = log'[k][i]
    BY <2>1 DEF Client!Told
  <2>3. CASE i \in DOMAIN log[k]
    <3>1. log'[k][i] = log[k][i]
      BY <1>0, <2>3 DEF Monotone, LogGrows
    <3> QED BY <2>1, <2>2, <2>3, <3>1 DEF Client!Verdicts, Client!Told
  <2>4. CASE i \notin DOMAIN log[k]
    <3>1. ~ByHandle(e)
      BY <2>1, NullAssumption DEF ByHandle
    <3>2. ASSUME NEW t \in Submission, RayStep(t) PROVE FALSE
      <4>1. log' # log
        BY <2>4
      <4>2. PICK f \in Event : Writes(KeyOfJob(t), f) /\ f.sub = t
        BY <3>2, <4>1, DriverWrites
      <4>3. KeyOfJob(t) \in Key
        BY <3>2, <4>1, DriverWrites
      <4>4. e = f
        BY <1>0, <2>2, <2>4, <4>2, <4>3, OneEvent
      <4> QED BY <2>1, <3>2, <4>2, <4>4
    <3>3. ASSUME NEW p \in Provider, watch[p].pc = "report", e = watch[p].event PROVE FALSE
      BY <1>1, <2>1, <3>3 DEF SaidInv
    <3>4. CASE \E p \in Provider : HandleStep(p)
      <4>1. PICK p \in Provider : HandleStep(p)
        BY <3>4
      <4>2. log' # log
        BY <2>4
      <4>3. PICK j \in Key, f \in Event : Writes(j, f) /\ ByHandle(f)
        BY <4>1, <4>2, HandleWrites
      <4>4. e = f
        BY <1>0, <2>2, <2>4, <4>3, OneEvent
      <4> QED BY <3>1, <4>3, <4>4
    <3>5. CASE \E p \in Provider : WatchStep(p)
      <4>1. PICK p \in Provider : WatchStep(p)
        BY <3>5
      <4>2. Report(p)
        BY <2>4, <4>1 DEF WatchStep, BeginPass, Observe, GetStatus, LookupRaises, Decide,
           RemoveEntry, StopCancelled, StopTimedOut, StopRaises
      <4>3. watch[p].pc = "report" /\ Writes(KeyOf(Watched(p)), watch[p].event)
        BY <4>2 DEF Report, Watching, Writes
      <4>4. KeyOf(Watched(p)) \in Key /\ watch[p].event \in Event
        BY <4>3, WatchedLemma DEF Shape, WatchInv
      <4>5. e = watch[p].event
        BY <1>0, <2>2, <2>4, <4>3, <4>4, OneEvent
      <4> QED BY <3>3, <4>3, <4>5
    <3>6. CASE \/ \E p \in Provider : MainStep(p) /\ ~HandleStep(p)
               \/ (\E c \in Cancellable : ClientCancel(c)) \/ Tick \/ UNCHANGED vars
      <4>1. UNCHANGED log
        BY <3>6 DEF MainStep, Start, Crash, Close, Exit, Forget, Claim, PollClaimed,
             PollNew, ClientCancel, Tick, vars
      <4> QED BY <2>4, <4>1
    <3> QED BY <3>2, <3>4, <3>5, <3>6 DEF Next
  <2> QED BY <2>3, <2>4
<1>4. Client!Verdicts(k, s) \subseteq Client!Verdicts(k, s)'
  BY <1>0, ToldStays DEF Client!Verdicts
<1> QED BY <1>2, <1>3, <1>4

LEMMA TalkInductive ==
  ASSUME Shape, StopInv, SaidInv, TalkInv, [Next]_vars
  PROVE  TalkInv'
<1>0. Shape' /\ Monotone /\ TypeOK /\ TypeOK' /\ SaidInv'
  BY StepLemma, SaidInductive DEF Shape
<1> SUFFICES ASSUME NEW s \in Submission, Live(s)' PROVE TalkOK(s)'
  BY DEF TalkInv
<1>1. CASE job'[s].driver = "executing"
  <2>1. Exists(s)' /\ Busy(s)'
    BY <1>1 DEF Busy, Live, Exists, Status, LiveStatus
  <2>2. PICK k \in Key : k = KeyOfJob(s)'
    BY <1>0, <2>1 DEF Shape, JobInv, Item, KeyOfJob, KeyOf, Key
  <2>3. Client!Verdicts(k, s)' = {}
    BY <1>0, <2>1, <2>2, NullAssumption
       DEF SaidInv, Client!Verdicts, Client!Told, TerminalType, Exists, Busy, Live, Status
  <2> QED BY <1>1, <2>2, <2>3 DEF TalkOK, Client!Verdicts, Client!Told
<1>2. CASE job'[s].driver # "executing"
  <2>1. Exists(s)
    <3> SUFFICES ASSUME ~Exists(s) PROVE FALSE
      OBVIOUS
    <3>1. PICK p \in Provider : Submit(p) /\ pc[p] = "submit"
      BY JobOrigin DEF Live, Exists, Status, LiveStatus
    <3>2. CreateJob(NewItem(p)) \/ UNCHANGED job
      BY <3>1 DEF Submit
    <3>3. job \in [Submission -> Job] /\ NewItem(p).sub \in Submission
      BY <1>0, <3>1, NewItemLemma, RequestLemma DEF TypeOK, RequestType
    <3>4. job'[s] = [NoJob EXCEPT !.status = "PENDING", !.item = NewItem(p)]
          \/ job'[s] = job[s]
      BY <3>2, <3>3 DEF CreateJob
    <3> QED BY <1>2, <3>4 DEF NoJob, Live, Exists, Status, LiveStatus
  <2>2. Live(s) /\ KeyOfJob(s)' = KeyOfJob(s) /\ job \in [Submission -> Job]
    BY <1>0, <2>1 DEF Monotone, JobsKeep, Live, Ended, Exists, Status, LiveStatus,
       EndedStatus, KeyOfJob, KeyOf, TypeOK, Job
  <2>3. PICK k \in Key : k = KeyOfJob(s)
    BY <2>1, JobStream
  <2>4. TalkOK(s)
    BY <2>2 DEF TalkInv
  <2>5. ASSUME job'[s].driver = job[s].driver,
               Client!Verdicts(k, s)' = Client!Verdicts(k, s)
        PROVE  TalkOK(s)'
    BY <2>2, <2>3, <2>4, <2>5 DEF TalkOK, Client!Verdicts, Client!Told
  <2>6. CASE ~RayStep(s)
    BY <2>1, <2>3, <2>5, <2>6, OthersAreSilent
  <2>a. CASE JobStarts(s)
    <3>1. UNCHANGED log /\ job'[s].driver = job[s].driver
      BY <2>2, <2>a DEF JobStarts, SetStatus, Job
    <3> QED BY <2>5, <3>1 DEF Client!Verdicts, Client!Told
  <2>b. CASE JobLost(s) \/ StopTakesEffect(s) \/ ExternalStop(s) \/ DriverExit(s)
    <3>1. \E x \in EndedStatus : SetStatus(s, x)
      BY <2>b DEF JobLost, StopTakesEffect, ExternalStop, DriverExit, EndedStatus
    <3> QED BY <2>2, <3>1 DEF SetStatus, Live, Status, LiveStatus, EndedStatus, Job
  <2>c. CASE DriverProgress(s)
    BY <1>2, <2>c DEF DriverProgress, Executing
  <2>d. CASE DriverCompletes(s)
    <3>1. job[s].driver = "executing" /\ Client!Verdicts(k, s) = {}
      BY <2>3, <2>4, <2>d DEF DriverCompletes, Executing, TalkOK
    <3>2. CompletedEvent(s) \in Event
      BY DriverEventType DEF CompletedEvent, TerminalType, Code
    <3>3. k = DriverKey(s)
      BY <2>1, <2>3, JobStream
    <3>4. CASE UNCHANGED log /\ SetDriver(s, "unpublished")
      <4>1. job'[s].driver = "unpublished" /\ Client!Verdicts(k, s)' = {}
        BY <2>2, <3>1, <3>4 DEF SetDriver, Job, Client!Verdicts, Client!Told
      <4> QED BY <2>2, <2>3, <4>1 DEF TalkOK, Client!Verdicts, Client!Told
    <3>5. CASE Writes(k, CompletedEvent(s))
      <4>1. Client!Told(k)' \subseteq Client!Told(k) \cup {CompletedEvent(s)}
        BY <1>0, <3>2, <3>5, ToldLemma
      <4>2. Client!Verdicts(k, s)' \subseteq {CompletedEvent(s)}
        BY <3>1, <4>1 DEF Client!Verdicts
      <4>3. CASE SetDriver(s, "unpublished")
        <5>1. job'[s].driver = "unpublished"
          BY <2>2, <4>3 DEF SetDriver, Job
        <5> QED BY <2>2, <2>3, <4>2, <5>1 DEF TalkOK, Client!Verdicts, Client!Told
      <4>4. CASE Publish(k, CompletedEvent(s)) /\ SetDriver(s, "completed")
        <5>1. job'[s].driver = "completed"
          BY <2>2, <4>4 DEF SetDriver, Job
        <5>2. CompletedEvent(s) \in Client!Told(k)'
          BY <1>0, <3>2, <4>4, <3>5, ToldLemma
        <5>3. CompletedEvent(s) \in Client!Verdicts(k, s)'
          BY <5>2 DEF Client!Verdicts, CompletedEvent, DriverEvent
        <5> QED BY <2>2, <2>3, <4>2, <5>1, <5>3 DEF TalkOK, Client!Verdicts, Client!Told
      <4> QED BY <2>d, <3>1, <3>3, <4>3, <4>4 DEF DriverCompletes, CompletedEvent
    <3> QED BY <2>d, <3>3, <3>4, <3>5 DEF DriverCompletes, Writes, CompletedEvent
  <2>e. CASE DriverFails(s)
    <3>1. job[s].driver = "executing" /\ Client!Verdicts(k, s) = {}
      BY <2>3, <2>4, <2>e DEF DriverFails, Executing, TalkOK
    <3>2. FailedEvent(s) \in Event
      BY DriverEventType DEF FailedEvent, TerminalType, Code
    <3>3. CASE SetDriver(s, "failed")
      <4>1. job'[s].driver = "failed"
        BY <2>2, <3>3 DEF SetDriver, Job
      <4> QED BY <4>1 DEF TalkOK
    <3>4. CASE SetDriver(s, "failing") /\ PublishRaises(DriverKey(s), FailedEvent(s))
      <4>1. job'[s].driver = "failing"
        BY <2>2, <3>4 DEF SetDriver, Job
      <4>2. Writes(k, FailedEvent(s))
        BY <2>1, <2>3, <3>4, JobStream DEF Writes
      <4>3. Client!Told(k)' \subseteq Client!Told(k) \cup {FailedEvent(s)}
        BY <1>0, <3>2, <4>2, ToldLemma
      <4>4. Client!Verdicts(k, s)' \subseteq {FailedEvent(s)}
        BY <3>1, <4>3 DEF Client!Verdicts
      <4> QED BY <2>2, <2>3, <4>1, <4>4 DEF TalkOK, Client!Verdicts, Client!Told
    <3> QED BY <2>e, <3>3, <3>4 DEF DriverFails, DriverReportsFailure, FailedEvent
  <2>f. CASE DriverExcept(s)
    <3>1. SetDriver(s, "failed")
      BY <2>f DEF DriverExcept, DriverReportsFailure
    <3>2. job'[s].driver = "failed"
      BY <2>2, <3>1 DEF SetDriver, Job
    <3> QED BY <3>2 DEF TalkOK
  <2> QED BY <2>6, <2>a, <2>b, <2>c, <2>d, <2>e, <2>f DEF RayStep
<1> QED BY <1>1, <1>2

-----------------------------------------------------------------------------
(* The client's view: every step is a step of ClientView, or invisible.    *)

\* What the client's view takes the acknowledged entries and the jobs for.
Acked == {d \in Delivery : queue[d] = "acked"}
Work == [s \in Submission |-> IF Live(s) THEN "LIVE" ELSE Status(s)]

LEMMA WorkFacts ==
  ASSUME TypeOK, NEW s \in Submission
  PROVE  /\ Work[s] = "LIVE" <=> Live(s)
         /\ Work[s] = "ABSENT" <=> ~Exists(s)
         /\ Ended(s) => Work[s] = Status(s) /\ Work[s] \in Client!Ending
BY DEF TypeOK, Job, Work, Live, Exists, Ended, Status, LiveStatus, EndedStatus, Client!Ending

LEMMA Unseen ==
  ASSUME UNCHANGED <<queue, marker, log, job>>
  PROVE  UNCHANGED Client!vars
BY DEF Client!vars, Live, Status

\* An XADD that leaves everything else alone.
LEMMA Saying ==
  ASSUME TypeOK, NEW k \in Key, NEW e \in Event, Writes(k, e),
         UNCHANGED <<queue, marker>>, Work' = Work
  PROVE  Client!Say(k, e) \/ UNCHANGED Client!vars
<1>1. UNCHANGED <<Acked, marker, Work>>
  BY DEF Acked
<1>2. log' = [log EXCEPT ![k] = Append(@, e)] \/ UNCHANGED log
  BY DEF Writes, Publish, PublishRaises, AppendEvent
<1> QED BY <1>1, <1>2 DEF Client!Say, Client!vars, Acked, Work

\* A step that only changes how Ray or a driver stands, inside a live job.
LEMMA SameWork ==
  ASSUME TypeOK, NEW s \in Submission, NEW x \in Job,
         job' = [job EXCEPT ![s] = x],
         x.status = Status(s) \/ (Live(s) /\ x.status \in LiveStatus)
  PROVE  Work' = Work
<1>1. job \in [Submission -> Job]
  BY DEF TypeOK
<1>2. ASSUME NEW t \in Submission
      PROVE  (IF Live(t)' THEN "LIVE" ELSE Status(t)') =
             (IF Live(t) THEN "LIVE" ELSE Status(t))
  <2>1. CASE t = s
    BY <1>1, <2>1 DEF Live, Status
  <2>2. CASE t # s
    BY <1>1, <2>2 DEF Live, Status
  <2> QED BY <2>1, <2>2
<1> QED BY <1>2 DEF Work, Live, Status

\* Ray ends a live job.
LEMMA Ending ==
  ASSUME Shape, NEW s \in Submission, Live(s), NEW how \in EndedStatus,
         SetStatus(s, how), UNCHANGED <<queue, marker, log>>,
         how = "SUCCEEDED" => CompletedEvent(s) \in Client!Told(KeyOfJob(s))
  PROVE  Client!End(KeyOfJob(s), s, how)
<1>1. TypeOK /\ job \in [Submission -> Job] /\ Exists(s)
  BY DEF Shape, TypeOK, Live, Exists, LiveStatus
<1>2. /\ job'[s].status = how
      /\ \A t \in Submission : t # s => job'[t] = job[t]
  BY <1>1 DEF SetStatus, Job
<1>3. Work' = [Work EXCEPT ![s] = how]
  <2>1. ASSUME NEW t \in Submission
        PROVE  (IF Live(t)' THEN "LIVE" ELSE Status(t)') =
               (IF t = s THEN how ELSE IF Live(t) THEN "LIVE" ELSE Status(t))
    BY <1>2 DEF Live, Status, LiveStatus, EndedStatus
  <2> QED BY <2>1 DEF Work, Live, Status
<1>4. Work[s] = "LIVE" /\ Client!Belongs(s, KeyOfJob(s)) /\ UNCHANGED Acked
  BY <1>1, WorkFacts, JobStream DEF Acked
<1>5. how = "SUCCEEDED" => Client!Completed(s) \in Client!Told(KeyOfJob(s))
  BY DEF Client!Completed, Client!Event, CompletedEvent, DriverEvent
<1> QED BY <1>3, <1>4, <1>5 DEF Client!End, Acked, Work

\* The steps of Ray and the drivers.
LEMMA RayImplements ==
  ASSUME Shape, TalkInv, NEW s \in Submission, RayStep(s)
  PROVE  \/ UNCHANGED Client!vars
         \/ \E k \in Key :
              \/ \E how \in Client!Ending : Client!End(k, s, how)
              \/ Client!SayProgress(k, s) \/ Client!SayCompleted(k, s)
              \/ Client!SayFailed(k, s) \/ Client!SayUnpublished(k, s)
<1>0. TypeOK /\ job \in [Submission -> Job] /\ UNCHANGED <<queue, marker>>
  BY RayLemma DEF Shape, TypeOK, RedisSide
<1>1. Live(s) /\ Exists(s)
  BY DEF RayStep, JobStarts, JobLost, StopTakesEffect, ExternalStop, DriverProgress,
     DriverCompletes, DriverFails, DriverExcept, DriverExit, Executing, Live, Exists,
     LiveStatus
<1>2. PICK k \in Key : /\ k = KeyOfJob(s) /\ k = DriverKey(s)
                       /\ Client!Belongs(s, k)
  BY <1>1, JobStream
<1>3. Work[s] = "LIVE" /\ TalkOK(s)
  BY <1>0, <1>1, WorkFacts DEF TalkInv
<1>4. ASSUME NEW st \in {"completed", "unpublished", "failing", "failed"}, SetDriver(s, st)
      PROVE  Work' = Work
  <2>1. [job[s] EXCEPT !.driver = st] \in Job
        /\ [job[s] EXCEPT !.driver = st].status = Status(s)
    BY <1>0 DEF Job, Status
  <2> QED BY <1>0, <1>4, <2>1, SameWork DEF SetDriver
<1>5. /\ DriverEvent(s, "PROGRESS", "NONE") \in Event
      /\ CompletedEvent(s) \in Event /\ FailedEvent(s) \in Event
      /\ DriverEvent(s, "FAILED", "TERMINAL_EVENT_PUBLICATION_FAILED") \in Event
  BY DriverEventType DEF CompletedEvent, FailedEvent, TerminalType, Code
<1>6. ASSUME NEW e \in Event, Writes(k, e), Work' = Work
      PROVE  Client!Say(k, e) \/ UNCHANGED Client!vars
  BY <1>0, <1>6, Saying
<1>7. /\ DriverEvent(s, "PROGRESS", "NONE") = Client!Event("PROGRESS", s, "NONE")
      /\ CompletedEvent(s) = Client!Completed(s)
      /\ FailedEvent(s) = Client!Event("FAILED", s, "EXECUTION_FAILED")
      /\ DriverEvent(s, "FAILED", "TERMINAL_EVENT_PUBLICATION_FAILED") =
           Client!Event("FAILED", s, "TERMINAL_EVENT_PUBLICATION_FAILED")
  BY DEF DriverEvent, CompletedEvent, FailedEvent, Client!Event, Client!Completed
<1>8. job[s].driver = "executing" => Client!Verdicts(k, s) = {}
  BY <1>2, <1>3 DEF TalkOK
<1>a. CASE JobStarts(s)
  <2>1. [job[s] EXCEPT !.status = "RUNNING"] \in Job
        /\ [job[s] EXCEPT !.status = "RUNNING"].status \in LiveStatus
    BY <1>0 DEF Job, LiveStatus
  <2>2. Work' = Work /\ UNCHANGED log
    BY <1>0, <1>1, <1>a, <2>1, SameWork DEF JobStarts, SetStatus
  <2> QED BY <1>0, <2>2 DEF Client!vars, Work
<1>b. CASE JobLost(s) \/ StopTakesEffect(s) \/ ExternalStop(s)
  <2>1. PICK how \in {"FAILED", "STOPPED"} : SetStatus(s, how) /\ UNCHANGED log
    BY <1>b DEF JobLost, StopTakesEffect, ExternalStop
  <2>2. Client!End(k, s, how)
    BY <1>0, <1>1, <1>2, <2>1, Ending DEF EndedStatus
  <2> QED BY <2>2 DEF Client!Ending
<1>c. CASE DriverExit(s)
  <2>1. CASE job[s].driver = "completed" /\ SetStatus(s, "SUCCEEDED")
    <3>1. CompletedEvent(s) \in Client!Told(k)
      BY <1>2, <1>3, <2>1 DEF TalkOK, Client!Verdicts
    <3>2. Client!End(k, s, "SUCCEEDED")
      BY <1>0, <1>1, <1>2, <1>c, <2>1, <3>1, Ending DEF DriverExit, EndedStatus
    <3> QED BY <3>2 DEF Client!Ending
  <2>2. CASE SetStatus(s, "FAILED")
    <3>1. Client!End(k, s, "FAILED")
      BY <1>0, <1>1, <1>2, <1>c, <2>2, Ending DEF DriverExit, EndedStatus
    <3> QED BY <3>1 DEF Client!Ending
  <2> QED BY <1>c, <2>1, <2>2 DEF DriverExit
<1>d. CASE DriverProgress(s)
  <2>1. Work' = Work /\ Writes(k, DriverEvent(s, "PROGRESS", "NONE"))
        /\ job[s].driver = "executing"
    BY <1>2, <1>d DEF DriverProgress, Writes, Work, Live, Status, Executing
  <2>2. Client!Say(k, Client!Event("PROGRESS", s, "NONE")) \/ UNCHANGED Client!vars
    BY <1>5, <1>6, <1>7, <2>1
  <2> QED BY <1>2, <1>3, <1>8, <2>1, <2>2 DEF Client!SayProgress, Work
<1>e. CASE DriverCompletes(s)
  <2>1. job[s].driver = "executing" /\ Work' = Work
    BY <1>4, <1>e DEF DriverCompletes, Executing
  <2>2. CASE Writes(k, CompletedEvent(s))
    <3>1. Client!Say(k, Client!Completed(s)) \/ UNCHANGED Client!vars
      BY <1>5, <1>6, <1>7, <2>1, <2>2
    <3> QED BY <1>2, <1>3, <1>8, <2>1, <3>1 DEF Client!SayCompleted, Work
  <2>3. CASE UNCHANGED log
    BY <1>0, <2>1, <2>3 DEF Client!vars, Work
  <2> QED BY <1>2, <1>e, <2>2, <2>3 DEF DriverCompletes, Writes, CompletedEvent
<1>f. ASSUME Writes(k, FailedEvent(s)), Work' = Work,
             Client!Verdicts(k, s) \subseteq {FailedEvent(s)}
      PROVE  Client!SayFailed(k, s) \/ UNCHANGED Client!vars
  <2>1. Client!Say(k, FailedEvent(s)) \/ UNCHANGED Client!vars
    BY <1>5, <1>6, <1>f
  <2> QED BY <1>2, <1>3, <1>7, <1>f, <2>1 DEF Client!SayFailed, Work
<1>g. CASE DriverFails(s)
  <2>1. job[s].driver = "executing" /\ Work' = Work /\ Writes(k, FailedEvent(s))
    BY <1>2, <1>4, <1>g DEF DriverFails, DriverReportsFailure, Executing, Writes, FailedEvent
  <2> QED BY <1>8, <1>f, <2>1
<1>h. CASE DriverExcept(s)
  <2>0. SetDriver(s, "failed") /\ Work' = Work
    BY <1>4, <1>h DEF DriverExcept, DriverReportsFailure
  <2>1. CASE /\ job[s].driver = "unpublished"
             /\ Writes(k, DriverEvent(s, "FAILED", "TERMINAL_EVENT_PUBLICATION_FAILED"))
    <3>1. Client!Verdicts(k, s) \subseteq {Client!Completed(s)}
      BY <1>2, <1>3, <1>7, <2>1 DEF TalkOK
    <3>2. Client!Say(k, Client!Event("FAILED", s, "TERMINAL_EVENT_PUBLICATION_FAILED"))
          \/ UNCHANGED Client!vars
      BY <1>5, <1>6, <1>7, <2>0, <2>1
    <3> QED BY <1>2, <1>3, <3>1, <3>2 DEF Client!SayUnpublished, Work
  <2>2. CASE job[s].driver = "failing" /\ Writes(k, FailedEvent(s))
    BY <1>2, <1>3, <1>f, <2>0, <2>2 DEF TalkOK
  <2> QED BY <1>2, <1>h, <2>1, <2>2 DEF DriverExcept, DriverReportsFailure, Writes, FailedEvent
<1> QED BY <1>a, <1>b, <1>c, <1>d, <1>e, <1>g, <1>h DEF RayStep

\* The entry at hand, as the client's view sees its stream.
LEMMA HandStream ==
  ASSUME Shape, NEW p \in Provider, pc[p] # "idle"
  PROVE  /\ msg[p].id \in Delivery /\ Req(p) = Request[msg[p].id]
         /\ Req(p) \in RequestType /\ MainKey(p) \in Key
         /\ Client!StreamOf(Req(p)) = MainKey(p)
         /\ Client!Belongs(Req(p).sub, MainKey(p))
BY RequestLemma
   DEF MainKey, KeyOf, Client!StreamOf, Client!Belongs, Client!AskedFor

\* The job that submit_ray_job makes for a valid request.
LEMMA SubmitAdmits ==
  ASSUME Shape, HandleInv, KindInv, NEW p \in Provider, Submit(p)
  PROVE  UNCHANGED Client!vars \/ \E d \in Delivery : Client!Admit(d)
<1>0. TypeOK /\ job \in [Submission -> Job] /\ pc[p] = "submit"
  BY DEF Shape, TypeOK, Submit, At
<1>1. /\ NewItem(p) \in Item /\ NewItem(p).sub = Req(p).sub /\ Req(p).sub \in Submission
      /\ msg[p].id \in Delivery /\ Req(p) = Request[msg[p].id] /\ Req(p).kind = "valid"
  BY <1>0, NewItemLemma, HandStream DEF RequestType, KindInv, Checked
<1>2. UNCHANGED <<queue, marker, log>>
  BY DEF Submit, Elsewhere
<1>3. CASE UNCHANGED job
  BY <1>2, <1>3, Unseen
<1>4. CASE CreateJob(NewItem(p)) /\ job' # job
  <2> DEFINE s == Req(p).sub
  <2>1. /\ ~Exists(s)
        /\ job' = [job EXCEPT ![s] = [NoJob EXCEPT !.status = "PENDING", !.item = NewItem(p)]]
    BY <1>1, <1>4 DEF CreateJob
  <2>2. /\ job'[s].status = "PENDING"
        /\ \A t \in Submission : t # s => job'[t] = job[t]
    BY <1>0, <1>1, <2>1 DEF NoJob
  <2>3. Work' = [Work EXCEPT ![s] = "LIVE"]
    <3>1. ASSUME NEW t \in Submission
          PROVE  (IF Live(t)' THEN "LIVE" ELSE Status(t)') =
                 (IF t = s THEN "LIVE" ELSE IF Live(t) THEN "LIVE" ELSE Status(t))
      BY <2>2 DEF Live, Status, LiveStatus
    <3> QED BY <1>1, <3>1 DEF Work, Live, Status
  <2>4. Work[s] = "ABSENT" /\ UNCHANGED Acked
    BY <1>0, <1>1, <1>2, <2>1, WorkFacts DEF Acked
  <2> QED BY <1>1, <1>2, <2>3, <2>4 DEF Client!Admit, Acked, Work
<1> QED BY <1>3, <1>4 DEF Submit

\* An acknowledgement has a ground the client can find.
LEMMA AckIsGrounded ==
  ASSUME Shape, HandleInv, NEW p \in Provider, Ack(p)
  PROVE  \E d \in Delivery : Client!Acknowledge(d)
<1>0. TypeOK /\ queue \in [Delivery -> {"unread", "pending", "acked"}] /\ pc[p] = "ack"
  BY DEF Shape, TypeOK, Ack, At
<1>1. PICK d \in Delivery : d = msg[p].id /\ Req(p) = Request[d]
  BY <1>0, HandStream
<1> DEFINE r == Request[d]
           k == Client!StreamOf(r)
<1>2. r \in RequestType /\ r.sub \in Submission /\ k = KeyOf(r)
  BY RequestAssumption DEF RequestType, Client!StreamOf, KeyOf
<1>3. Settled(r)
  BY <1>0, <1>1 DEF HandleInv, HandleOK
<1>4. \/ Work[r.sub] # "ABSENT"
      \/ r.kind # "valid"
      \/ /\ k \in marker
         /\ \/ Client!QueuedCancel \in Client!Told(k)
            \/ \E s \in Submission, e \in Delivery :
                 Work[s] # "ABSENT" /\ Request[e].sub = s /\ Request[e].op = r.op
  <2>1. CASE Exists(r.sub)
    BY <1>0, <1>2, <2>1, WorkFacts
  <2>2. CASE r.kind # "valid"
    BY <2>2
  <2>3. CASE KeyOf(r) \in marker /\ Has(KeyOf(r), QueuedCancel)
    BY <1>2, <2>3 DEF Has, Client!Told, QueuedCancel, Client!QueuedCancel, Client!Event
  <2>4. CASE KeyOf(r) \in marker
             /\ \E s \in Submission : Exists(s) /\ job[s].item.op = r.op
    <3>1. PICK s \in Submission : Exists(s) /\ job[s].item.op = r.op
      BY <2>4
    <3>2. PICK e \in Delivery : Request[e].sub = s /\ KeyOf(Request[e]) = KeyOf(job[s].item)
      BY <3>1 DEF Shape, JobInv
    <3>3. Request[e].op = r.op
      BY <3>1, <3>2 DEF KeyOf
    <3>4. Work[s] # "ABSENT"
      BY <1>0, <3>1, WorkFacts
    <3> QED BY <1>2, <2>4, <3>2, <3>3, <3>4
  <2> QED BY <1>3, <2>1, <2>2, <2>3, <2>4 DEF Settled
<1>5. Acked' = Acked \cup {d} /\ UNCHANGED <<marker, log, Work>>
  BY <1>0, <1>1 DEF Ack, Acked, Elsewhere, Work, Live, Status
<1> HIDE DEF r, k
<1> QED BY <1>1, <1>4, <1>5 DEF Client!Acknowledge, Acked, Work, r, k

\* The steps of handle.
LEMMA HandleAnswers ==
  ASSUME Shape, HandleInv, KindInv, NEW p \in Provider, HandleStep(p)
  PROVE  \/ UNCHANGED Client!vars
         \/ \E d \in Delivery : Client!Admit(d) \/ Client!Acknowledge(d)
         \/ \E k \in Key :
              \/ Client!SayRejected(k) \/ Client!SayCancelledBefore(k)
              \/ \E s \in Submission : Client!SayAccepted(k, s)
<1>0. TypeOK /\ pc[p] # "idle" /\ HandleOK(p)
  BY DEF Shape, HandleInv, HandleStep, CheckCancel, CheckCancelRaises, PublishCancelled,
     Reject, Resume, Confirm, Reaccept, CheckCancelAgain, Submit, Accept, Ack, At
<1>1. /\ msg[p].id \in Delivery /\ Req(p) = Request[msg[p].id] /\ Req(p) \in RequestType
      /\ MainKey(p) \in Key /\ Client!StreamOf(Req(p)) = MainKey(p)
      /\ Client!Belongs(Req(p).sub, MainKey(p)) /\ Req(p).sub \in Submission
  BY <1>0, HandStream DEF RequestType
<1>2. ASSUME NEW e \in Event, Writes(MainKey(p), e), UNCHANGED <<queue, marker, job>>
      PROVE  Client!Say(MainKey(p), e) \/ UNCHANGED Client!vars
  <2>1. Work' = Work
    BY <1>2 DEF Work, Live, Status
  <2> QED BY <1>0, <1>1, <1>2, <2>1, Saying
<1>3. ASSUME NEW e \in Event, NEW step, Announce(p, e, step)
      PROVE  Client!Say(MainKey(p), e) \/ UNCHANGED Client!vars
  BY <1>2, <1>3 DEF Announce, Writes, Elsewhere
<1>4. CASE \/ CheckCancel(p) \/ CheckCancelRaises(p) \/ Resume(p) \/ Confirm(p)
           \/ CheckCancelAgain(p)
  BY <1>4, Unseen DEF CheckCancel, CheckCancelRaises, Resume, Confirm, CheckCancelAgain,
     Elsewhere
<1>5. CASE PublishCancelled(p)
  <2>1. Client!Say(MainKey(p), Client!QueuedCancel) \/ UNCHANGED Client!vars
    BY <1>3, <1>5, EventTypes
       DEF PublishCancelled, QueuedCancel, Client!QueuedCancel, Client!Event
  <2>2. MainKey(p) \in marker
    BY <1>0, <1>5 DEF PublishCancelled, At, HandleOK
  <2> QED BY <1>1, <2>1, <2>2 DEF Client!SayCancelledBefore
<1>6. CASE Reject(p)
  <2>1. CASE Req(p).kind = "anonymous" /\ UNCHANGED log
    BY <1>6, <2>1, Unseen DEF Reject, Elsewhere
  <2>2. CASE Req(p).kind # "anonymous" /\ Writes(MainKey(p), Rejection)
    <3>1. Client!Say(MainKey(p), Client!Event("FAILED", Null, "REJECTED"))
          \/ UNCHANGED Client!vars
      BY <1>2, <1>6, <2>2, EventTypes DEF Reject, Elsewhere, Rejection, Client!Event
    <3>2. Req(p).kind \in {"invalid", "oversize"}
      BY <1>0, <1>1, <1>6, <2>2 DEF Reject, At, HandleOK, RequestType, Kind
    <3> QED BY <1>1, <3>1, <3>2 DEF Client!SayRejected
  <2> QED BY <1>6, <2>1, <2>2 DEF Reject, Writes
<1>7. CASE Reaccept(p) \/ Accept(p)
  <2>1. Client!Say(MainKey(p), Client!Event("ACCEPTED", Req(p).sub, "NONE"))
        \/ UNCHANGED Client!vars
    BY <1>1, <1>3, <1>7, EventTypes DEF Reaccept, Accept, Accepted, Client!Event
  <2>2. Exists(Req(p).sub)
    BY <1>0, <1>7 DEF Reaccept, Accept, At, HandleOK
  <2>3. Work[Req(p).sub] # "ABSENT"
    BY <1>0, <1>1, <2>2, WorkFacts
  <2> QED BY <1>1, <2>1, <2>3 DEF Client!SayAccepted, Work
<1>8. CASE Submit(p)
  BY <1>8, SubmitAdmits
<1>9. CASE Ack(p)
  BY <1>9, AckIsGrounded
<1> QED BY <1>4, <1>5, <1>6, <1>7, <1>8, <1>9 DEF HandleStep

\* The other steps of the main thread.
LEMMA MainUnseen ==
  ASSUME Shape, NEW p \in Provider, MainStep(p), ~HandleStep(p)
  PROVE  UNCHANGED Client!vars
<1>1. UNCHANGED <<marker, log, job>>
  BY DEF MainStep, Start, Crash, Close, Exit, Forget, Claim, PollClaimed, PollNew
<1>2. CASE UNCHANGED queue
  BY <1>1, <1>2, Unseen
<1>3. CASE PollNew(p)
  <2>1. Acked' = Acked
    BY <1>3 DEF PollNew, Unread, Acked, Shape, TypeOK
  <2> QED BY <1>1, <2>1 DEF Acked, Client!vars, Live, Status
<1> QED BY <1>2, <1>3 DEF MainStep, Start, Crash, Close, Exit, Forget, Claim, PollClaimed

\* The steps of the watcher.
LEMMA WatchTells ==
  ASSUME Shape, RulingInv, NEW p \in Provider, WatchStep(p)
  PROVE  \/ UNCHANGED Client!vars
         \/ \E k \in Key, s \in Submission :
              Client!SayEnded(k, s) \/ Client!SayCancelled(k, s) \/ Client!SayTimedOut(k, s)
<1>0. TypeOK /\ job \in [Submission -> Job]
  BY DEF Shape, TypeOK
<1>1. CASE Report(p)
  <2>1. watch[p].pc = "report" /\ Writes(KeyOf(Watched(p)), watch[p].event)
        /\ UNCHANGED <<queue, marker, job>>
    BY <1>1 DEF Report, Watching, Writes, Untouched
  <2>2. PICK k \in Key, s \in Submission :
          k = KeyOf(Watched(p)) /\ s = Watched(p).sub /\ Tracked(Watched(p))
    BY <2>1, WatchedLemma
  <2>3. /\ Exists(s) /\ k = KeyOfJob(s) /\ Client!Belongs(s, k) /\ k[2] = Watched(p).op
    BY <2>2, JobStream DEF Tracked, KeyOf
  <2>4. PICK e \in Event : e = watch[p].event
    BY <2>1 DEF Shape, WatchInv
  <2>5. Client!Say(k, e) \/ UNCHANGED Client!vars
    <3>1. Work' = Work
      BY <2>1 DEF Work, Live, Status
    <3> QED BY <1>0, <2>1, <2>2, <2>4, <3>1, Saying
  <2>6. Ruling(e, Watched(p))
    BY <2>1, <2>4 DEF RulingInv, Watched
  <2>7. Work[s] = Status(s) /\ Work[s] \in Client!Ending
    BY <1>0, <2>2, <2>6, WorkFacts DEF Ruling
  <2>a. CASE e = DriverEvent(s, "FAILED", Client!EndCode[Status(s)])
    BY <2>3, <2>5, <2>7, <2>a DEF DriverEvent, Client!Event, Client!SayEnded, Work
  <2>b. CASE e = DriverEvent(s, "FAILED", "EXECUTION_TIMEOUT") /\ Limited(Watched(p).op)
    BY <2>3, <2>5, <2>7, <2>b
       DEF DriverEvent, Client!Event, Client!SayTimedOut, Limited, Work
  <2>c. CASE /\ e = DriverEvent(s, "CANCELLED", "NONE") /\ Status(s) = "STOPPED"
             /\ CancelAsked(Watched(p).op)
    <3>1. \E j \in marker : j[2] = k[2]
      BY <2>3, <2>c DEF CancelAsked
    <3> QED BY <2>3, <2>5, <2>7, <2>c, <3>1
         DEF DriverEvent, Client!Event, Client!SayCancelled, Work
  <2> QED BY <2>2, <2>6, <2>a, <2>b, <2>c DEF Ruling
<1>2. CASE StopCancelled(p) \/ StopTimedOut(p) \/ StopRaises(p)
  <2>1. UNCHANGED <<queue, marker, log>>
    BY <1>2 DEF StopCancelled, StopTimedOut, StopRaises, Untouched
  <2>2. watch[p].pc \in {"cancel", "timeout"}
    BY <1>2 DEF StopCancelled, StopTimedOut, StopRaises, Watching
  <2>3. PICK s \in Submission : s = Watched(p).sub
    BY <2>2, WatchedLemma
  <2>4. UNCHANGED job \/ \E why \in {"cancel", "timeout"} : RequestStop(s, why)
    BY <1>2, <2>2, <2>3 DEF StopCancelled, StopTimedOut, StopRaises
  <2>5. ASSUME NEW why \in {"cancel", "timeout"}, RequestStop(s, why) PROVE Work' = Work
    <3>1. [job[s] EXCEPT !.stopFor = why] \in Job
          /\ [job[s] EXCEPT !.stopFor = why].status = Status(s)
      BY <1>0 DEF Job, Status
    <3>2. CASE job' = [job EXCEPT ![s] = [job[s] EXCEPT !.stopFor = why]]
      BY <1>0, <3>1, <3>2, SameWork
    <3>3. CASE UNCHANGED job
      BY <3>3 DEF Work, Live, Status
    <3> QED BY <2>5, <3>2, <3>3 DEF RequestStop
  <2>6. Work' = Work
    BY <2>4, <2>5 DEF Work, Live, Status
  <2> QED BY <2>1, <2>6 DEF Client!vars, Work
<1>3. CASE ~Report(p) /\ ~StopCancelled(p) /\ ~StopTimedOut(p) /\ ~StopRaises(p)
  BY <1>3, Unseen DEF WatchStep, BeginPass, Observe, GetStatus, LookupRaises, Decide,
     RemoveEntry, Untouched
<1> QED BY <1>1, <1>2, <1>3

\* Every step.
LEMMA ClientStep ==
  ASSUME Shape, HandleInv, KindInv, TalkInv, RulingInv, [Next]_vars
  PROVE  [Client!Next]_(Client!vars)
<1>1. CASE \E p \in Provider : HandleStep(p)
  BY <1>1, HandleAnswers DEF Client!Next
<1>2. CASE \E p \in Provider : MainStep(p) /\ ~HandleStep(p)
  BY <1>2, MainUnseen
<1>3. CASE \E p \in Provider : WatchStep(p)
  BY <1>3, WatchTells DEF Client!Next
<1>4. CASE \E s \in Submission : RayStep(s)
  BY <1>4, RayImplements DEF Client!Next
<1>5. CASE \E k \in Cancellable : ClientCancel(k)
  <2>1. PICK k \in Key : ClientCancel(k)
    BY <1>5, CancelAssumption
  <2>2. Client!Cancel(k)
    BY <2>1 DEF ClientCancel, Client!Cancel, Live, Status
  <2> QED BY <2>2 DEF Client!Next
<1>6. CASE Tick \/ UNCHANGED vars
  BY <1>6, Unseen DEF Tick, vars
<1> QED BY <1>1, <1>2, <1>3, <1>4, <1>5, <1>6 DEF Next

\* A client can rely on ClientView, for every number of providers, requests and
\* failures: each event has the ground ClientView asks of it when it is appended
\* (TERMINAL_EVENT_MISSING may still follow a COMPLETED), a driver falls silent
\* after its verdict, and no job or acknowledgement lacks its ground.
THEOREM LifecycleImplementsClientView == Spec => ImplementsClientView
<1> DEFINE Inv == KindInv /\ SaidInv /\ LimitInv /\ RulingInv /\ TalkInv
<1>1. Init => Inv
  BY DEF Init, KindInv, Checked, SaidInv, LimitInv, RulingInv, TalkInv, NoWatch, NoJob,
     Exists, Live, Status, LiveStatus
<1>2. Shape /\ HandleInv /\ StopInv /\ Inv /\ [Next]_vars => Inv'
  BY KindInductive, SaidInductive, LimitInductive, RulingInductive, TalkInductive
<1>3. Init => Client!Init
  BY DEF Init, Client!Init, NoJob, Live, Status, LiveStatus
<1>4. Shape /\ HandleInv /\ Inv /\ [Next]_vars => [Client!Next]_(Client!vars)
  BY ClientStep
<1> HIDE DEF Inv
<1> QED BY <1>1, <1>2, <1>3, <1>4, ShapeInvariant, HandleInvariant, StopInvariant,
           PTL DEF Spec, ImplementsClientView, Client!Spec

=============================================================================

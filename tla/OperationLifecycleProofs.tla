---------------------- MODULE OperationLifecycleProofs ----------------------
(***************************************************************************)
(* Proofs about OperationLifecycle for every set of providers, deliveries  *)
(* and submissions and every value of the bounds.                          *)
(***************************************************************************)
EXTENDS OperationLifecycle, TLAPS

-----------------------------------------------------------------------------
(* What no step takes back.                                                *)

\* Event streams only grow, as far as their history is concerned.
LogGrows ==
  \A k \in Key : \A i \in DOMAIN log[k] :
    i \in DOMAIN log'[k] /\ log'[k][i] = log[k][i]

\* A job keeps its metadata and, once it has ended, its status.
JobsKeep ==
  \A s \in Submission : Exists(s) =>
    /\ Exists(s)' /\ job'[s].item = job[s].item
    /\ Ended(s) => job'[s].status = job[s].status

Monotone == marker \subseteq marker' /\ LogGrows /\ JobsKeep

\* No job appears.
NoNewJob == \A s \in Submission : Exists(s)' => Exists(s)

\* An XADD keeps every earlier entry and adds e at the end of its stream.
LEMMA AppendLemma ==
  ASSUME log \in [Key -> Seq(Event)], trimmed \in [Key -> Nat],
         \A j \in Key : trimmed[j] <= Len(log[j]),
         NEW k \in Key, NEW e \in Event, AppendEvent(k, e)
  PROVE  /\ log' \in [Key -> Seq(Event)]
         /\ trimmed' \in [Key -> Nat]
         /\ \A j \in Key : trimmed'[j] <= Len(log'[j])
         /\ LogGrows
         /\ \A j \in Key : \A i \in DOMAIN log'[j] :
              i \in DOMAIN log[j] \/ (j = k /\ log'[j][i] = e)
PROOF
  <1>1. log' = [log EXCEPT ![k] = Append(log[k], e)]
    BY DEF AppendEvent
  <1>2. PICK t \in trimmed[k]..(Len(log[k]) + 1) :
          trimmed' = [trimmed EXCEPT ![k] = t]
    BY DEF AppendEvent
  <1>3. log[k] \in Seq(Event) /\ Len(log[k]) \in Nat /\ trimmed[k] \in Nat
    OBVIOUS
  <1>4. /\ Append(log[k], e) \in Seq(Event)
        /\ Len(Append(log[k], e)) = Len(log[k]) + 1
        /\ \A i \in 1..Len(log[k]) : Append(log[k], e)[i] = log[k][i]
        /\ Append(log[k], e)[Len(log[k]) + 1] = e
    BY <1>3
  <1>5. log' \in [Key -> Seq(Event)]
    BY <1>1, <1>4
  <1>6. trimmed' \in [Key -> Nat] /\ \A j \in Key : trimmed'[j] <= Len(log'[j])
    BY <1>1, <1>2, <1>3, <1>4
  <1>7. ASSUME NEW j \in Key PROVE log[j] \in Seq(Event) /\ DOMAIN log[j] = 1..Len(log[j])
    OBVIOUS
  <1>8. LogGrows
    BY <1>1, <1>3, <1>4, <1>7 DEF LogGrows
  <1>9. \A j \in Key : \A i \in DOMAIN log'[j] :
              i \in DOMAIN log[j] \/ (j = k /\ log'[j][i] = e)
    BY <1>1, <1>3, <1>4, <1>7
  <1> QED BY <1>5, <1>6, <1>8, <1>9

-----------------------------------------------------------------------------
(* The shape of the state: layer one of the invariant.                     *)

Shape == TypeOK /\ JobInv /\ ActiveInv /\ MainInv /\ WatchInv

\* Jobs that only make progress keep their requests and metadata.
LEMMA JobFrame ==
  ASSUME JobInv, JobsKeep, NoNewJob
  PROVE  JobInv'
BY DEF JobInv, JobsKeep, NoNewJob, Exists, Status, KeyOf

\* An unchanged active map still tracks its jobs while these make progress.
LEMMA ActiveFrame ==
  ASSUME TypeOK, ActiveInv, JobsKeep, UNCHANGED active
  PROVE  ActiveInv'
PROOF
  <1> SUFFICES ASSUME NEW p \in Provider, NEW o \in Operation, active[p][o] # Null
               PROVE  active[p][o].op = o /\ Tracked(active[p][o])'
    BY DEF ActiveInv
  <1>1. active[p][o] \in Item
    BY DEF TypeOK
  <1>2. active[p][o].op = o /\ Tracked(active[p][o]) /\ active[p][o].sub \in Submission
    BY <1>1 DEF ActiveInv, Item
  <1> QED BY <1>2 DEF Tracked, JobsKeep, KeyOfJob, Exists, Status, KeyOf

\* So does the snapshot and the current entry of an unchanged watcher.
LEMMA WatchFrame ==
  ASSUME TypeOK, WatchInv, JobsKeep, UNCHANGED watch
  PROVE  WatchInv'
PROOF
  <1>1. ASSUME NEW i \in Item, Tracked(i)
        PROVE  Tracked(i)'
    BY <1>1 DEF Tracked, JobsKeep, KeyOfJob, Exists, Status, KeyOf, Item
  <1>2. ASSUME NEW p \in Provider
        PROVE  watch[p].todo \subseteq Item
    BY <1>2 DEF TypeOK, Watch
  <1> QED BY <1>1, <1>2 DEF WatchInv, Tracked, KeyOfJob, Exists, Status, KeyOf

-----------------------------------------------------------------------------
(* Ray and the driver.                                                     *)

\* A driver publishes on the stream of an operation.
LEMMA DriverKeyType ==
  ASSUME TypeOK, JobInv, NEW s \in Submission, Exists(s)
  PROVE  DriverKey(s) \in Key
BY DEF JobInv, DriverKey, KeyOf, Key, Item

\* What a driver publishes is an event.
LEMMA DriverEventType ==
  ASSUME NEW s \in Submission, NEW type \in TerminalType \cup {"PROGRESS"},
         NEW code \in Code
  PROVE  DriverEvent(s, type, code) \in Event
BY DEF DriverEvent, Event

\* Ray moves a live job on; an ended one keeps its status.
LEMMA SetStatusLemma ==
  ASSUME TypeOK, NEW s \in Submission, Live(s),
         NEW st \in {"RUNNING"} \cup EndedStatus, SetStatus(s, st)
  PROVE  job' \in [Submission -> Job] /\ JobsKeep /\ NoNewJob
BY DEF TypeOK, Job, SetStatus, JobsKeep, NoNewJob, Exists, Ended, Live, Status,
       LiveStatus, EndedStatus

\* A step of the driver leaves status and metadata alone.
LEMMA SetDriverLemma ==
  ASSUME TypeOK, NEW s \in Submission,
         NEW st \in {"completed", "unpublished", "failing", "failed"}, SetDriver(s, st)
  PROVE  job' \in [Submission -> Job] /\ JobsKeep /\ NoNewJob
BY DEF TypeOK, Job, SetDriver, JobsKeep, NoNewJob, Exists, Ended, Status

\* What an XADD does, whether or not it raises.
LEMMA PublishLemma ==
  ASSUME TypeOK, NEW k \in Key, NEW e \in Event,
         Publish(k, e) \/ PublishRaises(k, e)
  PROVE  /\ log' \in [Key -> Seq(Event)]
         /\ trimmed' \in [Key -> Nat]
         /\ \A j \in Key : trimmed'[j] <= Len(log'[j])
         /\ faults' \in 0..MaxFaults
         /\ LogGrows
         /\ \A j \in Key : \A i \in DOMAIN log'[j] :
              i \in DOMAIN log[j] \/ (j = k /\ log'[j][i] = e)
PROOF
  <1>1. CASE AppendEvent(k, e)
    <2>1. faults' \in 0..MaxFaults
      BY BoundAssumption DEF Publish, PublishRaises, Fault, TypeOK
    <2> QED BY <1>1, <2>1, AppendLemma DEF TypeOK
  <1>2. CASE UNCHANGED <<log, trimmed>> /\ Fault
    BY <1>2, BoundAssumption DEF TypeOK, Fault, LogGrows
  <1> QED BY <1>1, <1>2 DEF Publish, PublishRaises

\* Steps of Ray and of the drivers keep the types and the provider's memory.
LEMMA RayLemma ==
  ASSUME Shape, NEW s \in Submission, RayStep(s)
  PROVE  /\ TypeOK' /\ Monotone /\ NoNewJob
         /\ UNCHANGED <<RedisSide, ProviderSide>>
PROOF
  <1> USE DEF Shape
  <1>0. UNCHANGED <<RedisSide, ProviderSide>>
    BY DEF RayStep, JobStarts, JobLost, StopTakesEffect, ExternalStop,
           DriverProgress, DriverCompletes, DriverFails, DriverExcept,
           DriverReportsFailure, DriverExit
  <1>a. CASE JobStarts(s) \/ JobLost(s) \/ StopTakesEffect(s)
             \/ ExternalStop(s) \/ DriverExit(s)
    <2>1. /\ UNCHANGED <<log, trimmed, faults>> /\ Live(s)
          /\ \E st \in {"RUNNING"} \cup EndedStatus : SetStatus(s, st)
      BY <1>a DEF JobStarts, JobLost, StopTakesEffect, ExternalStop, DriverExit,
                  EndedStatus, Live, LiveStatus
    <2>2. job' \in [Submission -> Job] /\ JobsKeep /\ NoNewJob
      BY <2>1, SetStatusLemma
    <2> QED BY <1>0, <2>1, <2>2 DEF TypeOK, Monotone, LogGrows, RedisSide,
                                    ProviderSide, mainVars, watchVars
  <1>b. CASE DriverProgress(s)
    <2>1. Exists(s) /\ UNCHANGED job
      BY <1>b DEF DriverProgress, Executing, Exists
    <2>2. DriverKey(s) \in Key /\ DriverEvent(s, "PROGRESS", "NONE") \in Event
      BY <2>1, DriverKeyType, DriverEventType DEF Code
    <2>3. \/ Publish(DriverKey(s), DriverEvent(s, "PROGRESS", "NONE"))
          \/ PublishRaises(DriverKey(s), DriverEvent(s, "PROGRESS", "NONE"))
      BY <1>b DEF DriverProgress
    <2> QED BY <1>0, <2>1, <2>2, <2>3, PublishLemma
            DEF TypeOK, Monotone, JobsKeep, NoNewJob, Exists, Ended, Status,
                RedisSide, ProviderSide, mainVars, watchVars
  <1>c. CASE DriverCompletes(s) \/ DriverFails(s) \/ DriverExcept(s)
    <2>1. /\ Exists(s)
          /\ \E st \in {"completed", "unpublished", "failing", "failed"} : SetDriver(s, st)
          /\ \/ UNCHANGED <<log, trimmed, faults>>
             \/ \E type \in TerminalType, code \in Code :
                  \/ Publish(DriverKey(s), DriverEvent(s, type, code))
                  \/ PublishRaises(DriverKey(s), DriverEvent(s, type, code))
      BY <1>c DEF DriverCompletes, DriverFails, DriverExcept,
                  DriverReportsFailure, Executing, Exists, TerminalType, Code
    <2>2. job' \in [Submission -> Job] /\ JobsKeep /\ NoNewJob
      BY <2>1, SetDriverLemma
    <2>3. CASE UNCHANGED <<log, trimmed, faults>>
      BY <1>0, <2>2, <2>3 DEF TypeOK, Monotone, LogGrows, RedisSide, ProviderSide,
                              mainVars, watchVars
    <2>4. CASE \E type \in TerminalType, code \in Code :
                  \/ Publish(DriverKey(s), DriverEvent(s, type, code))
                  \/ PublishRaises(DriverKey(s), DriverEvent(s, type, code))
      <3>1. PICK type \in TerminalType, code \in Code :
                 \/ Publish(DriverKey(s), DriverEvent(s, type, code))
                 \/ PublishRaises(DriverKey(s), DriverEvent(s, type, code))
        BY <2>4
      <3>2. DriverKey(s) \in Key /\ DriverEvent(s, type, code) \in Event
        BY <2>1, DriverKeyType, DriverEventType
      <3> QED BY <1>0, <2>2, <3>1, <3>2, PublishLemma
              DEF TypeOK, Monotone, RedisSide, ProviderSide, mainVars, watchVars
    <2> QED BY <2>1, <2>3, <2>4
  <1> QED BY <1>a, <1>b, <1>c DEF RayStep

-----------------------------------------------------------------------------
(* The main thread.                                                        *)

\* Inside handle there is a message, and its request is well formed.
LEMMA RequestLemma ==
  ASSUME Shape, NEW p \in Provider, pc[p] # "idle"
  PROVE  /\ mode[p] # "down" /\ msg[p] \in Message
         /\ Req(p) \in RequestType /\ MainKey(p) \in Key
         /\ msg[p].id \in Delivery /\ Req(p) = Request[msg[p].id]
PROOF
  <1>1. mode[p] # "down" /\ msg[p] \in Message
    BY DEF Shape, MainInv
  <1>2. Req(p) \in RequestType /\ msg[p].id \in Delivery
    BY <1>1, RequestAssumption DEF Req, Message
  <1> QED BY <1>1, <1>2 DEF Req, MainKey, Key, KeyOf, RequestType

\* The entry handle makes is an item that names its request.
LEMMA NewItemLemma ==
  ASSUME Shape, NEW p \in Provider, pc[p] # "idle"
  PROVE  /\ NewItem(p) \in Item
         /\ NewItem(p).sub = Req(p).sub /\ NewItem(p).op = Req(p).op
         /\ NewItem(p).ch = Req(p).ch
PROOF
  <1>1. /\ msg[p].recv \in Nat /\ Req(p) \in RequestType
    BY RequestLemma DEF Message
  <1> DEFINE dl == IF Req(p).timeout = Null THEN Null
                   ELSE msg[p].recv + Req(p).timeout
  <1>2. dl \in Nat \cup {Null}
    BY <1>1 DEF RequestType
  <1> HIDE DEF dl
  <1>3. NewItem(p) = [ch |-> Req(p).ch, op |-> Req(p).op, sub |-> Req(p).sub,
                      profile |-> Req(p).profile, digest |-> Req(p).digest,
                      deadline |-> dl]
    BY DEF NewItem, dl
  <1> QED BY <1>1, <1>2, <1>3 DEF RequestType, Item

\* A job created for the message at hand is the job of its operation.
LEMMA CreateLemma ==
  ASSUME Shape, NEW p \in Provider, pc[p] # "idle",
         NEW it \in Item, it = NewItem(p), CreateJob(it)
  PROVE  job' \in [Submission -> Job] /\ JobsKeep /\ JobInv' /\ Tracked(it)'
PROOF
  <1>1. it \in Item /\ it.sub \in Submission /\ it.sub = Req(p).sub
        /\ KeyOf(it) = KeyOf(Req(p))
    BY NewItemLemma DEF Item, KeyOf
  <1>2. PICK d \in Delivery : Request[d].sub = it.sub /\ KeyOf(Request[d]) = KeyOf(it)
    BY <1>1, RequestLemma
  <1>3. CASE Exists(it.sub)
    <2>1. UNCHANGED job
      BY <1>3 DEF CreateJob
    <2>2. KeyOf(job[it.sub].item) = KeyOf(it)
      <3>1. PICK e \in Delivery : Request[e].sub = it.sub /\
                                  KeyOf(Request[e]) = KeyOf(job[it.sub].item)
        BY <1>1, <1>3 DEF Shape, JobInv
      <3>2. Request[e].ch = Request[d].ch /\ Request[e].op = Request[d].op
        BY <1>2, <3>1, SubmissionAssumption
      <3> QED BY <1>2, <3>1, <3>2 DEF KeyOf
    <2>3. JobsKeep /\ NoNewJob
      BY <2>1 DEF JobsKeep, NoNewJob, Exists, Status
    <2>4. JobInv' /\ job' \in [Submission -> Job]
      BY <2>1, <2>3, JobFrame DEF Shape, TypeOK
    <2>5. Tracked(it)'
      BY <1>3, <2>1, <2>2 DEF Tracked, KeyOfJob, Exists, Status
    <2> QED BY <2>3, <2>4, <2>5
  <1>4. CASE ~Exists(it.sub)
    <2> DEFINE new == [NoJob EXCEPT !.status = "PENDING", !.item = it]
    <2>1. job' = [job EXCEPT ![it.sub] = new]
      BY <1>4 DEF CreateJob
    <2>2. new \in Job /\ new.status = "PENDING" /\ new.item = it
      BY <1>1 DEF NoJob, Job, LiveStatus
    <2> HIDE DEF new
    <2>3. job \in [Submission -> Job]
      BY DEF Shape, TypeOK
    <2>4. /\ job' \in [Submission -> Job]
          /\ job'[it.sub] = new
          /\ \A s \in Submission : s # it.sub => job'[s] = job[s]
      BY <1>1, <2>1, <2>2, <2>3
    <2>5. JobsKeep
      BY <1>4, <2>4 DEF JobsKeep, Exists, Status
    <2>6. JobInv'
      BY <1>1, <1>2, <2>2, <2>4 DEF Shape, JobInv, Exists, Status
    <2>7. Tracked(it)'
      BY <1>1, <2>2, <2>4 DEF Tracked, KeyOfJob, Exists, Status, KeyOf
    <2> QED BY <2>4, <2>5, <2>6, <2>7
  <1> QED BY <1>3, <1>4

\* Steps of handle that leave jobs and entries alone.
LEMMA HandleFrame ==
  ASSUME Shape, NEW p \in Provider, pc[p] # "idle",
         UNCHANGED <<mode, job, active, watch>>,
         (\E step \in MainPc \ {"idle"} : Goto(p, step)) \/ Done(p)
  PROVE  /\ JobsKeep /\ JobInv' /\ ActiveInv' /\ MainInv' /\ WatchInv'
         /\ pc' \in [Provider -> MainPc]
         /\ msg' \in [Provider -> Message \cup {Null}]
PROOF
  <1>1. JobsKeep /\ NoNewJob
    BY DEF JobsKeep, NoNewJob, Exists, Status
  <1>2. JobInv' /\ ActiveInv' /\ WatchInv'
    BY <1>1, JobFrame, ActiveFrame, WatchFrame DEF Shape
  <1>3. mode[p] # "down" /\ msg[p] \in Message
    BY RequestLemma
  <1>4. pc' \in [Provider -> MainPc] /\ msg' \in [Provider -> Message \cup {Null}]
    <2>1. ASSUME NEW step \in MainPc, Goto(p, step)
          PROVE  pc' \in [Provider -> MainPc] /\ msg' \in [Provider -> Message \cup {Null}]
      BY <2>1 DEF Shape, TypeOK, Goto
    <2>2. ASSUME Done(p)
          PROVE  pc' \in [Provider -> MainPc] /\ msg' \in [Provider -> Message \cup {Null}]
      BY <2>2 DEF Shape, TypeOK, Done, MainPc
    <2> QED BY <2>1, <2>2
  <1>5. MainInv'
    BY <1>3 DEF Shape, TypeOK, MainInv, Goto, Done
  <1> QED BY <1>1, <1>2, <1>4, <1>5

\* What handle publishes are events.
LEMMA EventTypes ==
  /\ QueuedCancel \in Event /\ Rejection \in Event
  /\ \A s \in Submission : Accepted(s) \in Event
BY DEF QueuedCancel, Rejection, Accepted, Event, Code, TerminalType

\* Every step of handle keeps the shape of the state.
LEMMA HandleLemma ==
  ASSUME Shape, NEW p \in Provider, HandleStep(p)
  PROVE  Shape' /\ Monotone
PROOF
  <1>0. pc[p] # "idle" /\ UNCHANGED Elsewhere
    BY DEF HandleStep, CheckCancel, CheckCancelRaises, PublishCancelled, Reject,
           Resume, Confirm, Reaccept, CheckCancelAgain, Submit, Accept, Ack,
           Announce, At
  <1>1. /\ msg[p] \in Message /\ Req(p) \in RequestType /\ MainKey(p) \in Key
        /\ msg[p].id \in Delivery /\ Req(p).sub \in Submission
        /\ Req(p).op \in Operation
    BY <1>0, RequestLemma DEF RequestType
  <1>2. TypeOK
    BY DEF Shape
  <1>3. LogGrows \/ log' # log
    BY DEF LogGrows
  <1>a. CASE CheckCancel(p) \/ Resume(p) \/ CheckCancelAgain(p)
    <2>1. UNCHANGED <<queue, log, trimmed, job, active, faults>>
      BY <1>a DEF CheckCancel, Resume, CheckCancelAgain
    <2>2. (\E step \in MainPc \ {"idle"} : Goto(p, step)) \/ Done(p)
      BY <1>a DEF CheckCancel, Resume, CheckCancelAgain, MainPc
    <2> QED BY <1>0, <1>2, <1>3, <2>1, <2>2, HandleFrame
            DEF Shape, TypeOK, Monotone, Elsewhere, watchVars
  <1>b. CASE CheckCancelRaises(p)
    <2>1. UNCHANGED <<queue, log, trimmed, job, active>> /\ Fault /\ Done(p)
      BY <1>b DEF CheckCancelRaises
    <2>2. faults' \in 0..MaxFaults
      BY <1>2, <2>1, BoundAssumption DEF Fault, TypeOK
    <2> QED BY <1>0, <1>2, <1>3, <2>1, <2>2, HandleFrame
            DEF Shape, TypeOK, Monotone, Elsewhere, watchVars
  <1>c. CASE PublishCancelled(p) \/ Reaccept(p) \/ Accept(p)
    <2>1. PICK e \in Event : Announce(p, e, "ack")
      BY <1>1, <1>c, EventTypes DEF PublishCancelled, Reaccept, Accept
    <2>2. /\ Publish(MainKey(p), e) \/ PublishRaises(MainKey(p), e)
          /\ Goto(p, "ack") \/ Done(p)
          /\ UNCHANGED <<queue, job, active>>
      BY <2>1 DEF Announce
    <2>3. (\E step \in MainPc \ {"idle"} : Goto(p, step)) \/ Done(p)
      BY <2>2 DEF MainPc
    <2> QED BY <1>0, <1>1, <1>2, <2>2, <2>3, HandleFrame, PublishLemma
            DEF Shape, TypeOK, Monotone, Elsewhere, watchVars
  <1>d. CASE Reject(p)
    <2>1. Goto(p, "ack") /\ UNCHANGED <<queue, job, active>>
      BY <1>d DEF Reject
    <2>2. (\E step \in MainPc \ {"idle"} : Goto(p, step)) \/ Done(p)
      BY <2>1 DEF MainPc
    <2>3. CASE UNCHANGED <<log, trimmed, faults>>
      BY <1>0, <1>2, <1>3, <2>1, <2>2, <2>3, HandleFrame
      DEF Shape, TypeOK, Monotone, Elsewhere, watchVars
    <2>4. CASE Publish(MainKey(p), Rejection) \/ PublishRaises(MainKey(p), Rejection)
      BY <1>0, <1>1, <1>2, <2>1, <2>2, <2>4, HandleFrame, PublishLemma, EventTypes
      DEF Shape, TypeOK, Monotone, Elsewhere, watchVars
    <2> QED BY <1>d, <2>3, <2>4 DEF Reject
  <1>e. CASE Ack(p)
    <2>1. /\ queue' = [queue EXCEPT ![msg[p].id] = "acked"] /\ Done(p)
          /\ UNCHANGED <<log, trimmed, job, active, faults>>
      BY <1>e DEF Ack
    <2> QED BY <1>0, <1>1, <1>2, <1>3, <2>1, HandleFrame
            DEF Shape, TypeOK, Monotone, Elsewhere, watchVars
  <1>f. CASE Confirm(p)
    <2>1. CASE UNCHANGED active /\ Goto(p, "reaccept")
      <3>1. (\E step \in MainPc \ {"idle"} : Goto(p, step)) \/ Done(p)
        BY <2>1 DEF MainPc
      <3> QED BY <1>0, <1>2, <1>3, <1>f, <2>1, <3>1, HandleFrame
              DEF Confirm, Shape, TypeOK, Monotone, Elsewhere, watchVars
    <2>2. CASE Remove(p, Req(p).op) /\ Goto(p, "ack")
      <3>1. /\ UNCHANGED <<queue, log, trimmed, job, faults>>
            /\ active' = [active EXCEPT ![p][Req(p).op] = Null]
            /\ pc' = [pc EXCEPT ![p] = "ack"] /\ UNCHANGED msg
        BY <1>f, <2>2 DEF Confirm, Remove, Goto
      <3>2. JobsKeep /\ NoNewJob
        BY <3>1 DEF JobsKeep, NoNewJob, Exists, Status
      <3>3. JobInv' /\ WatchInv'
        BY <1>0, <3>2, JobFrame, WatchFrame DEF Shape, Elsewhere, watchVars
      <3>4. ActiveInv'
        BY <1>2, <3>1 DEF Shape, ActiveInv, TypeOK, Tracked, KeyOfJob, Exists, Status
      <3>5. MainInv'
        BY <1>0, <1>1, <1>2, <3>1, RequestLemma
        DEF Shape, MainInv, TypeOK, Elsewhere
      <3> QED BY <1>0, <1>2, <1>3, <3>1, <3>2, <3>3, <3>4, <3>5
              DEF Shape, TypeOK, Monotone, Elsewhere, watchVars, MainPc
    <2> QED BY <1>f, <2>1, <2>2 DEF Confirm
  <1>g. CASE Submit(p)
    <2>1. UNCHANGED <<queue, log, trimmed>>
      BY <1>g DEF Submit
    <2>2. CASE /\ CreateJob(NewItem(p)) /\ Put(p, NewItem(p))
               /\ Goto(p, "accept") /\ UNCHANGED faults
      <3>0. PICK it \in Item : it = NewItem(p) /\ it.op = Req(p).op
        BY <1>0, NewItemLemma
      <3>1. it \in Item /\ it.op \in Operation
        BY <1>1, <3>0
      <3>2. /\ job' \in [Submission -> Job] /\ JobsKeep /\ JobInv' /\ Tracked(it)'
        BY <1>0, <2>2, <3>0, CreateLemma
      <3>3. active' = [active EXCEPT ![p][it.op] = it]
        BY <2>2, <3>0 DEF Put
      <3>4. ActiveInv'
        <4> SUFFICES ASSUME NEW q \in Provider, NEW o \in Operation, active'[q][o] # Null
                     PROVE  active'[q][o].op = o /\ Tracked(active[q][o])'
          BY DEF ActiveInv
        <4>1. CASE q = p /\ o = it.op
          BY <1>2, <3>1, <3>2, <3>3, <4>1 DEF TypeOK, Tracked, KeyOfJob, Exists, Status, KeyOf
        <4>2. CASE ~(q = p /\ o = it.op)
          <5>1. active'[q][o] = active[q][o]
            BY <1>2, <3>1, <3>3, <4>2 DEF TypeOK
          <5>2. active[q][o] \in Item /\ active[q][o].op = o /\ Tracked(active[q][o])
            BY <1>2, <5>1 DEF TypeOK, Shape, ActiveInv
          <5>3. active[q][o].sub \in Submission
            BY <5>2 DEF Item
          <5> QED BY <3>2, <5>1, <5>2, <5>3
                  DEF Tracked, JobsKeep, KeyOfJob, Exists, Status, KeyOf
        <4> QED BY <4>1, <4>2
      <3>5. WatchInv'
        BY <1>0, <1>2, <3>2, WatchFrame DEF Shape, Elsewhere, watchVars
      <3>6. active' \in [Provider -> [Operation -> Item \cup {Null}]]
        BY <1>2, <3>1, <3>3 DEF TypeOK
      <3>7. MainInv'
        BY <1>0, <1>1, <1>2, <2>2, <3>1, <3>3, RequestLemma
        DEF Shape, MainInv, TypeOK, Elsewhere, Goto
      <3> QED BY <1>0, <1>2, <1>3, <2>1, <2>2, <3>2, <3>4, <3>5, <3>6, <3>7
              DEF Shape, TypeOK, Monotone, Elsewhere, watchVars, Goto, MainPc
    <2>3. CASE /\ Fault /\ Done(p) /\ UNCHANGED active
               /\ CreateJob(NewItem(p)) \/ UNCHANGED job
      <3>1. faults' \in 0..MaxFaults
        BY <1>2, <2>3, BoundAssumption DEF Fault, TypeOK
      <3>2. CASE UNCHANGED job
        BY <1>0, <1>2, <1>3, <2>1, <2>3, <3>1, <3>2, HandleFrame
        DEF Shape, TypeOK, Monotone, Elsewhere, watchVars
      <3>3. CASE CreateJob(NewItem(p))
        <4>1. job' \in [Submission -> Job] /\ JobsKeep /\ JobInv'
          BY <1>0, <3>3, NewItemLemma, CreateLemma
        <4>2. ActiveInv' /\ WatchInv'
          BY <1>0, <1>2, <2>3, <4>1, ActiveFrame, WatchFrame DEF Shape, Elsewhere, watchVars
        <4>3. MainInv'
          BY <1>0, <1>2, <2>3 DEF Shape, MainInv, TypeOK, Done, Elsewhere
        <4> QED BY <1>0, <1>2, <1>3, <2>1, <2>3, <3>1, <4>1, <4>2, <4>3
                DEF Shape, TypeOK, Monotone, Elsewhere, watchVars, Done, MainPc
      <3> QED BY <2>3, <3>2, <3>3
    <2> QED BY <1>g, <2>2, <2>3 DEF Submit
  <1> QED BY <1>a, <1>b, <1>c, <1>d, <1>e, <1>f, <1>g DEF HandleStep

\* Recovery adopts only entries of jobs that exist.
LEMMA StartLemma ==
  ASSUME Shape, NEW p \in Provider, Start(p)
  PROVE  Shape' /\ Monotone
PROOF
  <1>1. UNCHANGED <<queue, marker, log, trimmed, job, now, buffer, pc, msg,
                    watchVars, faults, stops>>
    BY DEF Start
  <1>2. PICK entries \in [Operation -> Adoptable \cup {Null}] :
          /\ \A o \in Operation : entries[o] # Null => entries[o] \in Unreported(o)
          /\ active' = [active EXCEPT ![p] = entries]
    BY Zenon DEF Start
  <1>3. ASSUME NEW i \in Adoptable
        PROVE  i \in Item /\ Tracked(i)
    BY DEF Shape, JobInv, Adoptable, Tracked, KeyOfJob, Exists, Status
  <1>4. JobsKeep /\ NoNewJob
    BY <1>1 DEF JobsKeep, NoNewJob, Exists, Status
  <1>5. JobInv' /\ WatchInv'
    BY <1>1, <1>4, JobFrame, WatchFrame DEF Shape, watchVars
  <1>6. active' \in [Provider -> [Operation -> Item \cup {Null}]]
    <2>1. entries \in [Operation -> Item \cup {Null}]
      BY <1>2, <1>3
    <2> QED BY <1>2, <2>1 DEF Shape, TypeOK
  <1>7. ActiveInv'
    <2> SUFFICES ASSUME NEW q \in Provider, NEW o \in Operation, active'[q][o] # Null
                 PROVE  active'[q][o].op = o /\ Tracked(active[q][o])'
      BY DEF ActiveInv
    <2>1. CASE q = p
      <3>1. active'[q][o] = entries[o] /\ entries[o] \in Unreported(o)
        BY <1>2, <2>1 DEF Shape, TypeOK
      <3>2. entries[o] \in Adoptable /\ entries[o].op = o
        BY <3>1 DEF Unreported
      <3> QED BY <1>1, <1>3, <3>1, <3>2
              DEF Tracked, KeyOfJob, Exists, Status, KeyOf
    <2>2. CASE q # p
      <3>1. active'[q][o] = active[q][o]
        BY <1>2, <2>2 DEF Shape, TypeOK
      <3> QED BY <1>1, <3>1 DEF Shape, ActiveInv, Tracked, KeyOfJob, Exists, Status, KeyOf
    <2> QED BY <2>1, <2>2
  <1>8. mode' \in [Provider -> {"down", "up", "closing"}] /\ mode'[p] = "up"
        /\ \A q \in Provider : q # p => mode'[q] = mode[q] /\ active'[q] = active[q]
    BY <1>2 DEF Start, Shape, TypeOK
  <1>9. MainInv'
    BY <1>1, <1>8 DEF Shape, MainInv
  <1> QED BY <1>1, <1>4, <1>5, <1>6, <1>7, <1>8, <1>9
          DEF Shape, TypeOK, Monotone, LogGrows, watchVars

\* A process that ends leaves nothing behind.
LEMMA ForgetLemma ==
  ASSUME Shape, NEW p \in Provider, Forget(p), stops' \in 0..MaxStops
  PROVE  Shape' /\ Monotone
PROOF
  <1>1. UNCHANGED <<queue, marker, log, trimmed, job, now, faults>>
    BY DEF Forget
  <1>2. JobsKeep /\ NoNewJob
    BY <1>1 DEF JobsKeep, NoNewJob, Exists, Status
  <1>3. JobInv'
    BY <1>2, JobFrame DEF Shape
  <1>4. NoWatch \in Watch
    BY DEF NoWatch, Watch, WatchPc
  <1>5. TypeOK'
    BY <1>1, <1>4 DEF Shape, TypeOK, Forget, MainPc
  <1>6. ActiveInv'
    BY <1>1 DEF Shape, TypeOK, ActiveInv, Forget, Tracked, KeyOfJob, Exists, Status
  <1>7. MainInv'
    BY DEF Shape, TypeOK, MainInv, Forget
  <1>8. WatchInv'
    <2>1. watch'[p] = NoWatch /\ \A q \in Provider : q # p => watch'[q] = watch[q]
      BY DEF Shape, TypeOK, Forget
    <2> QED BY <1>1, <2>1
            DEF Shape, WatchInv, NoWatch, Tracked, KeyOfJob, Exists, Status
  <1> QED BY <1>1, <1>2, <1>3, <1>5, <1>6, <1>7, <1>8 DEF Shape, Monotone, LogGrows

\* Steps that leave jobs, events, entries and the watcher alone.
LEMMA PollFrame ==
  ASSUME Shape, UNCHANGED <<marker, log, job, active, watch>>
  PROVE  Monotone /\ JobInv' /\ ActiveInv' /\ WatchInv'
PROOF
  <1>1. JobsKeep /\ NoNewJob
    BY DEF JobsKeep, NoNewJob, Exists, Status
  <1> QED BY <1>1, JobFrame, ActiveFrame, WatchFrame DEF Shape, Monotone, LogGrows

\* Every step of the main thread keeps the shape of the state.
LEMMA MainLemma ==
  ASSUME Shape, NEW p \in Provider, MainStep(p)
  PROVE  Shape' /\ Monotone
PROOF
  <1>0. TypeOK /\ MainInv
    BY DEF Shape
  <1>1. CASE Start(p)
    BY <1>1, StartLemma
  <1>2. CASE Crash(p) \/ Exit(p)
    <2>1. Forget(p) /\ stops' \in 0..MaxStops
      BY <1>0, <1>2, BoundAssumption DEF Crash, Exit, TypeOK
    <2> QED BY <2>1, ForgetLemma
  <1>3. CASE Close(p)
    <2>1. /\ UNCHANGED <<queue, marker, log, trimmed, job, now, buffer, pc, msg,
                         active, watchVars, faults>>
          /\ mode' = [mode EXCEPT ![p] = "closing"] /\ mode[p] = "up"
          /\ stops' = stops + 1 /\ stops < MaxStops
      BY <1>3 DEF Close
    <2>2. TypeOK'
      BY <1>0, <2>1, BoundAssumption DEF TypeOK, watchVars
    <2>3. MainInv'
      BY <1>0, <2>1 DEF TypeOK, MainInv
    <2> QED BY <2>1, <2>2, <2>3, PollFrame DEF Shape, watchVars
  <1>4. CASE \E c \in Channel : Claim(p, c)
    <2>1. PICK c \in Channel : Claim(p, c)
      BY <1>4
    <2>2. UNCHANGED <<queue, marker, log, trimmed, job, now, mode, pc, msg,
                      active, watchVars, faults, stops>>
      BY <2>1 DEF Claim
    <2>3. PICK page \in SUBSET Delivery :
            buffer' = [buffer EXCEPT ![p] =
                         @ \cup {[id |-> d, recv |-> now] : d \in page}]
      BY <2>1 DEF Claim, Pending
    <2>4. {[id |-> d, recv |-> now] : d \in page} \subseteq Message
      <3>1. now \in Nat
        BY <1>0, BoundAssumption DEF TypeOK
      <3>2. \A d \in page : [id |-> d, recv |-> now] \in Message
        BY <3>1 DEF Message
      <3> QED BY <3>2
    <2>5. buffer' \in [Provider -> SUBSET Message]
      BY <1>0, <2>3, <2>4 DEF TypeOK
    <2>6. TypeOK' /\ MainInv'
      BY <1>0, <2>2, <2>5 DEF TypeOK, MainInv, watchVars
    <2> QED BY <2>2, <2>6, PollFrame DEF Shape, watchVars
  <1>5. CASE PollClaimed(p)
    <2>1. /\ UNCHANGED <<queue, marker, log, trimmed, job, now, mode, active,
                         watchVars, faults, stops>>
          /\ mode[p] = "up" /\ pc' = [pc EXCEPT ![p] = "check"]
      BY <1>5 DEF PollClaimed
    <2>2. PICK m \in buffer[p] : /\ buffer' = [buffer EXCEPT ![p] = @ \ {m}]
                                 /\ msg' = [msg EXCEPT ![p] = m]
      BY <1>5 DEF PollClaimed
    <2>3. m \in Message
      BY <1>0 DEF TypeOK
    <2>4. TypeOK'
      BY <1>0, <2>1, <2>2, <2>3 DEF TypeOK, watchVars, MainPc
    <2>5. MainInv'
      BY <1>0, <2>1, <2>2, <2>3 DEF TypeOK, MainInv
    <2> QED BY <2>1, <2>4, <2>5, PollFrame DEF Shape, watchVars
  <1>6. CASE PollNew(p)
    <2>1. UNCHANGED <<marker, log, trimmed, job, now, mode, buffer, active,
                      watchVars, stops>> /\ mode[p] = "up"
      BY <1>6 DEF PollNew
    <2>2. PICK d \in Delivery :
            /\ queue' = [queue EXCEPT ![d] = "pending"]
            /\ \/ /\ msg' = [msg EXCEPT ![p] = [id |-> d, recv |-> now]]
                  /\ pc' = [pc EXCEPT ![p] = "check"]
                  /\ UNCHANGED faults
               \/ Fault /\ UNCHANGED <<msg, pc>>
      BY <1>6 DEF PollNew, Unread
    <2>3. [id |-> d, recv |-> now] \in Message
      BY <1>0 DEF TypeOK, Message
    <2>4. /\ msg' \in [Provider -> Message \cup {Null}] /\ pc' \in [Provider -> MainPc]
          /\ faults' \in 0..MaxFaults
      <3>1. CASE /\ msg' = [msg EXCEPT ![p] = [id |-> d, recv |-> now]]
                 /\ pc' = [pc EXCEPT ![p] = "check"] /\ UNCHANGED faults
        <4>1. "check" \in MainPc
          BY DEF MainPc
        <4> QED BY <1>0, <2>3, <3>1, <4>1 DEF TypeOK
      <3>2. CASE Fault /\ UNCHANGED <<msg, pc>>
        BY <1>0, <3>2, BoundAssumption DEF TypeOK, Fault
      <3> QED BY <2>2, <3>1, <3>2
    <2>5. TypeOK'
      BY <1>0, <2>1, <2>2, <2>4 DEF TypeOK, watchVars
    <2>6. MainInv'
      BY <1>0, <2>1, <2>2, <2>3 DEF TypeOK, MainInv
    <2> QED BY <2>1, <2>5, <2>6, PollFrame DEF Shape, watchVars
  <1>7. CASE HandleStep(p)
    BY <1>7, HandleLemma
  <1> QED BY <1>1, <1>2, <1>3, <1>4, <1>5, <1>6, <1>7 DEF MainStep

-----------------------------------------------------------------------------
(* The watcher thread.                                                     *)

\* The snapshot and the current entry of a watcher are tracked items.
LEMMA WatchedLemma ==
  ASSUME Shape, NEW p \in Provider
  PROVE  /\ watch[p] \in Watch /\ watch[p].todo \subseteq Item
         /\ \A i \in watch[p].todo : Tracked(i)
         /\ watch[p].pc # "idle" =>
              /\ Watched(p) \in Item /\ Tracked(Watched(p))
              /\ Watched(p).sub \in Submission /\ Watched(p).op \in Operation
              /\ KeyOf(Watched(p)) \in Key
BY DEF Shape, TypeOK, WatchInv, Watch, Watched, Item, KeyOf, Key

\* One provider's watcher moves to w while jobs only make progress.
LEMMA WatchUpdate ==
  ASSUME Shape, NEW p \in Provider, NEW w \in Watch, JobsKeep,
         watch' = [watch EXCEPT ![p] = w],
         \A i \in w.todo : i \in Item /\ Tracked(i),
         w.pc # "idle" => w.item \in Item /\ Tracked(w.item),
         w.pc = "report" => w.event \in Event
  PROVE  watch' \in [Provider -> Watch] /\ WatchInv'
PROOF
  <1>1. ASSUME NEW i \in Item, Tracked(i)
        PROVE  Tracked(i)'
    BY <1>1 DEF Tracked, JobsKeep, KeyOfJob, Exists, Status, KeyOf, Item
  <1>2. /\ watch' \in [Provider -> Watch] /\ watch'[p] = w
        /\ \A q \in Provider : q # p => watch'[q] = watch[q]
    BY DEF Shape, TypeOK
  <1>3. ASSUME NEW q \in Provider
        PROVE  /\ \A i \in watch'[q].todo : Tracked(i)'
               /\ watch'[q].pc # "idle" =>
                    watch'[q].item \in Item /\ Tracked(watch[q].item)'
               /\ watch'[q].pc = "report" => watch'[q].event \in Event
    <2>1. CASE q = p
      BY <1>1, <1>2, <2>1 DEF Tracked, KeyOfJob, Exists, Status, KeyOf
    <2>2. CASE q # p
      <3>1. watch'[q] = watch[q]
        BY <1>2, <2>2
      <3>2. watch[q].todo \subseteq Item /\ \A i \in watch[q].todo : Tracked(i)
        BY WatchedLemma
      <3>3. \A i \in watch'[q].todo : Tracked(i)'
        BY <1>1, <3>1, <3>2
      <3>4. watch[q].pc # "idle" => watch[q].item \in Item /\ Tracked(watch[q].item)
        BY DEF Shape, WatchInv
      <3>5. watch'[q].pc # "idle" =>
              watch'[q].item \in Item /\ Tracked(watch[q].item)'
        BY <1>1, <3>1, <3>4 DEF Tracked, KeyOfJob, Exists, Status, KeyOf
      <3>6. watch[q].pc = "report" => watch[q].event \in Event
        BY DEF Shape, WatchInv
      <3> QED BY <3>1, <3>3, <3>5, <3>6
    <2> QED BY <2>1, <2>2
  <1>4. WatchInv'
    BY <1>3 DEF WatchInv
  <1> QED BY <1>2, <1>4

\* Leaving an entry for this pass keeps the watcher well formed.
LEMMA SkipLemma ==
  ASSUME Shape, NEW p \in Provider, JobsKeep, Skip(p)
  PROVE  watch' \in [Provider -> Watch] /\ WatchInv'
PROOF
  <1> DEFINE w == [NoWatch EXCEPT !.todo = watch[p].todo]
  <1>1. w \in Watch /\ w.pc = "idle" /\ w.todo = watch[p].todo
    BY WatchedLemma DEF Watch, NoWatch, WatchPc
  <1>2. watch' = [watch EXCEPT ![p] = w]
    BY DEF Skip
  <1>3. \A i \in w.todo : i \in Item /\ Tracked(i)
    BY <1>1, WatchedLemma
  <1> HIDE DEF w
  <1> QED BY <1>1, <1>2, <1>3, WatchUpdate

\* The watcher keeps its entry and moves to step, with status and event.
LEMMA MoveLemma ==
  ASSUME Shape, NEW p \in Provider, JobsKeep, watch[p].pc # "idle",
         NEW step \in WatchPc, NEW st \in LiveStatus \cup EndedStatus \cup {Null},
         NEW e \in Event \cup {Null}, step = "report" => e \in Event,
         watch' = [watch EXCEPT ![p].pc = step, ![p].status = st, ![p].event = e]
  PROVE  watch' \in [Provider -> Watch] /\ WatchInv'
PROOF
  <1> DEFINE w == [watch[p] EXCEPT !.pc = step, !.status = st, !.event = e]
  <1>0. /\ watch[p] \in Watch /\ Watched(p) \in Item /\ Tracked(Watched(p))
        /\ \A i \in watch[p].todo : i \in Item /\ Tracked(i)
    BY WatchedLemma
  <1>1. /\ w \in Watch /\ w.pc = step /\ w.todo = watch[p].todo
        /\ w.item = watch[p].item /\ w.event = e
    BY <1>0 DEF Watch
  <1>2. watch' = [watch EXCEPT ![p] = w]
    BY DEF Shape, TypeOK
  <1>3. w.item \in Item /\ Tracked(w.item)
    BY <1>0, <1>1 DEF Watched
  <1> HIDE DEF w
  <1> QED BY <1>0, <1>1, <1>2, <1>3, WatchUpdate

\* What a step of the watcher may do to each part of the state.
LogsOK == /\ log' \in [Key -> Seq(Event)] /\ trimmed' \in [Key -> Nat]
          /\ LogGrows
          /\ \A k \in Key : trimmed'[k] <= Len(log'[k])
JobsOK == job' \in [Submission -> Job] /\ JobsKeep /\ NoNewJob
MapsOK == /\ active' \in [Provider -> [Operation -> Item \cup {Null}]]
          /\ stopRequested' \in [Provider -> SUBSET Operation]
          /\ timeoutRequested' \in [Provider -> SUBSET Operation]
          /\ \A q \in Provider, o \in Operation :
               active'[q][o] = active[q][o] \/ active'[q][o] = Null
WatchOK == watch' \in [Provider -> Watch] /\ WatchInv'
FaultsOK == faults' \in 0..MaxFaults

\* A stop request leaves status and metadata alone.
LEMMA RequestStopLemma ==
  ASSUME TypeOK, NEW s \in Submission, NEW why \in {"cancel", "timeout"},
         RequestStop(s, why) \/ UNCHANGED job
  PROVE  JobsOK
PROOF
  <1>1. CASE UNCHANGED job
    BY <1>1 DEF TypeOK, JobsOK, JobsKeep, NoNewJob, Exists, Status
  <1>2. CASE job' = [job EXCEPT ![s].stopFor = why]
    <2>1. job' \in [Submission -> Job]
      BY <1>2 DEF TypeOK, Job
    <2>2. \A t \in Submission : job'[t].status = job[t].status /\ job'[t].item = job[t].item
      BY <1>2 DEF TypeOK, Job
    <2> QED BY <2>1, <2>2 DEF JobsOK, JobsKeep, NoNewJob, Exists, Status, Ended
  <1> QED BY <1>1, <1>2 DEF RequestStop

\* What check_once publishes is an event.
LEMMA ReportType ==
  ASSUME NEW p \in Provider, Watched(p).sub \in Submission
  PROVE  TerminalReport(p) \in Event
PROOF
  <1>1. CancelReport(p) \in Event
    BY DEF CancelReport, Event, TerminalType, Code
  <1>2. \A code \in FallbackCode : Fallback(p, code) \in Event
    BY DEF Fallback, Event, TerminalType, Code
  <1>3. {"EXECUTION_TIMEOUT", "RAY_JOB_FAILED", "TERMINAL_EVENT_MISSING",
         "RAY_JOB_STOPPED"} \subseteq FallbackCode
    BY DEF FallbackCode
  <1> QED BY <1>1, <1>2, <1>3 DEF TerminalReport

\* It is enough to look at what the step changes.
LEMMA WatchResult ==
  ASSUME Shape, UNCHANGED Untouched, LogsOK, JobsOK, MapsOK, WatchOK, FaultsOK
  PROVE  Shape' /\ Monotone
PROOF
  <1>0. TypeOK
    BY DEF Shape
  <1>1. JobInv'
    BY JobFrame DEF Shape, JobsOK
  <1>2. ActiveInv'
    <2> SUFFICES ASSUME NEW q \in Provider, NEW o \in Operation, active'[q][o] # Null
                 PROVE  active'[q][o].op = o /\ Tracked(active[q][o])'
      BY DEF ActiveInv, Tracked, KeyOfJob, Exists, Status, KeyOf
    <2>1. active'[q][o] = active[q][o]
      BY DEF MapsOK
    <2>2. active[q][o] \in Item /\ active[q][o].op = o /\ Tracked(active[q][o])
      BY <1>0, <2>1 DEF TypeOK, Shape, ActiveInv
    <2>3. active[q][o].sub \in Submission
      BY <2>2 DEF Item
    <2> QED BY <2>1, <2>2, <2>3
            DEF JobsOK, Tracked, JobsKeep, KeyOfJob, Exists, Status, KeyOf
  <1>3. MainInv'
    BY DEF Shape, MainInv, Untouched, MapsOK, TypeOK
  <1>4. TypeOK'
    BY <1>0 DEF TypeOK, Untouched, LogsOK, JobsOK, MapsOK, WatchOK, FaultsOK
  <1> QED BY <1>1, <1>2, <1>3, <1>4
          DEF Shape, Monotone, Untouched, LogsOK, JobsOK, WatchOK

\* Every step of the watcher keeps the shape of the state.
LEMMA WatchLemma ==
  ASSUME Shape, NEW p \in Provider, WatchStep(p)
  PROVE  Shape' /\ Monotone
PROOF
  <1>0. TypeOK /\ UNCHANGED Untouched
    BY DEF Shape, WatchStep, BeginPass, Observe, GetStatus, LookupRaises, Decide,
           Report, RemoveEntry, StopCancelled, StopTimedOut, StopRaises
  <1>1. ASSUME watch[p].pc # "idle"
        PROVE  /\ Watched(p) \in Item /\ Tracked(Watched(p))
               /\ Watched(p).sub \in Submission /\ Watched(p).op \in Operation
               /\ KeyOf(Watched(p)) \in Key
    BY <1>1, WatchedLemma
  <1>2. /\ watch[p] \in Watch /\ watch[p].todo \subseteq Item
        /\ \A i \in watch[p].todo : Tracked(i)
    BY WatchedLemma
  <1>4. ASSUME UNCHANGED <<log, trimmed>> PROVE LogsOK
    BY <1>0, <1>4 DEF TypeOK, LogsOK, LogGrows
  <1>5. ASSUME UNCHANGED job PROVE JobsOK /\ JobsKeep
    BY <1>0, <1>5 DEF TypeOK, JobsOK, JobsKeep, NoNewJob, Exists, Status
  <1>6. ASSUME Fault \/ UNCHANGED faults PROVE FaultsOK
    BY <1>0, <1>6, BoundAssumption DEF TypeOK, Fault, FaultsOK
  <1>7. ASSUME UNCHANGED <<active, Flags>> PROVE MapsOK
    BY <1>0, <1>7 DEF TypeOK, Flags, MapsOK
  <1>8. ASSUME Skip(p), JobsKeep PROVE WatchOK
    BY <1>8, SkipLemma DEF WatchOK
  <1>a. CASE BeginPass(p)
    <2> DEFINE new == {active[p][o] : o \in Operation} \ {Null}
               w == [watch[p] EXCEPT !.todo = new]
    <2>1. /\ UNCHANGED <<log, trimmed, job, active, Flags, faults>>
          /\ watch' = [watch EXCEPT ![p].todo = new] /\ watch[p].pc = "idle"
      BY <1>a DEF BeginPass, Watching
    <2>2. \A i \in new : i \in Item /\ Tracked(i)
      BY <1>0 DEF Shape, TypeOK, ActiveInv
    <2> HIDE DEF new
    <2>3. w \in Watch /\ w.pc = "idle" /\ w.todo = new
      BY <1>2, <2>1, <2>2 DEF Watch
    <2>4. watch' = [watch EXCEPT ![p] = w]
      BY <1>0, <2>1 DEF TypeOK
    <2> HIDE DEF w
    <2>5. WatchOK
      BY <1>5, <2>1, <2>2, <2>3, <2>4, WatchUpdate DEF WatchOK
    <2> QED BY <1>0, WatchResult, <1>4, <1>5, <1>6, <1>7, <2>1, <2>5
  <1>b. CASE Observe(p)
    <2>1. UNCHANGED <<log, trimmed, job, active, Flags, faults>>
      BY <1>b DEF Observe
    <2>2. PICK i \in watch[p].todo, step \in {"remove", "status"} :
            watch' = [watch EXCEPT ![p].todo = @ \ {i}, ![p].item = i, ![p].pc = step]
      BY <1>b DEF Observe
    <2> DEFINE w == [watch[p] EXCEPT !.todo = @ \ {i}, !.item = i, !.pc = step]
    <2>3. w \in Watch /\ w.pc = step /\ w.todo = watch[p].todo \ {i} /\ w.item = i
      BY <1>2, <2>2 DEF Watch, WatchPc
    <2>4. watch' = [watch EXCEPT ![p] = w]
      BY <1>0, <2>2 DEF TypeOK
    <2>5. i \in Item /\ Tracked(i) /\ step # "report"
      BY <1>2, <2>2
    <2> HIDE DEF w
    <2>6. WatchOK
      BY <1>2, <1>5, <2>1, <2>3, <2>4, <2>5, WatchUpdate DEF WatchOK
    <2> QED BY <1>0, WatchResult, <1>4, <1>5, <1>6, <1>7, <2>1, <2>6
  <1>c. CASE GetStatus(p)
    <2>1. /\ UNCHANGED <<log, trimmed, job, active, Flags, faults>>
          /\ watch[p].pc = "status"
          /\ watch' = [watch EXCEPT ![p].status = Status(Watched(p).sub),
                                    ![p].pc = "markers"]
      BY <1>c DEF GetStatus, Watching
    <2>2. PICK st \in LiveStatus \cup EndedStatus \cup {Null} :
            st = Status(Watched(p).sub)
      BY <1>0, <1>1, <2>1 DEF TypeOK, Job, Tracked, Exists, Status
    <2>3. watch' = [watch EXCEPT ![p].pc = "markers",
                                    ![p].status = st, ![p].event = watch[p].event]
      BY <1>0, <1>2, <2>1, <2>2 DEF TypeOK, Watch
    <2>4. "markers" \in WatchPc /\ watch[p].event \in Event \cup {Null}
      BY <1>2 DEF WatchPc, Watch
    <2>5. JobsKeep /\ watch[p].pc # "idle" /\ "markers" # "report"
      BY <1>5, <2>1
    <2>6. WatchOK
      BY <2>3, <2>4, <2>5, MoveLemma, Zenon DEF WatchOK
    <2> QED BY <1>0, WatchResult, <1>4, <1>5, <1>6, <1>7, <2>1, <2>6
  <1>d. CASE LookupRaises(p)
    <2>1. UNCHANGED <<log, trimmed, job, active, Flags>> /\ Fault
      BY <1>d DEF LookupRaises
    <2>2. CASE Skip(p)
      BY WatchResult, <1>0, <1>4, <1>5, <1>6, <1>7, <1>8, <2>1, <2>2
    <2>3. CASE /\ watch[p].pc = "idle"
               /\ \E i \in watch[p].todo : watch' = [watch EXCEPT ![p].todo = @ \ {i}]
      <3>1. PICK i \in watch[p].todo : watch' = [watch EXCEPT ![p].todo = @ \ {i}]
        BY <2>3
      <3> DEFINE w == [watch[p] EXCEPT !.todo = @ \ {i}]
      <3>2. w \in Watch /\ w.pc = "idle" /\ w.todo = watch[p].todo \ {i}
        BY <1>2, <2>3 DEF Watch
      <3>3. watch' = [watch EXCEPT ![p] = w]
        BY <1>0, <3>1 DEF TypeOK
      <3> HIDE DEF w
      <3>4. WatchOK
        BY <1>2, <1>5, <2>1, <3>2, <3>3, WatchUpdate DEF WatchOK
      <3> QED BY WatchResult, <1>0, <1>4, <1>5, <1>6, <1>7, <2>1, <3>4
    <2> QED BY <1>d, <2>2, <2>3 DEF LookupRaises, Watching
  <1>e. CASE Decide(p)
    <2>1. /\ UNCHANGED <<log, trimmed, job, active, Flags, faults>>
          /\ watch[p].pc = "markers"
      BY <1>e DEF Decide, Watching
    <2>2. /\ watch[p].status \in LiveStatus \cup EndedStatus \cup {Null}
          /\ watch[p].event \in Event \cup {Null}
      BY <1>2 DEF Watch
    <2>3. CASE watch' = [watch EXCEPT ![p].event = TerminalReport(p), ![p].pc = "report"]
      <3>1. watch' = [watch EXCEPT ![p].pc = "report", ![p].status = watch[p].status,
                                   ![p].event = TerminalReport(p)]
        BY <1>0, <1>2, <2>3 DEF TypeOK, Watch
      <3>2. "report" \in WatchPc /\ TerminalReport(p) \in Event
        BY <1>1, <2>1, ReportType DEF WatchPc
      <3>3. WatchOK
        BY <1>5, <2>1, <2>2, <3>1, <3>2, MoveLemma DEF WatchOK
      <3> QED BY <1>0, WatchResult, <1>4, <1>5, <1>6, <1>7, <2>1, <3>3
    <2>4. CASE \E step \in {"cancel", "timeout"} : Move(p, step)
      <3>1. PICK step \in {"cancel", "timeout"} : Move(p, step)
        BY <2>4
      <3>2. watch' = [watch EXCEPT ![p].pc = step, ![p].status = watch[p].status,
                                   ![p].event = watch[p].event]
        BY <1>0, <1>2, <3>1 DEF TypeOK, Watch, Move
      <3>3. step \in WatchPc /\ step # "report"
        BY DEF WatchPc
      <3>4. WatchOK
        BY <1>5, <2>1, <2>2, <3>2, <3>3, MoveLemma DEF WatchOK
      <3> QED BY <1>0, WatchResult, <1>4, <1>5, <1>6, <1>7, <2>1, <3>4
    <2>5. CASE Skip(p)
      BY <1>0, WatchResult, <1>4, <1>5, <1>6, <1>7, <2>1, <2>5, <1>8
    <2> QED BY <1>e, <2>3, <2>4, <2>5 DEF Decide
  <1>f. CASE Report(p)
    <2>1. /\ UNCHANGED <<job, active, Flags>> /\ watch[p].pc = "report"
          /\ \/ Publish(KeyOf(Watched(p)), watch[p].event)
             \/ PublishRaises(KeyOf(Watched(p)), watch[p].event)
          /\ Move(p, "remove") \/ Skip(p)
      BY <1>f DEF Report, Watching
    <2>2. KeyOf(Watched(p)) \in Key /\ watch[p].event \in Event
      BY <1>1, <2>1 DEF Shape, WatchInv
    <2>3. LogsOK /\ FaultsOK
      BY <1>0, <2>1, <2>2, PublishLemma DEF LogsOK, FaultsOK
    <2>4. CASE Skip(p)
      BY WatchResult, <1>0, <1>5, <1>7, <1>8, <2>1, <2>3, <2>4
    <2>5. CASE Move(p, "remove")
      <3>1. watch' = [watch EXCEPT ![p].pc = "remove", ![p].status = watch[p].status,
                                   ![p].event = watch[p].event]
        BY <1>0, <1>2, <2>5 DEF TypeOK, Watch, Move
      <3>2. /\ "remove" \in WatchPc
            /\ watch[p].status \in LiveStatus \cup EndedStatus \cup {Null}
        BY <1>2 DEF WatchPc, Watch
      <3>3. WatchOK
        BY <1>5, <2>1, <2>2, <3>1, <3>2, MoveLemma DEF WatchOK
      <3> QED BY WatchResult, <1>0, <1>5, <1>7, <2>1, <2>3, <3>3
    <2> QED BY <2>1, <2>4, <2>5
  <1>g. CASE RemoveEntry(p)
    <2>1. /\ UNCHANGED <<log, trimmed, job, faults>> /\ watch[p].pc = "remove"
          /\ active' = [active EXCEPT ![p][Watched(p).op] = Null]
          /\ stopRequested' = [stopRequested EXCEPT ![p] = @ \ {Watched(p).op}]
          /\ timeoutRequested' = [timeoutRequested EXCEPT ![p] = @ \ {Watched(p).op}]
          /\ Skip(p)
      BY <1>g DEF RemoveEntry, Watching, Remove
    <2>2. /\ active' \in [Provider -> [Operation -> Item \cup {Null}]]
          /\ \A q \in Provider, o \in Operation :
               active'[q][o] = active[q][o] \/ active'[q][o] = Null
      BY <1>0, <1>1, <2>1 DEF TypeOK
    <2>3. /\ stopRequested' \in [Provider -> SUBSET Operation]
          /\ timeoutRequested' \in [Provider -> SUBSET Operation]
      BY <1>0, <2>1 DEF TypeOK
    <2>4. MapsOK
      BY <2>2, <2>3 DEF MapsOK
    <2> QED BY <1>0, WatchResult, <1>4, <1>5, <1>6, <1>8, <2>1, <2>4
  <1>h. CASE StopCancelled(p) \/ StopTimedOut(p) \/ StopRaises(p)
    <2>1. /\ UNCHANGED <<log, trimmed, active>> /\ Skip(p) /\ watch[p].pc # "idle"
          /\ \/ RequestStop(Watched(p).sub, "cancel")
             \/ RequestStop(Watched(p).sub, "timeout")
             \/ UNCHANGED job
      <3> USE DEF Watching
      <3>1. CASE StopCancelled(p)
        BY <3>1 DEF StopCancelled
      <3>2. CASE StopTimedOut(p)
        BY <3>2 DEF StopTimedOut
      <3>3. CASE StopRaises(p)
        BY <3>3 DEF StopRaises
      <3> QED BY <1>h, <3>1, <3>2, <3>3
    <2>2. JobsOK
      BY <1>0, <1>1, <2>1, RequestStopLemma
    <2>3. /\ stopRequested' = stopRequested
             \/ stopRequested' = [stopRequested EXCEPT ![p] = @ \cup {Watched(p).op}]
          /\ timeoutRequested' = timeoutRequested
             \/ timeoutRequested' = [timeoutRequested EXCEPT ![p] = @ \cup {Watched(p).op}]
          /\ Fault \/ UNCHANGED faults
      BY <1>h DEF StopCancelled, StopTimedOut, StopRaises, Flags
    <2>4. FaultsOK
      BY <1>6, <2>3
    <2>5. /\ stopRequested' \in [Provider -> SUBSET Operation]
          /\ timeoutRequested' \in [Provider -> SUBSET Operation]
      <3> DEFINE o == Watched(p).op
      <3>1. o \in Operation /\ stopRequested[p] \cup {o} \in SUBSET Operation
            /\ timeoutRequested[p] \cup {o} \in SUBSET Operation
        BY <1>0, <1>1, <2>1 DEF TypeOK
      <3>2. /\ stopRequested' = stopRequested
               \/ stopRequested' = [stopRequested EXCEPT ![p] = stopRequested[p] \cup {o}]
            /\ timeoutRequested' = timeoutRequested
               \/ timeoutRequested' = [timeoutRequested EXCEPT ![p] = timeoutRequested[p] \cup {o}]
        BY <2>3
      <3> HIDE DEF o
      <3>3. stopRequested' \in [Provider -> SUBSET Operation]
        BY <1>0, <3>1, <3>2 DEF TypeOK
      <3>4. timeoutRequested' \in [Provider -> SUBSET Operation]
        BY <1>0, <3>1, <3>2 DEF TypeOK
      <3> QED BY <3>3, <3>4
    <2>6. MapsOK
      BY <1>0, <2>1, <2>5 DEF TypeOK, MapsOK
    <2> QED BY WatchResult, <1>0, <1>4, <1>8, <2>1, <2>2, <2>4, <2>6 DEF JobsOK
  <1> QED BY <1>a, <1>b, <1>c, <1>d, <1>e, <1>f, <1>g, <1>h DEF WatchStep

-----------------------------------------------------------------------------
(* The whole system.                                                       *)

\* A client's cancel key and the clock.
LEMMA EnvLemma ==
  ASSUME Shape, (\E k \in Cancellable : ClientCancel(k)) \/ Tick
  PROVE  Shape' /\ Monotone
PROOF
  <1>0. TypeOK /\ MainInv
    BY DEF Shape
  <1>1. /\ UNCHANGED <<queue, log, trimmed, job, mode, buffer, pc, msg, active,
                       stopRequested, timeoutRequested, watch, faults, stops>>
        /\ marker' \subseteq Key /\ marker \subseteq marker' /\ now' \in 0..MaxTime
    <2>1. CASE \E k \in Cancellable : ClientCancel(k)
      BY <1>0, <2>1, CancelAssumption DEF ClientCancel, TypeOK, mainVars, watchVars
    <2>2. CASE Tick
      BY <1>0, <2>2, BoundAssumption DEF Tick, TypeOK, mainVars, watchVars
    <2> QED BY <2>1, <2>2
  <1>2. JobsKeep /\ NoNewJob
    BY <1>1 DEF JobsKeep, NoNewJob, Exists, Status
  <1>3. JobInv' /\ ActiveInv' /\ WatchInv'
    BY <1>0, <1>1, <1>2, JobFrame, ActiveFrame, WatchFrame DEF Shape
  <1>4. MainInv' /\ TypeOK'
    BY <1>0, <1>1 DEF TypeOK, MainInv
  <1> QED BY <1>1, <1>2, <1>3, <1>4 DEF Shape, Monotone, LogGrows

\* Every step, a stuttering one included, keeps the shape and takes nothing back.
LEMMA StepLemma ==
  ASSUME Shape, [Next]_vars
  PROVE  Shape' /\ Monotone
PROOF
  <1>1. CASE \E p \in Provider : MainStep(p) \/ WatchStep(p)
    BY <1>1, MainLemma, WatchLemma
  <1>2. CASE \E s \in Submission : RayStep(s)
    <2>1. /\ TypeOK' /\ Monotone /\ NoNewJob
          /\ UNCHANGED <<RedisSide, ProviderSide>>
      BY <1>2, RayLemma
    <2>2. UNCHANGED <<mode, pc, msg, active, watch>>
      BY <2>1 DEF ProviderSide, mainVars, watchVars
    <2>3. JobInv' /\ ActiveInv' /\ WatchInv'
      BY <2>1, <2>2, JobFrame, ActiveFrame, WatchFrame DEF Shape, Monotone
    <2>4. MainInv'
      BY <2>2 DEF Shape, MainInv
    <2> QED BY <2>1, <2>3, <2>4 DEF Shape
  <1>3. CASE (\E k \in Cancellable : ClientCancel(k)) \/ Tick
    BY <1>3, EnvLemma
  <1>4. CASE UNCHANGED vars
    <2>1. UNCHANGED <<marker, log, job, active, watch>>
      BY <1>4 DEF vars
    <2>2. TypeOK' /\ MainInv'
      BY <1>4 DEF vars, Shape, TypeOK, MainInv
    <2> QED BY <2>1, <2>2, PollFrame DEF Shape
  <1> QED BY <1>1, <1>2, <1>3, <1>4 DEF Next

\* The initial state has the shape.
LEMMA InitLemma ==
  ASSUME Init
  PROVE  Shape
PROOF
  <1>1. TypeOK
    <2>1. NoJob \in Job
      BY DEF NoJob, Job
    <2>2. NoWatch \in Watch
      BY DEF NoWatch, Watch, WatchPc
    <2>3. log \in [Key -> Seq(Event)] /\ trimmed \in [Key -> Nat]
          /\ \A k \in Key : trimmed[k] <= Len(log[k])
      BY DEF Init
    <2> QED BY <2>1, <2>2, <2>3, BoundAssumption DEF Init, TypeOK, MainPc
  <1>2. JobInv
    BY DEF Init, JobInv, Exists, Status, NoJob
  <1>3. ActiveInv /\ MainInv
    BY DEF Init, ActiveInv, MainInv
  <1>4. WatchInv
    BY DEF Init, WatchInv, NoWatch
  <1> QED BY <1>1, <1>2, <1>3, <1>4 DEF Shape

\* Layer one of the invariant: every entry a provider or its watcher holds
\* belongs to a Ray job that exists and to the same operation.
THEOREM ShapeInvariant == Spec => []Shape
PROOF
  <1>1. Init => Shape
    BY InitLemma
  <1>2. Shape /\ [Next]_vars => Shape'
    BY StepLemma
  <1> QED BY <1>1, <1>2, PTL DEF Spec

\* Type correctness: every variable keeps its type and no event stream is
\* trimmed past its end, for every number of providers, tasks and faults.
THEOREM TypeCorrect == Spec => []TypeOK
PROOF
  <1>1. Shape => TypeOK
    BY DEF Shape
  <1> QED BY <1>1, ShapeInvariant, PTL

-----------------------------------------------------------------------------
(* Layer two: what handle knows at each step, and what an acknowledgement  *)
(* rests on.                                                               *)

\* A request that is settled stays settled.
LEMMA SettledKeep ==
  ASSUME Shape, Monotone, NEW r \in RequestType, Settled(r)
  PROVE  Settled(r)'
PROOF
  <1>0. r.sub \in Submission /\ KeyOf(r) \in Key
    BY DEF RequestType, KeyOf, Key
  <1>1. CASE Exists(r.sub)
    BY <1>0, <1>1 DEF Settled, Monotone, JobsKeep
  <1>2. CASE r.kind # "valid"
    BY <1>2 DEF Settled
  <1>3. CASE KeyOf(r) \in marker /\ Has(KeyOf(r), QueuedCancel)
    <2>1. Has(KeyOf(r), QueuedCancel)'
      BY <1>0, <1>3 DEF Has, Monotone, LogGrows, KeyOf, QueuedCancel
    <2> QED BY <1>3, <2>1 DEF Settled, Monotone, KeyOf
  <1>4. CASE KeyOf(r) \in marker /\ \E s \in Submission : Exists(s) /\ job[s].item.op = r.op
    <2>1. \E s \in Submission : Exists(s)' /\ job'[s].item.op = r.op
      BY <1>4 DEF Monotone, JobsKeep
    <2> QED BY <1>4, <2>1 DEF Settled, Monotone, KeyOf
  <1> QED BY <1>1, <1>2, <1>3, <1>4 DEF Settled

\* An XADD that returned is on the stream.
LEMMA PublishedLemma ==
  ASSUME TypeOK, NEW k \in Key, NEW e \in Event, Publish(k, e)
  PROVE  Has(k, e)'
PROOF
  <1>1. log' = [log EXCEPT ![k] = Append(log[k], e)] /\ log[k] \in Seq(Event)
    BY DEF Publish, AppendEvent, TypeOK
  <1>2. log'[k] = Append(log[k], e)
    BY <1>1 DEF TypeOK
  <1>3. /\ Len(log[k]) + 1 \in DOMAIN Append(log[k], e)
        /\ Append(log[k], e)[Len(log[k]) + 1] = e
    BY <1>1
  <1> QED BY <1>2, <1>3 DEF Has

\* What handle knows survives the steps of everybody else: they may only
\* remove entries of the active map.
LEMMA HandleKeep ==
  ASSUME Shape, Monotone, NEW p \in Provider, HandleOK(p),
         pc'[p] = pc[p], msg'[p] = msg[p],
         \A o \in Operation : active'[p][o] = active[p][o] \/ active'[p][o] = Null
  PROVE  HandleOK(p)'
PROOF
  <1>1. CASE pc[p] = "idle"
    BY <1>1 DEF HandleOK
  <1>2. CASE pc[p] # "idle"
    <2>1. Req(p) \in RequestType /\ Req(p).sub \in Submission /\ Req(p).op \in Operation
      BY <1>2, RequestLemma DEF RequestType
    <2>2. Req(p)' = Req(p) /\ MainKey(p)' = MainKey(p)
      BY DEF Req, MainKey, KeyOf
    <2>3. pc[p] \in {"admit", "submit"} => ~HasEntry(p)'
      BY <2>1, <2>2 DEF HandleOK, HasEntry
    <2>4. pc[p] = "cancelled" => MainKey(p) \in marker'
      BY DEF HandleOK, Monotone
    <2>5. pc[p] \in {"confirm", "reaccept", "accept"} => Exists(Req(p).sub)'
      <3>1. ASSUME Exists(Req(p).sub) PROVE Exists(Req(p).sub)'
        BY <2>1, <2>2, <3>1 DEF Monotone, JobsKeep, Exists, Status
      <3> QED BY <3>1 DEF HandleOK
    <2>6. pc[p] = "ack" => Settled(Req(p))'
      <3> SUFFICES ASSUME pc[p] = "ack" PROVE Settled(Req(p))'
        OBVIOUS
      <3>1. PICK r \in RequestType : r = Req(p)
        BY <2>1
      <3>2. Settled(r)
        BY <3>1 DEF HandleOK
      <3>3. Settled(r)'
        BY <3>2, SettledKeep
      <3>4. Req(p)' = r
        BY <2>2, <3>1
      <3> QED BY <3>3, <3>4 DEF Settled, KeyOf, Has, Exists, Status
    <2> QED BY <2>2, <2>3, <2>4, <2>5, <2>6 DEF HandleOK
  <1> QED BY <1>1, <1>2

\* Every step of handle establishes what the next one relies on.
LEMMA HandleStepLemma ==
  ASSUME Shape, Shape', Monotone, NEW p \in Provider, HandleOK(p), HandleStep(p)
  PROVE  HandleOK(p)'
PROOF
  <1>0. pc[p] # "idle"
    BY DEF HandleStep, CheckCancel, CheckCancelRaises, PublishCancelled, Reject,
           Resume, Confirm, Reaccept, CheckCancelAgain, Submit, Accept, Ack, At
  <1>1. /\ Req(p) \in RequestType /\ MainKey(p) \in Key
        /\ Req(p).sub \in Submission /\ Req(p).op \in Operation
    BY <1>0, RequestLemma DEF RequestType
  <1>2. TypeOK
    BY DEF Shape
  <1>3. ASSUME Done(p) PROVE HandleOK(p)'
    <2>1. pc'[p] = "idle"
      BY <1>2, <1>3 DEF Done, TypeOK
    <2> QED BY <2>1 DEF HandleOK
  <1>4. ASSUME NEW step \in MainPc, Goto(p, step)
        PROVE  /\ pc'[p] = step /\ Req(p)' = Req(p) /\ MainKey(p)' = MainKey(p)
    BY <1>2, <1>4 DEF Goto, TypeOK, Req, MainKey, KeyOf
  <1>5. ASSUME Exists(Req(p).sub) PROVE job'[Req(p).sub].status # "ABSENT"
    BY <1>1, <1>5 DEF Monotone, JobsKeep, Exists, Status
  \* The ways to reach the acknowledgement.
  <1>6. ASSUME Goto(p, "ack"), Req(p).kind # "valid"
        PROVE  HandleOK(p)'
    BY <1>4, <1>6 DEF HandleOK, Settled, MainPc
  <1>7. ASSUME Goto(p, "ack"), Exists(Req(p).sub)
        PROVE  HandleOK(p)'
    BY <1>4, <1>5, <1>7 DEF HandleOK, Settled, MainPc, Exists, Status
  <1>8. ASSUME HasEntry(p)
        PROVE  \E s \in Submission : Exists(s)' /\ job'[s].item.op = Req(p).op
    <2>1. PICK i \in Item : i.op = Req(p).op /\ Tracked(i)
      BY <1>1, <1>2, <1>8 DEF HasEntry, TypeOK, Shape, ActiveInv
    <2>2. i.sub \in Submission /\ Exists(i.sub) /\ job[i.sub].item.op = i.op
      BY <2>1 DEF Item, Tracked, KeyOfJob, KeyOf
    <2>3. Exists(i.sub)' /\ job'[i.sub].item.op = Req(p).op
      BY <2>1, <2>2 DEF Monotone, JobsKeep
    <2> QED BY <2>2, <2>3
  <1>a. CASE CheckCancel(p)
    <2>1. CASE Goto(p, "reject") /\ Req(p).kind # "valid"
      BY <1>4, <2>1 DEF HandleOK, MainPc
    <2>2. CASE Goto(p, "ack") /\ HasEntry(p) /\ MainKey(p) \in marker
      <3>1. /\ pc'[p] = "ack" /\ Req(p)' = Req(p) /\ MainKey(p) \in marker'
        BY <1>4, <2>2 DEF MainPc, Monotone
      <3> QED BY <1>8, <2>2, <3>1 DEF HandleOK, Settled, MainKey, KeyOf, Exists, Status
    <2>3. CASE Goto(p, "cancelled") /\ MainKey(p) \in marker
      BY <1>4, <2>3 DEF HandleOK, MainPc, Monotone
    <2>4. CASE Goto(p, "resume")
      BY <1>4, <2>4 DEF HandleOK, MainPc
    <2> QED BY <1>a, <2>1, <2>2, <2>3, <2>4 DEF CheckCancel
  <1>b. CASE CheckCancelRaises(p)
    BY <1>3, <1>b DEF CheckCancelRaises
  <1>c. CASE PublishCancelled(p)
    <2>1. MainKey(p) \in marker
      BY <1>c DEF PublishCancelled, At, HandleOK
    <2>2. CASE Publish(MainKey(p), QueuedCancel) /\ Goto(p, "ack")
      <3>1. PICK k \in Key : k = MainKey(p)
        BY <1>1
      <3>2. Has(k, QueuedCancel)'
        BY <1>2, <2>2, <3>1, PublishedLemma, EventTypes
      <3>3. pc'[p] = "ack" /\ MainKey(p)' = k /\ k \in marker'
        BY <1>4, <2>1, <2>2, <3>1 DEF MainPc, Monotone
      <3> QED BY <3>2, <3>3 DEF HandleOK, Settled, MainKey, Has
    <2> QED BY <1>3, <1>c, <2>2 DEF PublishCancelled, Announce
  <1>d. CASE Reject(p)
    BY <1>6, <1>d DEF Reject, At, HandleOK
  <1>e. CASE Resume(p)
    <2>1. CASE Goto(p, "admit") /\ ~HasEntry(p) /\ UNCHANGED active
      BY <1>4, <2>1 DEF HandleOK, MainPc, HasEntry
    <2>2. CASE Goto(p, "confirm") /\ HasEntry(p)
               /\ SameIdentity(active[p][Req(p).op], Req(p))
      <3>1. active[p][Req(p).op] # Null /\ active[p][Req(p).op].sub = Req(p).sub
        BY <2>2 DEF HasEntry, SameIdentity
      <3>2. Exists(Req(p).sub)
        BY <1>1, <3>1 DEF Shape, ActiveInv, Tracked
      <3> QED BY <1>4, <1>5, <2>2, <3>2 DEF HandleOK, MainPc, Exists, Status
    <2> QED BY <1>3, <1>e, <2>1, <2>2 DEF Resume
  <1>f. CASE Confirm(p)
    <2>1. Exists(Req(p).sub)
      BY <1>f DEF Confirm, At, HandleOK
    <2>2. CASE Goto(p, "reaccept")
      BY <1>4, <1>5, <2>1, <2>2 DEF HandleOK, MainPc, Exists, Status
    <2> QED BY <1>7, <1>f, <2>1, <2>2 DEF Confirm
  <1>g. CASE Reaccept(p) \/ Accept(p)
    <2>1. Exists(Req(p).sub)
      BY <1>g DEF Reaccept, Accept, At, HandleOK
    <2> QED BY <1>3, <1>7, <1>g, <2>1 DEF Reaccept, Accept, Announce
  <1>h. CASE CheckCancelAgain(p)
    <2>1. ~HasEntry(p) /\ UNCHANGED active
      BY <1>h DEF CheckCancelAgain, At, HandleOK
    <2>2. CASE Goto(p, "cancelled") /\ MainKey(p) \in marker
      BY <1>4, <2>2 DEF HandleOK, MainPc, Monotone
    <2>3. CASE Goto(p, "reject") /\ Req(p).kind = "oversize"
      BY <1>4, <2>3 DEF HandleOK, MainPc
    <2>4. CASE Goto(p, "submit")
      BY <1>4, <2>1, <2>4 DEF HandleOK, MainPc, HasEntry
    <2> QED BY <1>h, <2>2, <2>3, <2>4 DEF CheckCancelAgain
  <1>i. CASE Submit(p)
    <2>1. CASE CreateJob(NewItem(p)) /\ Goto(p, "accept")
      <3>1. PICK it \in Item : it = NewItem(p) /\ it.sub = Req(p).sub
        BY <1>0, NewItemLemma
      <3>2. Tracked(it)'
        BY <1>0, <2>1, <3>1, CreateLemma
      <3>3. pc'[p] = "accept" /\ Req(p)' = Req(p)
        BY <1>4, <2>1 DEF MainPc
      <3> QED BY <3>1, <3>2, <3>3 DEF HandleOK, Tracked, Exists, Status
    <2> QED BY <1>3, <1>i, <2>1 DEF Submit
  <1>j. CASE Ack(p)
    BY <1>3, <1>j DEF Ack
  <1> QED BY <1>a, <1>b, <1>c, <1>d, <1>e, <1>f, <1>g, <1>h, <1>i, <1>j DEF HandleStep

\* The rest of a provider leaves to handle what it needs, or is idle.
LEMMA OwnStepLemma ==
  ASSUME Shape, Shape', Monotone, NEW p \in Provider, HandleOK(p),
         MainStep(p) \/ WatchStep(p)
  PROVE  HandleOK(p)'
PROOF
  <1>0. TypeOK /\ MainInv
    BY DEF Shape
  <1>1. CASE HandleStep(p)
    BY <1>1, HandleStepLemma
  <1>2. CASE Start(p)
    <2>1. pc[p] = "idle" /\ pc' = pc
      BY <1>0, <1>2 DEF Start, MainInv
    <2> QED BY <2>1 DEF HandleOK
  <1>3. CASE Crash(p) \/ Exit(p)
    <2>1. pc'[p] = "idle"
      BY <1>0, <1>3 DEF Crash, Exit, Forget, TypeOK
    <2> QED BY <2>1 DEF HandleOK
  <1>4. CASE Close(p) \/ \E c \in Channel : Claim(p, c)
    <2>1. UNCHANGED <<pc, msg, active>>
      BY <1>4 DEF Close, Claim
    <2> QED BY <2>1, HandleKeep
  <1>5. CASE PollClaimed(p)
    <2>1. pc'[p] = "check"
      BY <1>0, <1>5 DEF PollClaimed, TypeOK
    <2> QED BY <2>1 DEF HandleOK
  <1>6. CASE PollNew(p)
    <2>1. pc[p] = "idle" /\ (pc'[p] = "check" \/ UNCHANGED pc)
      BY <1>0, <1>6 DEF PollNew, TypeOK
    <2> QED BY <2>1 DEF HandleOK
  <1>7. CASE WatchStep(p)
    <2>1. UNCHANGED <<pc, msg>>
      BY <1>7 DEF WatchStep, BeginPass, Observe, GetStatus, LookupRaises, Decide,
           Report, RemoveEntry, StopCancelled, StopTimedOut, StopRaises, Untouched
    <2>2. \/ UNCHANGED active
          \/ \E o \in Operation : active' = [active EXCEPT ![p][o] = Null]
      <3>1. CASE RemoveEntry(p)
        <4>1. Watched(p).op \in Operation
          BY <3>1, WatchedLemma DEF RemoveEntry, Watching
        <4> QED BY <3>1, <4>1 DEF RemoveEntry, Remove
      <3>2. CASE ~RemoveEntry(p)
        BY <1>7, <3>2 DEF WatchStep, BeginPass, Observe, GetStatus, LookupRaises,
             Decide, Report, StopCancelled, StopTimedOut, StopRaises
      <3> QED BY <3>1, <3>2
    <2>3. \A o \in Operation : active'[p][o] = active[p][o] \/ active'[p][o] = Null
      BY <1>0, <2>2 DEF TypeOK
    <2> QED BY <2>1, <2>3, HandleKeep
  <1> QED BY <1>1, <1>2, <1>3, <1>4, <1>5, <1>6, <1>7 DEF MainStep

\* A provider leaves the memory of the others alone.
LEMMA OthersLemma ==
  ASSUME TypeOK, NEW p \in Provider, NEW q \in Provider, p # q,
         MainStep(q) \/ WatchStep(q)
  PROVE  /\ pc'[p] = pc[p] /\ msg'[p] = msg[p] /\ active'[p] = active[p]
         /\ stopRequested'[p] = stopRequested[p] /\ watch'[p] = watch[p]
PROOF
  <1>1. CASE HandleStep(q)
    <2>1. UNCHANGED watchVars
      BY <1>1 DEF HandleStep, CheckCancel, CheckCancelRaises, PublishCancelled,
           Reject, Resume, Confirm, Reaccept, CheckCancelAgain, Submit, Accept, Ack,
           Announce, Elsewhere
    <2>2. Done(q) \/ \E step \in MainPc : Goto(q, step)
      BY <1>1 DEF HandleStep, CheckCancel, CheckCancelRaises, PublishCancelled,
           Reject, Resume, Confirm, Reaccept, CheckCancelAgain, Submit, Accept, Ack,
           Announce, MainPc
    <2>3. pc'[p] = pc[p] /\ msg'[p] = msg[p]
      BY <2>2 DEF TypeOK, Done, Goto
    <2>4. \/ UNCHANGED active
          \/ \E o : active' = [active EXCEPT ![q][o] = Null]
          \/ \E i : active' = [active EXCEPT ![q][i.op] = i]
      BY <1>1 DEF HandleStep, CheckCancel, CheckCancelRaises, PublishCancelled,
           Reject, Resume, Confirm, Reaccept, CheckCancelAgain, Submit, Accept, Ack,
           Announce, Put, Remove
    <2>5. active'[p] = active[p]
      BY <2>4 DEF TypeOK
    <2> QED BY <2>1, <2>3, <2>5 DEF watchVars
  <1>2. CASE Start(q)
    BY <1>2 DEF Start, TypeOK, watchVars
  <1>3. CASE Crash(q) \/ Exit(q)
    BY <1>3 DEF Crash, Exit, Forget, TypeOK
  <1>4. CASE Close(q) \/ (\E c \in Channel : Claim(q, c))
    BY <1>4 DEF Close, Claim, watchVars
  <1>5. CASE PollClaimed(q) \/ PollNew(q)
    BY <1>5 DEF PollClaimed, PollNew, TypeOK, watchVars
  <1>6. CASE WatchStep(q)
    <2>1. UNCHANGED <<pc, msg>>
      BY <1>6 DEF WatchStep, BeginPass, Observe, GetStatus, LookupRaises, Decide,
           Report, RemoveEntry, StopCancelled, StopTimedOut, StopRaises, Untouched
    <2>2. active'[p] = active[p]
      BY <1>6 DEF WatchStep, BeginPass, Observe, GetStatus, LookupRaises, Decide,
           Report, RemoveEntry, StopCancelled, StopTimedOut, StopRaises, Remove, TypeOK
    <2>3. stopRequested'[p] = stopRequested[p]
      BY <1>6 DEF WatchStep, BeginPass, Observe, GetStatus, LookupRaises, Decide,
           Report, RemoveEntry, StopCancelled, StopTimedOut, StopRaises, Flags, TypeOK
    <2>4. watch'[p] = watch[p]
      <3>1. ASSUME Skip(q) \/ \E step : Move(q, step) PROVE watch'[p] = watch[p]
        BY <3>1 DEF Skip, Move, TypeOK
      <3>2. CASE BeginPass(q) \/ Observe(q) \/ GetStatus(q)
        BY <3>2 DEF BeginPass, Observe, GetStatus, TypeOK
      <3>3. CASE LookupRaises(q)
        BY <3>1, <3>3 DEF LookupRaises, TypeOK
      <3>4. CASE Decide(q)
        BY <3>1, <3>4 DEF Decide, TypeOK
      <3>5. CASE Report(q) \/ RemoveEntry(q) \/ StopCancelled(q) \/ StopTimedOut(q)
                 \/ StopRaises(q)
        BY <3>1, <3>5 DEF Report, RemoveEntry, StopCancelled, StopTimedOut, StopRaises
      <3> QED BY <1>6, <3>2, <3>3, <3>4, <3>5 DEF WatchStep
    <2> QED BY <2>1, <2>2, <2>3, <2>4
  <1> QED BY <1>1, <1>2, <1>3, <1>4, <1>5, <1>6 DEF MainStep

\* Ray, the drivers, clients and the clock leave the memory of providers alone.
LEMMA OutsideLemma ==
  ASSUME Shape, [Next]_vars,
         ~ \E q \in Provider : MainStep(q) \/ WatchStep(q)
  PROVE  UNCHANGED <<queue, pc, msg, active, stopRequested, watch>>
PROOF
  <1>1. CASE \E s \in Submission : RayStep(s)
    BY <1>1, RayLemma DEF RedisSide, ProviderSide, mainVars, watchVars
  <1>2. CASE (\E k \in Cancellable : ClientCancel(k)) \/ Tick
    BY <1>2 DEF ClientCancel, Tick, mainVars, watchVars
  <1>3. CASE UNCHANGED vars
    BY <1>3 DEF vars
  <1> QED BY <1>1, <1>2, <1>3 DEF Next

\* What handle knows is inductive.
LEMMA HandleInductive ==
  ASSUME Shape, HandleInv, [Next]_vars
  PROVE  HandleInv'
PROOF
  <1>0. Shape' /\ Monotone /\ TypeOK
    BY StepLemma DEF Shape
  <1> SUFFICES ASSUME NEW p \in Provider PROVE HandleOK(p)'
    BY DEF HandleInv
  <1>1. HandleOK(p)
    BY DEF HandleInv
  <1>2. CASE MainStep(p) \/ WatchStep(p)
    BY <1>0, <1>1, <1>2, OwnStepLemma
  <1>3. CASE \E q \in Provider : q # p /\ (MainStep(q) \/ WatchStep(q))
    <2>1. pc'[p] = pc[p] /\ msg'[p] = msg[p] /\ active'[p] = active[p]
      BY <1>0, <1>3, OthersLemma
    <2> QED BY <1>0, <1>1, <2>1, HandleKeep
  <1>4. CASE ~ \E q \in Provider : MainStep(q) \/ WatchStep(q)
    <2>1. pc'[p] = pc[p] /\ msg'[p] = msg[p] /\ active'[p] = active[p]
      BY <1>4, OutsideLemma
    <2> QED BY <1>0, <1>1, <2>1, HandleKeep
  <1> QED BY <1>2, <1>3, <1>4

\* Only the acknowledgement of the message at hand settles a delivery.
LEMMA AckLemma ==
  ASSUME Shape, [Next]_vars, NEW d \in Delivery,
         queue'[d] = "acked", queue[d] # "acked"
  PROVE  \E p \in Provider : pc[p] = "ack" /\ Req(p) = Request[d]
PROOF
  <1>0. TypeOK
    BY DEF Shape
  <1>1. PICK p \in Provider : MainStep(p) \/ WatchStep(p)
    BY OutsideLemma
  <1>2. CASE Ack(p)
    <2>1. msg[p].id \in Delivery /\ pc[p] = "ack"
      BY <1>2, RequestLemma DEF Ack, At
    <2>2. d = msg[p].id
      BY <1>0, <1>2, <2>1 DEF Ack, TypeOK
    <2> QED BY <2>1, <2>2 DEF Req
  <1>3. CASE HandleStep(p) /\ ~Ack(p)
    <2>1. UNCHANGED queue
      BY <1>3 DEF HandleStep, CheckCancel, CheckCancelRaises, PublishCancelled,
           Reject, Resume, Confirm, Reaccept, CheckCancelAgain, Submit, Accept,
           Announce
    <2> QED BY <2>1
  <1>4. CASE PollNew(p)
    <2>1. \E e \in Delivery : queue' = [queue EXCEPT ![e] = "pending"]
      BY <1>4 DEF PollNew, Unread
    <2> QED BY <1>0, <2>1 DEF TypeOK
  <1>5. CASE Start(p) \/ Crash(p) \/ Close(p) \/ Exit(p)
             \/ (\E c \in Channel : Claim(p, c)) \/ PollClaimed(p)
    <2>1. UNCHANGED queue
      BY <1>5 DEF Start, Crash, Close, Exit, Forget, Claim, PollClaimed
    <2> QED BY <2>1
  <1>6. CASE WatchStep(p)
    <2>1. UNCHANGED queue
      BY <1>6 DEF WatchStep, BeginPass, Observe, GetStatus, LookupRaises, Decide,
           Report, RemoveEntry, StopCancelled, StopTimedOut, StopRaises, Untouched
    <2> QED BY <2>1
  <1> QED BY <1>1, <1>2, <1>3, <1>4, <1>5, <1>6 DEF MainStep

\* "ACK means Ray accepted the execution", for every number of providers,
\* deliveries, crashes and failing calls: see AckedIsSettled.
THEOREM AcknowledgedIsSettled == Spec => []AckedIsSettled
PROOF
  <1> DEFINE Inv == HandleInv /\ AckedIsSettled
  <1>1. Init => Inv
    BY DEF Init, HandleInv, HandleOK, AckedIsSettled
  <1>2. Shape /\ Inv /\ [Next]_vars => Inv'
    <2> SUFFICES ASSUME Shape, HandleInv, AckedIsSettled, [Next]_vars
                 PROVE  HandleInv' /\ AckedIsSettled'
      OBVIOUS
    <2>1. HandleInv' /\ Monotone
      BY HandleInductive, StepLemma
    <2>2. ASSUME NEW d \in Delivery, queue'[d] = "acked"
          PROVE  Settled(Request[d])'
      <3>1. Settled(Request[d])
        BY <2>2, AckLemma DEF AckedIsSettled, HandleInv, HandleOK
      <3>2. Request[d] \in RequestType
        BY RequestAssumption
      <3> QED BY <2>1, <3>1, <3>2, SettledKeep
    <2> QED BY <2>1, <2>2 DEF AckedIsSettled
  <1>3. Inv => AckedIsSettled
    OBVIOUS
  <1> HIDE DEF Inv
  <1> QED BY <1>1, <1>2, <1>3, ShapeInvariant, PTL DEF Spec

-----------------------------------------------------------------------------
(* The active map.                                                         *)

\* What handle knows holds of every behaviour.
THEOREM HandleInvariant == Spec => []HandleInv
PROOF
  <1>1. Init => HandleInv
    BY DEF Init, HandleInv, HandleOK
  <1>2. Shape /\ HandleInv /\ [Next]_vars => HandleInv'
    BY HandleInductive
  <1> QED BY <1>1, <1>2, ShapeInvariant, PTL DEF Spec

\* No step of a provider puts an entry in the place of another one.
LEMMA OwnEntryLemma ==
  ASSUME Shape, NEW p \in Provider, HandleOK(p), MainStep(p) \/ WatchStep(p),
         NEW o \in Operation, active[p][o] # Null, active'[p][o] # Null
  PROVE  active'[p][o] = active[p][o]
PROOF
  <1>0. TypeOK /\ MainInv
    BY DEF Shape
  <1>1. CASE Submit(p)
    <2>1. CASE Put(p, NewItem(p))
      <3>1. ~HasEntry(p) /\ pc[p] # "idle"
        BY <1>1 DEF Submit, At, HandleOK
      <3>2. NewItem(p).op = Req(p).op /\ Req(p).op \in Operation
        BY <3>1, NewItemLemma, RequestLemma DEF RequestType
      <3>3. o # Req(p).op
        BY <3>1 DEF HasEntry
      <3> QED BY <1>0, <2>1, <3>2, <3>3 DEF Put, TypeOK
    <2>2. CASE UNCHANGED active
      BY <2>2
    <2> QED BY <1>1, <2>1, <2>2 DEF Submit
  <1>2. CASE Confirm(p)
    <2>1. UNCHANGED active \/ \E x : active' = [active EXCEPT ![p][x] = Null]
      BY <1>2 DEF Confirm, Remove
    <2> QED BY <1>0, <2>1 DEF TypeOK
  <1>3. CASE HandleStep(p) /\ ~Submit(p) /\ ~Confirm(p)
    <2>1. UNCHANGED active
      BY <1>3 DEF HandleStep, CheckCancel, CheckCancelRaises, PublishCancelled,
           Reject, Resume, Reaccept, CheckCancelAgain, Accept, Ack, Announce
    <2> QED BY <2>1
  <1>4. CASE Start(p)
    BY <1>0, <1>4 DEF Start, MainInv
  <1>5. CASE Crash(p) \/ Exit(p)
    BY <1>0, <1>5 DEF Crash, Exit, Forget, TypeOK
  <1>6. CASE Close(p) \/ (\E c \in Channel : Claim(p, c)) \/ PollClaimed(p) \/ PollNew(p)
    <2>1. UNCHANGED active
      BY <1>6 DEF Close, Claim, PollClaimed, PollNew
    <2> QED BY <2>1
  <1>7. CASE WatchStep(p)
    <2>1. UNCHANGED active \/ \E x : active' = [active EXCEPT ![p][x] = Null]
      BY <1>7 DEF WatchStep, BeginPass, Observe, GetStatus, LookupRaises, Decide,
           Report, RemoveEntry, StopCancelled, StopTimedOut, StopRaises, Remove
    <2> QED BY <1>0, <2>1 DEF TypeOK
  <1> QED BY <1>1, <1>2, <1>3, <1>4, <1>5, <1>6, <1>7 DEF MainStep

\* The watcher never loses sight of a submission because another one took its
\* entry: see EntryNeverReplaced.
THEOREM EntriesKept == Spec => EntryNeverReplaced
PROOF
  <1> DEFINE Kept == \A p \in Provider, o \in Operation :
                       active[p][o] # Null /\ active'[p][o] # Null =>
                         active'[p][o].sub = active[p][o].sub
  <1>1. Shape /\ HandleInv /\ [Next]_vars => [Kept]_vars
    <2> SUFFICES ASSUME Shape, HandleInv, [Next]_vars,
                        NEW p \in Provider, NEW o \in Operation,
                        active[p][o] # Null, active'[p][o] # Null
                 PROVE  active'[p][o].sub = active[p][o].sub
      OBVIOUS
    <2>0. TypeOK
      BY DEF Shape
    <2>1. CASE MainStep(p) \/ WatchStep(p)
      BY <2>1, OwnEntryLemma DEF HandleInv
    <2>2. CASE \E q \in Provider : q # p /\ (MainStep(q) \/ WatchStep(q))
      BY <2>0, <2>2, OthersLemma
    <2>3. CASE ~ \E q \in Provider : MainStep(q) \/ WatchStep(q)
      BY <2>3, OutsideLemma
    <2> QED BY <2>1, <2>2, <2>3
  <1> QED BY <1>1, ShapeInvariant, HandleInvariant, PTL DEF Spec, EntryNeverReplaced

-----------------------------------------------------------------------------
(* Layer three: what the watcher may say of a cancelled operation.         *)

\* What the watcher knows survives every step that leaves it alone.
LEMMA StopKeep ==
  ASSUME Shape, Monotone, NEW p \in Provider, StopOK(p),
         stopRequested'[p] = stopRequested[p], watch'[p] = watch[p]
  PROVE  StopOK(p)'
PROOF
  <1>1. ASSUME NEW o, CancelAsked(o) PROVE CancelAsked(o)'
    BY <1>1 DEF CancelAsked, Monotone
  <1>2. ASSUME NEW s \in Submission, Status(s) \in EndedStatus
        PROVE  Status(s)' = Status(s)
    BY <1>2 DEF Monotone, JobsKeep, Status, Exists, Ended, EndedStatus
  <1>3. watch[p].pc # "idle" => watch[p].item.sub \in Submission
    BY DEF Shape, WatchInv, Item
  <1>4. \A o \in stopRequested'[p] : CancelAsked(o)'
    BY <1>1 DEF StopOK
  <1>5. watch'[p].pc = "cancel" => CancelAsked(watch[p].item.op)'
    BY <1>1 DEF StopOK, CancelAsked
  <1>6. watch'[p].pc = "markers" /\ watch'[p].status \in EndedStatus =>
          Status(watch[p].item.sub)' = watch'[p].status
    BY <1>2, <1>3 DEF StopOK, Status
  <1>7. watch'[p].pc = "report" /\ watch'[p].event.type = "CANCELLED" =>
          /\ watch'[p].event.sub = watch'[p].item.sub
          /\ Status(watch[p].item.sub)' = "STOPPED"
          /\ CancelAsked(watch[p].item.op)'
    <2> SUFFICES ASSUME watch[p].pc = "report" /\ watch[p].event.type = "CANCELLED"
                 PROVE  /\ watch'[p].event.sub = watch'[p].item.sub
                        /\ Status(watch[p].item.sub)' = "STOPPED"
                        /\ CancelAsked(watch[p].item.op)'
      OBVIOUS
    <2>1. PICK s \in Submission, o \in Operation :
            s = watch[p].item.sub /\ o = watch[p].item.op
      BY DEF Shape, WatchInv, Item
    <2>2. Status(s) = "STOPPED" /\ CancelAsked(o)
      BY <2>1 DEF StopOK, Status, CancelAsked
    <2>3. Status(s)' = "STOPPED" /\ CancelAsked(o)'
      BY <1>1, <1>2, <2>2 DEF EndedStatus
    <2> QED BY <2>1, <2>3 DEF StopOK, Status, CancelAsked
  <1> QED BY <1>4, <1>5, <1>6, <1>7 DEF StopOK

\* Every step of the watcher establishes what the next one relies on.
LEMMA StopStepLemma ==
  ASSUME Shape, Monotone, NEW p \in Provider, StopOK(p), WatchStep(p)
  PROVE  StopOK(p)'
PROOF
  <1>0. TypeOK /\ watch[p] \in Watch /\ UNCHANGED marker
    BY WatchedLemma DEF Shape, WatchStep, BeginPass, Observe, GetStatus, LookupRaises,
       Decide, Report, RemoveEntry, StopCancelled, StopTimedOut, StopRaises, Untouched
  <1>1. ASSUME watch[p].pc # "idle"
        PROVE  Watched(p) \in Item /\ Watched(p).sub \in Submission
    BY <1>1, WatchedLemma
  <1>2. \A o \in stopRequested[p] : CancelAsked(o)'
    BY <1>0 DEF StopOK, CancelAsked
  \* Where the thread has not come to a conclusion.
  <1>3. ASSUME watch'[p].pc \in {"idle", "status", "remove", "timeout"},
               \A o \in stopRequested'[p] : CancelAsked(o)'
        PROVE  StopOK(p)'
    BY <1>3 DEF StopOK
  <1>4. ASSUME Skip(p) PROVE watch'[p].pc = "idle"
    BY <1>0, <1>4 DEF Skip, TypeOK, NoWatch
  <1>5. ASSUME NEW step, Move(p, step)
        PROVE  watch'[p].pc = step /\ watch'[p].item = watch[p].item
    BY <1>0, <1>5 DEF Move, TypeOK, Watch
  <1>a. CASE BeginPass(p) \/ Observe(p)
    <2>1. UNCHANGED stopRequested
      BY <1>a DEF BeginPass, Observe, Flags
    <2>2. CASE BeginPass(p)
      BY <1>0, <1>2, <1>3, <2>1, <2>2 DEF BeginPass, TypeOK, Watch, Watching
    <2>3. CASE Observe(p)
      <3>1. PICK i \in watch[p].todo, step \in {"remove", "status"} :
              watch' = [watch EXCEPT ![p].todo = @ \ {i}, ![p].item = i, ![p].pc = step]
        BY <2>3 DEF Observe
      <3>2. watch'[p].pc = step
        BY <1>0, <3>1 DEF TypeOK, Watch
      <3> QED BY <1>2, <1>3, <2>1, <3>1, <3>2
    <2> QED BY <1>a, <2>2, <2>3
  <1>b. CASE GetStatus(p)
    <2>1. /\ UNCHANGED <<stopRequested, job>> /\ watch'[p].pc = "markers"
          /\ watch'[p].item = watch[p].item
          /\ watch'[p].status = Status(watch[p].item.sub)
      BY <1>0, <1>b DEF GetStatus, Flags, TypeOK, Watch, Watched
    <2> QED BY <1>2, <2>1 DEF StopOK, Status
  <1>c. CASE LookupRaises(p)
    <2>1. UNCHANGED stopRequested
      BY <1>c DEF LookupRaises, Flags
    <2>2. CASE Skip(p)
      BY <1>2, <1>3, <1>4, <2>1, <2>2
    <2>3. CASE /\ watch[p].pc = "idle"
               /\ \E i : watch' = [watch EXCEPT ![p].todo = @ \ {i}]
      <3>1. watch'[p].pc = "idle"
        BY <1>0, <2>3 DEF TypeOK, Watch
      <3> QED BY <1>2, <1>3, <2>1, <3>1
    <2> QED BY <1>c, <2>2, <2>3 DEF LookupRaises, Watching
  <1>d. CASE Decide(p)
    <2>1. UNCHANGED <<stopRequested, job>> /\ watch[p].pc = "markers"
      BY <1>d DEF Decide, Flags, Watching
    <2>2. ASSUME Cancelled(p) PROVE CancelAsked(Watched(p).op)
      BY <1>1, <2>1, <2>2 DEF Cancelled, CancelAsked, KeyOf, Item
    <2>3. CASE /\ watch' = [watch EXCEPT ![p].event = TerminalReport(p),
                                         ![p].pc = "report"]
               /\ watch[p].status \in EndedStatus
      <3>1. /\ watch'[p].pc = "report" /\ watch'[p].item = watch[p].item
            /\ watch'[p].event = TerminalReport(p)
        BY <1>0, <2>3 DEF TypeOK, Watch
      <3>2. ASSUME TerminalReport(p).type = "CANCELLED"
            PROVE  /\ TerminalReport(p).sub = Watched(p).sub
                   /\ watch[p].status = "STOPPED"
                   /\ Cancelled(p) \/ Watched(p).op \in stopRequested[p]
        BY <2>3, <3>2 DEF TerminalReport, Fallback, CancelReport, EndedStatus
      <3>3. ASSUME TerminalReport(p).type = "CANCELLED"
            PROVE  Status(Watched(p).sub) = "STOPPED" /\ CancelAsked(Watched(p).op)
        BY <2>1, <2>2, <2>3, <3>2, <3>3 DEF StopOK, Watched
      <3> QED BY <1>0, <1>2, <2>1, <3>1, <3>2, <3>3
              DEF StopOK, Status, CancelAsked, Watched
    <2>4. CASE Move(p, "cancel") /\ Cancelled(p)
      <3>1. watch'[p].pc = "cancel" /\ watch'[p].item = watch[p].item
        BY <1>5, <2>4
      <3> QED BY <1>0, <1>2, <2>1, <2>2, <2>4, <3>1 DEF StopOK, CancelAsked, Watched
    <2>5. CASE Move(p, "timeout")
      BY <1>2, <1>3, <1>5, <2>1, <2>5
    <2>6. CASE Skip(p)
      BY <1>2, <1>3, <1>4, <2>1, <2>6
    <2> QED BY <1>d, <2>3, <2>4, <2>5, <2>6 DEF Decide
  <1>e. CASE Report(p)
    <2>1. UNCHANGED stopRequested /\ (Move(p, "remove") \/ Skip(p))
      BY <1>e DEF Report, Flags
    <2> QED BY <1>2, <1>3, <1>4, <1>5, <2>1
  <1>f. CASE RemoveEntry(p) \/ StopTimedOut(p) \/ StopRaises(p)
    <2>1. Skip(p) /\ stopRequested'[p] \subseteq stopRequested[p]
      BY <1>0, <1>f DEF RemoveEntry, StopTimedOut, StopRaises, Flags, TypeOK
    <2> QED BY <1>2, <1>3, <1>4, <2>1
  <1>g. CASE StopCancelled(p)
    <2>1. Skip(p) /\ stopRequested'[p] = stopRequested[p] \cup {Watched(p).op}
      BY <1>0, <1>g DEF StopCancelled, TypeOK
    <2>2. CancelAsked(watch[p].item.op)
      BY <1>g DEF StopCancelled, Watching, StopOK
    <2>3. \A o \in stopRequested'[p] : CancelAsked(o)'
      BY <1>0, <1>2, <2>1, <2>2 DEF Watched, CancelAsked
    <2> QED BY <1>3, <1>4, <2>1, <2>3
  <1> QED BY <1>a, <1>b, <1>c, <1>d, <1>e, <1>f, <1>g DEF WatchStep

\* What the watcher knows is inductive.
LEMMA StopInductive ==
  ASSUME Shape, StopInv, [Next]_vars
  PROVE  StopInv'
PROOF
  <1>0. Monotone /\ TypeOK
    BY StepLemma DEF Shape
  <1> SUFFICES ASSUME NEW p \in Provider PROVE StopOK(p)'
    BY DEF StopInv
  <1>1. StopOK(p)
    BY DEF StopInv
  <1>2. CASE WatchStep(p)
    BY <1>0, <1>1, <1>2, StopStepLemma
  <1>3. CASE Crash(p) \/ Exit(p)
    <2>1. stopRequested'[p] = {} /\ watch'[p].pc = "idle"
      BY <1>0, <1>3 DEF Crash, Exit, Forget, NoWatch, TypeOK
    <2> QED BY <2>1 DEF StopOK
  <1>4. CASE MainStep(p) /\ ~Crash(p) /\ ~Exit(p)
    <2>1. UNCHANGED <<stopRequested, watch>>
      BY <1>4 DEF MainStep, Start, Close, Claim, PollClaimed, PollNew, HandleStep,
           CheckCancel, CheckCancelRaises, PublishCancelled, Reject, Resume, Confirm,
           Reaccept, CheckCancelAgain, Submit, Accept, Ack, Announce, Elsewhere,
           watchVars
    <2> QED BY <1>0, <1>1, <2>1, StopKeep
  <1>5. CASE \E q \in Provider : q # p /\ (MainStep(q) \/ WatchStep(q))
    <2>1. stopRequested'[p] = stopRequested[p] /\ watch'[p] = watch[p]
      BY <1>0, <1>5, OthersLemma
    <2> QED BY <1>0, <1>1, <2>1, StopKeep
  <1>6. CASE ~ \E q \in Provider : MainStep(q) \/ WatchStep(q)
    <2>1. stopRequested'[p] = stopRequested[p] /\ watch'[p] = watch[p]
      BY <1>6, OutsideLemma
    <2> QED BY <1>0, <1>1, <2>1, StopKeep
  <1> QED BY <1>2, <1>3, <1>4, <1>5, <1>6

\* Only a watcher that decided so puts a CANCELLED event with a submission on a
\* stream: handle names none, and the driver never says CANCELLED.
LEMMA CancelledEventLemma ==
  ASSUME Shape, [Next]_vars, NEW k \in Key, NEW i \in DOMAIN log'[k],
         i \notin DOMAIN log[k],
         log'[k][i].type = "CANCELLED", log'[k][i].sub # Null
  PROVE  \E p \in Provider : /\ watch[p].pc = "report" /\ k = KeyOf(Watched(p))
                             /\ log'[k][i] = watch[p].event /\ UNCHANGED job
PROOF
  <1>0. TypeOK
    BY DEF Shape
  <1>1. ASSUME NEW j \in Key, NEW e \in Event, Publish(j, e) \/ PublishRaises(j, e)
        PROVE  k = j /\ log'[k][i] = e
    BY <1>0, <1>1, PublishLemma
  <1>2. ASSUME NEW s \in Submission, RayStep(s) PROVE FALSE
    <2>1. CASE UNCHANGED log
      BY <2>1
    <2>2. CASE log' # log
      <3>1. Exists(s)
        BY <1>2, <2>2 DEF RayStep, JobStarts, JobLost, StopTakesEffect, ExternalStop,
             DriverProgress, DriverCompletes, DriverFails, DriverExcept,
             DriverExit, Executing, Exists
      <3>2. PICK type \in {"COMPLETED", "FAILED", "PROGRESS"}, code \in Code :
              \/ Publish(DriverKey(s), DriverEvent(s, type, code))
              \/ PublishRaises(DriverKey(s), DriverEvent(s, type, code))
        BY <1>2, <2>2 DEF RayStep, JobStarts, JobLost, StopTakesEffect, ExternalStop,
             DriverProgress, DriverCompletes, DriverFails, DriverExcept,
             DriverReportsFailure, DriverExit, Code
      <3>3. DriverKey(s) \in Key /\ DriverEvent(s, type, code) \in Event
        BY <1>0, <3>1, DriverKeyType, DriverEventType DEF Shape, TerminalType
      <3>4. log'[k][i] = DriverEvent(s, type, code)
        BY <1>1, <3>2, <3>3
      <3> QED BY <3>4 DEF DriverEvent
    <2> QED BY <2>1, <2>2
  <1>3. ASSUME NEW p \in Provider, HandleStep(p) PROVE FALSE
    <2>0. /\ pc[p] # "idle"
      BY <1>3 DEF HandleStep, CheckCancel, CheckCancelRaises, PublishCancelled, Reject,
           Resume, Confirm, Reaccept, CheckCancelAgain, Submit, Accept, Ack, At
    <2>1. MainKey(p) \in Key /\ Req(p).sub \in Submission
      BY <2>0, RequestLemma DEF RequestType
    <2>2. \/ UNCHANGED log
          \/ \E e \in {QueuedCancel, Rejection, Accepted(Req(p).sub)} :
               Publish(MainKey(p), e) \/ PublishRaises(MainKey(p), e)
      BY <1>3 DEF HandleStep, CheckCancel, CheckCancelRaises, PublishCancelled, Reject,
           Resume, Confirm, Reaccept, CheckCancelAgain, Submit, Accept, Ack, Announce
    <2>3. log'[k][i] \in {QueuedCancel, Rejection, Accepted(Req(p).sub)}
      BY <1>1, <2>1, <2>2, EventTypes
    <2> QED BY <2>3 DEF QueuedCancel, Rejection, Accepted
  <1>4. ASSUME NEW p \in Provider, MainStep(p), ~HandleStep(p) PROVE FALSE
    <2>1. UNCHANGED log
      BY <1>4 DEF MainStep, Start, Crash, Close, Exit, Forget, Claim, PollClaimed,
           PollNew
    <2> QED BY <2>1
  <1>5. CASE \E p \in Provider : WatchStep(p)
    <2>1. PICK p \in Provider : WatchStep(p)
      BY <1>5
    <2>2. CASE Report(p)
      <3>1. /\ watch[p].pc = "report" /\ UNCHANGED job
            /\ \/ Publish(KeyOf(Watched(p)), watch[p].event)
               \/ PublishRaises(KeyOf(Watched(p)), watch[p].event)
        BY <2>2 DEF Report, Watching
      <3>2. KeyOf(Watched(p)) \in Key /\ watch[p].event \in Event
        BY <3>1, WatchedLemma DEF Shape, WatchInv
      <3> QED BY <1>1, <3>1, <3>2
    <2>3. CASE ~Report(p)
      <3>1. UNCHANGED log
        BY <2>1, <2>3 DEF WatchStep, BeginPass, Observe, GetStatus, LookupRaises,
             Decide, RemoveEntry, StopCancelled, StopTimedOut, StopRaises
      <3> QED BY <3>1
    <2> QED BY <2>2, <2>3
  <1>6. CASE (\E c \in Cancellable : ClientCancel(c)) \/ Tick \/ UNCHANGED vars
    <2>1. UNCHANGED log
      BY <1>6 DEF ClientCancel, Tick, vars
    <2> QED BY <2>1
  <1> QED BY <1>2, <1>3, <1>4, <1>5, <1>6 DEF Next

\* CANCELLED is never said of a submission that Ray has not stopped, nor of an
\* operation nobody asked to cancel: see CancelledOnlyAfterStopped.
THEOREM CancelledIsStopped == Spec => []CancelledOnlyAfterStopped
PROOF
  <1> DEFINE Inv == StopInv /\ LogInv
  <1>1. Init => Inv
    <2> SUFFICES ASSUME Init PROVE StopInv /\ LogInv
      OBVIOUS
    <2>1. StopInv
      BY DEF Init, StopInv, StopOK, NoWatch
    <2>2. LogInv
      BY DEF Init, LogInv
    <2> QED BY <2>1, <2>2
  <1>2. Shape /\ Inv /\ [Next]_vars => Inv'
    <2> SUFFICES ASSUME Shape, StopInv, LogInv, [Next]_vars
                 PROVE  StopInv' /\ LogInv'
      OBVIOUS
    <2>0. Monotone /\ Shape'
      BY StepLemma
    <2>1. StopInv'
      BY StopInductive
    <2>2. ASSUME NEW k \in Key, NEW i \in DOMAIN log'[k],
                 log'[k][i].type = "CANCELLED", log'[k][i].sub # Null
          PROVE  Status(log[k][i].sub)' = "STOPPED" /\ CancelAsked(k[2])'
      <3>1. PICK s \in Submission : s = log'[k][i].sub
        <4>1. log'[k] \in Seq(Event)
          BY <2>0 DEF Shape, TypeOK
        <4>2. log'[k][i] \in Event
          BY <4>1
        <4> QED BY <2>2, <4>2 DEF Event
      <3>2. Status(s) = "STOPPED" /\ CancelAsked(k[2])
        <4>1. CASE i \in DOMAIN log[k]
          <5>1. log'[k][i] = log[k][i]
            BY <2>0, <4>1 DEF Monotone, LogGrows
          <5> QED BY <2>2, <3>1, <4>1, <5>1 DEF LogInv, Status
        <4>2. CASE i \notin DOMAIN log[k]
          <5>1. PICK p \in Provider : /\ watch[p].pc = "report" /\ k = KeyOf(Watched(p))
                                      /\ log'[k][i] = watch[p].event
            BY <2>2, <4>2, CancelledEventLemma
          <5>2. k[2] = watch[p].item.op
            BY <5>1 DEF KeyOf, Watched
          <5> QED BY <2>2, <3>1, <5>1, <5>2 DEF StopInv, StopOK, Status, CancelAsked
        <4> QED BY <4>1, <4>2
      <3>3. Status(s)' = "STOPPED"
        BY <2>0, <3>2 DEF Monotone, JobsKeep, Status, Exists, Ended, EndedStatus
      <3>4. CancelAsked(k[2])'
        BY <2>0, <3>2 DEF Monotone, CancelAsked
      <3> QED BY <3>1, <3>3, <3>4 DEF Status
    <2>3. LogInv'
      BY <2>2 DEF LogInv
    <2> QED BY <2>1, <2>3
  <1>3. Shape /\ Inv => CancelledOnlyAfterStopped
    <2> SUFFICES ASSUME Shape, LogInv, NEW s \in Submission,
                        Reported(s, "CANCELLED", "NONE")
                 PROVE  /\ Status(s) = "STOPPED"
                        /\ \E c \in Channel : <<c, job[s].item.op>> \in marker
      BY DEF CancelledOnlyAfterStopped
    <2>1. Exists(s) /\ Has(KeyOfJob(s), DriverEvent(s, "CANCELLED", "NONE"))
      BY DEF Reported
    <2>2. KeyOfJob(s) \in Key /\ KeyOfJob(s)[2] = job[s].item.op
      BY <2>1 DEF Shape, JobInv, KeyOfJob, KeyOf, Key, Item
    <2>3. PICK i \in DOMAIN log[KeyOfJob(s)] :
            log[KeyOfJob(s)][i] = DriverEvent(s, "CANCELLED", "NONE")
      BY <2>1 DEF Has
    <2>4. Status(s) = "STOPPED" /\ CancelAsked(KeyOfJob(s)[2])
      BY <2>2, <2>3, NullAssumption DEF LogInv, DriverEvent
    <2> QED BY <2>2, <2>4 DEF CancelAsked
  <1> HIDE DEF Inv
  <1> QED BY <1>1, <1>2, <1>3, ShapeInvariant, PTL DEF Spec

-----------------------------------------------------------------------------
(***************************************************************************)
(* OperationLifecycle implements DeliveryQueue, for every number of        *)
(* providers, deliveries and channels: whatever handle, the watcher and    *)
(* Ray do, a provider uses the consumer group as promised.                 *)
(***************************************************************************)

\* RedisTaskConsumer never holds two messages of one delivery: a channel is
\* claimed only once its last page is used up.  Handing one message out would
\* otherwise leave the delivery claimed.
HeldOnce ==
  \A p \in Provider : \A m, n \in buffer[p] : m.id = n.id => m = n

\* The mapping.
Claimed == [p \in Provider |-> {m.id : m \in buffer[p]}]
Hand == [p \in Provider |-> IF pc[p] = "idle" THEN Null ELSE msg[p].id]

\* What the mapping shows of one provider.
LEMMA MappingFacts ==
  ASSUME Shape, NEW p \in Provider
  PROVE  /\ Claimed[p] = {m.id : m \in buffer[p]} /\ Claimed[p] \subseteq Delivery
         /\ Hand[p] = IF pc[p] = "idle" THEN Null ELSE msg[p].id
         /\ Hand[p] = Null <=> pc[p] = "idle"
         /\ pc[p] # "idle" => msg[p].id \in Delivery
         /\ Null \notin Delivery
         /\ \A m \in buffer[p] : m \in Message /\ m.id \in Delivery
PROOF
  <1>1. Null \notin Delivery
    BY NullAssumption, DeliveryAssumption
  <1>2. buffer[p] \subseteq Message
    BY DEF Shape, TypeOK
  <1>3. \A m \in Message : m.id \in Delivery
    BY DEF Message
  <1>4. pc[p] # "idle" => msg[p].id \in Delivery
    BY <1>3 DEF Shape, MainInv
  <1> QED BY <1>1, <1>2, <1>3, <1>4 DEF Claimed, Hand

-----------------------------------------------------------------------------
(* A claim, the only step that adds messages.                              *)

\* A claimed page holds one message for each of its deliveries, and none of a
\* delivery that is held already.
LEMMA ClaimKeepsHeldOnce ==
  ASSUME Shape, HeldOnce, NEW p \in Provider, NEW c \in Channel, Claim(p, c)
  PROVE  HeldOnce'
PROOF
  <1>1. PICK page \in SUBSET Pending(c) :
          buffer' = [buffer EXCEPT ![p] =
                       @ \cup {[id |-> d, recv |-> now] : d \in page}]
    BY DEF Claim
  <1>2. ASSUME NEW m \in buffer[p], NEW d \in page PROVE m.id # d
    BY DEF Claim, Buffered, InChannel, Pending
  <1>3. buffer \in [Provider -> SUBSET Message]
    BY DEF Shape, TypeOK
  <1>4. buffer'[p] = buffer[p] \cup {[id |-> d, recv |-> now] : d \in page}
        /\ \A q \in Provider : q # p => buffer'[q] = buffer[q]
    BY <1>1, <1>3
  <1>5. ASSUME NEW m \in buffer'[p], NEW n \in buffer'[p], m.id = n.id PROVE m = n
    <2>1. CASE m \in buffer[p] /\ n \in buffer[p]
      BY <1>5, <2>1 DEF HeldOnce
    <2>2. CASE m \notin buffer[p] /\ n \notin buffer[p]
      BY <1>4, <1>5, <2>2
    <2>3. CASE m \in buffer[p] /\ n \notin buffer[p]
      <3>1. PICK d \in page : n = [id |-> d, recv |-> now]
        BY <1>4, <2>3
      <3> QED BY <1>2, <1>5, <2>3, <3>1
    <2>4. CASE m \notin buffer[p] /\ n \in buffer[p]
      <3>1. PICK d \in page : m = [id |-> d, recv |-> now]
        BY <1>4, <2>4
      <3> QED BY <1>2, <1>5, <2>4, <3>1
    <2> QED BY <2>1, <2>2, <2>3, <2>4
  <1> QED BY <1>4, <1>5 DEF HeldOnce

\* XAUTOCLAIM is a claim of the queue.
LEMMA ClaimImplements ==
  ASSUME Shape, NEW p \in Provider, NEW c \in Channel, Claim(p, c)
  PROVE  Queue!Claim(p, c)
PROOF
  <1>1. PICK page \in SUBSET Pending(c) :
          /\ Cardinality(page) <= ClaimCount
          /\ buffer' = [buffer EXCEPT ![p] =
                          @ \cup {[id |-> d, recv |-> now] : d \in page}]
    BY DEF Claim
  <1>2. Hand[p] = Null
    BY MappingFacts DEF Claim
  <1>3. {d \in Claimed[p] : Request[d].ch = c} = {}
    BY MappingFacts DEF Claim, Buffered, InChannel
  <1>4. page \in SUBSET {d \in Delivery : queue[d] = "pending" /\ Request[d].ch = c}
    BY <1>1 DEF Pending, InChannel
  <1>5. Claimed' = [Claimed EXCEPT ![p] = @ \cup page]
    <2>1. buffer \in [Provider -> SUBSET Message]
      BY DEF Shape, TypeOK
    <2>2. buffer'[p] = buffer[p] \cup {[id |-> d, recv |-> now] : d \in page}
          /\ \A q \in Provider : q # p => buffer'[q] = buffer[q]
      BY <1>1, <2>1
    <2>3. {m.id : m \in buffer'[p]} = {m.id : m \in buffer[p]} \cup page
      <3>1. ASSUME NEW d \in page
            PROVE  \E m \in buffer'[p] : m.id = d
        <4>1. [id |-> d, recv |-> now] \in buffer'[p]
          BY <2>2
        <4> QED BY <4>1
      <3>2. ASSUME NEW m \in buffer'[p]
            PROVE  m \in buffer[p] \/ m.id \in page
        BY <2>2
      <3> QED BY <2>2, <3>1, <3>2
    <2> QED BY <2>2, <2>3 DEF Claimed
  <1>6. UNCHANGED <<queue, Hand>>
    BY DEF Claim, Hand
  <1>7. Queue!Cardinality(page) = Cardinality(page)
    BY DEF Cardinality, Queue!Cardinality
  <1>8. Queue!Waiting(p, c) = {}
    BY <1>3, MappingFacts DEF Queue!Waiting, Claimed
  <1>9. Queue!Of(c, "pending") =
          {d \in Delivery : queue[d] = "pending" /\ Request[d].ch = c}
    BY DEF Queue!Of
  <1> QED BY <1>1, <1>2, <1>4, <1>5, <1>6, <1>7, <1>8, <1>9
          DEF Queue!Claim, Claimed, Hand

-----------------------------------------------------------------------------
(* poll.                                                                   *)

\* Handing out a claimed message takes its delivery off the claimed ones.
LEMMA PollClaimedImplements ==
  ASSUME Shape, HeldOnce, NEW p \in Provider, PollClaimed(p)
  PROVE  Queue!TakeClaimed(p)
PROOF
  <1>1. PICK m \in buffer[p] : /\ buffer' = [buffer EXCEPT ![p] = @ \ {m}]
                               /\ msg' = [msg EXCEPT ![p] = m]
    BY DEF PollClaimed
  <1>2. /\ pc[p] = "idle" /\ pc' = [pc EXCEPT ![p] = "check"] /\ UNCHANGED queue
    BY DEF PollClaimed
  <1>3. Hand[p] = Null /\ m.id \in Claimed[p]
    BY <1>2, MappingFacts
  <1>4. TypeOK
    BY DEF Shape
  <1>5. Claimed' = [Claimed EXCEPT ![p] = @ \ {m.id}]
    <2>1. buffer'[p] = buffer[p] \ {m}
          /\ \A q \in Provider : q # p => buffer'[q] = buffer[q]
      BY <1>1, <1>4 DEF TypeOK
    <2>2. {n.id : n \in buffer'[p]} = {n.id : n \in buffer[p]} \ {m.id}
      BY <2>1 DEF HeldOnce
    <2> QED BY <2>1, <2>2 DEF Claimed
  <1>6. Hand' = [Hand EXCEPT ![p] = m.id]
    <2>1. pc'[p] = "check" /\ msg'[p] = m
          /\ \A q \in Provider : q # p => pc'[q] = pc[q] /\ msg'[q] = msg[q]
      BY <1>1, <1>2, <1>4 DEF TypeOK
    <2> QED BY <2>1 DEF Hand
  <1> QED BY <1>2, <1>3, <1>5, <1>6 DEF Queue!TakeClaimed, Claimed, Hand

\* XREADGROUP hands out the oldest new delivery of a channel, or loses it.
LEMMA PollNewImplements ==
  ASSUME Shape, NEW p \in Provider, PollNew(p)
  PROVE  \E c \in Channel : Queue!TakeNew(p, c)
PROOF
  <1>1. PICK c \in Channel : \E d \in Unread(c) :
          /\ Buffered(p, c) = {} /\ \A e \in Unread(c) : d <= e
          /\ queue' = [queue EXCEPT ![d] = "pending"]
          /\ \/ /\ msg' = [msg EXCEPT ![p] = [id |-> d, recv |-> now]]
                /\ pc' = [pc EXCEPT ![p] = "check"]
             \/ UNCHANGED <<msg, pc>>
    BY DEF PollNew
  <1>2. PICK d \in Unread(c) :
          /\ Buffered(p, c) = {} /\ \A e \in Unread(c) : d <= e
          /\ queue' = [queue EXCEPT ![d] = "pending"]
          /\ \/ /\ msg' = [msg EXCEPT ![p] = [id |-> d, recv |-> now]]
                /\ pc' = [pc EXCEPT ![p] = "check"]
             \/ UNCHANGED <<msg, pc>>
    BY <1>1
  <1>3. Hand[p] = Null
    BY MappingFacts DEF PollNew
  <1>4. Queue!Waiting(p, c) = {}
    BY <1>2, MappingFacts DEF Queue!Waiting, Buffered, InChannel
  <1>5. Queue!Of(c, "unread") = Unread(c)
    BY DEF Queue!Of, Unread, InChannel
  <1>6. UNCHANGED Claimed
    BY DEF PollNew, Claimed
  <1>7. Hand' = [Hand EXCEPT ![p] = d] \/ UNCHANGED Hand
    <2>1. CASE UNCHANGED <<msg, pc>>
      BY <2>1 DEF Hand
    <2>2. CASE /\ msg' = [msg EXCEPT ![p] = [id |-> d, recv |-> now]]
               /\ pc' = [pc EXCEPT ![p] = "check"]
      <3>1. pc'[p] = "check" /\ msg'[p].id = d
            /\ \A q \in Provider : q # p => pc'[q] = pc[q] /\ msg'[q] = msg[q]
        BY <2>2 DEF Shape, TypeOK
      <3> QED BY <3>1 DEF Hand
    <2> QED BY <1>2, <2>1, <2>2
  <1>8. Queue!TakeNew(p, c)
    BY <1>2, <1>3, <1>4, <1>5, <1>6, <1>7 DEF Queue!TakeNew, Claimed, Hand
  <1> QED BY <1>8

-----------------------------------------------------------------------------
(* handle, and the end of the process.                                     *)

\* Giving a delivery back, with or without XACK, finishes it; every other step
\* of handle keeps it in hand.
LEMMA HandleImplements ==
  ASSUME Shape, NEW p \in Provider, HandleStep(p)
  PROVE  Queue!Finish(p) \/ UNCHANGED Queue!vars
PROOF
  <1>1. pc[p] # "idle" /\ UNCHANGED buffer
    BY DEF HandleStep, CheckCancel, CheckCancelRaises, PublishCancelled, Reject,
           Resume, Confirm, Reaccept, CheckCancelAgain, Submit, Accept, Ack,
           Announce, At, Elsewhere
  <1>2. \/ UNCHANGED queue /\ \E step \in MainPc \ {"idle"} : Goto(p, step)
        \/ UNCHANGED queue /\ Done(p)
        \/ Ack(p)
    BY DEF HandleStep, CheckCancel, CheckCancelRaises, PublishCancelled, Reject,
           Resume, Confirm, Reaccept, CheckCancelAgain, Submit, Accept,
           Announce, MainPc
  <1>3. UNCHANGED Claimed
    BY <1>1 DEF Claimed
  <1>4. Hand[p] = msg[p].id /\ Hand[p] # Null
    BY <1>1, MappingFacts
  <1>5. TypeOK
    BY DEF Shape
  <1>6. ASSUME Done(p) PROVE Hand' = [Hand EXCEPT ![p] = Null]
    <2>1. pc'[p] = "idle"
          /\ \A q \in Provider : q # p => pc'[q] = pc[q] /\ msg'[q] = msg[q]
      BY <1>5, <1>6 DEF Done, TypeOK
    <2> QED BY <2>1 DEF Hand
  <1>7. CASE UNCHANGED queue /\ \E step \in MainPc \ {"idle"} : Goto(p, step)
    <2>1. \A q \in Provider : msg'[q] = msg[q] /\ (pc'[q] = "idle" <=> pc[q] = "idle")
      BY <1>1, <1>5, <1>7 DEF Goto, TypeOK
    <2>2. UNCHANGED Hand
      BY <2>1 DEF Hand
    <2> QED BY <1>3, <1>7, <2>2 DEF Queue!vars, Claimed, Hand
  <1>8. CASE UNCHANGED queue /\ Done(p)
    BY <1>3, <1>4, <1>6, <1>8 DEF Queue!Finish, Claimed, Hand
  <1>9. CASE Ack(p)
    <2>1. queue' = [queue EXCEPT ![Hand[p]] = "acked"] /\ Done(p)
      BY <1>4, <1>9 DEF Ack
    <2> QED BY <1>3, <1>4, <1>6, <2>1 DEF Queue!Finish, Claimed, Hand
  <1> QED BY <1>2, <1>7, <1>8, <1>9

\* A process that ends drops what it claimed and what it has in hand.
LEMMA ForgetImplements ==
  ASSUME Shape, NEW p \in Provider, Forget(p)
  PROVE  Queue!Vanish(p)
PROOF
  <1>1. /\ buffer'[p] = {} /\ pc'[p] = "idle" /\ UNCHANGED queue
        /\ \A q \in Provider : q # p =>
             buffer'[q] = buffer[q] /\ pc'[q] = pc[q] /\ msg'[q] = msg[q]
    BY DEF Forget, Shape, TypeOK
  <1>2. Claimed' = [Claimed EXCEPT ![p] = {}]
    BY <1>1 DEF Claimed
  <1>3. Hand' = [Hand EXCEPT ![p] = Null]
    BY <1>1 DEF Hand
  <1> QED BY <1>1, <1>2, <1>3 DEF Queue!Vanish, Claimed, Hand

-----------------------------------------------------------------------------
(* The refinement.                                                         *)

\* Steps the queue does not see.
LEMMA Invisible ==
  ASSUME UNCHANGED <<queue, buffer, pc, msg>>
  PROVE  UNCHANGED Queue!vars
BY DEF Queue!vars

\* The watcher, Ray, the clients, the clock, a start and a close.
LEMMA ElsewhereInvisible ==
  ASSUME Shape, [Next]_vars,
         ~ \E p \in Provider : MainStep(p) /\ ~ Start(p) /\ ~ Close(p)
  PROVE  UNCHANGED <<queue, buffer, pc, msg>>
PROOF
  <1>1. CASE \E p \in Provider : Start(p) \/ Close(p)
    BY <1>1 DEF Start, Close
  <1>2. CASE \E p \in Provider : WatchStep(p)
    BY <1>2 DEF WatchStep, BeginPass, Observe, GetStatus, LookupRaises, Decide,
         Report, RemoveEntry, StopCancelled, StopTimedOut, StopRaises, Untouched
  <1>3. CASE \E s \in Submission : RayStep(s)
    BY <1>3, RayLemma DEF RedisSide, ProviderSide, mainVars
  <1>4. CASE (\E k \in Cancellable : ClientCancel(k)) \/ Tick
    BY <1>4 DEF ClientCancel, Tick, mainVars
  <1>5. CASE UNCHANGED vars
    BY <1>5 DEF vars
  <1> QED BY <1>1, <1>2, <1>3, <1>4, <1>5 DEF Next

\* What is left of the main thread.
LEMMA MainCases ==
  ASSUME NEW p \in Provider, MainStep(p), ~ Start(p), ~ Close(p)
  PROVE  \/ Forget(p)
         \/ \E c \in Channel : Claim(p, c)
         \/ PollClaimed(p) \/ PollNew(p) \/ HandleStep(p)
BY DEF MainStep, Crash, Exit

\* No delivery is held twice, at any time.
LEMMA HeldOnceInductive ==
  ASSUME Shape, HeldOnce, [Next]_vars
  PROVE  HeldOnce'
PROOF
  <1>0. TypeOK
    BY DEF Shape
  <1>1. CASE \E p \in Provider : MainStep(p) /\ ~ Start(p) /\ ~ Close(p)
    <2>1. PICK p \in Provider : MainStep(p) /\ ~ Start(p) /\ ~ Close(p)
      BY <1>1
    <2>2. ASSUME NEW c \in Channel, Claim(p, c) PROVE HeldOnce'
      BY <2>2, ClaimKeepsHeldOnce
    <2>3. CASE Forget(p) \/ PollClaimed(p) \/ PollNew(p)
      <3>1. \A q \in Provider : buffer'[q] \subseteq buffer[q]
        BY <1>0, <2>3 DEF Forget, PollClaimed, PollNew, TypeOK
      <3> QED BY <3>1 DEF HeldOnce
    <2>4. CASE HandleStep(p)
      <3>1. UNCHANGED buffer
        BY <2>4 DEF HandleStep, CheckCancel, CheckCancelRaises, PublishCancelled,
             Reject, Resume, Confirm, Reaccept, CheckCancelAgain, Submit, Accept,
             Ack, Announce, Elsewhere
      <3> QED BY <3>1 DEF HeldOnce
    <2> QED BY <2>1, <2>2, <2>3, <2>4, MainCases
  <1>2. CASE ~ \E p \in Provider : MainStep(p) /\ ~ Start(p) /\ ~ Close(p)
    BY <1>2, ElsewhereInvisible DEF HeldOnce
  <1> QED BY <1>1, <1>2

\* Every step of the life cycle is a step of the queue or invisible to it.
LEMMA QueueStep ==
  ASSUME Shape, HeldOnce, [Next]_vars
  PROVE  [Queue!Next]_Queue!vars
PROOF
  <1>1. CASE \E p \in Provider : MainStep(p) /\ ~ Start(p) /\ ~ Close(p)
    <2>1. PICK p \in Provider : MainStep(p) /\ ~ Start(p) /\ ~ Close(p)
      BY <1>1
    <2>2. \/ \E c \in Channel : Queue!Claim(p, c) \/ Queue!TakeNew(p, c)
          \/ Queue!TakeClaimed(p) \/ Queue!Finish(p) \/ Queue!Vanish(p)
          \/ UNCHANGED Queue!vars
      BY <2>1, MainCases, ForgetImplements, ClaimImplements, PollClaimedImplements,
         PollNewImplements, HandleImplements, Zenon
    <2> QED BY <2>2, Zenon DEF Queue!Next
  <1>2. CASE ~ \E p \in Provider : MainStep(p) /\ ~ Start(p) /\ ~ Close(p)
    BY <1>2, ElsewhereInvisible, Invisible
  <1> QED BY <1>1, <1>2

\* The life cycle implements the delivery queue: whatever handle, the watcher,
\* Ray and crashes do, a provider acknowledges only what it has in hand and
\* reads a new entry only when no claimed one waits.
THEOREM LifecycleImplementsQueue == Spec => ImplementsQueue
PROOF
  <1>1. Init => HeldOnce
    BY DEF Init, HeldOnce
  <1>2. Init => Queue!Init
    BY DEF Init, Queue!Init
  <1>3. Shape /\ HeldOnce /\ [Next]_vars => HeldOnce'
    BY HeldOnceInductive
  <1>4. Shape /\ HeldOnce /\ [Next]_vars => [Queue!Next]_Queue!vars
    BY QueueStep
  <1> QED BY <1>1, <1>2, <1>3, <1>4, ShapeInvariant, PTL
          DEF Spec, ImplementsQueue, Queue!Spec

=============================================================================

----------------------------- MODULE Admission -----------------------------
(***************************************************************************)
(* RedisBrokerRuntime: the main thread of a provider process.  It recovers *)
(* at start, polls one delivery at a time, takes it through handle up to   *)
(* the acknowledgement, and stops in an orderly way or by crashing.  Every *)
(* remote call of handle is a step of its own; RETRY leaves the delivery   *)
(* pending and returns to idle.                                            *)
(***************************************************************************)
EXTENDS RayJobs

Req(p) == Request[msg[p].id]
MainKey(p) == KeyOf(Req(p))

At(p, step) == mode[p] # "down" /\ pc[p] = step
Goto(p, step) == pc' = [pc EXCEPT ![p] = step] /\ UNCHANGED msg
Done(p) == pc' = [pc EXCEPT ![p] = "idle"] /\ msg' = [msg EXCEPT ![p] = Null]

Put(p, item) == active' = [active EXCEPT ![p][item.op] = item]
Remove(p, o) == active' = [active EXCEPT ![p][o] = Null]

Elsewhere == <<marker, now, mode, buffer, watchVars, stops>>

-----------------------------------------------------------------------------
(* Start, stop, crash.                                                     *)

\* Jobs whose metadata _recover_active_submissions takes for an active
\* submission: any Ray status, no recent terminal event.
Adoptable == {job[s].item : s \in {t \in Submission : Exists(t)}}
Unreported(o) == {i \in Adoptable : i.op = o /\ ~TerminalPublished(i)}

\* Bug: recovery is forgotten.
StartEmpty(p) ==
  /\ mode[p] = "down"
  /\ mode' = [mode EXCEPT ![p] = "up"]
  /\ UNCHANGED <<queue, marker, log, trimmed, job, now, buffer, pc, msg, active,
                 watchVars, faults, stops>>

\* Bug: recovery skips the jobs that have ended.
StartSkipsEnded(p) ==
  /\ mode[p] = "down"
  /\ \E entries \in [Operation -> Adoptable \cup {Null}] :
       /\ \A o \in Operation :
            LET live == {i \in Unreported(o) : Live(i.sub)} IN
            IF live = {} THEN entries[o] = Null ELSE entries[o] \in live
       /\ active' = [active EXCEPT ![p] = entries]
  /\ mode' = [mode EXCEPT ![p] = "up"]
  /\ UNCHANGED <<queue, marker, log, trimmed, job, now, buffer, pc, msg,
                 watchVars, faults, stops>>

\* The first listed job of an operation without a terminal event is adopted.
Start(p) ==
  /\ mode[p] = "down"
  /\ \E entries \in [Operation -> Adoptable \cup {Null}] :
       /\ \A o \in Operation :
            IF Unreported(o) = {} THEN entries[o] = Null
                                  ELSE entries[o] \in Unreported(o)
       /\ active' = [active EXCEPT ![p] = entries]
  /\ mode' = [mode EXCEPT ![p] = "up"]
  /\ UNCHANGED <<queue, marker, log, trimmed, job, now, buffer, pc, msg,
                 watchVars, faults, stops>>

\* The process ends: all it kept in memory is gone.
Forget(p) ==
  /\ mode' = [mode EXCEPT ![p] = "down"]
  /\ buffer' = [buffer EXCEPT ![p] = {}]
  /\ pc' = [pc EXCEPT ![p] = "idle"]
  /\ msg' = [msg EXCEPT ![p] = Null]
  /\ active' = [active EXCEPT ![p] = [o \in Operation |-> Null]]
  /\ stopRequested' = [stopRequested EXCEPT ![p] = {}]
  /\ timeoutRequested' = [timeoutRequested EXCEPT ![p] = {}]
  /\ watch' = [watch EXCEPT ![p] = NoWatch]
  /\ UNCHANGED <<queue, marker, log, trimmed, job, now, faults>>

\* A kill, or an exception outside every handler: poll, XACK, and the
\* terminal-event lookup of _resume_existing_submission.
Crash(p) ==
  /\ mode[p] # "down" /\ stops < MaxStops
  /\ stops' = stops + 1
  /\ Forget(p)

\* close from the signal handler: the main thread may be inside handle and
\* finishes it; the watcher finishes its pass at most.
Close(p) ==
  /\ mode[p] = "up" /\ stops < MaxStops
  /\ stops' = stops + 1
  /\ mode' = [mode EXCEPT ![p] = "closing"]
  /\ UNCHANGED <<queue, marker, log, trimmed, job, now, buffer, pc, msg, active,
                 watchVars, faults>>

Exit(p) ==
  /\ mode[p] = "closing" /\ pc[p] = "idle"
  /\ Forget(p)
  /\ UNCHANGED stops

-----------------------------------------------------------------------------
(* run_once: recover_pending, then poll.                                   *)

InChannel(d, c) == Request[d].ch = c
Unread(c) == {d \in Delivery : queue[d] = "unread" /\ InChannel(d, c)}
Pending(c) == {d \in Delivery : queue[d] = "pending" /\ InChannel(d, c)}
Buffered(p, c) == {m \in buffer[p] : InChannel(m.id, c)}

\* Bug: a page is claimed before the last one is used up.
ClaimAnyTime(p, c) ==
  /\ mode[p] = "up" /\ pc[p] = "idle"
  /\ \E page \in SUBSET Pending(c) :
       /\ page # {} /\ Cardinality(page) <= ClaimCount
       /\ buffer' = [buffer EXCEPT ![p] =
                       @ \cup {[id |-> d, recv |-> now] : d \in page}]
  /\ UNCHANGED <<queue, marker, log, trimmed, job, now, mode, pc, msg, active,
                 watchVars, faults, stops>>

\* XAUTOCLAIM: a page of pending deliveries, whoever holds them now.
Claim(p, c) ==
  /\ mode[p] = "up" /\ pc[p] = "idle" /\ Buffered(p, c) = {}
  /\ \E page \in SUBSET Pending(c) :
       /\ page # {} /\ Cardinality(page) <= ClaimCount
       /\ buffer' = [buffer EXCEPT ![p] =
                       @ \cup {[id |-> d, recv |-> now] : d \in page}]
  /\ UNCHANGED <<queue, marker, log, trimmed, job, now, mode, pc, msg, active,
                 watchVars, faults, stops>>

\* poll returns a claimed message, ...
PollClaimed(p) ==
  /\ mode[p] = "up" /\ pc[p] = "idle"
  /\ \E m \in buffer[p] :
       /\ buffer' = [buffer EXCEPT ![p] = @ \ {m}]
       /\ msg' = [msg EXCEPT ![p] = m]
  /\ pc' = [pc EXCEPT ![p] = "check"]
  /\ UNCHANGED <<queue, marker, log, trimmed, job, now, mode, active, watchVars,
                 faults, stops>>

\* ... or reads the next new one, whose reply a client-side TimeoutError may lose.
PollNew(p) ==
  /\ mode[p] = "up" /\ pc[p] = "idle"
  /\ \E c \in Channel : \E d \in Unread(c) :
       /\ Buffered(p, c) = {} /\ \A e \in Unread(c) : d <= e
       /\ queue' = [queue EXCEPT ![d] = "pending"]
       /\ \/ /\ msg' = [msg EXCEPT ![p] = [id |-> d, recv |-> now]]
             /\ pc' = [pc EXCEPT ![p] = "check"]
             /\ UNCHANGED faults
          \/ Fault /\ UNCHANGED <<msg, pc>>
  /\ UNCHANGED <<marker, log, trimmed, job, now, mode, buffer, active, watchVars,
                 stops>>

-----------------------------------------------------------------------------
(* handle.                                                                 *)

HasEntry(p) == active[p][Req(p).op] # Null

\* Bug: a cancelled delivery is acknowledged without a word.
CheckCancelSilent(p) ==
  /\ At(p, "check")
  /\ Goto(p, IF Req(p).kind = "anonymous" THEN "reject"
             ELSE IF MainKey(p) \in marker THEN "ack"
             ELSE IF Req(p).kind = "invalid" THEN "reject"
             ELSE "resume")
  /\ UNCHANGED <<queue, log, trimmed, job, active, faults, Elsewhere>>

\* The envelope: no usable id is rejected at once, an existing cancel key wins
\* over every other check, then come the request's own faults.
CheckCancel(p) ==
  /\ At(p, "check")
  /\ Goto(p, IF Req(p).kind = "anonymous" THEN "reject"
             ELSE IF MainKey(p) \in marker
                    THEN IF HasEntry(p) THEN "ack" ELSE "cancelled"
             ELSE IF Req(p).kind = "invalid" THEN "reject"
             ELSE "resume")
  /\ UNCHANGED <<queue, log, trimmed, job, active, faults, Elsewhere>>

\* The cancel-key lookup raises: fail closed, RETRY.
CheckCancelRaises(p) ==
  /\ At(p, "check") \/ At(p, "admit")
  /\ Req(p).kind # "anonymous"
  /\ Fault
  /\ Done(p)
  /\ UNCHANGED <<queue, log, trimmed, job, active, Elsewhere>>

\* Publishes e for the request and goes on at next; RETRY if the XADD raises.
Announce(p, e, next) ==
  /\ \/ Publish(MainKey(p), e) /\ Goto(p, next)
     \/ PublishRaises(MainKey(p), e) /\ Done(p)
  /\ UNCHANGED <<queue, job, active, Elsewhere>>

\* CANCELLED "before admission" carries no submission id.
QueuedCancel == [type |-> "CANCELLED", sub |-> Null, code |-> "NONE"]
Rejection == [type |-> "FAILED", sub |-> Null, code |-> "REJECTED"]
Accepted(s) == [type |-> "ACCEPTED", sub |-> s, code |-> "NONE"]

PublishCancelled(p) == At(p, "cancelled") /\ Announce(p, QueuedCancel, "ack")

\* Bug: _invalid only acknowledges.
RejectSilent(p) ==
  /\ At(p, "reject")
  /\ Goto(p, "ack")
  /\ UNCHANGED <<queue, log, trimmed, job, active, faults, Elsewhere>>

\* _invalid: the FAILED event is best effort, the delivery is acknowledged
\* anyway; without an outer id it goes to a stream named after the delivery.
Reject(p) ==
  /\ At(p, "reject")
  /\ \/ Req(p).kind = "anonymous" /\ UNCHANGED <<log, trimmed, faults>>
     \/ /\ Req(p).kind # "anonymous"
        /\ \/ Publish(MainKey(p), Rejection)
           \/ PublishRaises(MainKey(p), Rejection)
  /\ Goto(p, "ack")
  /\ UNCHANGED <<queue, job, active, Elsewhere>>

\* _resume_existing_submission: an active entry of another identity, or one
\* that cannot be compared for want of a digest, is left for a later retry.
SameIdentity(item, r) ==
  /\ item.ch = r.ch /\ item.profile = r.profile /\ item.sub = r.sub
  /\ r.digest # Null /\ item.digest = r.digest

\* Bug: an entry of another identity does not hold the delivery back.
ResumeAdmitsOther(p) ==
  /\ At(p, "resume")
  /\ Goto(p, IF HasEntry(p) /\ SameIdentity(active[p][Req(p).op], Req(p))
               THEN "confirm" ELSE "admit")
  /\ UNCHANGED <<queue, log, trimmed, job, active, faults, Elsewhere>>

\* Bug: an entry of the same identity holds the delivery back as well.
ResumeHoldsSame(p) ==
  /\ At(p, "resume")
  /\ IF HasEntry(p) THEN Done(p) ELSE Goto(p, "admit")
  /\ UNCHANGED <<queue, log, trimmed, job, active, faults, Elsewhere>>

Resume(p) ==
  /\ At(p, "resume")
  /\ IF ~HasEntry(p) THEN Goto(p, "admit")
     ELSE IF SameIdentity(active[p][Req(p).op], Req(p)) THEN Goto(p, "confirm")
     ELSE Done(p)
  /\ UNCHANGED <<queue, log, trimmed, job, active, faults, Elsewhere>>

Confirm(p) ==
  /\ At(p, "confirm")
  /\ IF TerminalPublished(Req(p))
       THEN Remove(p, Req(p).op) /\ Goto(p, "ack")
       ELSE UNCHANGED active /\ Goto(p, "reaccept")
  /\ UNCHANGED <<queue, log, trimmed, job, faults, Elsewhere>>

Reaccept(p) == At(p, "reaccept") /\ Announce(p, Accepted(Req(p).sub), "ack")

\* Bug: the driver-input limit is not looked at.
CheckCancelAgainAnySize(p) ==
  /\ At(p, "admit")
  /\ Goto(p, IF MainKey(p) \in marker THEN "cancelled" ELSE "submit")
  /\ UNCHANGED <<queue, log, trimmed, job, active, faults, Elsewhere>>

\* The second look at the cancel key, then the driver-input size limit.
CheckCancelAgain(p) ==
  /\ At(p, "admit")
  /\ Goto(p, IF MainKey(p) \in marker THEN "cancelled"
             ELSE IF Req(p).kind = "oversize" THEN "reject"
             ELSE "submit")
  /\ UNCHANGED <<queue, log, trimmed, job, active, faults, Elsewhere>>

\* The entry of this delivery: its deadline counts from this receipt.
NewItem(p) ==
  [ch |-> Req(p).ch, op |-> Req(p).op, sub |-> Req(p).sub,
   profile |-> Req(p).profile, digest |-> Req(p).digest,
   deadline |-> IF Req(p).timeout = Null THEN Null
                ELSE msg[p].recv + Req(p).timeout]

\* Bug: an unconfirmed submission is acknowledged.
SubmitAcksUnknown(p) ==
  /\ At(p, "submit")
  /\ \/ /\ CreateJob(NewItem(p))
        /\ Put(p, NewItem(p))
        /\ Goto(p, "accept")
        /\ UNCHANGED faults
     \/ /\ Fault
        /\ (AmbiguousSubmit /\ CreateJob(NewItem(p))) \/ UNCHANGED job
        /\ Goto(p, "ack")
        /\ UNCHANGED active
  /\ UNCHANGED <<queue, log, trimmed, Elsewhere>>

\* Bug: the entry is recorded before the admission is known.
SubmitRecordsFirst(p) ==
  /\ At(p, "submit")
  /\ Put(p, NewItem(p))
  /\ \/ CreateJob(NewItem(p)) /\ Goto(p, "accept") /\ UNCHANGED faults
     \/ Fault /\ UNCHANGED job /\ Done(p)
  /\ UNCHANGED <<queue, log, trimmed, Elsewhere>>

\* submit_ray_job confirms the admission and the entry is recorded, or it
\* raises, the job created or not, and the delivery stays pending.
Submit(p) ==
  /\ At(p, "submit")
  /\ \/ /\ CreateJob(NewItem(p))
        /\ Put(p, NewItem(p))
        /\ Goto(p, "accept")
        /\ UNCHANGED faults
     \/ /\ Fault
        /\ (AmbiguousSubmit /\ CreateJob(NewItem(p))) \/ UNCHANGED job
        /\ Done(p)
        /\ UNCHANGED active
  /\ UNCHANGED <<queue, log, trimmed, Elsewhere>>

Accept(p) == At(p, "accept") /\ Announce(p, Accepted(Req(p).sub), "ack")

\* _apply_outcome with disposition ACK.
Ack(p) ==
  /\ At(p, "ack")
  /\ queue' = [queue EXCEPT ![msg[p].id] = "acked"]
  /\ Done(p)
  /\ UNCHANGED <<log, trimmed, job, active, faults, Elsewhere>>

HandleStep(p) ==
  \/ CheckCancel(p) \/ CheckCancelRaises(p) \/ PublishCancelled(p) \/ Reject(p)
  \/ Resume(p) \/ Confirm(p) \/ Reaccept(p) \/ CheckCancelAgain(p) \/ Submit(p)
  \/ Accept(p) \/ Ack(p)

MainStep(p) ==
  \/ Start(p) \/ Crash(p) \/ Close(p) \/ Exit(p)
  \/ \E c \in Channel : Claim(p, c)
  \/ PollClaimed(p) \/ PollNew(p)
  \/ HandleStep(p)

=============================================================================

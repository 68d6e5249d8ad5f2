----------------------------- MODULE ClientView -----------------------------
(***************************************************************************)
(* What a client can rely on that wrote a task entry: the entry is         *)
(* acknowledged only for a reason the client can find, Ray gets a job only *)
(* of a request that passed every check, and each event of an operation's  *)
(* stream has a ground when it is appended: a job that exists, lives or    *)
(* has ended as the event says.  A fallback may still join a result that   *)
(* the driver announced.  OperationLifecycle implements it.                *)
(***************************************************************************)
EXTENDS Naturals, Sequences

CONSTANTS
  Delivery,      \* entries of the task streams
  Key,           \* pairs of a channel and an operation id
  Submission,    \* Ray submission ids
  Request,       \* what each entry asks for
  Null           \* no submission, no time limit

VARIABLES
  acked,         \* the entries that are acknowledged
  asked,         \* the cancel keys that exist
  said,          \* per key: the event stream, oldest first
  work           \* per submission: ABSENT, LIVE, or the way Ray says it ended

vars == <<acked, asked, said, work>>

Init ==
  /\ acked = {} /\ asked = {}
  /\ said = [k \in Key |-> << >>]
  /\ work = [s \in Submission |-> "ABSENT"]

Ending == {"STOPPED", "SUCCEEDED", "FAILED"}
StreamOf(r) == <<r.ch, r.op>>
AskedFor(d, k, s) == StreamOf(Request[d]) = k /\ Request[d].sub = s
Belongs(s, k) == \E d \in Delivery : AskedFor(d, k, s)

Event(type, s, code) == [type |-> type, sub |-> s, code |-> code]
Completed(s) == Event("COMPLETED", s, "NONE")
QueuedCancel == Event("CANCELLED", Null, "NONE")
Told(k) == {said[k][i] : i \in DOMAIN said[k]}
Verdicts(k, s) ==
  {e \in Told(k) : e.sub = s /\ e.type \in {"COMPLETED", "FAILED", "CANCELLED"}}

Say(k, e) == said' = [said EXCEPT ![k] = Append(@, e)] /\ UNCHANGED <<acked, asked, work>>

-----------------------------------------------------------------------------
(* The client and Ray.                                                     *)

Cancel(k) == asked' = asked \cup {k} /\ UNCHANGED <<acked, said, work>>

Admit(d) ==
  /\ Request[d].kind = "valid" /\ work[Request[d].sub] = "ABSENT"
  /\ work' = [work EXCEPT ![Request[d].sub] = "LIVE"]
  /\ UNCHANGED <<acked, asked, said>>

\* A job succeeds only after its result is on the stream.
End(k, s, how) ==
  /\ Belongs(s, k) /\ work[s] = "LIVE"
  /\ how = "SUCCEEDED" => Completed(s) \in Told(k)
  /\ work' = [work EXCEPT ![s] = how]
  /\ UNCHANGED <<acked, asked, said>>

-----------------------------------------------------------------------------
(* The answers to a request.                                               *)

SayAccepted(k, s) ==
  /\ Belongs(s, k) /\ work[s] # "ABSENT"
  /\ Say(k, Event("ACCEPTED", s, "NONE"))

SayRejected(k) ==
  /\ \E d \in Delivery : /\ StreamOf(Request[d]) = k
                         /\ Request[d].kind \in {"invalid", "oversize"}
  /\ Say(k, Event("FAILED", Null, "REJECTED"))

SayCancelledBefore(k) == k \in asked /\ Say(k, QueuedCancel)

-----------------------------------------------------------------------------
(* What the driver says, while the job lives: nothing once it has given    *)
(* its verdict, unless it could not be sure that the verdict arrived.      *)

SayProgress(k, s) ==
  /\ Belongs(s, k) /\ work[s] = "LIVE" /\ Verdicts(k, s) = {}
  /\ Say(k, Event("PROGRESS", s, "NONE"))

SayCompleted(k, s) ==
  /\ Belongs(s, k) /\ work[s] = "LIVE" /\ Verdicts(k, s) = {}
  /\ Say(k, Completed(s))

SayFailed(k, s) ==
  /\ Belongs(s, k) /\ work[s] = "LIVE"
  /\ LET failed == Event("FAILED", s, "EXECUTION_FAILED") IN
     Verdicts(k, s) \subseteq {failed} /\ Say(k, failed)

SayUnpublished(k, s) ==
  /\ Belongs(s, k) /\ work[s] = "LIVE"
  /\ Verdicts(k, s) \subseteq {Completed(s)}
  /\ Say(k, Event("FAILED", s, "TERMINAL_EVENT_PUBLICATION_FAILED"))

-----------------------------------------------------------------------------
(* What the watcher says of a job that has ended: the code is that of the  *)
(* end, or of a cancellation or a time limit that somebody asked for.      *)

EndCode == [STOPPED |-> "RAY_JOB_STOPPED", SUCCEEDED |-> "TERMINAL_EVENT_MISSING",
            FAILED |-> "RAY_JOB_FAILED"]

SayEnded(k, s) ==
  /\ Belongs(s, k) /\ work[s] \in Ending
  /\ Say(k, Event("FAILED", s, EndCode[work[s]]))

SayCancelled(k, s) ==
  /\ Belongs(s, k) /\ work[s] = "STOPPED"
  /\ \E j \in asked : j[2] = k[2]
  /\ Say(k, Event("CANCELLED", s, "NONE"))

SayTimedOut(k, s) ==
  /\ Belongs(s, k) /\ work[s] \in Ending
  /\ \E d \in Delivery : Request[d].op = k[2] /\ Request[d].timeout # Null
  /\ Say(k, Event("FAILED", s, "EXECUTION_TIMEOUT"))

-----------------------------------------------------------------------------

\* An entry leaves the group because its job exists, it was no valid request, or
\* its operation was cancelled, by an event or a job that shows it.
Acknowledge(d) ==
  /\ LET r == Request[d]
         k == StreamOf(r) IN
     \/ work[r.sub] # "ABSENT"
     \/ r.kind # "valid"
     \/ /\ k \in asked
        /\ \/ QueuedCancel \in Told(k)
           \/ \E s \in Submission, e \in Delivery :
                /\ work[s] # "ABSENT"
                /\ Request[e].sub = s /\ Request[e].op = r.op
  /\ acked' = acked \cup {d}
  /\ UNCHANGED <<asked, said, work>>

Next ==
  \/ \E d \in Delivery : Admit(d) \/ Acknowledge(d)
  \/ \E k \in Key :
       \/ Cancel(k) \/ SayRejected(k) \/ SayCancelledBefore(k)
       \/ \E s \in Submission :
            \/ \E how \in Ending : End(k, s, how)
            \/ SayAccepted(k, s)
            \/ SayProgress(k, s) \/ SayCompleted(k, s)
            \/ SayFailed(k, s) \/ SayUnpublished(k, s)
            \/ SayEnded(k, s) \/ SayCancelled(k, s) \/ SayTimedOut(k, s)

Spec == Init /\ [][Next]_vars

=============================================================================

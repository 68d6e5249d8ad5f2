--------------------------- MODULE CancelWatcher ---------------------------
(***************************************************************************)
(* CancelWatcher: the daemon thread of a provider process.  A pass takes a *)
(* snapshot of the active map and looks at its entries one by one; every   *)
(* remote call is a step of its own, so the main thread, the driver and    *)
(* Ray move between the terminal-event lookup, the status query, the       *)
(* cancel-key lookup, the report and the removal of the entry.             *)
(***************************************************************************)
EXTENDS Admission

Watching(p, step) == mode[p] # "down" /\ watch[p].pc = step
Watched(p) == watch[p].item

\* The thread moves on with the current entry, or leaves it for this pass.
Move(p, step) == watch' = [watch EXCEPT ![p].pc = step]
Skip(p) == watch' = [watch EXCEPT ![p] = [NoWatch EXCEPT !.todo = watch[p].todo]]

Flags == <<stopRequested, timeoutRequested>>
Untouched == <<queue, marker, now, mode, buffer, pc, msg, stops>>

\* _run and the snapshot of check_once; no pass begins after close.
BeginPass(p) ==
  /\ mode[p] = "up" /\ Watching(p, "idle") /\ watch[p].todo = {}
  /\ \E o \in Operation : active[p][o] # Null
  /\ watch' = [watch EXCEPT ![p].todo =
                 {active[p][o] : o \in Operation} \ {Null}]
  /\ UNCHANGED <<log, trimmed, job, active, Flags, faults, Untouched>>

\* Bug: the pass does not look for a terminal event.
ObserveBlind(p) ==
  /\ Watching(p, "idle")
  /\ \E i \in watch[p].todo :
       watch' = [watch EXCEPT ![p].todo = @ \ {i}, ![p].item = i, ![p].pc = "status"]
  /\ UNCHANGED <<log, trimmed, job, active, Flags, faults, Untouched>>

\* The terminal-event lookup for the next entry of the snapshot.
Observe(p) ==
  /\ Watching(p, "idle")
  /\ \E i \in watch[p].todo :
       watch' = [watch EXCEPT
                   ![p].todo = @ \ {i}, ![p].item = i,
                   ![p].pc = IF TerminalPublished(i) THEN "remove" ELSE "status"]
  /\ UNCHANGED <<log, trimmed, job, active, Flags, faults, Untouched>>

GetStatus(p) ==
  /\ Watching(p, "status")
  /\ watch' = [watch EXCEPT ![p].status = Status(Watched(p).sub),
                            ![p].pc = "markers"]
  /\ UNCHANGED <<log, trimmed, job, active, Flags, faults, Untouched>>

\* A lookup raises: logged, the entry waits for the next pass.
LookupRaises(p) ==
  /\ \/ /\ Watching(p, "idle")
        /\ \E i \in watch[p].todo : watch' = [watch EXCEPT ![p].todo = @ \ {i}]
     \/ Watching(p, "status") /\ Skip(p)
     \/ Watching(p, "markers") /\ Skip(p)
  /\ Fault
  /\ UNCHANGED <<log, trimmed, job, active, Flags, Untouched>>

-----------------------------------------------------------------------------
(* What the pass decides from the status it holds, the cancel key, the     *)
(* clock, and the stops this process has already requested.                *)

Cancelled(p) == KeyOf(Watched(p)) \in marker
\* Bug: off by one.
TimedOutEarly(p) == Watched(p).deadline # Null /\ now + 1 >= Watched(p).deadline
TimedOut(p) == Watched(p).deadline # Null /\ now >= Watched(p).deadline
TimeoutStop(p) ==
  \/ Watched(p).op \in timeoutRequested[p]
  \/ TimedOut(p) /\ ~Cancelled(p) /\ Watched(p).op \notin stopRequested[p]

Fallback(p, code) ==
  [type |-> "FAILED", sub |-> Watched(p).sub, code |-> code]
CancelReport(p) ==
  [type |-> "CANCELLED", sub |-> Watched(p).sub, code |-> "NONE"]

\* Bug: after a restart the cancel key no longer explains a STOPPED job.
TerminalReportForgets(p) ==
  IF TimeoutStop(p) THEN Fallback(p, "EXECUTION_TIMEOUT")
  ELSE CASE watch[p].status = "FAILED" -> Fallback(p, "RAY_JOB_FAILED")
         [] watch[p].status = "SUCCEEDED" -> Fallback(p, "TERMINAL_EVENT_MISSING")
         [] OTHER -> IF Watched(p).op \in stopRequested[p]
                       THEN CancelReport(p)
                       ELSE Fallback(p, "RAY_JOB_STOPPED")

TerminalReport(p) ==
  IF TimeoutStop(p) THEN Fallback(p, "EXECUTION_TIMEOUT")
  ELSE CASE watch[p].status = "FAILED" -> Fallback(p, "RAY_JOB_FAILED")
         [] watch[p].status = "SUCCEEDED" -> Fallback(p, "TERMINAL_EVENT_MISSING")
         [] OTHER -> IF Cancelled(p) \/ Watched(p).op \in stopRequested[p]
                       THEN CancelReport(p)
                       ELSE Fallback(p, "RAY_JOB_STOPPED")

\* Bug: CANCELLED is reported as soon as the stop has been requested.
DecideEarly(p) ==
  /\ Watching(p, "markers")
  /\ IF watch[p].status \in EndedStatus \/ Watched(p).op \in stopRequested[p]
       THEN watch' = [watch EXCEPT ![p].event = TerminalReport(p),
                                   ![p].pc = "report"]
     ELSE IF Cancelled(p) \/ TimedOut(p)
       THEN Move(p, IF Cancelled(p) THEN "cancel" ELSE "timeout")
     ELSE Skip(p)
  /\ UNCHANGED <<log, trimmed, job, active, Flags, faults, Untouched>>

\* Bug: a deadline only matters once the job has ended.
DecideLate(p) ==
  /\ Watching(p, "markers")
  /\ IF watch[p].status \in EndedStatus
       THEN watch' = [watch EXCEPT ![p].event = TerminalReport(p),
                                   ![p].pc = "report"]
     ELSE IF Cancelled(p) THEN Move(p, "cancel")
     ELSE Skip(p)
  /\ UNCHANGED <<log, trimmed, job, active, Flags, faults, Untouched>>

Decide(p) ==
  /\ Watching(p, "markers")
  /\ IF watch[p].status \in EndedStatus
       THEN watch' = [watch EXCEPT ![p].event = TerminalReport(p),
                                   ![p].pc = "report"]
     ELSE IF Cancelled(p) \/ TimedOut(p)
       THEN Move(p, IF Cancelled(p) THEN "cancel" ELSE "timeout")
     ELSE Skip(p)
  /\ UNCHANGED <<log, trimmed, job, active, Flags, faults, Untouched>>

-----------------------------------------------------------------------------

\* _report_cancelled and _report_failed: the entry stays if the XADD raises.
Report(p) ==
  /\ Watching(p, "report")
  /\ \/ Publish(KeyOf(Watched(p)), watch[p].event) /\ Move(p, "remove")
     \/ PublishRaises(KeyOf(Watched(p)), watch[p].event) /\ Skip(p)
  /\ UNCHANGED <<job, active, Flags, Untouched>>

\* Bug: the entry of a reported job stays.
RemoveEntryKeeps(p) ==
  /\ Watching(p, "remove")
  /\ Skip(p)
  /\ UNCHANGED <<log, trimmed, job, active, Flags, faults, Untouched>>

\* The entry is removed by operation id, with the stops requested for it.
RemoveEntry(p) ==
  /\ Watching(p, "remove")
  /\ Remove(p, Watched(p).op)
  /\ stopRequested' = [stopRequested EXCEPT ![p] = @ \ {Watched(p).op}]
  /\ timeoutRequested' = [timeoutRequested EXCEPT ![p] = @ \ {Watched(p).op}]
  /\ Skip(p)
  /\ UNCHANGED <<log, trimmed, job, faults, Untouched>>

\* stop_ray_job returns: this process remembers for which reason it asked.
StopCancelled(p) ==
  /\ Watching(p, "cancel")
  /\ RequestStop(Watched(p).sub, "cancel")
  /\ stopRequested' = [stopRequested EXCEPT ![p] = @ \cup {Watched(p).op}]
  /\ Skip(p)
  /\ UNCHANGED <<log, trimmed, active, timeoutRequested, faults, Untouched>>

StopTimedOut(p) ==
  /\ Watching(p, "timeout")
  /\ RequestStop(Watched(p).sub, "timeout")
  /\ timeoutRequested' = [timeoutRequested EXCEPT ![p] = @ \cup {Watched(p).op}]
  /\ Skip(p)
  /\ UNCHANGED <<log, trimmed, active, stopRequested, faults, Untouched>>

\* stop_ray_job raises: Ray may have got the request, nothing is remembered.
StopRaises(p) ==
  /\ Watching(p, "cancel") \/ Watching(p, "timeout")
  /\ Fault
  /\ RequestStop(Watched(p).sub, watch[p].pc) \/ UNCHANGED job
  /\ Skip(p)
  /\ UNCHANGED <<log, trimmed, active, Flags, Untouched>>

WatchStep(p) ==
  \/ BeginPass(p) \/ Observe(p) \/ GetStatus(p) \/ LookupRaises(p) \/ Decide(p)
  \/ Report(p) \/ RemoveEntry(p)
  \/ StopCancelled(p) \/ StopTimedOut(p) \/ StopRaises(p)

=============================================================================

------------------------------ MODULE RayJobs ------------------------------
(***************************************************************************)
(* The Ray cluster as the provider uses it (submit_ray_job,                *)
(* get_ray_job_status, stop_ray_job, list_jobs) and, inside a running job, *)
(* the execution driver reduced to the events it publishes and the status  *)
(* its exit gives the job.                                                 *)
(***************************************************************************)
EXTENDS OperationState

Status(s) == job[s].status
Live(s)   == Status(s) \in LiveStatus
Ended(s)  == Status(s) \in EndedStatus
Exists(s) == Status(s) # "ABSENT"

\* submit_ray_job: the deterministic submission id either creates the job,
\* carrying item as its metadata, or reconciles with the one that exists.
CreateJob(item) ==
  job' = IF Exists(item.sub)
           THEN job
           ELSE [job EXCEPT ![item.sub] =
                   [NoJob EXCEPT !.status = "PENDING", !.item = item]]

\* stop_ray_job: asks a live job to stop; stopFor remembers the first reason.
RequestStop(s, why) ==
  job' = IF Live(s) /\ job[s].stopFor = "none"
           THEN [job EXCEPT ![s].stopFor = why]
           ELSE job

SetStatus(s, status) == job' = [job EXCEPT ![s].status = status]
SetDriver(s, step) == job' = [job EXCEPT ![s].driver = step]

RedisSide == <<queue, marker>>
ProviderSide == <<now, mainVars, active, watchVars, stops>>

-----------------------------------------------------------------------------
(* Ray.                                                                    *)

JobStarts(s) ==
  /\ Status(s) = "PENDING"
  /\ SetStatus(s, "RUNNING")
  /\ UNCHANGED <<RedisSide, log, trimmed, ProviderSide, faults>>

\* The driver dies without publishing anything: lost node, failed setup.
JobLost(s) ==
  /\ Live(s)
  /\ SetStatus(s, "FAILED")
  /\ UNCHANGED <<RedisSide, log, trimmed, ProviderSide, faults>>

StopTakesEffect(s) ==
  /\ Live(s) /\ job[s].stopFor # "none"
  /\ SetStatus(s, "STOPPED")
  /\ UNCHANGED <<RedisSide, log, trimmed, ProviderSide, faults>>

\* Somebody stops the job through Ray, without the provider.
ExternalStop(s) ==
  /\ Live(s) /\ job[s].stopFor = "none"
  /\ SetStatus(s, "STOPPED")
  /\ UNCHANGED <<RedisSide, log, trimmed, ProviderSide, faults>>

-----------------------------------------------------------------------------
(* The execution driver.                                                   *)

Executing(s) == Status(s) = "RUNNING" /\ job[s].driver = "executing"
DriverKey(s) == KeyOf(job[s].item)
DriverEvent(s, type, code) == [type |-> type, sub |-> s, code |-> code]

ProgressEvents(s) ==
  {i \in DOMAIN log[DriverKey(s)] :
     log[DriverKey(s)][i] = DriverEvent(s, "PROGRESS", "NONE")}

\* _publish_nonterminal: PHASE, LOG, METRICS and PROGRESS events; a failing XADD
\* is swallowed.
DriverProgress(s) ==
  /\ Executing(s)
  /\ Cardinality(ProgressEvents(s)) < MaxProgress
  /\ \/ Publish(DriverKey(s), DriverEvent(s, "PROGRESS", "NONE"))
     \/ PublishRaises(DriverKey(s), DriverEvent(s, "PROGRESS", "NONE"))
  /\ UNCHANGED <<RedisSide, job, ProviderSide>>

\* Bug: the result is announced while the workload goes on.
DriverCompletesFirst(s) ==
  /\ Executing(s)
  /\ Publish(DriverKey(s), DriverEvent(s, "COMPLETED", "NONE"))
  /\ UNCHANGED <<RedisSide, job, ProviderSide>>

\* _publish_completed: the result is only announced once the workload is done.
\* When the XADD raises, or the result cannot be encoded within the limit, the
\* driver goes on to report that instead.
DriverCompletes(s) ==
  /\ Executing(s)
  /\ \/ /\ Publish(DriverKey(s), DriverEvent(s, "COMPLETED", "NONE"))
        /\ SetDriver(s, "completed")
     \/ /\ PublishRaises(DriverKey(s), DriverEvent(s, "COMPLETED", "NONE"))
        /\ SetDriver(s, "unpublished")
     \/ SetDriver(s, "unpublished") /\ UNCHANGED <<log, trimmed, faults>>
  /\ UNCHANGED <<RedisSide, ProviderSide>>

\* reporter.failed on the way out of main, whatever becomes of that XADD.
DriverReportsFailure(s, code) ==
  /\ \/ Publish(DriverKey(s), DriverEvent(s, "FAILED", code))
     \/ PublishRaises(DriverKey(s), DriverEvent(s, "FAILED", code))
  /\ SetDriver(s, "failed")
  /\ UNCHANGED <<RedisSide, ProviderSide>>

\* The workload or its setup fails.  _run_batch_inference reports a failed
\* result inside the try of main, which catches an XADD that raises there.
DriverFails(s) ==
  /\ Executing(s)
  /\ \/ DriverReportsFailure(s, "EXECUTION_FAILED")
     \/ /\ PublishRaises(DriverKey(s), DriverEvent(s, "FAILED", "EXECUTION_FAILED"))
        /\ SetDriver(s, "failing")
        /\ UNCHANGED <<RedisSide, ProviderSide>>

\* The except clauses of main that follow a publication failure.
DriverExcept(s) ==
  /\ Status(s) = "RUNNING"
  /\ \/ /\ job[s].driver = "unpublished"
        /\ DriverReportsFailure(s, "TERMINAL_EVENT_PUBLICATION_FAILED")
     \/ /\ job[s].driver = "failing"
        /\ DriverReportsFailure(s, "EXECUTION_FAILED")

\* The exit code of main becomes the status of the job.
DriverExit(s) ==
  /\ Status(s) = "RUNNING"
  /\ \/ job[s].driver = "completed" /\ SetStatus(s, "SUCCEEDED")
     \/ job[s].driver = "failed" /\ SetStatus(s, "FAILED")
  /\ UNCHANGED <<RedisSide, log, trimmed, ProviderSide, faults>>

RayStep(s) ==
  \/ JobStarts(s) \/ JobLost(s) \/ StopTakesEffect(s) \/ ExternalStop(s)
  \/ DriverProgress(s) \/ DriverCompletes(s) \/ DriverFails(s)
  \/ DriverExcept(s) \/ DriverExit(s)

=============================================================================

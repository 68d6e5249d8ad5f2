-------------------------- MODULE ExecutionDriver --------------------------
(***************************************************************************)
(* The process of one Ray job, call by call: main loads its input, checks  *)
(* the credential, connects to Ray, goes through the plan of its operation *)
(* and reports how it went; Ray may stop or lose it between any two calls. *)
(* RayJobs holds the same driver in five steps; this module implements it. *)
(***************************************************************************)
EXTENDS DriverTransport, Sequences, FiniteSets, SequencesExt

CONSTANTS
  Inputs,        \* encoded inputs the provider may submit
  ConfigEnvs,    \* what execution.env_vars may hold of the transport variables
  NodeEnvs,      \* what the environment of a Ray node may hold of them
  MaxFaults      \* bound: failing calls in a behaviour

VARIABLES
  op,            \* operation_type
  sent,          \* the encoded input the provider packed
  node,          \* the transport variables of the Ray node
  env, package,  \* what the driver finds
  result,        \* which parts of the workload's result can be encoded in an event
  status,        \* of the Ray job
  stopAsked,     \* has stop_ray_job been called?
  pc, step,      \* where main stands, and where in the plan
  tries,         \* attempts of _publish_nonterminal that failed
  input,         \* what the driver has read
  ran,           \* the workload: not yet, its result's status, or raised
  raised,        \* the error code of the exception in flight
  rc,            \* what main returns, 2 if it raises
  events,        \* what the driver has appended to the event stream
  faults

ASSUME DriverAssumption ==
  /\ INLINE_LIMIT \in Nat /\ MaxFaults \in Nat
  /\ PACKAGE # Absent
  /\ \A i \in Inputs : i.len \in Nat /\ i.text # Absent

vars == <<op, sent, node, env, package, result, status, stopAsked, pc, step,
          tries, input, ran, raised, rc, events, faults>>
chosen == <<op, sent, node, env, package, result>>
ray == <<status, stopAsked>>
main == <<pc, step, tries, input, ran, raised, rc>>

Nonterminal == {"PHASE", "LOG", "METRICS", "PROGRESS"}
Terminal == {"COMPLETED", "FAILED"}
Codes == {"NONE", "CREDENTIAL_UNAVAILABLE", "EXECUTION_FAILED", "INFERENCE_FAILED",
          "TERMINAL_EVENT_PUBLICATION_FAILED"}

\* _run_training and _run_batch_inference: events to publish and calls to make.
Plan ==
  [training |->
     <<"PHASE", "LOG", "PHASE", "run", "dump", "METRICS", "PHASE", "COMPLETED">>,
   batch_inference |->
     <<"validate", "PHASE", "LOG", "PROGRESS", "resolve", "PHASE", "run",
       "PROGRESS", "dump", "COMPLETED">>]
Now == Plan[op][step]

TypeOK ==
  /\ op \in DOMAIN Plan /\ sent \in Inputs
  /\ result \in [metrics: BOOLEAN, whole: BOOLEAN]
  /\ status \in {"PENDING", "RUNNING", "STOPPED", "SUCCEEDED", "FAILED"}
  /\ stopAsked \in BOOLEAN
  /\ pc \in {"load", "connect", "credential", "init", "plan", "report", "except",
             "close"}
  /\ step \in DOMAIN Plan[op] /\ tries \in 0..1
  /\ input \in {i.text : i \in Inputs} \cup {Absent}
  /\ ran \in {"no", "succeeded", "failed", "raised"}
  /\ raised \in Codes /\ rc \in 0..2
  /\ events \in Seq([type: Nonterminal \cup Terminal, code: Codes])
  /\ faults \in 0..MaxFaults

Init ==
  /\ op \in DOMAIN Plan
  /\ sent \in Inputs
  /\ node \in NodeEnvs
  /\ \E config \in ConfigEnvs :
       /\ Accepted(config)
       /\ env = Overlay(node, Pack(sent, config).env)
       /\ package = Pack(sent, config).package
  \* Metrics that cannot be encoded are part of a result that cannot either.
  /\ result \in {r \in [metrics: BOOLEAN, whole: BOOLEAN] : r.whole => r.metrics}
  /\ status = "PENDING" /\ stopAsked = FALSE
  /\ pc = "load" /\ step = 1 /\ tries = 0
  /\ input = Absent /\ ran = "no" /\ raised = "NONE" /\ rc = 1
  /\ events = << >> /\ faults = 0

Running(at) == status = "RUNNING" /\ pc = at
Fault == faults < MaxFaults /\ faults' = faults + 1

-----------------------------------------------------------------------------
(* Before the try of main: an exception ends the process without an event. *)

Die == status' = "FAILED" /\ UNCHANGED <<stopAsked, pc>>
Pass(at) == pc' = at /\ UNCHANGED <<step, tries, raised>>

\* _load_driver_input; the identity variables Ray gives the process may differ.
LoadDriverInput ==
  /\ Running("load")
  /\ input' = Read(env, package)
  /\ Die \/ (input' # Absent /\ pc' = "connect" /\ UNCHANGED ray)
  /\ UNCHANGED <<chosen, step, tries, raised, ran, rc, events, faults>>

\* create_redis_client and _reporter.
Connect ==
  /\ Running("connect")
  /\ Die \/ (pc' = "credential" /\ UNCHANGED ray)
  /\ UNCHANGED <<chosen, step, tries, raised, ran, rc, input, events, faults>>

-----------------------------------------------------------------------------
(* Inside it.                                                              *)

Raise(code) == pc' = "except" /\ raised' = code /\ UNCHANGED <<step, tries>>
Follow(next) == step' = next /\ tries' = 0 /\ UNCHANGED <<pc, raised>>
Calm == UNCHANGED <<chosen, ray, input>>

\* _resolve_credential_reference, and ray.init.
ResolveCredential ==
  /\ Running("credential")
  /\ Pass("init") \/ Raise("CREDENTIAL_UNAVAILABLE")
  /\ Calm /\ UNCHANGED <<ran, rc, events, faults>>

InitRay ==
  /\ Running("init")
  /\ Pass("plan") \/ Raise("EXECUTION_FAILED")
  /\ Calm /\ UNCHANGED <<ran, rc, events, faults>>

\* reporter.publish: the XADD is done; or it raises, done or not.
Append1(type, code) == events' = Append(events, [type |-> type, code |-> code])
Published(type, code) == Append1(type, code) /\ UNCHANGED faults
PublishFails(type, code) ==
  Fault /\ (Append1(type, code) \/ UNCHANGED events)
Unencodable == UNCHANGED <<events, faults>>

CanEncode(type) ==
  CASE type = "METRICS" -> result.metrics
    [] type = "COMPLETED" -> result.whole
    [] OTHER -> TRUE

\* Bug: the second failure is raised.
SecondFailureRaises ==
  IF tries = 0 THEN tries' = 1 /\ UNCHANGED <<pc, step, raised>>
  ELSE Raise("EXECUTION_FAILED")

\* Bug: the event is retried until it is published.
SecondFailureCounts == tries' = tries + 1 /\ UNCHANGED <<pc, step, raised>>

\* Bug: the retries are not counted.
SecondFailureRetries == UNCHANGED <<pc, step, tries, raised>>

\* _publish_nonterminal gives up an event after a second failure.
SecondFailure ==
  IF tries = 0 THEN tries' = 1 /\ UNCHANGED <<pc, step, raised>>
  ELSE Follow(step + 1)

PublishNonterminal ==
  /\ Running("plan") /\ Now \in Nonterminal
  /\ \/ CanEncode(Now) /\ Published(Now, "NONE") /\ Follow(step + 1)
     \/ CanEncode(Now) /\ PublishFails(Now, "NONE") /\ SecondFailure
     \/ ~CanEncode(Now) /\ Unencodable /\ SecondFailure
  /\ Calm /\ UNCHANGED <<ran, rc>>

\* InferenceRequest.model_validate and resolve_inference.
Prepare ==
  /\ Running("plan") /\ Now \in {"validate", "resolve"}
  /\ Follow(step + 1) \/ Raise("EXECUTION_FAILED")
  /\ Calm /\ UNCHANGED <<ran, rc, events, faults>>

\* The workload: it succeeds, raises, or (inference) returns a failed result.
Run ==
  /\ Running("plan") /\ Now = "run"
  /\ \/ ran' = "succeeded" /\ Follow(step + 1)
     \/ ran' = "raised" /\ Raise("EXECUTION_FAILED")
     \/ op = "batch_inference" /\ ran' = "failed" /\ Pass("report")
  /\ Calm /\ UNCHANGED <<rc, events, faults>>

\* result.model_dump(mode="json").
Dump ==
  /\ Running("plan") /\ Now = "dump"
  /\ Follow(step + 1) \/ Raise("TERMINAL_EVENT_PUBLICATION_FAILED")
  /\ Calm /\ UNCHANGED <<ran, rc, events, faults>>

\* Bug: COMPLETED is best effort like the other events.
PublishCompletedAnyway ==
  /\ Running("plan") /\ Now = "COMPLETED"
  /\ \/ CanEncode(Now) /\ Published(Now, "NONE")
     \/ CanEncode(Now) /\ PublishFails(Now, "NONE")
     \/ ~CanEncode(Now) /\ Unencodable
  /\ rc' = 0 /\ Pass("close")
  /\ Calm /\ UNCHANGED ran

\* _publish_completed, and return 0.
PublishCompleted ==
  /\ Running("plan") /\ Now = "COMPLETED"
  /\ \/ /\ CanEncode(Now) /\ Published(Now, "NONE")
        /\ rc' = 0 /\ Pass("close")
     \/ /\ \/ CanEncode(Now) /\ PublishFails(Now, "NONE")
           \/ ~CanEncode(Now) /\ Unencodable
        /\ Raise("TERMINAL_EVENT_PUBLICATION_FAILED") /\ UNCHANGED rc
  /\ Calm /\ UNCHANGED ran

\* reporter.failed for a failed inference result, still inside the try.
ReportInference ==
  /\ Running("report")
  /\ \/ Published("FAILED", "INFERENCE_FAILED") /\ Pass("close")
     \/ PublishFails("FAILED", "INFERENCE_FAILED") /\ Raise("EXECUTION_FAILED")
  /\ Calm /\ UNCHANGED <<ran, rc>>

-----------------------------------------------------------------------------
(* The except clauses, finally, and the exit of the process.               *)

\* reporter.failed; when that raises too, main raises after its finally.
Except ==
  /\ Running("except")
  /\ \/ Published("FAILED", raised) /\ UNCHANGED rc
     \/ PublishFails("FAILED", raised) /\ rc' = 2
  /\ Pass("close")
  /\ Calm /\ UNCHANGED ran

\* Bug: the error paths fall through to return 0.
ExitZero ==
  /\ Running("close")
  /\ status' = IF rc = 2 THEN "FAILED" ELSE "SUCCEEDED"
  /\ UNCHANGED <<chosen, stopAsked, main, events, faults>>

\* redis_client.close, whose exception would replace the return value.
Exit ==
  /\ Running("close")
  /\ status' \in {"FAILED", IF rc = 0 THEN "SUCCEEDED" ELSE "FAILED"}
  /\ UNCHANGED <<chosen, stopAsked, main, events, faults>>

MainStep ==
  \/ LoadDriverInput \/ Connect \/ ResolveCredential \/ InitRay
  \/ PublishNonterminal \/ Prepare \/ Dump \/ PublishCompleted
  \/ ReportInference \/ Except \/ Exit

-----------------------------------------------------------------------------
(* Ray.                                                                    *)

Live == status \in {"PENDING", "RUNNING"}
RayGives(st) ==
  status' = st /\ UNCHANGED <<chosen, stopAsked, main, events, faults>>

Start == status = "PENDING" /\ RayGives("RUNNING")

AskStop ==
  /\ Live /\ ~stopAsked
  /\ stopAsked' = TRUE
  /\ UNCHANGED <<chosen, status, main, events, faults>>

\* The process is stopped, asked for or not, or lost with its node.
Stopped == Live /\ RayGives("STOPPED")
Lost == Live /\ RayGives("FAILED")

Over == ~Live /\ UNCHANGED vars

Next == MainStep \/ Run \/ Start \/ AskStop \/ Stopped \/ Lost \/ Over

\* The process runs on, but its workload need not come to an end.
Spec == Init /\ [][Next]_vars /\ WF_vars(MainStep)

-----------------------------------------------------------------------------
(* Properties.                                                             *)

TerminalEvents == {i \in DOMAIN events : events[i].type \in Terminal}
Said(type, code) == Contains(events, [type |-> type, code |-> code])

\* read_driver_input undoes driver_transport: the driver reads the input that
\* was packed for it, whatever its size and whatever the configured env_vars
\* hold; stale variables of the node can only make it read nothing.
OwnInput ==
  LET read == Read(env, package) IN
  read = sent.text \/ (read = Absent /\ node # Clean)

\* A job Ray calls SUCCEEDED has run its workload and said COMPLETED as its last
\* and only terminal event, whatever failed on the way.
SucceededSaidCompleted ==
  status = "SUCCEEDED" =>
    /\ ran = "succeeded" /\ TerminalEvents = {Len(events)}
    /\ Said("COMPLETED", "NONE")

\* docs/operations.md: failures to publish nonterminal events do "not replace a
\* successful workload result with EXECUTION_FAILED".
SuccessNotReplaced ==
  ran = "succeeded" => ~Said("FAILED", "EXECUTION_FAILED")

\* A driver that ends by itself, with no failing call, has said exactly one
\* terminal event, and it agrees with the exit status; results and metrics that
\* cannot be encoded included.
ExitSaysOne ==
  pc = "close" /\ faults = 0 =>
    /\ Cardinality(TerminalEvents) = 1
    /\ rc = 0 <=> Said("COMPLETED", "NONE")

\* Once the workload has returned the process ends, although Redis may fail and
\* an event may never be encodable: no retry goes on for ever.
RanEnds == ran # "no" ~> ~Live

-----------------------------------------------------------------------------
(* The driver of RayJobs.                                                  *)

Key == <<"channel", "operation">>
It == "submission"
Unused == "unused"

Events ==
  [i \in DOMAIN events |->
     [type |-> IF events[i].type \in Nonterminal THEN "PROGRESS" ELSE events[i].type,
      sub |-> It,
      code |-> IF events[i].code \in {"CREDENTIAL_UNAVAILABLE", "INFERENCE_FAILED"}
                 THEN "EXECUTION_FAILED" ELSE events[i].code]]

Driver ==
  CASE pc = "close" -> IF rc = 0 THEN "completed" ELSE "failed"
    [] pc = "except" /\ raised = "TERMINAL_EVENT_PUBLICATION_FAILED" -> "unpublished"
    [] pc = "except" /\ ran = "failed" -> "failing"
    [] OTHER -> "executing"

Job ==
  [status |-> status,
   item |-> [ch |-> Key[1], op |-> Key[2], sub |-> It, profile |-> Unused,
             digest |-> Unused, deadline |-> Unused],
   stopFor |-> IF stopAsked THEN "cancel" ELSE "none", driver |-> Driver]

Ray == INSTANCE RayJobs WITH
  Provider <- {}, Delivery <- {}, Channel <- {Key[1]}, Operation <- {Key[2]},
  Submission <- {It}, Profile <- {Unused}, Digest <- {Unused}, Request <- << >>,
  Null <- Unused, Lookback <- 1, MaxStreamLength <- 100, ClaimCount <- 1,
  Cancellable <- {}, AmbiguousSubmit <- FALSE, MaxStops <- 0, MaxTime <- 0,
  MaxProgress <- 100,
  job <- [s \in {It} |-> Job], log <- [k \in {Key} |-> Events],
  trimmed <- [k \in {Key} |-> 0],
  queue <- Unused, marker <- {}, now <- 0, mode <- Unused, buffer <- Unused,
  pc <- Unused, msg <- Unused, active <- Unused, stopRequested <- Unused,
  timeoutRequested <- Unused, watch <- Unused, stops <- 0

\* Every call of main is a step of the driver of RayJobs, or none of its steps:
\* the events, error paths and exits of the life cycle are those of the code.
ImplementsRayJobs ==
  [][Ray!RayStep(It) \/ Ray!RequestStop(It, "cancel")]_<<Job, Events, faults>>

=============================================================================

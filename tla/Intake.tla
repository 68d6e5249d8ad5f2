------------------------------- MODULE Intake -------------------------------
(***************************************************************************)
(* What a provider lets in: the configuration it starts with, then a task  *)
(* entry on its way through _message, handle, parse_request and            *)
(* prepare_operation up to the driver input, check by check in the order   *)
(* of the code.  The cancel-key lookups between them are in Admission.     *)
(***************************************************************************)
EXTENDS Credentials, Configuration, FiniteSetsExt

CONSTANTS
  Situations     \* the configurations, each with an entry that waits in a stream

VARIABLES
  transport, names, profiles,   \* the configuration
  stage,         \* "config", "refused", "serving" or "handled"
  entry,         \* the task entry, and the stream it came from
  verdict        \* "ADMITTED", or the code it is rejected with

SituationAssumption ==
  \A s \in Situations : /\ s.transport \in Transport /\ s.names \in Names
                         /\ s.entry.spec \in RequestValue
ASSUME SituationAssumption

vars == <<transport, names, profiles, stage, entry, verdict>>

\* _message: an id that is missing, too long or not UTF-8 is no id.
NoId == ""
OuterId(e) == IF e.id \in {"missing", "long", "undecodable"} THEN NoId ELSE e.id

RunId(e) == IF e.runId # None THEN e.runId ELSE e.operationId

\* Every check with the code of its failure; the first that fails decides.
EnvelopeChecks(e) ==
  << <<OuterId(e) # NoId, "INVALID_OPERATION_ID">>,
     <<e.utf8, "INVALID_PAYLOAD">>,
     <<e.fields = "id_and_payload", "INVALID_ENVELOPE">>,
     <<e.bytes = "within_limit", "PAYLOAD_TOO_LARGE">> >>

\* Bug: the identity of the payload is not compared with the envelope's.
ParseChecksTrusting(e) ==
  << <<e.json # "broken", "INVALID_JSON">>,
     <<e.json = "object", "INVALID_REQUEST">>,
     <<e.profile = "tributo-generic-v1", "UNSUPPORTED_PROTOCOL_PROFILE">>,
     <<e.version = "1.0", "UNSUPPORTED_PROTOCOL_VERSION">>,
     <<PlaintextPath[e.spec][<<"spec">>] = NoPath, "PLAINTEXT_CREDENTIAL">>,
     <<e.schema /\ e.spec.t = "dict", "INVALID_REQUEST">>,
     <<e.operationType = e.channel, "OPERATION_CHANNEL_MISMATCH">> >>

ParseChecks(e) ==
  << <<e.json # "broken", "INVALID_JSON">>,
     <<e.json = "object", "INVALID_REQUEST">>,
     <<e.profile = "tributo-generic-v1", "UNSUPPORTED_PROTOCOL_PROFILE">>,
     <<e.version = "1.0", "UNSUPPORTED_PROTOCOL_VERSION">>,
     <<PlaintextPath[e.spec][<<"spec">>] = NoPath, "PLAINTEXT_CREDENTIAL">>,
     <<e.schema /\ e.spec.t = "dict", "INVALID_REQUEST">>,
     <<e.operationId = OuterId(e), "IDENTITY_MISMATCH">>,
     <<e.operationType = e.channel, "OPERATION_CHANNEL_MISMATCH">> >>

\* single_worker wants one worker, distributed at least two.
WorkersFit(e) ==
  IF e.executionProfile = "single_worker" THEN e.workers = 1 ELSE e.workers >= 2

\* prepare_operation.
TrainingChecks(e) ==
  << <<e.supported, "UNSUPPORTED_ALGORITHM">>,
     <<e.mapped, "INVALID_TRAINING_REQUEST">>,
     <<e.bundle, "UNSUPPORTED_TRAINING_OUTPUT">>,
     <<WorkersFit(e), "EXECUTION_PROFILE_MISMATCH">> >>
InferenceChecks(e) ==
  << <<e.supported, "UNSUPPORTED_INFERENCE_PROFILE">>,
     <<e.mapped, "INVALID_INFERENCE_REQUEST">>,
     <<e.bundle, "UNSUPPORTED_INFERENCE_PROFILE">>,
     <<e.innerRunId \in {None, RunId(e)}, "IDENTITY_MISMATCH">>,
     <<WorkersFit(e), "EXECUTION_PROFILE_MISMATCH">> >>

Checks(e) ==
  EnvelopeChecks(e) \o ParseChecks(e)
    \o << <<e.executionProfile \in profiles[e.channel],
            "UNSUPPORTED_EXECUTION_PROFILE">> >>
    \o (IF e.operationType = "training" THEN TrainingChecks(e) ELSE InferenceChecks(e))
    \o << <<e.driverInput = "within_limit", "DRIVER_INPUT_TOO_LARGE">> >>

Verdict(e) ==
  LET failed == {i \in DOMAIN Checks(e) : ~Checks(e)[i][1]} IN
  IF failed = {} THEN "ADMITTED" ELSE Checks(e)[Min(failed)][2]

-----------------------------------------------------------------------------

Init ==
  /\ \E s \in Situations : /\ transport = s.transport /\ names = s.names
                            /\ profiles = s.profiles /\ entry = s.entry
  /\ stage = "config" /\ verdict = None

\* normalize_config.
Load ==
  /\ stage = "config"
  /\ transport' = WithUrl(transport)
  /\ stage' = IF TransportOK(transport') /\ Independent(names)
                THEN "serving" ELSE "refused"
  /\ UNCHANGED <<names, profiles, entry, verdict>>

\* poll and handle, up to the submission.
Handle ==
  /\ stage = "serving"
  /\ verdict' = Verdict(entry) /\ stage' = "handled"
  /\ UNCHANGED <<transport, names, profiles, entry>>

Done == stage \in {"refused", "handled"} /\ UNCHANGED vars

Next == Load \/ Handle \/ Done

Spec == Init /\ [][Next]_vars

-----------------------------------------------------------------------------
(* Properties.                                                             *)

Configured == stage \in {"serving", "handled"}

\* Whatever transport section is accepted, the driver's connection passes the
\* same validation, which handle performs outside every try, and its client has
\* the provider's master and credentials.  Behind Sentinel it has the provider's
\* database too, and only the nodes may differ, where the section says so; a
\* standalone driver_url decides on address and database alike, and may so lead
\* to another database than the provider's.
DriverFollowsSection ==
  Configured =>
    LET ours == Client(transport)
        driver == DriverConnection(transport)
        theirs == Client(driver) IN
    /\ ConnectionOK(driver)
    /\ \A f \in {"master", "password", "sentinelPassword"} : theirs[f] = ours[f]
    /\ theirs.at # ours.at => \/ theirs.at = {transport.driverUrl}
                              \/ /\ transport.mode = "sentinel"
                                 /\ theirs.at = Range(transport.driverNodes)
    /\ theirs.database # ours.database =>
         /\ transport.mode = "standalone" /\ transport.driverUrl # None
         /\ theirs.database = UrlDatabase[transport.driverUrl]

\* The ids a delivery makes the provider use: of the cancel key it looks up
\* first, of the active entry, of the second lookup, of the events.
IdsOf(e) == {OuterId(e)} \cup (IF verdict = "ADMITTED" THEN {e.operationId} ELSE {})

\* All that handle does for a delivery it does under one identity: one operation
\* id, the channel it came from, and, where the workload gets a run id of its
\* own, that of the submission.
OneIdentity ==
  stage = "handled" =>
    /\ Cardinality(IdsOf(entry)) = 1
    /\ verdict = "ADMITTED" =>
         /\ NoId \notin IdsOf(entry)
         /\ entry.operationType = entry.channel
         /\ entry.channel = "batch_inference" => entry.innerRunId \in {None, RunId(entry)}

\* _plaintext_credential_path finds a credential exactly if there is one, at any
\* depth, in dicts and lists, with the exemption of spec.credential_ref alone.
PlaintextFound ==
  stage = "handled" =>
    ((PlaintextPath[entry.spec][<<"spec">>] # NoPath) <=>
       \E p \in Positions :
         Has(entry.spec, p) /\ IsPlaintext(entry.spec, p))

\* redact leaves no value under a sensitive key, at any depth, and keeps the
\* shape of what has neither such a key nor credential_ref above it.  What
\* credential_ref holds stays, as one string.
RedactedClean ==
  stage = "handled" =>
    LET out == Redact[entry.spec] IN
    \A p \in Positions :
      /\ Has(out, p) /\ p # << >> /\ KeyAt(out, p) \in Hidden => Node[out][p] = Redacted
      /\ /\ Has(entry.spec, p)
         /\ \A n \in 1..Len(p) :
              KeyAt(entry.spec, SubSeq(p, 1, n)) \notin Hidden \cup {"credential_ref"}
         => Has(out, p) /\ Node[out][p].t = Node[entry.spec][p].t

=============================================================================

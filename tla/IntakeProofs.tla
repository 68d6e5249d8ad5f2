---------------------------- MODULE IntakeProofs ----------------------------
(***************************************************************************)
(* Proofs about what a provider lets in, for every configuration, every    *)
(* entry and every spec.                                                   *)
(***************************************************************************)
EXTENDS Intake, CredentialsProofs, FiniteSetTheorems

-----------------------------------------------------------------------------
(* What a provider lets in.                                                *)

\* A sequence holds what the two it is put together from hold.
LEMMA ConcatRange ==
  ASSUME NEW T, NEW s \in Seq(T), NEW t \in Seq(T)
  PROVE  s \o t \in Seq(T) /\ Range(s \o t) = Range(s) \cup Range(t)
<1> DEFINE st == s \o t
<1>1. /\ st \in Seq(T) /\ Len(st) = Len(s) + Len(t)
      /\ \A i \in 1..Len(s) : st[i] = s[i]
      /\ \A i \in 1..Len(t) : st[Len(s) + i] = t[i]
      /\ Len(s) \in Nat /\ Len(t) \in Nat
  OBVIOUS
<1>2. /\ DOMAIN st = 1..(Len(s) + Len(t))
      /\ DOMAIN s = 1..Len(s) /\ DOMAIN t = 1..Len(t)
  BY <1>1
<1> HIDE DEF st
<1>3. ASSUME NEW i \in DOMAIN st PROVE st[i] \in Range(s) \cup Range(t)
  <2>1. CASE i \in 1..Len(s)
    BY <1>1, <1>2, <2>1 DEF Range
  <2>2. CASE i \notin 1..Len(s)
    <3>1. i - Len(s) \in 1..Len(t) /\ Len(s) + (i - Len(s)) = i
      BY <1>1, <1>2, <2>2
    <3>2. st[i] = t[i - Len(s)]
      BY <1>1, <3>1
    <3> QED BY <1>2, <3>1, <3>2 DEF Range
  <2> QED BY <2>1, <2>2
<1>4. ASSUME NEW i \in DOMAIN s PROVE s[i] \in Range(st)
  <2>1. i \in DOMAIN st /\ st[i] = s[i]
    BY <1>1, <1>2
  <2> QED BY <2>1 DEF Range
<1>5. ASSUME NEW i \in DOMAIN t PROVE t[i] \in Range(st)
  <2>1. Len(s) + i \in DOMAIN st /\ st[Len(s) + i] = t[i]
    BY <1>1, <1>2
  <2> QED BY <2>1 DEF Range
<1>6. Range(st) = Range(s) \cup Range(t)
  <2>1. \A x \in Range(st) : x \in Range(s) \cup Range(t)
    BY <1>3 DEF Range
  <2>2. \A x \in Range(s) \cup Range(t) : x \in Range(st)
    BY <1>4, <1>5 DEF Range
  <2> QED BY <2>1, <2>2
<1> QED BY <1>1, <1>6 DEF st

\* A sequence is one of what it holds.
LEMMA OwnRange ==
  ASSUME NEW n \in Nat, NEW f, f = [i \in 1..n |-> f[i]]
  PROVE  f \in Seq(Range(f))
<1>1. \A i \in 1..n : f[i] \in Range(f)
  BY DEF Range
<1>2. f \in [1..n -> Range(f)]
  BY <1>1
<1> HIDE DEF Range
<1> QED BY <1>2

LEMMA SingleRange ==
  ASSUME NEW T, NEW x \in T
  PROVE  <<x>> \in Seq(T) /\ Range(<<x>>) = {x}
BY DEF Range

\* The checks a delivery passes through, in no order.
AllChecks(e) ==
  Range(EnvelopeChecks(e)) \cup Range(ParseChecks(e))
    \cup {<<e.executionProfile \in profiles[e.channel], "UNSUPPORTED_EXECUTION_PROFILE">>}
    \cup Range(IF e.operationType = "training" THEN TrainingChecks(e) ELSE InferenceChecks(e))
    \cup {<<e.driverInput = "within_limit", "DRIVER_INPUT_TOO_LARGE">>}

LEMMA ChecksFacts ==
  \A e : Checks(e) \in Seq(AllChecks(e)) /\ Range(Checks(e)) = AllChecks(e)
<1> TAKE e
<1> DEFINE a == EnvelopeChecks(e)
           b == ParseChecks(e)
           c1 == <<e.executionProfile \in profiles[e.channel], "UNSUPPORTED_EXECUTION_PROFILE">>
           d == IF e.operationType = "training" THEN TrainingChecks(e) ELSE InferenceChecks(e)
           f1 == <<e.driverInput = "within_limit", "DRIVER_INPUT_TOO_LARGE">>
           T == AllChecks(e)
<1>2. a \in Seq(T) /\ b \in Seq(T) /\ d \in Seq(T)
  <2>1. a \in Seq(Range(a))
    <3>1. a = [i \in 1..4 |-> a[i]]
      BY DEF EnvelopeChecks
    <3> HIDE DEF a
    <3> QED BY <3>1, OwnRange
  <2>2. b \in Seq(Range(b))
    <3>1. b = [i \in 1..8 |-> b[i]]
      BY DEF ParseChecks
    <3> HIDE DEF b
    <3> QED BY <3>1, OwnRange
  <2>3. TrainingChecks(e) \in Seq(Range(TrainingChecks(e)))
    <3>1. TrainingChecks(e) = [i \in 1..4 |-> TrainingChecks(e)[i]]
      BY DEF TrainingChecks
    <3> QED BY <3>1, OwnRange
  <2>4. InferenceChecks(e) \in Seq(Range(InferenceChecks(e)))
    <3>1. InferenceChecks(e) = [i \in 1..5 |-> InferenceChecks(e)[i]]
      BY DEF InferenceChecks
    <3> QED BY <3>1, OwnRange
  <2>5. d \in Seq(Range(d))
    BY <2>3, <2>4
  <2> HIDE DEF a, b, d
  <2>6. Range(a) \subseteq T /\ Range(b) \subseteq T /\ Range(d) \subseteq T
    BY DEF AllChecks, a, b, d
  <2> HIDE DEF T
  <2> QED BY <2>1, <2>2, <2>5, <2>6
<1>3. /\ <<c1>> \in Seq(T) /\ Range(<<c1>>) = {c1}
      /\ <<f1>> \in Seq(T) /\ Range(<<f1>>) = {f1}
  <2>1. c1 \in T /\ f1 \in T
    BY DEF AllChecks
  <2> HIDE DEF c1, f1, T
  <2> QED BY <2>1, SingleRange
<1> DEFINE ab == a \o b
           c == <<c1>>
           abc == ab \o c
           abcd == abc \o d
           f == <<f1>>
<1>4. Checks(e) = abcd \o f
  BY DEF Checks
<1>5. T = Range(a) \cup Range(b) \cup {c1} \cup Range(d) \cup {f1}
  BY DEF AllChecks
<1>0. c \in Seq(T) /\ Range(c) = {c1} /\ f \in Seq(T) /\ Range(f) = {f1}
  BY <1>3
<1> HIDE DEF a, b, c1, d, f1, T
<1>6. ab \in Seq(T) /\ Range(ab) = Range(a) \cup Range(b)
  BY <1>2, ConcatRange
<1> HIDE DEF ab, c, f
<1>7. abc \in Seq(T) /\ Range(abc) = Range(a) \cup Range(b) \cup {c1}
  BY <1>0, <1>6, ConcatRange
<1> HIDE DEF abc
<1>8. abcd \in Seq(T) /\ Range(abcd) = Range(a) \cup Range(b) \cup {c1} \cup Range(d)
  BY <1>2, <1>7, ConcatRange
<1> HIDE DEF abcd
<1>9. /\ abcd \o f \in Seq(T)
      /\ Range(abcd \o f) = Range(a) \cup Range(b) \cup {c1} \cup Range(d) \cup {f1}
  BY <1>0, <1>8, ConcatRange
<1>10. Checks(e) \in Seq(T) /\ T = AllChecks(e)
  BY <1>4, <1>9 DEF T
<1> QED BY <1>4, <1>5, <1>9, <1>10

\* A least element of a set of numbers is one of them.
LEMMA MinFacts ==
  ASSUME NEW S \in SUBSET Nat, S # {}
  PROVE  Min(S) \in S
<1>1. \E n \in S : \A m \in S : n <= m
  BY Numbers!LeastNumber
<1> QED BY <1>1 DEF Min

\* What is admitted has passed every check.
LEMMA AdmittedFacts ==
  ASSUME NEW e, Verdict(e) = "ADMITTED"
  PROVE  \A c \in AllChecks(e) : c[1]
<1> DEFINE failed == {i \in DOMAIN Checks(e) : ~Checks(e)[i][1]}
<1>1. Checks(e) \in Seq(AllChecks(e)) /\ Range(Checks(e)) = AllChecks(e)
  BY ChecksFacts
<1>2. DOMAIN Checks(e) \in SUBSET Nat
  <2>1. DOMAIN Checks(e) = 1..Len(Checks(e)) /\ Len(Checks(e)) \in Nat
    BY <1>1
  <2> QED BY <2>1
<1>3. \A c \in AllChecks(e) : c[2] # "ADMITTED"
  <2>1. \A c \in Range(EnvelopeChecks(e)) : c[2] # "ADMITTED"
    BY DEF EnvelopeChecks, Range
  <2>2. \A c \in Range(ParseChecks(e)) : c[2] # "ADMITTED"
    BY DEF ParseChecks, Range
  <2>3. \A c \in Range(TrainingChecks(e)) : c[2] # "ADMITTED"
    BY DEF TrainingChecks, Range
  <2>4. \A c \in Range(InferenceChecks(e)) : c[2] # "ADMITTED"
    BY DEF InferenceChecks, Range
  <2>5. ASSUME NEW c \in AllChecks(e) PROVE c[2] # "ADMITTED"
    <3>1. \/ c \in Range(EnvelopeChecks(e)) \/ c \in Range(ParseChecks(e))
          \/ c \in Range(TrainingChecks(e)) \/ c \in Range(InferenceChecks(e))
          \/ c = <<e.executionProfile \in profiles[e.channel],
                   "UNSUPPORTED_EXECUTION_PROFILE">>
          \/ c = <<e.driverInput = "within_limit", "DRIVER_INPUT_TOO_LARGE">>
      BY <2>5, Zenon DEF AllChecks
    <3> QED BY <2>1, <2>2, <2>3, <2>4, <3>1
  <2> QED BY <2>5
<1>4. failed = {}
  <2> SUFFICES ASSUME failed # {} PROVE FALSE
    OBVIOUS
  <2>1. Verdict(e) = Checks(e)[Min(failed)][2]
    BY DEF Verdict
  <2>2. Min(failed) \in failed
    <3>1. failed \in SUBSET Nat
      BY <1>2
    <3> HIDE DEF failed
    <3> QED BY <3>1, MinFacts
  <2>3. Checks(e)[Min(failed)] \in AllChecks(e)
    BY <1>1, <2>2 DEF Range
  <2> QED BY <1>3, <2>1, <2>3
<1>5. \A i \in DOMAIN Checks(e) : Checks(e)[i][1]
  BY <1>4
<1> QED BY <1>1, <1>5 DEF Range

\* What is admitted carries one identity.
LEMMA AdmittedIdentity ==
  ASSUME NEW e, Verdict(e) = "ADMITTED"
  PROVE  /\ OuterId(e) # NoId /\ e.operationId = OuterId(e)
         /\ e.operationType = e.channel
         /\ e.operationType # "training" => e.innerRunId \in {None, RunId(e)}
<1>1. \A c \in AllChecks(e) : c[1]
  BY AdmittedFacts
<1>2. <<OuterId(e) # NoId, "INVALID_OPERATION_ID">> \in AllChecks(e)
  <2>1. EnvelopeChecks(e)[1] = <<OuterId(e) # NoId, "INVALID_OPERATION_ID">>
        /\ 1 \in DOMAIN EnvelopeChecks(e)
    BY DEF EnvelopeChecks
  <2> QED BY <2>1 DEF AllChecks, Range
<1>3. <<e.operationId = OuterId(e), "IDENTITY_MISMATCH">> \in AllChecks(e)
  <2>1. ParseChecks(e)[7] = <<e.operationId = OuterId(e), "IDENTITY_MISMATCH">>
        /\ 7 \in DOMAIN ParseChecks(e)
    BY DEF ParseChecks
  <2> QED BY <2>1 DEF AllChecks, Range
<1>4. <<e.operationType = e.channel, "OPERATION_CHANNEL_MISMATCH">> \in AllChecks(e)
  <2>1. ParseChecks(e)[8] = <<e.operationType = e.channel, "OPERATION_CHANNEL_MISMATCH">>
        /\ 8 \in DOMAIN ParseChecks(e)
    BY DEF ParseChecks
  <2> QED BY <2>1 DEF AllChecks, Range
<1>5. ASSUME e.operationType # "training"
      PROVE  <<e.innerRunId \in {None, RunId(e)}, "IDENTITY_MISMATCH">> \in AllChecks(e)
  <2>1. InferenceChecks(e)[4] = <<e.innerRunId \in {None, RunId(e)}, "IDENTITY_MISMATCH">>
        /\ 4 \in DOMAIN InferenceChecks(e)
    BY DEF InferenceChecks
  <2> QED BY <1>5, <2>1 DEF AllChecks, Range
<1>6. OuterId(e) # NoId
  BY <1>1, <1>2
<1>7. e.operationId = OuterId(e)
  BY <1>1, <1>3
<1>8. e.operationType = e.channel
  BY <1>1, <1>4
<1>9. e.operationType # "training" => e.innerRunId \in {None, RunId(e)}
  BY <1>1, <1>5
<1> QED BY <1>6, <1>7, <1>8, <1>9

\* The connection of the driver is one that passes, and leads where the
\* provider's leads or where driver_url and driver_sentinel_nodes say.
LEMMA DriverConnectionFacts ==
  ASSUME NEW t, t.mode \in Mode, TransportOK(t)
  PROVE  LET ours == Client(t)
             driver == DriverConnection(t)
             theirs == Client(driver) IN
         /\ ConnectionOK(driver)
         /\ \A f \in {"master", "password", "sentinelPassword"} : theirs[f] = ours[f]
         /\ theirs.at # ours.at => \/ theirs.at = {t.driverUrl}
                                   \/ /\ t.mode = "sentinel"
                                      /\ theirs.at = Range(t.driverNodes)
         /\ theirs.database # ours.database =>
              /\ t.mode = "standalone" /\ t.driverUrl # None
              /\ theirs.database = UrlDatabase[t.driverUrl]
<1> DEFINE driver == DriverConnection(t)
<1>1. NodesOK(<< >>)
  BY DEF NodesOK, IsInjective
<1>2. CASE t.mode = "standalone"
  <2> DEFINE url == IF t.driverUrl # None THEN t.driverUrl ELSE t.url
  <2>1. driver = [mode |-> "standalone", url |-> url, nodes |-> << >>, master |-> None,
                  database |-> 0, password |-> t.password, sentinelPassword |-> None]
    BY <1>2 DEF DriverConnection
  <2>2. /\ t.url # None /\ Good(t.url) /\ Good(t.driverUrl)
    BY <1>2 DEF TransportOK, ConnectionOK
  <2>3. ConnectionOK(driver)
    <3>1. url # None /\ Good(url)
      BY <2>2
    <3> HIDE DEF url
    <3> QED BY <1>1, <2>1, <3>1 DEF ConnectionOK
  <2>4. Client(driver) = [at |-> {url}, master |-> None, database |-> UrlDatabase[url],
                          password |-> t.password, sentinelPassword |-> None]
    BY <2>1 DEF Client
  <2>5. Client(t) = [at |-> {t.url}, master |-> None, database |-> UrlDatabase[t.url],
                     password |-> t.password, sentinelPassword |-> None]
    BY <1>2 DEF Client
  <2>6. url # t.url => t.driverUrl # None /\ url = t.driverUrl
    OBVIOUS
  <2> HIDE DEF driver, url
  <2>7. LET ours == Client(t)
             theirs == Client(driver) IN
         /\ theirs.at # ours.at => theirs.at = {t.driverUrl}
         /\ theirs.database # ours.database =>
              /\ t.mode = "standalone" /\ t.driverUrl # None
              /\ theirs.database = UrlDatabase[t.driverUrl]
    BY <1>2, <2>4, <2>5, <2>6
  <2> QED BY <2>3, <2>4, <2>5, <2>7 DEF driver
<1>3. CASE t.mode = "sentinel"
  <2> DEFINE nodes == IF t.driverNodes # None THEN t.driverNodes ELSE t.nodes
  <2>1. driver = [mode |-> "sentinel", url |-> None, nodes |-> nodes,
                  master |-> t.master, database |-> t.database,
                  password |-> t.password, sentinelPassword |-> t.sentinelPassword]
    BY <1>3 DEF DriverConnection
  <2>2. /\ t.url = None /\ Good(t.url) /\ t.master # None
        /\ NodesOK(t.nodes) /\ t.nodes # << >>
        /\ t.driverNodes = None \/ (t.driverNodes # << >> /\ NodesOK(t.driverNodes))
    BY <1>3 DEF TransportOK, ConnectionOK
  <2>3. ConnectionOK(driver)
    <3>1. nodes # << >> /\ NodesOK(nodes)
      BY <2>2
    <3> HIDE DEF nodes
    <3> QED BY <2>1, <2>2, <3>1 DEF ConnectionOK
  <2>4. Client(driver) = [at |-> Range(nodes), master |-> t.master,
                          database |-> t.database, password |-> t.password,
                          sentinelPassword |-> t.sentinelPassword]
    BY <2>1 DEF Client
  <2>5. Client(t) = [at |-> Range(t.nodes), master |-> t.master,
                     database |-> t.database, password |-> t.password,
                     sentinelPassword |-> t.sentinelPassword]
    BY <1>3 DEF Client
  <2>6. nodes # t.nodes => nodes = t.driverNodes
    OBVIOUS
  <2> HIDE DEF driver, nodes
  <2> QED BY <1>3, <2>3, <2>4, <2>5, <2>6 DEF driver
<1> QED BY <1>2, <1>3 DEF Mode

-----------------------------------------------------------------------------
(* The invariant: what the provider has when it serves has been checked,   *)
(* and the verdict is that of the checks.                                  *)

Checked ==
  /\ transport.mode \in Mode /\ names \in Names /\ entry.spec \in RequestValue
  /\ stage \in {"config", "refused", "serving", "handled"}
  /\ Configured => TransportOK(transport) /\ Independent(names)
  /\ stage = "handled" => verdict = Verdict(entry)

\* The invariant holds of what a provider starts with, and every step keeps it.
LEMMA CheckedHolds == Spec => []Checked
<1>1. Init => Checked
  <2> SUFFICES ASSUME Init PROVE Checked
    OBVIOUS
  <2>1. PICK s \in Situations : transport = s.transport /\ names = s.names /\ entry = s.entry
    BY DEF Init
  <2>2. s.transport \in Transport /\ s.names \in Names /\ s.entry.spec \in RequestValue
    BY SituationAssumption DEF SituationAssumption
  <2>3. transport.mode \in Mode
    BY <2>1, <2>2 DEF Transport
  <2> QED BY <2>1, <2>2, <2>3 DEF Init, Checked, Configured
<1>2. Checked /\ [Next]_vars => Checked'
  <2> SUFFICES ASSUME Checked, [Next]_vars PROVE Checked'
    OBVIOUS
  <2>1. CASE Load
    <3>1. transport'.mode = transport.mode
      <4>1. transport' = WithUrl(transport)
        BY <2>1 DEF Load
      <4> QED BY <4>1 DEF WithUrl
    <3>2. Configured' => TransportOK(transport') /\ Independent(names')
      BY <2>1 DEF Load, Configured
    <3> QED BY <2>1, <3>1, <3>2 DEF Load, Checked
  <2>2. CASE Handle
    <3>1. Configured /\ verdict' = Verdict(entry)
      BY <2>2 DEF Handle, Configured
    <3>2. Verdict(entry)' = Verdict(entry)
      BY <2>2 DEF Handle, Verdict, Checks
    <3> QED BY <2>2, <3>1, <3>2 DEF Handle, Checked, Configured
  <2>3. CASE UNCHANGED vars
    BY <2>3 DEF vars, Checked, Configured, Verdict, Checks
  <2> QED BY <2>1, <2>2, <2>3 DEF Next, Done
<1> QED BY <1>1, <1>2, PTL DEF Spec

\* Whatever transport section a provider accepts, the connection derived for the
\* driver (ray_driver_connection) passes the same validation, keeps master and
\* credentials, keeps the database behind Sentinel, and goes to another address or
\* database only where driver_url or driver_sentinel_nodes name it.
THEOREM DriverFollows == Spec => []DriverFollowsSection
<1>1. Checked => DriverFollowsSection
  BY DriverConnectionFacts DEF Checked, DriverFollowsSection
<1> QED BY <1>1, CheckedHolds, PTL

\* Whatever an entry holds, the provider handles it under one operation id, in
\* the channel it came from, and admits it under a run id of its own only if that
\* is the submission's.
THEOREM SingleIdentity == Spec => []OneIdentity
<1>1. Checked => OneIdentity
  <2> SUFFICES ASSUME Checked, stage = "handled" PROVE OneIdentity
    BY DEF OneIdentity
  <2>1. verdict = Verdict(entry)
    BY DEF Checked
  <2>2. IdsOf(entry) = {OuterId(entry)}
    <3>1. CASE verdict = "ADMITTED"
      <4>1. entry.operationId = OuterId(entry)
        BY <2>1, <3>1, AdmittedIdentity
      <4> QED BY <3>1, <4>1 DEF IdsOf
    <3>2. CASE verdict # "ADMITTED"
      BY <3>2 DEF IdsOf
    <3> QED BY <3>1, <3>2
  <2>3. Cardinality(IdsOf(entry)) = 1
    BY <2>2, FS_Singleton
  <2>4. ASSUME verdict = "ADMITTED"
        PROVE  /\ NoId \notin IdsOf(entry)
               /\ entry.operationType = entry.channel
               /\ entry.channel = "batch_inference" =>
                    entry.innerRunId \in {None, RunId(entry)}
    <3>1. /\ OuterId(entry) # NoId /\ entry.operationType = entry.channel
          /\ entry.operationType # "training" => entry.innerRunId \in {None, RunId(entry)}
      BY <2>1, <2>4, AdmittedIdentity
    <3> QED BY <2>2, <3>1
  <2> QED BY <2>3, <2>4 DEF OneIdentity
<1> QED BY <1>1, CheckedHolds, PTL

\* The search for plaintext credentials is right about every spec, however deep
\* and wide: it finds something exactly if there is something to find.
THEOREM SearchFinds == Spec => []PlaintextFound
<1>1. Checked => PlaintextFound
  <2> SUFFICES ASSUME Checked
               PROVE  (PlaintextPath[entry.spec][<<"spec">>] # NoPath) <=>
                        \E p \in Positions :
                          Has(entry.spec, p) /\ IsPlaintext(entry.spec, p)
    BY DEF PlaintextFound
  <2>1. entry.spec \in Value
    BY RedactType DEF Checked
  <2>2. <<"spec">> \in Path /\ <<"spec">> # << >>
    BY DEF Path
  <2>3. Found(entry.spec, <<"spec">>) <=>
          \E p \in Positions :
            Has(entry.spec, p) /\ PlainAt(entry.spec, p, <<"spec">> = <<"spec">>)
    BY <2>1, <2>2, PlaintextWalk
  <2>4. \A p : PlainAt(entry.spec, p, <<"spec">> = <<"spec">>) <=> IsPlaintext(entry.spec, p)
    BY DEF PlainAt, IsPlaintext
  <2> QED BY <2>3, <2>4 DEF Found
<1> QED BY <1>1, CheckedHolds, PTL

\* redact is right about every spec, however deep and wide: no value stays under
\* a sensitive key, and what is under none keeps its shape.
THEOREM RedactionClean == Spec => []RedactedClean
<1>1. Checked => RedactedClean
  <2> SUFFICES ASSUME Checked, NEW p \in Positions
               PROVE  LET out == Redact[entry.spec] IN
                      /\ Has(out, p) /\ p # << >> /\ KeyAt(out, p) \in Hidden
                           => Node[out][p] = Redacted
                      /\ Has(entry.spec, p) /\ Open(entry.spec, p)
                           => Has(out, p) /\ Node[out][p].t = Node[entry.spec][p].t
    BY DEF RedactedClean, Open
  <2>1. entry.spec \in Value /\ Redact[entry.spec] \in Value
    BY RedactType DEF Checked
  <2> QED BY <2>1, RedactHides, RedactKeeps
<1> QED BY <1>1, CheckedHolds, PTL

=============================================================================

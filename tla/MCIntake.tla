------------------------------ MODULE MCIntake ------------------------------
(* Small sets of configurations and task entries for TLC.                  *)
EXTENDS Intake

AllSettings ==
  {None, "unset", "u1", "u2", "u3", "n1", "n2", "m1", "env:P", "mount:/s", "malformed"}
Databases == [x \in AllSettings \cup {DefaultUrl} |-> IF x = "u3" THEN 1 ELSE 0]

StockTransport ==
  [mode |-> "standalone", url |-> "unset", nodes |-> << >>, master |-> None,
   database |-> 0, password |-> None, sentinelPassword |-> None,
   driverUrl |-> None, driverNodes |-> None]

\* Every combination of the fields of a transport section.
AllTransports ==
  [mode: {"standalone", "sentinel"}, url: {"unset", None, "u1", "malformed"},
   nodes: {<< >>, <<"n1">>, <<"n1", "n1">>, <<"malformed">>},
   master: {None, "m1"}, database: 0..1, password: {None, "env:P"},
   sentinelPassword: {None, "mount:/s"}, driverUrl: {None, "u2", "u3", "malformed"},
   driverNodes: {None, << >>, <<"n2">>, <<"malformed">>}]

\* Names that are equal or different, of one kind and of several.
AllNames == [OperationType -> [Attribute -> {"a", "b"}]]
BothProfiles == [t \in OperationType |-> {"single_worker", "distributed"}]
OneProfile == [t \in OperationType |-> {"single_worker"}]

\* Specs of depth three with up to two items on the first level.
Leaves == {Leaf(v) : v \in LeafKinds}
Under(values) ==
  values \cup {List(<<v>>) : v \in values} \cup {Dict(<< <<k, v>> >>) : k \in Keys, v \in values}
Specs ==
  {Dict(<< >>)} \cup Under(Under(Under(Leaves)))
    \cup {Dict(<< <<k, v>>, <<l, w>> >>) : k, l \in Keys, v \in Under(Leaves), w \in Leaves}

GoodEntry(c) ==
  [channel |-> c, id |-> "op1", utf8 |-> TRUE, fields |-> "id_and_payload",
   bytes |-> "within_limit", json |-> "object", profile |-> "tributo-generic-v1",
   version |-> "1.0", spec |-> Dict(<< <<"name", Leaf("text")>> >>), schema |-> TRUE,
   operationId |-> "op1", operationType |-> c, executionProfile |-> "single_worker",
   runId |-> None, supported |-> TRUE, mapped |-> TRUE, bundle |-> TRUE,
   innerRunId |-> None, workers |-> 1, driverInput |-> "within_limit"]

\* What else a field may hold.
Other ==
  [id |-> {"missing", "long", "undecodable", "op2"}, utf8 |-> {FALSE},
   fields |-> {"others"}, bytes |-> {"over"}, json |-> {"broken", "array"},
   profile |-> {"other"}, version |-> {"2.0"}, schema |-> {FALSE},
   operationId |-> {"op2"}, operationType |-> OperationType,
   executionProfile |-> {"distributed"}, runId |-> {"run", "op2"},
   supported |-> {FALSE}, mapped |-> {FALSE}, bundle |-> {FALSE},
   innerRunId |-> {"run", "op1"}, workers |-> {0, 2}, driverInput |-> {"over"}]

\* Entries that differ from a good one in one or two fields, or in the spec.
Changed(es) ==
  es \cup UNION {{[e EXCEPT ![f] = v] : e \in es, v \in Other[f]} : f \in DOMAIN Other}
GoodEntries == {GoodEntry(c) : c \in OperationType}
SomeEntries ==
  Changed(Changed(GoodEntries))
    \cup {[GoodEntry("training") EXCEPT !.spec = s] : s \in Specs}

\* All transports and all names with a good entry, all entries with a good
\* transport and good names.
GoodNames == [t \in OperationType |-> [a \in Attribute |-> t \o a]]
Case(t, n, p, e) == [transport |-> t, names |-> n, profiles |-> p, entry |-> e]
AllSituations ==
  {Case(t, GoodNames, BothProfiles, GoodEntry("training")) : t \in AllTransports}
    \cup {Case(StockTransport, n, BothProfiles, GoodEntry("training")) : n \in AllNames}
    \cup {Case(StockTransport, GoodNames, p, e) :
             p \in {BothProfiles, OneProfile}, e \in SomeEntries}
=============================================================================

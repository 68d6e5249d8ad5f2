---------------------------- MODULE Configuration ----------------------------
(***************************************************************************)
(* What normalize_config accepts of the Redis connection and of the names  *)
(* of the channels, the connection it derives for the Ray driver, and the  *)
(* client either side builds from its connection.                          *)
(***************************************************************************)
EXTENDS Naturals, Sequences, FiniteSets, Functions

CONSTANTS
  None,          \* an absent value
  Setting,       \* what the text of a setting is reduced to
  UrlDatabase    \* the database in the path of a URL

Mode == {"standalone", "sentinel"}

\* A transport section as it is written, the nodes lists of addresses.
Transport ==
  [mode: Mode, url: Setting, nodes: Seq(Setting), master: Setting, database: Nat,
   password: Setting, sentinelPassword: Setting, driverUrl: Setting,
   driverNodes: {None} \cup Seq(Setting)]

\* A URL or node that passes its own validator, one that does not.
Good(x) == x # "malformed"
DefaultUrl == "redis://127.0.0.1:6379/0"

ASSUME UrlAssumption == UrlDatabase \in [Setting \cup {DefaultUrl} -> Nat]

NodesOK(nodes) == IsInjective(nodes) /\ \A i \in DOMAIN nodes : Good(nodes[i])

\* _default_standalone_url: a url that is absent, not one that is null.
WithUrl(c) ==
  [c EXCEPT !.url = IF @ # "unset" THEN @
                    ELSE IF c.mode = "standalone" THEN DefaultUrl ELSE None]

\* RedisConnectionConfig, its defaults filled in.
ConnectionOK(c) ==
  /\ Good(c.url) /\ NodesOK(c.nodes)
  /\ IF c.mode = "standalone"
       THEN /\ c.url # None /\ c.nodes = << >> /\ c.master = None
            /\ c.sentinelPassword = None /\ c.database = 0
       ELSE c.url = None /\ c.nodes # << >> /\ c.master # None

\* RedisTransportConfig.
TransportOK(t) ==
  /\ ConnectionOK(t)
  /\ Good(t.driverUrl)
  /\ t.driverNodes = None \/ (t.driverNodes # << >> /\ NodesOK(t.driverNodes))
  /\ IF t.mode = "standalone" THEN t.driverNodes = None ELSE t.driverUrl = None

\* Bug: the database is left at its default.
DriverConnectionNoDatabase(t) ==
  [mode |-> t.mode,
   url |-> IF t.driverUrl # None THEN t.driverUrl ELSE t.url,
   nodes |-> IF t.driverNodes # None THEN t.driverNodes ELSE t.nodes,
   master |-> t.master, database |-> 0,
   password |-> t.password, sentinelPassword |-> t.sentinelPassword]

\* ray_driver_connection; the fields of the other mode have their defaults.
DriverConnection(t) ==
  IF t.mode = "standalone"
    THEN [mode |-> "standalone",
          url |-> IF t.driverUrl # None THEN t.driverUrl ELSE t.url,
          nodes |-> << >>, master |-> None, database |-> 0,
          password |-> t.password, sentinelPassword |-> None]
    ELSE [mode |-> "sentinel", url |-> None,
          nodes |-> IF t.driverNodes # None THEN t.driverNodes ELSE t.nodes,
          master |-> t.master, database |-> t.database,
          password |-> t.password, sentinelPassword |-> t.sentinelPassword]

\* create_redis_client: where it connects to, to which database, and as whom.
\* Redis.from_url takes the database from the URL.
Client(c) ==
  IF c.mode = "standalone"
    THEN [at |-> {c.url}, master |-> None, database |-> UrlDatabase[c.url],
          password |-> c.password, sentinelPassword |-> None]
    ELSE [at |-> Range(c.nodes), master |-> c.master, database |-> c.database,
          password |-> c.password, sentinelPassword |-> c.sentinelPassword]

-----------------------------------------------------------------------------
(* Names: ChannelConfig and ChannelSet.                                    *)

OperationType == {"training", "batch_inference"}
Attribute == {"task_stream_key", "event_stream_prefix", "cancel_key_prefix",
              "consumer_group"}
Names == [OperationType -> [Attribute -> STRING]]

\* _require_independent_channels.
Independent(names) ==
  \A a \in Attribute : names["training"][a] # names["batch_inference"][a]

=============================================================================

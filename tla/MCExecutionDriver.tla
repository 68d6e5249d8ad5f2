------------------------- MODULE MCExecutionDriver -------------------------
(* A small instance of ExecutionDriver for TLC.                            *)
EXTENDS ExecutionDriver

\* Inputs on both sides of the limit, and variables left over from elsewhere.
BothSizes == {Encoded("short", INLINE_LIMIT), Encoded("long", INLINE_LIMIT + 1)}
AnyEnv == {Env(i, r) : i \in {Absent, "stale"}, r \in {Absent, PACKAGE, "other"}}
=============================================================================

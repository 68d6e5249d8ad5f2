--------------------------- MODULE MCTaskConsumer ---------------------------
(* A small instance of TaskConsumer for TLC.                               *)
EXTENDS TaskConsumer

CONSTANTS train, infer

\* Three training deliveries, the first two of them stuck, and one inference.
TwoChannels == <<train, infer>>
TrainingBusy == <<train, train, train, infer>>
=============================================================================

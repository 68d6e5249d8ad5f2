------------------------ MODULE MCOperationLifecycle ------------------------
(* Small instances of OperationLifecycle for TLC.                          *)
EXTENDS OperationLifecycle, TLC

CONSTANTS p1, p2, train, infer, op1, op2, op3, s1, s2, s3, single, g1, g2

AskFor(o, s, g, t, kind) ==
  [ch |-> train, op |-> o, sub |-> s, profile |-> single, digest |-> g,
   timeout |-> t, kind |-> kind]
Ask(s, g, t, kind) == AskFor(op1, s, g, t, kind)

\* One training task that must end within one tick, or at no time.
OneTask    == <<Ask(s1, g1, 1, "valid")>>
OneEndless == <<Ask(s1, g1, Null, "valid")>>

\* Two attempts of an operation, the first one with a time limit.
Handover == OneTask \o <<Ask(s2, g2, Null, "valid")>>

\* Two attempts of an operation, the first one delivered twice.
Duplicate == OneTask \o Handover

\* One good task after others that are rejected on different grounds, each with
\* an operation and so an event stream of its own.
Rejects == <<AskFor(op2, s2, g2, Null, "oversize"),
             AskFor(op3, s3, Null, Null, "invalid"),
             AskFor(op3, s3, Null, Null, "anonymous"),
             AskFor(op1, s1, g1, Null, "valid")>>

NoCancel == {}
CancelTraining == {<<train, op1>>}

ProviderSymmetry == Permutations(Provider)
=============================================================================

SPECIFICATION Spec
CONSTANTS
  p1 = p1  p2 = p2  train = train  infer = infer  op1 = op1
  op2 = op2  op3 = op3  s1 = s1  s2 = s2  s3 = s3  single = single  g1 = g1  g2 = g2
  Null = Null
  Provider = {p1}
  Delivery = {1, 2}
  Channel = {train}
  Operation = {op1}
  Submission = {s1, s2}
  Profile = {single}
  Digest = {g1, g2}
  Request <- Handover
  Cancellable <- NoCancel
  Lookback = 16
  MaxStreamLength = 20
  ClaimCount = 2
  AmbiguousSubmit = FALSE
  MaxFaults = 0
  MaxStops = 1
  MaxTime = 0
  MaxProgress = 1
INVARIANTS
  AttemptsDoNotOverlap
PROPERTIES
  ImplementsClientView
  EntryNeverReplaced
  ImplementsQueue
CHECK_DEADLOCK FALSE

SPECIFICATION Spec
CONSTANTS
  train = train  infer = infer
  Delivery = {1, 2, 3, 4}
  Operations <- TwoChannels
  ChannelOf <- TrainingBusy
  Stuck = {1, 2}
  ClaimCount = 1
  ClaimIdle = 3
  Interval = 1
  MaxHandle = 3
  Quick = 0
  MaxFaults = 1
  MaxStops = 1
  MaxTaken = 1
INVARIANTS
  TypeOK
  HeldOnce
PROPERTIES
  PendingHandedOut
  HealthyChannelSettles
  NewSettles
  ImplementsQueue

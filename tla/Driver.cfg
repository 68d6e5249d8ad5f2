SPECIFICATION Spec
CONSTANTS
  INLINE_LIMIT = 1
  Absent = "absent"
  Inputs <- BothSizes
  ConfigEnvs <- AnyEnv
  NodeEnvs <- AnyEnv
  MaxFaults = 3
INVARIANTS
  TypeOK
  OwnInput
  SucceededSaidCompleted
  SuccessNotReplaced
  ExitSaysOne
PROPERTIES
  RanEnds
  ImplementsRayJobs

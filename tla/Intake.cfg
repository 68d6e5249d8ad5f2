SPECIFICATION Spec
CONSTANTS
  None = None
  Setting <- AllSettings
  UrlDatabase <- Databases
  Situations <- AllSituations
  MaxDepth = 4
  MaxItems = 2
INVARIANTS
  DriverFollowsSection
  OneIdentity
  PlaintextFound
  RedactedClean

SPECIFICATION FairSpec
CONSTANTS
  h1 = h1
  h2 = h2
  Attempts <- OneHandler
  Conns <- OneHandler
  MaxConnections = 1
  IoFaults = 1
  OpenFaults = 1
  MayTimeOut = TRUE
  Spellings <- AnySpelling
CHECK_DEADLOCK FALSE
INVARIANTS
  GatewayTypeOK
  EffectNeedsEvidence
  SealedHistoryVerifies
  ValidMeansQuiet
PROPERTIES
  RunSpec
  CancellationIsFinal
  KillCompletes
  PermitsDrain

SPECIFICATION Spec
CONSTANTS
  h1 = h1
  h2 = h2
  Attempts <- TwoHandlers
  Conns <- TwoHandlers
  MaxConnections = 2
  IoFaults = 0
  OpenFaults = 0
  MayTimeOut = FALSE
  Spellings <- CanonicalOnly
CHECK_DEADLOCK FALSE
SYMMETRY HandlerSymmetry
INVARIANTS
  ClosedMeansQuiet
  AdmissionAccounting
  UniqueSequences
  SequenceEquations
  CountAtLinearization
  OutstandingPermits
PROPERTIES
  NoEffectAfterEnforcement

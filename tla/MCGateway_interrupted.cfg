SPECIFICATION Spec
CONSTANTS
  h1 = h1
  h2 = h2
  Attempts <- OneHandler
  Conns <- OneHandler
  MaxConnections = 1
  IoFaults = 0
  OpenFaults = 0
  MayTimeOut = FALSE
  Spellings <- CanonicalOnly
CHECK_DEADLOCK FALSE
PROPERTIES
  InterruptedStreamIsUnknown

SPECIFICATION ThreadSpec
CONSTANTS
  c1 = c1
  c2 = c2
  Conns <- MCConns
CHECK_DEADLOCK FALSE
INVARIANTS
  OwnedHandlesDie
PROPERTIES
  NoRequestAfterShutdown
  TeardownCompletes

SPECIFICATION Spec
CONSTANTS
  run = run
  null = null
  RunId = run
  NoId = null
  Prompt = TRUE
  Faults = 0
  Egress <- Contained
  Claims <- AllHonest
INVARIANT
  HealthyRunPasses

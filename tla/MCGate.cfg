SPECIFICATION Spec
CONSTANTS
  run = run
  null = null
  RunId = run
  NoId = null
  Prompt = FALSE
  Faults = 1
  Egress <- Injectable
  Claims <- LayerBClaims
INVARIANTS
  KillEvidenceIsReal
  LayerBIsSupported
  VerdictIsSupported
  HonestArtifactsBind

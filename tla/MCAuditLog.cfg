SPECIFICATION AnchorSpec
CONSTANTS
  w1 = w1
  w2 = w2
  Writers <- MCWriters
  MaxRecords = 4
  Faults <- AllButNewline
  Claims <- MCClaims
  Trusted = "trusted"
SYMMETRY WriterSymmetry
INVARIANTS
  AcknowledgedRecordsSurvive
  ServingExtendsTheChain
PROPERTIES
  DamageStopsTheLog
  SealIsForever
  ProvenIsForever

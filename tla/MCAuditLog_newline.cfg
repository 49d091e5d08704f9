SPECIFICATION AnchorSpec
CONSTANTS
  w1 = w1
  w2 = w2
  Writers <- MCWriters
  MaxRecords = 3
  Faults <- NewlineTear
  Claims <- MCClaims
  Trusted = "trusted"
SYMMETRY WriterSymmetry
INVARIANT
  AcknowledgedRecordsSurvive

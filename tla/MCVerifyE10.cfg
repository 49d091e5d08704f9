SPECIFICATION StreamSpec
CONSTANTS
  a1 = a1
  a2 = a2
  Attempts <- TwoAttempts
  MaxSeq = 5
  MaxInflight = 1
SYMMETRY AttemptSymmetry
CHECK_DEADLOCK FALSE
INVARIANTS
  ValidAttemptsAreSettled
  ValidHistoryIsALockHistory
PROPERTY
  VerdictIsFinal

SPECIFICATION Spec
CONSTANTS
  MaxCores = 2
  MaxMoves = 0
  Profiles <- MCProfiles
  Memory = {0, 1}
  Evidence <- MCEvidence
  Amounts <- MCAmounts
  WorkerCounts = {1, 2, 4, 8}
INVARIANT ProfileIndependentOfLimits
CHECK_DEADLOCK FALSE

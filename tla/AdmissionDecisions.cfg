SPECIFICATION Spec
CONSTANTS
  MaxCores = 3
  MaxMoves = 1
  Profiles <- MCProfiles
  Memory = {0, 1}
  Evidence <- MCEvidence
  Amounts <- MCAmounts
  WorkerCounts = {1, 2, 4, 8}
INVARIANTS
  NeverMoreThanAllowed
  BudgetFitsHost
  OnlyECCIsAskedFor
  PlanLeavesReserve
CHECK_DEADLOCK FALSE

SPECIFICATION FairSpec
CONSTANTS
  Callers = {c1, c2, c3}
  Candidates = 2
  MaxRate = 2
  MaxRuns = 3
  None = None
INVARIANTS
  BestIsFastest
PROPERTIES
  LastIsNewest
  EveryRequestAnswered
CHECK_DEADLOCK FALSE

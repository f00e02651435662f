SPECIFICATION FairSpec
CONSTANTS
  MaxFeatures = 2
  None = None
INVARIANTS
  NothingSlipsThrough
  ExposedServiceIsGuarded
  
  StatusTellsWhoFailed
PROPERTIES
  RequestAnswered
CHECK_DEADLOCK FALSE

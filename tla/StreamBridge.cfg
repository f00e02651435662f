SPECIFICATION GoSpec
CONSTANTS
  MaxLines = 3
INVARIANTS
  NothingLost
  DoneMeansComplete
  CutIsNotDone
PROPERTIES
  ImplementsRelay
  EndedContextEndsStream
CHECK_DEADLOCK FALSE

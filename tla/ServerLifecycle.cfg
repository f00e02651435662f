SPECIFICATION FairSpec
CONSTANTS
  Callers = {c1, c2}
  Candidates = 1
  MaxRate = 1
  MaxRuns = 2
  Clients = {r1}
  ShortTimeout = 1
  Overrun = 1
  Grace = 1
  ShutdownTimeout = 3
  UpstreamTimeout = 4
  None = None
INVARIANTS
  TypeOK
  CleanExitHidesNothing
  ShortRequestsSurvive
PROPERTIES
  SignalEndsProcess
  OnlyClientsHoldHandlers
CHECK_DEADLOCK FALSE

SPECIFICATION FairSpec
CONSTANTS
  Versions = {v1, v2}
  Broken = {v2}
  Edits = {e1}
  DefaultConfig = DefaultConfig
  Foreign = Foreign
  Absent = Absent
  MaxCommands = 3
  MaxCrashes = 1
  MaxOperatorActs = 0
  MaxServiceExits = 1
INVARIANTS
  TypeOK
  NoMixedVersions
PROPERTIES
  ManagedNeverBecomesExternal
  RollbackServesOldBuild
  FreshActivationIsHealthy
  ImplementsTransaction
  CommandTerminates
CHECK_DEADLOCK FALSE

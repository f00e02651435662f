SPECIFICATION Spec
CONSTANTS
  Versions = {v1, v2}
  Broken = {v2}
  Edits = {e1}
  DefaultConfig = DefaultConfig
  Foreign = Foreign
  Absent = Absent
  MaxCommands = 1
  MaxCrashes = 1
  MaxOperatorActs = 0
  MaxServiceExits = 0
INVARIANTS
  ExternalMeansForeign
CHECK_DEADLOCK FALSE

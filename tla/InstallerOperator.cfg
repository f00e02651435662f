SPECIFICATION Spec
CONSTANTS
  Versions = {v1, v2}
  Broken = {v2}
  Edits = {e1, e2}
  DefaultConfig = DefaultConfig
  Foreign = Foreign
  Absent = Absent
  MaxCommands = 3
  MaxCrashes = 0
  MaxOperatorActs = 2
  MaxServiceExits = 0
PROPERTIES
  RollbackRestoresSnapshot
  OperatorConfigSurvivesInstall
  PreexistingConfigNeverPurged
CHECK_DEADLOCK FALSE
SYMMETRY EditSymmetry

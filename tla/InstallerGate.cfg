SPECIFICATION Spec
CONSTANTS
  Versions = {v1, v2}
  Broken = {v2}
  Edits = {e1}
  DefaultConfig = DefaultConfig
  Foreign = Foreign
  Absent = Absent
  MaxCommands = 2
  MaxCrashes = 0
  MaxOperatorActs = 0
  MaxServiceExits = 0
PROPERTIES
  ActivationProbesInstalledBuild
CHECK_DEADLOCK FALSE

SPECIFICATION Spec
CONSTANTS
  Catalogs <- MCCatalogs
  Descriptors <- MCDescriptors
  Identifiers = {1, 2, 3, 4}
  BackendKinds = {1, 2}
  Policies <- MCPolicies
  MaxWord = 2
  MaxBackends = 2
  None = None
INVARIANTS
  StandingManifestsAreSound
  NamesHaveOneOwner
  PlanServesRequest
  PlanIsLeast
  RefusalIsHonest
CHECK_DEADLOCK FALSE

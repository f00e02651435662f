SPECIFICATION Spec
CONSTANTS
  Sizes <- MCSizes
  Extras <- MCExtras
  Capacities <- MCCapacities
  Fleets <- MCFleets
  Modulus = 8
  MinReserve = 1
INVARIANTS
  EveryByteOnce
  TiersHold
  RefusedBytesFitNowhere
CHECK_DEADLOCK FALSE

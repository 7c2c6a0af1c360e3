SPECIFICATION MappingSpec
CONSTANTS
  Script <- AuxiliaryFirst
  MaxSeeks = 2
  MaxMappers = 3
  MaxCrashes = 1
  MaxTroubles = 2
  InSize = 1
  HoldMax = 1
INVARIANTS
  CrashesReported
CHECK_DEADLOCK FALSE

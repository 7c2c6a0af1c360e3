SPECIFICATION FairSpec
CONSTANTS
  Length = 3
  Auxiliary = {2}
  Keyframes = {1}
  MaxEpoch = 2
  Target <- Targets
  InputDepth = 3
  StageDepth = 1
  DownDepth = 1
  Delay = 1
  MayFail = FALSE
  MayClose = FALSE
INVARIANTS
  TypeOK
  OpensOnce
PROPERTIES
  EpochStreams
  EndDelivered
CHECK_DEADLOCK FALSE

SPECIFICATION FairSpec
CONSTANTS
  Length = 1
  Auxiliary = {}
  Keyframes = {1}
  MaxEpoch = 1
  Target <- FromTheStart
  InputDepth = 3
  StageDepth = 4
  DownDepth = 1
  Delay = 1
  MayFail = TRUE
  MayClose = TRUE
PROPERTIES
  CloseCompletes
CHECK_DEADLOCK FALSE

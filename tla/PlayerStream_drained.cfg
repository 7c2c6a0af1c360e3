SPECIFICATION FairSpec
CONSTANTS
  Length = 1
  MaxEpoch = 1
  Target <- BackAndForth
  DownBatch = 2
  BridgeRoom = 1
  External = FALSE
  MaxFailures = 1
PROPERTIES
  LossReported
CHECK_DEADLOCK FALSE

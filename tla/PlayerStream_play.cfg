SPECIFICATION FairSpec
CONSTANTS
  Length = 1
  MaxEpoch = 2
  Target <- BackAndForth
  DownBatch = 2
  BridgeRoom = 1
  External = TRUE
  MaxFailures = 1
INVARIANTS
  TypeOK
  FinishedMeansPlayed
  ReleasedByItsOwn
PROPERTIES
  MpvStreams
  PlaysToTheEnd
CHECK_DEADLOCK FALSE

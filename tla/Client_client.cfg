SPECIFICATION ClientSpec
CONSTANTS
  Length = 2
  MaxEpoch = 2
  Target <- BackAndForth
  UplinkBatch = 2
  UplinkRoom = 1
  MaxFailures = 1
  Hosts = {h1, h2}
  NoHost = none
  MaxSessions = 2
  MaxIntents = 4
  MaxChanges = 1
  MaxFaults = 1
INVARIANTS
  ClientTypeOK
  AcknowledgedFirst
  ContainerSafe
  OneOwner
  SettingApplied
PROPERTIES
  UplinkStreams
  SeekServed
  SeeksReturn
  CloseEnds
  TransitionsEnd
  LostSessionEnds
  WindowCloses
CHECK_DEADLOCK FALSE

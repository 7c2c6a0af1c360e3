SPECIFICATION SessionsSpec
CONSTANTS
  Hosts = {h1}
  NoHost = none
  MaxSessions = 1
  MaxIntents = 4
  MaxChanges = 2
  MaxFaults = 0
PROPERTIES
  IdleSettingsInert
CHECK_DEADLOCK FALSE

SPECIFICATION SessionsSpec
CONSTANTS
  Hosts = {h1, h2}
  NoHost = none
  MaxSessions = 3
  MaxIntents = 8
  MaxChanges = 0
  MaxFaults = 0
INVARIANTS
  OneOwner
CHECK_DEADLOCK FALSE

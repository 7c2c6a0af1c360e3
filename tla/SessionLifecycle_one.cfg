SPECIFICATION FairSpec
CONSTANTS
  s1 = s1
  s2 = s2
  NoSession = NoSession
  Session <- OneAndRefused
CONSTRAINT SecondRefused
INVARIANTS
  LifecycleInv
  ReleaseContract
PROPERTIES
  NothingRestarts
  EveryEndReleases
  StopReleases
CHECK_DEADLOCK FALSE

SPECIFICATION Spec
CONSTANTS
  MaxFrames = 2 MaxWorkers = 3
  Script <- AuxiliaryFirst MaxSeeks = 2 MaxMappers = 3 MaxCrashes = 1 MaxTroubles = 2 InSize = 1 HoldMax = 1
  Opens = {1, 2} Digest = {"a", "b", "c"} Wanted <- MCWanted StoreMax = 1 Spoiled = 1
  Launch = {1, 2} NoLaunch = 0 MaxChanges = 1
  Servers = {1, 2} MaxConns = 2 MaxListings = 3 MaxUpsets = 1
  MaxInputs = 3 Spot = {1, 2}
  Widths = {2, 3} MinWidth = 2 MaxToggles = 2
  MaxOpens = 2 MaxActivations = 2
  File <- MCFile Lookback = 2 Preroll = 1 SeekTargets = {2, 5} MaxIters = 3 Infinity = 100
  AutoHdr = TRUE MaxLoads = 2 MaxTurns = 3 MaxFailures = 1
INVARIANTS TypeOK OwnAnswer EpochWhole LeasedStays HostSafe SurfaceSafe RowsCurrent ControlsAgree ChromeSettled
  NothingLeaks SubtitlesComplete AlgorithmsAgree
PROPERTY CallsEnd
CHECK_DEADLOCK FALSE

SPECIFICATION Spec
CONSTANTS
  MaxCounter = 8
  InitialCounters <- MCInitialCounters
  RolloverInfoDifference = 3
  MaxCalls = 3
INVARIANTS NeverReused AnnouncedBeforeRollover

SPECIFICATION Spec
CONSTANTS
  MaxFabricIndex = 2
  SupportedFabrics = 2
  NoContext = NoContext
INVARIANTS
  RollbackIsComplete

SPECIFICATION Spec
CONSTANTS
  WindowSize = 3
  MaxCounter = 8
  HalfRange = 5
  Modes <- AllModes
INVARIANTS TypeOK NoReplay RepeatOnlyAfterRollover FalseDuplicateOnlyAfterFullShift

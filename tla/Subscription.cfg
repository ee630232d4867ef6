SPECIFICATION FairSpec
CONSTANTS
  Subscriptions = {s1, s2}
  Urgent = {s1}
  MaxVersion = 1
  MaxEvents = 1
INVARIANTS
  NothingMissed
  HeartbeatArmed
  ActiveAfterEnd
PROPERTIES
  ReportsInOrder
  OutstandingIsSent
CHECK_DEADLOCK FALSE
CONSTRAINT Small

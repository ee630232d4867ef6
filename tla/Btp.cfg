SPECIFICATION FairSpec
CONSTANTS
  Central = Central
  Peripheral = Peripheral
  MaxSequenceNumber = 3
  WindowSize = 2
  FragmentSize = 8
  Outgoing <- MCOutgoing
CHECK_DEADLOCK FALSE
INVARIANTS
  RefusedOnlyAtLimits
  WindowRespected
PROPERTIES
  ImplementsFifo
  QueuedIsDelivered

SPECIFICATION Spec
CONSTANTS
  Initiator = Initiator
  Responder = Responder
  NoMessage = NoMessage
  MaxMessages <- MCOneOne
  MaxTransmissions = 2
CHECK_DEADLOCK FALSE
INVARIANTS AckedIsDelivered

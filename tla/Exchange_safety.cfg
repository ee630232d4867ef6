SPECIFICATION Spec
CONSTANTS
  Initiator = Initiator
  Responder = Responder
  NoMessage = NoMessage
  MaxMessages <- MCTwoOne
  MaxTransmissions = 2
CHECK_DEADLOCK FALSE
INVARIANTS AckedWasReceived DeliveredInOrder

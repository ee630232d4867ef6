SPECIFICATION FairSpec
CONSTANTS
  Initiator = Initiator
  Responder = Responder
  NoMessage = NoMessage
  MaxMessages <- MCOneOne
  MaxTransmissions = 3
CHECK_DEADLOCK FALSE
PROPERTIES SendSettlesUnlessStopped

SPECIFICATION Spec
CONSTANTS
  p1 = p1
  p2 = p2
  Peer = {p1, p2}
  NoPeer = NoPeer
  MaxErrors = 3
  MaxServers = 2
INVARIANTS
  TypeOK
  OnePaseSession
  TimerWatchesItsAttempt
  ErrorsEndTheWindow
PROPERTIES
  AttemptEnds

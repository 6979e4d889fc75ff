\* A tunnel with both workers, its clients, and a stop at any moment.
SPECIFICATION AtSpec
CONSTANTS
  c1 = c1
  c2 = c2
  p1 = p1
  p2 = p2
  Conn = {c1, c2}
  Peer = {p1, p2}
  Grace = 2
INVARIANTS
  AtInv
  StopIsPrompt
  OwnedConnections
  GraceIsGiven
  FailuresAreLocal
PROPERTIES
  ClientIsServed
  PortIsReleased
  ImplementsWorkers

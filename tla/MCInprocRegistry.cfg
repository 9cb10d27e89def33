CONSTANTS
  c1 = c1
  Socket = {s1, s2, c1}
  Name = {n1, n2}
  NoSocket = NoSocket
  NoName = NoName
  SockType <- MCSockType
  Exclusive = TRUE
  MaxEndpoints = 3
  MaxLinks = 2
SPECIFICATION Spec
SYMMETRY Alike
INVARIANTS
  OwnsBoundName
  NoGhostPeer
  ListedOnce
PROPERTY WaitingIsServed

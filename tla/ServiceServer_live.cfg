SPECIFICATION FairSpec
CONSTANTS
  Conn = {c1, c2}
  Socket = {s1, s2}
  NoConn = NoConn
  NoSock = NoSock
  LoginCheck = FALSE
  FdSetSize = 2
  MaxData = 1
  MaxTick = 1
  MaxMiss = 1
INVARIANTS
  EventsBalanced
PROPERTIES
  ClosedClientLeaves
  AcceptedJoins
  InboxDrains

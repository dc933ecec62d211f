SPECIFICATION Spec
CONSTANTS
  Conn = {c1, c2, c3}
  Socket = {s1, s2}
  NoConn = NoConn
  NoSock = NoSock
  LoginCheck = TRUE
  FdSetSize = 3
  MaxData = 1
  MaxTick = 1
  MaxMiss = 0
SYMMETRY Symmetry
INVARIANTS
  TypeOK
  BroadcastComplete
  MembershipAgrees
  SocketsAccounted
  NoUseAfterDelete
  DispatchFindsSession
  SenderIsOrigin

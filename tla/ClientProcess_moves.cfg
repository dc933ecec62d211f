SPECIFICATION FairSpec
CONSTANTS
  MaxConn = 3
  MaxCalls = 3
  MaxInbox = 1
INVARIANTS
  ConnectionsHeld
PROPERTIES
  MoveGoesOn
  GoneIsNoticed

SPECIFICATION FairSpec
CONSTANTS
  c1 = c1
  c2 = c2
  i1 = i1
  Client = {c1, c2}
  Id = {i1}
  WishId <- SameId
  NoName = NoName
  Key = {1, 2}
  NoKey = NoKey
  Garbage = {0, 1}
  MaxCalls = 2
  MaxCrash = 1
INVARIANTS
  TypeOK
  LoginIsFound
  KeysAgree
  LobbyIsLocated
PROPERTY
  ExpectedArrives
CHECK_DEADLOCK FALSE

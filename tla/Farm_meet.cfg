SPECIFICATION FairSpec
CONSTANTS
  a1 = a1
  a2 = a2
  b1 = b1
  game = game
  lobby = lobby
  Server = {a1, a2, b1}
  Type = {game, lobby}
  TypeOf <- SmallTypeOf
  Inputs <- SmallInputs
  Outputs <- SmallOutputs
  Client = Client
  Taken <- SmallTaken
  Garbage = {0}
  MaxCrash = 1
INVARIANTS
  TypeOK
  AnnouncedAreBound
PROPERTY
  AskedAreConnected
CHECK_DEADLOCK FALSE

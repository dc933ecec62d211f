SPECIFICATION Spec
CONSTANTS
  Text <- MCText
  Written <- MCWritten
  Reserved <- MCReserved
  Value <- MCValue
  MaxBuff = 16
  MaxToken = 10
  MaxTokens = 40
  MaxPacket = 14
  HeaderSize = 3
  MaxString = 5
  MaxSequence = 2
  MaxPieces = 3
INVARIANTS
  ScansLexemes
  ParsesGrammar
  MessageArrives
CHECK_DEADLOCK FALSE

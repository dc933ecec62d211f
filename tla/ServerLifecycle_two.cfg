SPECIFICATION FairSpec
CONSTANTS
  s1 = s1
  s2 = s2
  h1 = h1
  h2 = h2
  Server = {s1, s2}
  Handle = {h1, h2}
  NoHandle = NoHandle
  NoServer = NoServer
  MaxCalls = 3
  MaxAccept = 1
INVARIANTS
  NoWaitCycle
  ListeningIsListed
PROPERTY
  OnIsServed

SPECIFICATION Spec
CONSTANTS
  Conn = {c1, c2, c3, c4}
  PoolSize = 3
  FirstId = 1
  MaxRand = 3
SYMMETRY Symmetry
INVARIANTS
  TypeOK
  PooledIdsUnique
  SeqAgrees
  JoinedAreFound
PROPERTY
  ImplementsDeferred

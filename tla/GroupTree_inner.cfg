SPECIFICATION TreeSpec
CONSTANTS
  Player = {p1, p2, p3, p4}
  Group = {root, wait, g1, g2, g3}
  Root = root
  Wait = wait
  NoGroup = NoGroup
SYMMETRY Symmetry
INVARIANT
  PlayersInTerminals
CHECK_DEADLOCK FALSE

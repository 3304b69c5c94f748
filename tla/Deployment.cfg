SPECIFICATION Spec
CONSTANTS
  p1 = p1
  p2 = p2
  p3 = p3
  Workers = {w1, w2}
  Sessions = {s1}
  Pairs = {p1, p2, p3}
  Registered = {p1, p2}
  Environments <- MCEnvironments
  MaxStarts = 2
SYMMETRY Symmetry
INVARIANTS OnlyDroppedPairsLack ServesWhole
CHECK_DEADLOCK FALSE

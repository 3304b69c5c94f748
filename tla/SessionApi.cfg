SPECIFICATION Spec
CONSTANTS
  Sessions = {s1}
  Conns = {c1}
  Requests = {r1, r2, r3}
  MaxOutages = 1
  MaxIndex = 0
SYMMETRY Symmetry
INVARIANTS DeleteTellsTheTruth StatusTookEffect TellsOnlyTheOwner
PROPERTIES AtomicOps DeletedForGood
CHECK_DEADLOCK FALSE

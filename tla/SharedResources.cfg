SPECIFICATION FairSpec
CONSTANTS
  Handlers = {h1, h2}
  Visits = {v1}
  PoolSize = 2
  MaxSegments = 3
INVARIANTS InTurn NothingLeaks SpeaksWithoutConnection
PROPERTIES StarvedByOthers NobodyIsSetBack Served
CHECK_DEADLOCK FALSE

SPECIFICATION Spec
CONSTANTS
  Sessions = {s1}
  Conns = {c1}
  MaxOutages = 0
  MaxPerChunk = 2
  MaxMessages = 2
  MaxCrashes = 0
  Audible = {FALSE}
PROPERTY FailedIsNotOverwritten
CHECK_DEADLOCK FALSE

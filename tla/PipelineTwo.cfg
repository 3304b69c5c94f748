\* Two connections to one session, with a crash: who owns the rows.
SPECIFICATION Spec
CONSTANTS
  Sessions = {s1}
  Conns = {c1, c2}
  MaxOutages = 0
  MaxPerChunk = 1
  MaxMessages = 1
  MaxCrashes = 1
  Audible = {FALSE}
SYMMETRY Interchangeable
INVARIANTS
  OneWriterPerSession
  CompletedMeansPersisted
  NoIndexGap
CHECK_DEADLOCK FALSE

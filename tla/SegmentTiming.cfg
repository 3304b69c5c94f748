SPECIFICATION Spec
CONSTANTS
  Ms = 2
  MaxSegments = 2
  MaxChunks = 2
  MaxTime = 10
INVARIANTS CoversStages ExcludesPauses
CHECK_DEADLOCK FALSE

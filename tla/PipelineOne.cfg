\* One connection, long conversations: the wire, the counters, the rows.
SPECIFICATION FairSpec
CONSTANTS
  Sessions = {s1}
  Conns = {c1}
  MaxOutages = 1
  MaxPerChunk = 2
  MaxMessages = 2
  MaxCrashes = 0
  Audible = {TRUE, FALSE}
INVARIANTS
  TypeOK
  CloseMeansSettled
  DeliveredIsPersisted
  UntranslatedMeansFailed
  CountersAgree
  ReportedFailureStands
  AnsweredAtTheEnd
  StoredIsTold
PROPERTIES
  FailureUndoneOnlyWhenGone
  SpeaksProtocol
  DeletedTakesNoMore
  DepartureEndsHandler
  AbandonedIsSettled
  CommitIsAnswered
CHECK_DEADLOCK FALSE

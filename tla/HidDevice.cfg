SPECIFICATION FairSpec
CONSTANTS
  QueueMax = 2
  MaxReports = 5
INVARIANTS
  TypeOK
  OpenAfterStart
  ThreadOutlivesWakeUp
PROPERTIES
  RemovalWakes
  CallsEnd
  ImplementsReportQueue
CHECK_DEADLOCK FALSE

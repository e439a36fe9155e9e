SPECIFICATION FairSpec
CONSTANTS
  RingMax = 2
  MaxReports = 5
INVARIANTS
  TypeOK
  WakesForData
  NothingLeaks
PROPERTIES
  ImplementsReportQueue
  ReadsEnd
CHECK_DEADLOCK FALSE

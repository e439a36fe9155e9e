SPECIFICATION EarlySpec
CONSTANTS
  QueueMax = 2
  MaxReports = 1
INVARIANTS
  ThreadOutlivesWakeUp
CHECK_DEADLOCK FALSE

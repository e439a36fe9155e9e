SPECIFICATION Spec
CONSTANTS
  QueueMax = 2
  MaxReports = 1
PROPERTIES
  ClosesOnlyPlugged
CHECK_DEADLOCK FALSE

SPECIFICATION FairSpec
CONSTANTS
  Figures = {0}
  Blocks = {8, 36}
  Data = {"old", "new"}
  Original <- MCOriginal
  NoData = NoData
  NoCall = NoCall
  MaxAttempts = 3
  MaxRetries = 2
  QueueMax = 4
  LinkMax = 2
  MaxFaults = 2
INVARIANTS
  TypeOK
  LagIsAccountedFor
  FailuresHaveACause
PROPERTIES
  ImplementsBlockStore
  WritesLast
  MethodsEnd
CHECK_DEADLOCK FALSE

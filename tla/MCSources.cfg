CONSTANTS
  Files <- MCFiles
  Requests = {r1, r2}
  Workers = {w1, w2}
  Ids <- MCIds
  Models = {m1, m2}
  Passages <- MCPassages
  BatchSize = 1
  MaxRetries = 1
  MaxFileBytes = 2
  Quota = 2
  DailyLimit = 2
  MaxFaults = 1
  MaxAsked = 3
  None = None
SPECIFICATION Spec
INVARIANTS TypeOK ReadyIsWhole DeletedStaysDeleted LimitsKept 
PROPERTIES PaidForIsKept SourceSettles
CHECK_DEADLOCK FALSE

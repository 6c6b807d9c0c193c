CONSTANTS
  q1 = q1
  q2 = q2
  r1 = r1
  r2 = r2
  Nobody = Nobody
  Queries = {q1, q2}
  Readers = {r1}
  MaxConcurrent = 1
  DailyLimit = 2
  PromptTokens = 1
  ResponseTokens = 1
SPECIFICATION Spec
INVARIANTS
  TypeOK
  StreamingWithinLimit
  
PROPERTIES
  EndedIsFinal
CHECK_DEADLOCK FALSE

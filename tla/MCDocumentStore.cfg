SPECIFICATION Spec
CONSTANTS
  Writers = {w1, w2}
  StepBatch = {s1, s2}
  Title = {t1}
  None = None
  MaxRequests = 3
  Content <- MCContent
  Uploads <- MCUploads
  Transform <- MCTransform
INVARIANTS
  TypeOK
  LogIsGapless
  LogReplays
  HonestWriters
  AppliedAtMostOnce
PROPERTY
  ImplementsChangeLog
CHECK_DEADLOCK FALSE

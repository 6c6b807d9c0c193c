CONSTANTS
  Requests = {r1, r2}
  MaxAttempts = 2
  FailureLimit = 2
  SendLimit = 2
  MaxTokens = 3
  MaxAsked = 6
SPECIFICATION Spec
SYMMETRY Symmetric
INVARIANTS TypeOK GuessesBounded OldPasswordEndsSessions EndedSessionsStayEnded MailsWithinCooldowns
CHECK_DEADLOCK FALSE

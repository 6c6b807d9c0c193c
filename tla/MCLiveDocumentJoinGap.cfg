SPECIFICATION Spec
CONSTANTS
  c1 = c1
  c2 = c2
  p1 = p1
  p2 = p2
  Clients = {c1}
  Procs = {p1}
  Home <- MCAlone
  HttpKinds = {"title"}
  MaxEdits = 2
  MaxConnects = 1
  MaxHttp = 1
  MaxFaults = 0
  MaxSteps = 2
  SocketsDrop = FALSE
  OnlineEvents = FALSE
  Deletable = FALSE
INVARIANTS
  QuietTabIsCurrent
CHECK_DEADLOCK FALSE

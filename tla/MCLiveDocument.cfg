SPECIFICATION Spec
CONSTANTS
  c1 = c1
  c2 = c2
  p1 = p1
  p2 = p2
  Clients = {c1, c2}
  Procs = {p1, p2}
  Home <- MCApart
  HttpKinds = {"replace", "steps"}
  MaxEdits = 2
  MaxConnects = 2
  MaxHttp = 1
  MaxFaults = 1
  MaxSteps = 1
  SocketsDrop = TRUE
  OnlineEvents = TRUE
  Deletable = FALSE
INVARIANTS
  TypeOK
  EditsLoggedOnce
PROPERTIES
  ImplementsChangeLog
CHECK_DEADLOCK FALSE

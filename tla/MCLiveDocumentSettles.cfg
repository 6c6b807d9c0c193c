SPECIFICATION FairSpec
CONSTANTS
  c1 = c1
  c2 = c2
  p1 = p1
  p2 = p2
  Clients = {c1}
  Procs = {p1}
  Home <- MCAlone
  HttpKinds = {"title", "steps"}
  MaxEdits = 3
  MaxConnects = 2
  MaxHttp = 1
  MaxFaults = 1
  MaxSteps = 3
  SocketsDrop = TRUE
  OnlineEvents = FALSE
  Deletable = TRUE
INVARIANTS
  OneEditInFlight
PROPERTIES
  TabSettlesAgain
CHECK_DEADLOCK FALSE

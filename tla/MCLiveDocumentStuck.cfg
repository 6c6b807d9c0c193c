SPECIFICATION FairSpec
CONSTANTS
  c1 = c1
  c2 = c2
  p1 = p1
  p2 = p2
  Clients = {c1}
  Procs = {p1}
  Home <- MCAlone
  HttpKinds = {}
  MaxEdits = 2
  MaxConnects = 1
  MaxHttp = 0
  MaxFaults = 0
  MaxSteps = 1
  SocketsDrop = FALSE
  OnlineEvents = FALSE
  Deletable = FALSE
PROPERTIES
  TabSettlesAgain
CHECK_DEADLOCK FALSE

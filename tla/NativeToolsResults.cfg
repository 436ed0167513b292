SPECIFICATION Behaviours
CONSTANTS
  c1 = c1 c2 = c2 x1 = x1 x2 = x2 x3 = x3 k1 = k1 k2 = k2 s1 = s1
  e1 = e1 e2 = e2 e3 = e3 t1 = t1 t2 = t2 d1 = d1 m1 = m1 m2 = m2
  NoProc = noProc NoCall = noCall NoRun = noRun NoChannel = noChannel Link = link
  Calls = {e1, e2, e3}
  Requests = {t1, t2}
  Reads = {}
  Directs = {d1}
  RequestOf <- Asked
  PrintOf <- Alike
  LaneOf <- Routes
  Clients = {1}
  MaxOutcomes = 1
  MaxPending = 2
  StatusAge = 1
  MaxBinds = 1
  MaxTime = 1
  MaxStatuses = 1
  Messages = {m1, m2}
  Sessions = {s1}
  SessionOf <- OneSession
  Direct = {d1}
  LinkRoute = link
  Runs = {1, 2}
  MaxLeases = 2
  Procs = {p1}
SYMMETRY Symmetry
CHECK_DEADLOCK FALSE
INVARIANTS    RepliesToTheAsker

SPECIFICATION Runs
CONSTANTS
  k1 = k1 k2 = k2 c1 = c1 c2 = c2 r1 = r1 r2 = r2 i1 = i1 i2 = i2 NoFile = noFile NoItem = noItem q1 = q1 q2 = q2 q3 = q3
  Commands = {k1, k2}
  Requests = {q1, q2, q3}
  CommandOf <- MCCommandOf
  IssuedAt <- MCIssuedAt
  Connections = {c1, c2}
  Past = 1
  Future = 2
  MaxTasks = 2
  MaxConnections = 1
  MaxPerPeer = 1
  MaxEntries = 2
  MaxBytes = 4
  Body = 2
  Small = 1
  MaxTime = 3
  MaxBack = 1
  MaxGenerations = 2
  MaxFaults = 1
  MaxSlots = 2
SYMMETRY Symmetry
CHECK_DEADLOCK FALSE
INVARIANTS DispatchedOnce AnswersAgree
PROPERTIES FilesKept

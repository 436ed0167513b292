SPECIFICATION Runs
CONSTANTS
  Grants = {g1}
  Activities = {a1}
  Sessions = {s1}
  Turns = {t1, t2, t3}
  Children = {c1}
  t1 = t1
  NoTurn = noTurn
  GrantOf <- MCGrantOf
  SessionOf <- MCSessionOf
  GrantExpires <- MCGrantExpires
  GrantLife = 9
  Progress = {}
  Outcomes = {"cancelled"}
  Answers = {}
  LeaseLength = 1
  Stale = 2
  Budget = 1
  Refresh = 2
  ClaimLease = 1
  Backoffs = {0, 1}
  Retention = 2
  WorkLimit = 2
  ChildLimit = 1
  ActivityLimit = 1
  MaxTime = 1
  MaxEpoch = 1
  MaxAsked = 1
  HoldsWorkerLock = FALSE
CHECK_DEADLOCK FALSE
INVARIANTS TerminalNewest BoundWorkRetained
PROPERTIES TerminalIsTrue EndsSettle

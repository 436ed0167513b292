SPECIFICATION Spec
CONSTANTS
  Grants = {g1}
  Sessions = {s1}
  Turns = {t1}
  SessionOf <- MCSessionOf
  Tools = {k1}
  Outcomes = {}
  Questions = {}
  Children = {}
  TurnEnd = turnEnd
  Permits <- MCPermits
  Procs = {p1}
  NoProc = noProc
  GrantCreated <- MCGrantCreated
  GrantExpires <- MCGrantExpires
  GrantLife = 2
  Grace = 1
  ApprovalTTL = 2
  QuestionTTL = 2
  AlertTTL = 2
  ClaimLease = 2
  Backoffs = {0, 1}
  AttentionLimit = 2
  EventLimit = 2
  PendingLimit = 2
  BatchLimit = 2
  EnrollLimit = 1
  EventRetention = 2
  PendingRetention = 1
  GrantRetention = 1
  MaxTime = 4
  MaxEpoch = 0
CHECK_DEADLOCK FALSE
PROPERTY GrantCoversSession

SPECIFICATION FairSpec
CONSTANTS
  Grants = {g1}
  Sessions = {s1}
  Turns = {t1}
  SessionOf <- MCSessionOf
  Tools = {k1}
  Outcomes = {done}
  Questions = {}
  Children = {c1}
  TurnEnd = turnEnd
  Permits <- MCPermitsApprovals
  Procs = {p1, p2}
  NoProc = noProc
  GrantCreated <- MCGrantCreated
  GrantExpires <- MCGrantExpires
  GrantLife = 2
  Grace = 1
  ApprovalTTL = 3
  QuestionTTL = 2
  AlertTTL = 2
  ClaimLease = 2
  Backoffs = {0, 1}
  AttentionLimit = 2
  EventLimit = 2
  PendingLimit = 2
  BatchLimit = 2
  EnrollLimit = 1
  EventRetention = 4
  PendingRetention = 1
  GrantRetention = 1
  MaxTime = 3
  MaxEpoch = 0
CHECK_DEADLOCK FALSE
INVARIANTS OwnObservationOnly
PROPERTIES EverySettles

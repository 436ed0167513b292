SPECIFICATION Runs
CONSTANTS
  v1 = v1 o1 = o1 b1 = b1 b2 = b2 m0 = m0 q1 = q1 u1 = u1 y1 = y1
  NoPrompt = NoPrompt
  NoSession = NoSession
  NoJob = NoJob
  Sessions = {s1}
  KindOf <- AllApproval
  Texts = {t1}
  Prompts = {p1}
  Budget = 4
  Tombstone = 1
  Headroom = 1
  MaxBytes = 100
  MaxEntries = 2
  MaxActive = 2
  MaxControls = 2
  Delegations = {d1}
  Requests = {r1, r2}
  Reconciled <- Observations
  MaxRevision = 10
  MaxRun = 2
  MaxEvents = 5
  MaxRestarts = 1
CHECK_DEADLOCK FALSE
INVARIANTS AnsweredOnce SubmittedOnce ReceiptsAreTrue
PROPERTIES LedgerSpec WorkSettles CallsKept

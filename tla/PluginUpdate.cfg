SPECIFICATION FairSpec
CONSTANTS
  Operations = {o1, o2}
  Restarting = {o1}
  Relaunches = TRUE
  Ambiguous = TRUE
  Faults = {"worker", "command", "starter", "editor"}
  MaxRevision = 2
  MaxGateways = 2
  MaxFaults = 1
CHECK_DEADLOCK FALSE
INVARIANTS OneRestart CompleteIsActive InstallationKept
 

SPECIFICATION Runs
CONSTANTS
  s1 = s1 s2 = s2 a = a b = b
  f1 = f1 k1 = k1 k2 = k2 v1 = v1 v2 = v2 t1 = t1 t2 = t2
  r1 = r1 r2 = r2 p1 = p1 p2 = p2 q1 = q1 q2 = q2 q3 = q3 i1 = i1 i2 = i2
  NoFile = NoFile NoRequest = NoRequest NoAsk = NoAsk
  Saves = {s1, s2}
  Contents = {a, b}
  Nothing = Nothing
  Proposed <- MCProposed
  Chunks = 1
  UploadLimit = 2
  OperationLimit = 2
  MaxGenerations = 2
  MaxWrites = 2
  MaxFaults = 2
CHECK_DEADLOCK FALSE
INVARIANTS OutcomesTrue
PROPERTIES NoLostSave KeptAsAsked WorkspaceTrue  

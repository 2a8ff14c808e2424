\* Two tasks; validation fails with the lock entered.
SPECIFICATION LockSpec
CONSTANTS
  Callers = {k1, k2}
  walletKey = walletKey
  otherKey = otherKey
  playerKey = playerKey
  Keys = {walletKey, otherKey, playerKey}
  Objs = {o1, o2, o3, o4}
  Batches = {}
  LockLevel <- MCLevel
  Hierarchy <- MCHierarchy
  MayDescend <- MCMayDescend
  MaxRetries = 1
  Threshold = 1
  MaxRecords = 4
  MaxDepth = 2
  MaxOps = 3
  Nobody = Nobody
  Gone = Gone
CHECK_DEADLOCK FALSE
PROPERTY ValidationRollsBack

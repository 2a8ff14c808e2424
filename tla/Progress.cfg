CONSTANTS
  MaxCalls = 3
  Guests = {u1, u2}
  MinPlayers = 2
  Laps = 1
  MaxTasks = 2
  MaxShown = 2
  NoTimer = NoTimer
  NoCount = NoCount
  Chats = {h1, h2}
  Anchors = {a1}
  MaxMessages = 3
  Capacity = 2
  Ticks = 1
  NoMessage = NoMessage
  Hands = {d1, d2}
  Timer = Timer
  Closer = Closer
  Readers = {r1}
  MaxSize = 2
  BatchRetries = 1
  MaxMishaps = 2
  MaxReads = 1
  NoReport = NoReport
  Clients = {q1, q2}
  TokenKeys = {tk}
  SmartKeys = {sk}
  MaxTries = 2
  QueueThreshold = 0
  WaitDepth = 1
  MaxIds = 3
  None = None
  t1 = t1
  t2 = t2
  t3 = t3
  t4 = t4
  botA = botA
  botB = botB
  NoTask = NoTask
  Tasks = {t1, t2, t3, t4}
  Instances = {botA, botB}
  Home <- TwoInstances
  WithRedis = FALSE
  WriterPriority = TRUE
  SlowHolders = FALSE
  MaxReaders = 3
  Faults = {"cancel"}
SPECIFICATION MCSpec
INVARIANTS TypesOK CountdownInv QueueInv HoldersInv Exclusion TableLockInv
PROPERTIES OrphansAreFreed WriterServedLocally CountdownsSettle HandsAreCounted
CHECK_DEADLOCK FALSE

CONSTANTS
  c1 = c1
  c2 = c2
  c3 = c3
  Callers = {k1, k2}
  walletKey = walletKey
  otherKey = otherKey
  playerKey = playerKey
  Keys = {walletKey, otherKey, playerKey}
  Objs = {o1, o2, o3, o4}
  Batches <- MCBatches
  LockLevel <- MCLevel
  Hierarchy <- MCHierarchy
  MayDescend <- MCMayDescend
  MaxRetries = 1
  Threshold = 1
  MaxRecords = 4
  MaxDepth = 2
  MaxOps = 3
  Nobody = Nobody
  Gone = Gone
  Requests = {1, 2}
  SeatUsers = 2
  Stack = 3
  Bet = 1
  RaiseBy = 1
  Acts = {"fold", "check", "call", "raise", "all_in"}
  NoDoc = NoDoc
  NoRequest = NoRequest
  Users = {u1, u2, u3}
  MaxAsks = 3
  MaxFailures = 1
  MaxExpiries = 1
  NoUser = NoUser
  Contents = {c1, c2, c3}
  TextOf <- MCText
  MaxEdits = 2
  MaxDeletes = 2
  MaxFaults = 1
  NoContent = NoContent
  Hands = {d1, d2}
  Timer = Timer
  Closer = Closer
  Readers = {r1}
  MaxSize = 2
  BatchRetries = 1
  MaxMishaps = 2
  MaxReads = 1
  NoReport = NoReport
  Joiners = {j1, j2}
  Deck = 52
  MaxPlayers = 3
  MinPlayers = 2
  MaxObjects = 2
  MaxJobs = 1
  MaxSaves = 1
  MaxBets = 3
  MaxCrashes = 1
  Presses = {p1, p2, p3}
  HistoryLimit = 2
  LastStage = 1
  MaxMoves = 1
  Taps = {s1, s2}
  Tokens = {n1}
  NoPress = NoPress
  Players = {1, 2}
  Painters = {t1, t2}
  AnchorPresses = {b1}
  NoButton = NoButton
  NoAnchor = NoAnchor
  MaxSent = 3
  MaxGameMoves = 4
  MaxCalls = 3
  MaxMisses = 2
SPECIFICATION MCSpec
INVARIANTS
  TypesOK LossesAreBlamed CirclesAreLetIn DocumentInv MatchInv EditsInv
  StatsInv SavedInv PressInv AnchorsInv
CHECK_DEADLOCK FALSE

\* Two guests, one countdown.
SPECIFICATION CdSpec
CONSTANTS
  MaxCalls = 2
  Guests = {u1, u2}
  MinPlayers = 2
  Laps = 1
  MaxTasks = 1
  MaxShown = 2
  NoTimer = NoTimer
  NoCount = NoCount
CHECK_DEADLOCK FALSE
PROPERTY CompletionStartsHand

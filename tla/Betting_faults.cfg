SPECIFICATION MCSpec
CONSTANTS
    r1 = r1
    r2 = r2
    alice = alice
    bob = bob
    NoRequest = none
    Requests = {r1, r2}
    Users = {alice, bob}
    Owner <- TwoPlayers
    Amount <- OneFree
    InitialBalance <- Balances
    Faults = {"debit", "credit", "redis", "dlq", "engine", "crash"}
    SlowHandlers = TRUE
    MaxVersion = 2
CHECK_DEADLOCK FALSE
INVARIANTS PaidExactlyOnce RefundsArrive
PROPERTIES LedgerSpec SavedInTurn RefundsMove

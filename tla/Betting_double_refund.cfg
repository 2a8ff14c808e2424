SPECIFICATION Spec
CONSTANTS
    r1 = r1
    r2 = r2
    alice = alice
    bob = bob
    NoRequest = none
    Requests = {r1}
    Users = {alice, bob}
    Owner <- TwoPlayers
    Amount <- Amounts
    InitialBalance <- Balances
    Faults = {}
    SlowHandlers = TRUE
    MaxVersion = 1
CHECK_DEADLOCK FALSE
INVARIANT RefundedAtMostOnce

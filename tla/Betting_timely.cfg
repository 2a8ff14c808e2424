SPECIFICATION Spec
CONSTANTS
    r1 = r1
    r2 = r2
    alice = alice
    bob = bob
    NoRequest = none
    Requests = {r1, r2}
    Users = {alice, bob}
    Owner <- OnePlayer
    Amount <- Amounts
    InitialBalance <- Balances
    Faults = {"debit", "credit", "redis", "dlq", "engine", "save", "crash"}
    SlowHandlers = FALSE
    MaxVersion = 2
CHECK_DEADLOCK FALSE
INVARIANTS TypeOK RefundedAtMostOnce

SPECIFICATION Spec
CONSTANTS
    a1 = a1
    a2 = a2
    b1 = b1
    b2 = b2
    s1 = s1
    old = old
    del = del
    writeLock = writeLock
    guardLock = guardLock
    call = call
    NoGame = {nogame}
    NoVersion = NoVersion
    NoTask = nobody
    Tasks = {a1, b1}
    Kind <- AllKinds
    Locks = {writeLock, guardLock}
    Lock <- TwoLocks
    Buttons = {call}
    Button <- SameButton
    Faults = {}
CHECK_DEADLOCK FALSE
INVARIANT NoLostUpdate

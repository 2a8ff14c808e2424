SPECIFICATION MCSpec
CONSTANTS
    a1 = a1
    a2 = a2
    b1 = b1
    b2 = b2
    s1 = s1
    old = old
    del = del
    writeLock = writeLock
    guardLock = guardLock
    call = call
    NoGame = {nogame}
    NoVersion = NoVersion
    NoTask = nobody
    Tasks = {a1, a2, s1, b1, b2, old, del}
    Kind <- AllKinds
    Locks = {writeLock, guardLock}
    Lock <- TwoLocks
    Buttons = {call}
    Button <- SameButton
    Faults = {"corrupt", "engine"}
CHECK_DEADLOCK FALSE
INVARIANTS TypeOK OneTap ChargedTwiceAcrossLocks
PROPERTIES NotLostUnderLock SavesAreIsolated UpdatesEnd

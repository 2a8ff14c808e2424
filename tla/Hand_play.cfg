\* Three seats, blinds of 1 and 2, one raise of 1, wallets of 2, 4 and 5 chips.
SPECIFICATION FairSpec
CONSTANTS
    MaxPlayers = 3
    SmallBlind = 1
    Raises = {1}
    Wallets <- UnevenWallets
    Scores = {1, 2}
    Seatings <- NoGaps
    Manager = 0
    MaxHands = 1
    ServiceBound = TRUE
CHECK_DEADLOCK FALSE
INVARIANTS
    TypeOK
    ChipsInPlay
    EvenStakes
    TurnIsPlayable
    FairPayout
PROPERTIES
    OnlyBlindsAreLost
    HandEnds

\* game_service is never assigned, as in the program.
SPECIFICATION FairSpec
CONSTANTS
    MaxPlayers = 3
    SmallBlind = 1
    Raises = {1}
    Wallets <- UnevenWallets
    Scores = {1, 2}
    Seatings <- NoGaps
    Manager = 0
    MaxHands = 1
    ServiceBound = FALSE
CHECK_DEADLOCK FALSE
PROPERTY HandEnds

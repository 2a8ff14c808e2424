\* A vote stops the hand.
SPECIFICATION Spec
CONSTANTS
    MaxPlayers = 3
    SmallBlind = 1
    Raises = {1}
    Wallets <- UnevenWallets
    Scores = {1, 2}
    Seatings <- NoGaps
    Manager = 0
    MaxHands = 1
    ServiceBound = TRUE
CHECK_DEADLOCK FALSE
PROPERTY StopRefunds

SPECIFICATION Safety
CONSTANTS
    TotalPieces = 3
    NumBlocks <- MCNumBlocks
    MAX_INFLIGHT_PER_PEER = 2
    NumPeers = 2
    MAX_SEEDS = 2
    ChannelBound = 1
    Faults <- Hostile
    MaxChokes = 1
INVARIANTS
    TypeOK AccountingExact AssertionsHold InflightCovers WrittenIsOwned
    ValidationFair ChokedMeansQuiet
CHECK_DEADLOCK FALSE

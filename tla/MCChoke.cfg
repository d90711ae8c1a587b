SPECIFICATION Spec
CONSTANTS
    TotalPieces = 3
    NumBlocks <- MCNumBlocks
    MAX_INFLIGHT_PER_PEER = 2
    NumPeers = 1
    MAX_SEEDS = 1
    ChannelBound = 1
    Faults <- Choking
    MaxChokes = 1
PROPERTIES EverythingOwned
CHECK_DEADLOCK FALSE

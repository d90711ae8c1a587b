SPECIFICATION Safety
CONSTANTS
    TotalPieces = 3
    NumBlocks <- MCNumBlocks
    MAX_INFLIGHT_PER_PEER = 2
    NumPeers = 2
    MAX_SEEDS = 2
    ChannelBound = 1
    Faults <- NoFaults
    MaxChokes = 0
INVARIANTS OkMeansWritten
CHECK_DEADLOCK FALSE

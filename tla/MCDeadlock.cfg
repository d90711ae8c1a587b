SPECIFICATION Spec
CONSTANTS
    TotalPieces = 3
    NumBlocks <- MCSingleBlocks
    MAX_INFLIGHT_PER_PEER = 2
    NumPeers = 2
    MAX_SEEDS = 2
    ChannelBound = 1
    Faults <- NoFaults
    MaxChokes = 0
PROPERTIES CompletedIsWritten
CHECK_DEADLOCK FALSE

SPECIFICATION Spec
CONSTANTS
    TotalPieces = 3
    NumBlocks <- MCOneLongPiece
    MAX_INFLIGHT_PER_PEER = 2
    NumPeers = 2
    MAX_SEEDS = 2
    ChannelBound = 1
    Faults <- Unsteady
    MaxChokes = 1
INVARIANTS InflightExact NeverIdle
PROPERTIES OkUnlessDeadlocked EndUnlessDeadlocked ImplementsLedger
CHECK_DEADLOCK FALSE

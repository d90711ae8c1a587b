SPECIFICATION Safety
CONSTANTS
    NumTrackers = 1
    Seeders <- OneSeeders
    Faults <- OneFaults
    MaxFaults <- OneMaxFaults
    PeerCounts = {2, 79, 80}
    Intervals = {0, 6}
INVARIANTS
    WholePeersAccepted

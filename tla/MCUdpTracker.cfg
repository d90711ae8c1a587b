SPECIFICATION Spec
CONSTANTS
    NumTrackers = 3
    Seeders <- MCSeeders
    Faults <- MCFaults
    MaxFaults <- MCMaxFaults
    PeerCounts = {2, 60}
    Intervals = {0, 6}
INVARIANTS
    TypeOK
    GoodTrackerFound
    PeersComplete
    BoundedTime
PROPERTIES
    SearchEnds
    AnnouncesAllowed

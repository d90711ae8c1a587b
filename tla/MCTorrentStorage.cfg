SPECIFICATION Spec
CONSTANTS
    BLOCK_SIZE = 2
    MaxPicks = 1
    Torrents <- MCTorrents
INVARIANTS BytesInPlace BlocksTile PiecesCover FilesExact
PROPERTY StorageEnds
CHECK_DEADLOCK FALSE

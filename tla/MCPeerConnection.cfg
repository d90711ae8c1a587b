SPECIFICATION Spec
CONSTANT Peers <- MCPeers
INVARIANTS TypeOK DecodedAsSent NothingHeldBack AcceptedIsSeed
PROPERTIES SeedIsHeard ImplementsStream

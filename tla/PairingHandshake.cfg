SPECIFICATION FairSpec
CONSTANTS
    MaxConnections = 3
    MaxQueue = 2
INVARIANTS
    CommitOrder
    NoFalseAccusation
PROPERTIES
    TrustSpec
    HandshakeEnds
CHECK_DEADLOCK FALSE

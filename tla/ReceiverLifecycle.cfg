SPECIFICATION FairSpec
CONSTANTS
    MaxGen = 3
    MaxEvents = 2
    MaxMedia = 1
INVARIANTS
    HoldMatches
    NothingSurvivesTeardown
    StreamingNeedsProof
    NoUnattendedConnection
PROPERTIES
    HoldEnds
    ConnectionIsAdopted
CHECK_DEADLOCK FALSE

SPECIFICATION Spec
CONSTANTS
    zoom = zoom
    teams = teams
    Readers = {zoom, teams}
    SlotCount = 2
    MaxGeneration = 3
    MaxRevision = 3
    MaxFrames = 3
    MaxEra = 2
    MaxCrashes = 1
SYMMETRY Symmetry
INVARIANTS
    TypeOK
    ViewIsWhole
    FenceHolds
    LeasesCountReaders
CHECK_DEADLOCK FALSE

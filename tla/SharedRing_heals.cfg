SPECIFICATION FairSpec
CONSTANTS
    Readers = {zoom}
    SlotCount = 2
    MaxGeneration = 3
    MaxRevision = 2
    MaxFrames = 3
    MaxEra = 4
    MaxCrashes = 2
PROPERTIES
    RingHeals
CHECK_DEADLOCK FALSE

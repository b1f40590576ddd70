CONSTANTS
    Source <- TwoEpochs
    IngressCapacity = 1
    WaitCapacity = 1
    ReorderCapacity = 2
    Window = 2
    OrderedCapacity = 2
    MaxFrames = 3
    Plans <- OneOrTwo
SPECIFICATION FairSpec
INVARIANTS ResultIsTrue
PROPERTIES StopConcludes
CHECK_DEADLOCK FALSE

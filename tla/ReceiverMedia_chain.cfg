CONSTANTS
    MaxFrames = 8
    Groups <- TwoFragments
    Sources <- ShortSources
    MaxBuffered = 3
    MaxPending = 1
    MaxConn = 1
    MaxEvents = 1
    Window = 2
SPECIFICATION BestSpec
PROPERTIES NoDeltaOnBrokenChain
CHECK_DEADLOCK FALSE

CONSTANTS
    MaxFrames = 8
    Groups <- TwoFragments
    Sources <- SmallSources
    MaxBuffered = 2
    MaxPending = 1
    MaxConn = 2
    MaxEvents = 1
    Window = 2
SPECIFICATION FairSpec
INVARIANTS GateHolds NewestConfigInForce CandidateIsUnderWay
PROPERTIES LossStartsRecovery DecodedOnce PathDrains
CHECK_DEADLOCK FALSE

CONSTANTS
    MaxFrames = 2
    Groups <- OneGroup
    FrameIds <- EightUnits
    EpochOf <- TwoEpochs
    KindOf <- EightKinds
    Arriving <- ArrivingOf
SPECIFICATION MapSpec
PROPERTIES LossIsReported SettledOnce
CHECK_DEADLOCK FALSE

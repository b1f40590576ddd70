CONSTANTS
    Endpoints = {laptop, studio}
    NoEndpoint = NoEndpoint
    MaxGen = 3
    MaxEvents = 2
    LastStage = 3
SPECIFICATION FairSpec
INVARIANTS
    TypeOK
    OwnedConnectionReports
    NoLeakedConnection
    SupersededConnectionCloses
    StopIsFinal
PROPERTIES
    ConnectIntentServed

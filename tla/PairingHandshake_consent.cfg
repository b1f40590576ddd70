SPECIFICATION Spec
CONSTANTS
    MaxConnections = 3
    MaxQueue = 2
PROPERTIES
    TrustNeedsBothUsers
CHECK_DEADLOCK FALSE

CONSTANTS
    MaxRequests = 2
    MaxEvents = 3
SPECIFICATION Spec
INVARIANTS SampleWithinRun SurfaceReturned
PROPERTIES LiveSampleIsCurrent RequestsMove ShutdownEnds
CHECK_DEADLOCK FALSE

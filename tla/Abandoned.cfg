SPECIFICATION Spec
CONSTANTS
    NChunks = 2
    Lz4Builds = {}
    NOTIFY_MAX_ATTEMPTS = 2
    MaxBuild = 2
    MaxFaults = 0
PROPERTY AbandonedTouchesNothing
CHECK_DEADLOCK FALSE

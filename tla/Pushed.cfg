SPECIFICATION Spec
CONSTANTS
    NChunks = 1
    Lz4Builds = {2}
    NOTIFY_MAX_ATTEMPTS = 1
    MaxBuild = 4
    MaxFaults = 0
INVARIANT PushedStands
CHECK_DEADLOCK FALSE

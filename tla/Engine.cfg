SPECIFICATION Spec
CONSTANTS
    NChunks = 2
    Lz4Builds = {2}
    NOTIFY_MAX_ATTEMPTS = 2
    MaxBuild = 2
    MaxFaults = 1
INVARIANTS TypeOK ServesWholeStore Converged
CHECK_DEADLOCK FALSE

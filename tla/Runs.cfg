CONSTANTS
    MaxBuilds = 5
    LatestFormat = 1
    Chunks = 2
    KvLimit = 8
    MaxEpoch = 2
    Deploys <- NoDeploys
    Starts <- OnePartition
    EmptyStart = FALSE
    SerialDeploys = TRUE
    Downgrades = FALSE
    CleanupFails = FALSE
    FenceReadsFail = FALSE
    Prompt = TRUE
SPECIFICATION Spec
INVARIANTS
    ManifestComplete
    WithinByteGuard
PROPERTIES
    SweepsSpareTheHolder

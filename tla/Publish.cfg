CONSTANTS
    MaxBuilds = 4
    LatestFormat = 1
    Chunks = 2
    KvLimit = 100
    MaxEpoch = 1
    Deploys = {d1}
    Starts <- OnePartition
    EmptyStart = FALSE
    SerialDeploys = TRUE
    Downgrades = FALSE
    CleanupFails = FALSE
    FenceReadsFail = FALSE
    Prompt = TRUE
SPECIFICATION Spec
INVARIANTS
    TypeOK
    ManifestComplete
    AtMostThreeFamilies
    RollbackKept
    DeployKeepsLease
    WritersExclude
PROPERTIES
    NoLostPublish
    ImplementsContract

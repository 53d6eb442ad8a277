CONSTANTS
    MaxBuilds = 4
    LatestFormat = 2
    Chunks = 2
    KvLimit = 8
    MaxEpoch = 0
    Deploys = {d1}
    Starts <- OnePartition
    EmptyStart = FALSE
    SerialDeploys = TRUE
    Downgrades = FALSE
    CleanupFails = TRUE
    FenceReadsFail = FALSE
    Prompt = TRUE
SPECIFICATION Spec
INVARIANTS
    ManifestComplete
    DeployedCodeHasIndex

CONSTANTS
    MaxBuilds = 5
    LatestFormat = 2
    Chunks = 2
    KvLimit = 100
    MaxEpoch = 0
    Deploys = {d1}
    Starts <- OnePartition
    EmptyStart = FALSE
    SerialDeploys = TRUE
    Downgrades = TRUE
    CleanupFails = FALSE
    FenceReadsFail = FALSE
    Prompt = TRUE
SPECIFICATION Spec
INVARIANTS
    DeployedCodeHasIndex

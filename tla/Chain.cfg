SPECIFICATION Spec
CONSTANTS
    MAX_PHASE_ATTEMPTS = 4
    MAX_RETRIES = 2
    MAX_WASM_REWINDS = 1
    MAX_POOL_WAITS = 1
    IS_LISTS_MAX_ATTEMPTS = 1
    NOTIFY_MAX_ATTEMPTS = 2
    RULINGS_MAX_ATTEMPTS = 2
    PLATFORM_RETRIES = 1
    Lines = 4
    FileBytes = 4
    FETCH_SLICE_BYTES = 3
    STAGE_BLOB_BYTES = 2
    CANONICAL_SLICE_LINES = 5
    TRANSFORM_SLICE_LINES = 3
    STREAM_CHECKPOINT_GRID_RAW = 2
    DRAFT_BATCH = 2
    PartitionCount = 2
    KV_CHUNK = 2
    KV_CHUNK_SAFE = 1
    PURGE_SLICE = 3
    MaxRuns = 2
    MaxFaults = 1
INVARIANTS TypeOK ArchiveFaithful FilterComplete TagsWhole RunningIsArmed
PROPERTIES RetireIsQuiet PublishedGoesOn RunEnds
CHECK_DEADLOCK FALSE

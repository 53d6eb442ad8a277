CONSTANTS
    SiblingCount = 3
    SIBLING_CALLS_AT_ONCE = 2
    Neighbour = TRUE
    Cooling = {3}
    Isolates = {i1, i2}
    MaxShards = 3
    RegionHints <- MCHints
    Continent <- MCContinent
    UNSERVED_SEED <- MCSeed
    Answers <- MCAnswers
    Watched = "enam"
    SICK_NIGHTS = 2
    MOVE_COOLDOWN = 2
    MAX_AUTO_MOVES = 1
    MAX_ENGINE_EPOCH = 2
    MaxGeneration = 1
    Nowhere = "none"
    Partitions = {0, 1, 2}
    Own = 1
    DEEP_OFFSET_PROBE = 2
    Layouts <- MCLayouts
    Asks <- MCAsks
    Worlds <- MCWorlds
SPECIFICATION Spec
INVARIANT ReadyAreWarm
CHECK_DEADLOCK FALSE

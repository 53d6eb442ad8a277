SPECIFICATION Spec
CONSTANTS
    MAX_FAILOVERS_PER_DAY = 1
    STALL = 1
    KICK_GRACE = 1
    SUSPECT_CONFIRM = 1
    STALE_IDLE = 2
    Slices = 1
    MaxCrons = 2
    MaxFaults = 2
INVARIANTS TypeOK NoUndesignatedRun CurrentNeverRetires
PROPERTIES ListedUntilReleased ReplacedForCause ImportEnds RetiredReleased

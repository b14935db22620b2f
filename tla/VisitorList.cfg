CONSTANTS
    Tags = {"alice", "bob", "carol"}
    TICKS_PER_SEC = 2
    RECENT_CUTOFF = 2
    MAX_RECENT_VISITORS = 2
    TIMESTAMP_OFFSET = 1
    U32_MAX = 3
    MaxSkew = 3
    MaxClock = 11
SPECIFICATION Spec
INVARIANTS
    TypeOK
    IInv
PROPERTIES
    UpdatesAsSet
    PanicsAsSet
    StoredTimesTrue
    OutageEnds
CHECK_DEADLOCK FALSE

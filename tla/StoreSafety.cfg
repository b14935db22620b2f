CONSTANTS
    i1 = i1
    i2 = i2
    i3 = i3
    alice = alice
    bob = bob
    TagOf <- MCTagOf
    Invocations = {i1, i2, i3}
    Tags = {alice, bob}
    TICKS_PER_SEC = 1
    RECENT_CUTOFF = 2
    MAX_RECENT_VISITORS = 2
    StaleReads = TRUE
    MAX_ATTEMPTS_FOR_OPTIMISTIC_LOCKING = 2
    MAX_SENDS = 1
    LAMBDA_TIMEOUT = 1
    MaxClock = 3
SPECIFICATION Spec
SYMMETRY MCSymmetry
INVARIANT TypeOK
INVARIANT TagsUnique
INVARIANT CountIsLedger
INVARIANT AnswersInWindow
INVARIANT DedupWindow
INVARIANT ConflictsExplained
CHECK_DEADLOCK FALSE

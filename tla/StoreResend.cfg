CONSTANTS
    i1 = i1
    i2 = i2
    i3 = i3
    alice = alice
    bob = bob
    TagOf <- MCTagOfTwo
    Invocations = {i1, i2}
    Tags = {alice, bob}
    TICKS_PER_SEC = 2
    RECENT_CUTOFF = 2
    MAX_RECENT_VISITORS = 2
    StaleReads = TRUE
    MAX_ATTEMPTS_FOR_OPTIMISTIC_LOCKING = 2
    MAX_SENDS = 2
    LAMBDA_TIMEOUT = 1
    MaxClock = 5
SPECIFICATION Spec
SYMMETRY MCSymmetry
INVARIANTS
    IInv
    RefinementInv
PROPERTY ImplementsCounter
CHECK_DEADLOCK FALSE

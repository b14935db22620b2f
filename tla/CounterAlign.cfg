CONSTANTS
    Numbers <- MCNumbers
    Reserves <- MCReserves
SPECIFICATION Spec
INVARIANT RightAligned
CHECK_DEADLOCK FALSE

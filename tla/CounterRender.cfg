CONSTANTS
    Numbers <- MCNumbers
    Reserves <- MCReserves
SPECIFICATION Spec
INVARIANTS
    TypeOK
    Layout
    InBounds
    Legible
    DigitsReadable
    EndsNearRightEdge
    SameWidth
CHECK_DEADLOCK FALSE

CONSTANTS
    r1 = r1
    r2 = r2
    r3 = r3
    r4 = r4
    r5 = r5
    r6 = r6
    r7 = r7
    r8 = r8
    Requests = {r1, r2, r3, r4, r5, r6, r7, r8}
    Event <- MCEvent
    Names <- MCNames
    Settings <- MCSettings
    Agents <- MCAgents
    Addresses <- MCAddresses
    TagOf <- MCTagOf
SPECIFICATION Spec
SYMMETRY MCSymmetry
INVARIANTS
    TypeOK
    OnlyVisitorsCounted
    CallerIsCounted
    AnswersNeverGoBack
CHECK_DEADLOCK FALSE

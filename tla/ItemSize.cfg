CONSTANTS
    Lists <- MCLists
    NAME_LENGTH = 1000
SPECIFICATION Spec
INVARIANT ItemFits
CHECK_DEADLOCK FALSE

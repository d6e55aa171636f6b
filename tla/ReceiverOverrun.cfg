SPECIFICATION Spec
CONSTANTS
    Sizes = {1, 2}
    MaxMsgs = 2
INVARIANTS
    NoOverrun
CHECK_DEADLOCK FALSE

CONSTANTS
    Caller = {demo, other}
    Alternating = FALSE
    NOBODY = NOBODY
    MaxFrames = 3
SPECIFICATION Spec
INVARIANT ArmsItsTimer
CHECK_DEADLOCK FALSE

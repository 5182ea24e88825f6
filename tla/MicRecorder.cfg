CONSTANTS
    Caller = {demo}
    Alternating = TRUE
    NOBODY = NOBODY
    MaxFrames = 3
SPECIFICATION FairSpec
INVARIANTS TypeOK CaptureHasRecorder OneTimer
PROPERTY CallsReturn
CHECK_DEADLOCK FALSE

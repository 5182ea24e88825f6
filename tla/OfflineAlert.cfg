CONSTANTS
    Alarm = Alarm
    Timer = Timer
    Unknown = Unknown
    NULL = NULL
    Alert <- MCAlert
    UnknownType = {Unknown}
    ScheduledTime <- MCScheduledTime
    Duration <- MCDuration
    MsPerSecond = 1000
    Range32 = 4000
    Slot = {slot1, slot2}
    MaxTime = 4
SPECIFICATION FairSpec
INVARIANTS TypeOK LooksAtAlert  StartedAlertPlays
PROPERTIES  ExpiredAlertEnds RefusedFramesResume
CHECK_DEADLOCK FALSE

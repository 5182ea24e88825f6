CONSTANTS
    t1 = t1
    t2 = t2
    t3 = t3
    Thread <- Tasks
    Priority <- Priorities
    TicksPerSecond = 2
    WallPhase = 1
    WallEpoch = 4
    ServerTime = {9}
    MaxTicks = 4
SPECIFICATION FairSpec
INVARIANTS TypeOK MutualExclusion SynchronizedReading UnsynchronizedReading
PROPERTIES CallsReturn
CHECK_DEADLOCK FALSE

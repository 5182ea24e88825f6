CONSTANTS
    Char = {"a", "b"}
    NUL = NUL
    NULL = NULL
    Identity <- MCIdentity
    Configured <- MCConfigured
    Uninitialized = "a"
    FixedBuffer = 3
    MaxManagers = 1
SPECIFICATION AppSpec
INVARIANTS AppTypeOK UsersGoFirst ReleasesWhatIsHeld NoLeak GivesBack DestroyFindsManager RequestIsComplete
CHECK_DEADLOCK FALSE

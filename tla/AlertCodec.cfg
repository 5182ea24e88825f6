CONSTANTS
    Bit = {0}
    TimeBytes = 4
    DurationBytes = 2
    UnsignedBytes = 2
    AIA_ALERT_TOKEN_CHARS = 1
SPECIFICATION Spec
INVARIANTS TypeOK RoundTrip

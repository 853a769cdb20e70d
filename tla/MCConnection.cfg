SPECIFICATION FairSpec
CONSTANTS
    HEADER_SIZE = 2
    IDLE_TIMEOUT = 3
    REMOTE_IDLE = 4
    SEND_AFTER = 2
    MaxStall = 2
    MaxFaults = 2
INVARIANTS
    TypeOK
    HeaderIndexInBounds
    WireOrder
    KeepAlive
    AdvertisedIsEnforced
PROPERTY
    IdleTimeoutCloses
CHECK_DEADLOCK FALSE

SPECIFICATION Spec
CONSTANTS
    BACNET_MAX_PRIORITY = 4
    RESERVED_PRIORITY = 3
    BACNET_ARRAY_ALL = 99
    MAX_APDU_ELEMENTS = 4
    TL_MAX_ENTRIES = 3
    SEQUENCES = 8
    TOTAL = 6
    STOP_TIME = 3
    MAX_TIME = 4
    MAX_WRITES = 3
INVARIANTS
    RangesAgree
    WritesAreRead
PROPERTIES
    ImplementsRecordLog
    SwitchingIsLogged
    PolledInTime
CHECK_DEADLOCK FALSE

SPECIFICATION Spec
CONSTANTS
    BACNET_MAX_PRIORITY = 4
    RESERVED_PRIORITY = 3
    BACNET_ARRAY_ALL = 99
    MAX_APDU_ELEMENTS = 7
    MULTISTATE_NUMBER_OF_STATES = 2
    DAY = 5
    NC_MAX_RECIPIENTS = 2
    LOAD_PRIORITY = 2
    SHED_LEVELS <- MCShedLevels
    Object_Table <- MCObjectTable
    Groups <- MCGroups
    MAX_REQUESTS = 3
    MAX_NOW = 3
INVARIANTS
    WritesAreRead
    ReadsAgree
    ReportedStampAcknowledges
PROPERTIES
    CompliantIsShed
CHECK_DEADLOCK FALSE

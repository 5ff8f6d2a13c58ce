SPECIFICATION FirmwareSpec
CONSTANTS
    MAX_BINARY_OUTPUTS = 2
    BACNET_MAX_PRIORITY = 3
    RESERVED_PRIORITY = 2
    BACNET_MAX_INSTANCE = 1
    DefaultInstance = 0
    Names = {default, other, ofOutput, tooLong}
    DefaultName = default
    ObjectNames = {ofOutput}
    LongNames = {tooLong}
    MAX_REVISION = 1
INVARIANTS
    NamesUnique
    SettingsSurvive
PROPERTIES
    HigherPriorityHolds
    RelayFollows

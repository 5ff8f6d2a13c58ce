SPECIFICATION Spec
CONSTANTS
    MAX_TSM_TRANSACTIONS = 1
    MAX_INVOKE_ID = 2
    APDU_TIMEOUT = 1
    APDU_RETRIES = 1
    TICKS = {1}
    SECONDS_PER_MINUTE = 2
    CHAR = 2
    UINT16 = 2
    Refused = Refused
    Malformed = Malformed
    Undecodable = Undecodable
    MAX_APDUS = {0, 2}
    LENGTHS = {1, 2}
    MAX_PDUS = {3}
    MINUTES = {0, 1}
    SECONDS = {1, 3}
    WIDE = {3}
    MyInstance = 5
INVARIANTS
    AnswersAreTrue
    SilenceAsOrdered
PROPERTIES
    ImplementsTransactions

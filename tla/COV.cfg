SPECIFICATION COVSpec
CONSTANTS
    MAX_TSM_TRANSACTIONS = 1
    MAX_INVOKE_ID = 3
    APDU_TIMEOUT = 1
    APDU_RETRIES = 1
    TICKS = {1}
    SECONDS_PER_MINUTE = 1
    MAX_COV_SUBCRIPTIONS = 2
    MAX_COV_ADDRESSES = 2
    Objects = {o1}
    Processes = {p1}
    Sources = {s1, s2}
    LIFETIMES = {0, 1}
    MINUTES = {1}
    SECONDS = {1}
    SEND_RESULTS = {TRUE, FALSE}
    NoSubscription = NoSubscription
    NoSource = NoSource
    o1 = o1
    p1 = p1
    s1 = s1
    s2 = s2
INVARIANTS
    AddressesMatchSubscriptions
    NoTransactionLeak
    InvokeIDsNotShared
    NoDuplicateSubscription

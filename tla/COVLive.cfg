SPECIFICATION COVFairSpec
CONSTANTS
    MAX_TSM_TRANSACTIONS = 2
    MAX_INVOKE_ID = 2
    APDU_TIMEOUT = 1
    APDU_RETRIES = 0
    TICKS = {1}
    SECONDS_PER_MINUTE = 1
    MAX_COV_SUBCRIPTIONS = 2
    MAX_COV_ADDRESSES = 1
    Objects = {o1, o2}
    Processes = {p1}
    Sources = {s1}
    LIFETIMES = {0}
    MINUTES = {}
    SECONDS = {1}
    SEND_RESULTS = {TRUE}
    NoSubscription = NoSubscription
    NoSource = NoSource
    o1 = o1
    o2 = o2
    p1 = p1
    s1 = s1
INVARIANTS
    NoLostNotification
    UniqueInvokeIDs
PROPERTY
    OwedIsSent

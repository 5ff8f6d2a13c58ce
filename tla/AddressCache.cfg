SPECIFICATION Spec
CONSTANTS
    MAX_ADDRESS_CACHE = 3
    Devices = {d1, d2, d3, d4}
    Addresses = {a1, a2}
    Own_Device_ID = d4
    BAC_ADDR_SHORT_TIME = 1
    BAC_ADDR_LONG_TIME = 2
    BAC_ADDR_FOREVER = 3
    TIMEOUTS = {0}
    SECONDS = {1}
    NoDevice = NoDevice
    NoAddress = NoAddress
    d1 = d1
    d2 = d2
    d3 = d3
    d4 = d4
    a1 = a1
    a2 = a2
SYMMETRY Symmetry
INVARIANTS
    OneEntryPerDevice
    BoundWhereHeard
PROPERTIES
    EvictionOrder

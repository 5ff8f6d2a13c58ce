SPECIFICATION Spec
CONSTANTS
    Stations = {0, 1, 3}
    Nmax_master = 3
    Nmax_info_frames = 1
    Npoll = 2
    Nretry_token = 1
    Tusage_timeout = 0
    Treply_delay = 1
    Treply_timeout = 3
    Tno_token = 4
    Tslot = 1
    TRAFFIC <- MCTraffic
    MAX_FAULTS = 1
PROPERTIES
    ImplementsToken
    RingHeals
    EveryNodeGetsToken

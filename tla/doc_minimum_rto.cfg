SPECIFICATION Spec
CONSTANTS
    Clients = {c1}
    Servers = {}
    PeakHopper = TRUE
    GarbageGains = {0}
    MinRto = 4
    InitialRtt = 3
    CnTimeout = 6
    MaxRto = 20
    SynRetries = 2
    DataRetries = 2
    Samples = {1, 4, 9}
    EstCap = 30
    GainNum = 333
    GainDen = 1000
    Granularity = 1
INVARIANT MinimumRtoRespected

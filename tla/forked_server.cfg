SPECIFICATION Spec
CONSTANTS
    Clients = {c1}
    Servers = {s1}
    PeakHopper = TRUE
    GarbageGains = {0, 2000}
    MinRto = 4
    InitialRtt = 3
    CnTimeout = 5
    MaxRto = 10
    SynRetries = 1
    DataRetries = 1
    Samples = {1, 4}
    EstCap = 6
    GainNum = 333
    GainDen = 1000
    Granularity = 1
INVARIANT JacobsonFloor
INVARIANT EstimateWithinSamples
INVARIANT RtoCoversEstimate
CHECK_DEADLOCK FALSE

SPECIFICATION FairSpec
CONSTANTS
    N = 4
    MaxWindow = 4
    InitialCwnd = 4
    RetxThresh = 3
    LimitedTx = TRUE
    DataRetries = 2
    DelAckMax = 2
    MaxLoss = 3
    UseEcn = FALSE
    MaxMarks = 0
    Displace = 0
    Patience = "peer"
INVARIANT NothingResent
PROPERTY Settles
PROPERTY ImplementsFairStream
CHECK_DEADLOCK FALSE

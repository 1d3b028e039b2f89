SPECIFICATION FairSpec
CONSTANTS
    N = 5
    MaxWindow = 3
    InitialCwnd = 3
    RetxThresh = 2
    LimitedTx = TRUE
    DataRetries = 1
    DelAckMax = 2
    MaxLoss = 2
    UseEcn = TRUE
    MaxMarks = 2
    Displace = 0
    Patience = "peer"
INVARIANT AssertionsHold
PROPERTY OneEchoReductionPerWindow
PROPERTY MarksAnswered
CHECK_DEADLOCK FALSE

SPECIFICATION Spec
CONSTANTS
    N = 4
    MaxWindow = 3
    InitialCwnd = 3
    RetxThresh = 2
    LimitedTx = TRUE
    DataRetries = 1
    DelAckMax = 2
    MaxLoss = 1
    UseEcn = FALSE
    MaxMarks = 0
    Displace = 1
    Patience = "none"
INVARIANT PipeConsistent
INVARIANT AssertionsHold
PROPERTY OneReductionPerWindow
PROPERTY ImplementsStream
CHECK_DEADLOCK FALSE

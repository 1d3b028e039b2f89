SPECIFICATION Spec
CONSTANTS
    N = 6
    MaxWindow = 5
    InitialCwnd = 4
    RetxThresh = 3
    LimitedTx = TRUE
    DataRetries = 1
    DelAckMax = 2
    MaxLoss = 2
    UseEcn = FALSE
    MaxMarks = 0
    Displace = 0
    Patience = "path"
INVARIANT TypeOK
INVARIANT PipeConsistent
INVARIANT TimerArmed
INVARIANT AssertionsHold
INVARIANT HoleResent
INVARIANT SamplesUnambiguous
INVARIANT GivenUpAfterRetries
CHECK_DEADLOCK FALSE

\* A receiver of three bytes whose application reads slowly; segments of two bytes.
SPECIFICATION FairSpec
CONSTANTS
    N = 6
    Chunks = {1, 3}
    SegmentSize = 2
    MaxWindow = 4
    RcvBufSize = 3
    DelAckMax = 2
    DataRetries = 1
    NoDelays = {TRUE, FALSE}
    MaxLoss = 2
INVARIANTS
    TypeOK
    WithinOffer
    ZeroWindowProbed
    OutstandingTimed
    GivenUpAfterLosses
PROPERTIES
    Delivered
CHECK_DEADLOCK FALSE

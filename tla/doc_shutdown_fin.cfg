SPECIFICATION FairSpec
CONSTANTS
    SynRetries = 1
    DataRetries = 1
    DelAckMax = 2
    Writers = {"client"}
    Shutters = {"client"}
    Closers = {}
    SlowReaders = {}
    MaxLoss = 0
    Flight = 1
PROPERTY FinGoesWhenEmpty
CHECK_DEADLOCK FALSE

SPECIFICATION Spec
CONSTANTS
    SynRetries = 2
    DataRetries = 1
    DelAckMax = 2
    Writers = {"client", "server"}
    Shutters = {}
    Closers = {"client", "server"}
    SlowReaders = {}
    MaxLoss = 0
    Flight = 1
PROPERTY AckCoversFin
CHECK_DEADLOCK FALSE

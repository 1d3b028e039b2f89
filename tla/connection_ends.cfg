SPECIFICATION FairSpec
CONSTANTS
    SynRetries = 2
    DataRetries = 1
    DelAckMax = 2
    Writers = {"client"}
    Shutters = {"client"}
    Closers = {"client", "server"}
    SlowReaders = {}
    MaxLoss = 1
    Flight = 1
PROPERTY HandshakeEnds
PROPERTY FinsNotEndless
PROPERTY ClosesUnlessLoss
CHECK_DEADLOCK FALSE

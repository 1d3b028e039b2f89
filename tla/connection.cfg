SPECIFICATION Spec
CONSTANTS
    SynRetries = 2
    DataRetries = 2
    DelAckMax = 2
    Writers = {"client", "server"}
    Shutters = {"client"}
    Closers = {"client", "server"}
    SlowReaders = {"server"}
    MaxLoss = 2
    Flight = 2
INVARIANT TypeOK
INVARIANT FinGuarded
INVARIANT AckedWasDelivered
INVARIANT GracefulClose
INVARIANT DataAbandoned
CHECK_DEADLOCK FALSE

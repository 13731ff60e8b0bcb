SPECIFICATION Spec
CONSTANTS
    a = a
    b = b
    Node <- TwoDevices
    Connector <- OneConnector
    Repeatable <- AllButConnect
    SeqMod = 3
    MaxRepCount = 1
    TxCapacity = 1
    MaxSend = 4
    MaxConnect = 2
    MaxRepeat = 1
    MaxCrash = 1
CONSTRAINT LongOrReconnected
INVARIANTS
    NoneSkipped
PROPERTIES
    
    ImplementsOrderedDelivery
CHECK_DEADLOCK FALSE

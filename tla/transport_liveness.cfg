SPECIFICATION FairSpec
CONSTANTS
    a = a
    b = b
    Node <- TwoDevices
    Connector <- TwoDevices
    Repeatable <- AllTypes
    SeqMod = 3
    MaxRepCount = 1
    TxCapacity = 1
    MaxSend = 1
    MaxConnect = 2
    MaxRepeat = 1
    MaxCrash = 1
INVARIANTS
    ConnectionConsistent
    DeliveredOnceInOrder
PROPERTIES
    RequestSettled
    ArmedConnectionReleased
CHECK_DEADLOCK FALSE

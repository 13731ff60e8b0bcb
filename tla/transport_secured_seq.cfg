SPECIFICATION Spec
CONSTANTS
    a = a
    b = b
    Node <- TwoDevices
    Connector <- OneConnector
    Repeatable <- AllTypes
    SeqMod = 3
    MaxRepCount = 1
    TxCapacity = 2
    MaxSend = 2
    MaxConnect = 1
    MaxRepeat = 0
    MaxCrash = 0
INVARIANT TpciSeqNumIsUsed
CHECK_DEADLOCK FALSE

SPECIFICATION MCSpec
CONSTANTS
    Access = {FALSE}
    MaxSequence = 5
    Reservation = 2
    LinkSequence = 3
    LinkReservation = 2
    MaxSync = 1
    Node = {"a", "b"}
    Mortal = {"a"}
    Key = {"k1", "k2"}
    First = "k1"
    Group = {"g"}
    Latency = 1
    SyncLatency = 1
    SyncDelay = 2
    Chunk = 3
    MaxTimer = 9
    MaxTag = 1
    ReplayCapacity = 1
    MaxFrame = 3
    MaxEvent = 2
INVARIANTS
    NumbersSafe
    NotLockedOut
    NonceFresh
    AcceptedOnce
PROPERTIES
    SyncHeals
    ImplementsOrderedDelivery
CHECK_DEADLOCK FALSE

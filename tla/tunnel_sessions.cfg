SPECIFICATION MCSpec
CONSTANTS
    c1 = c1
    c2 = c2
    Client <- TwoClients
    Mortal <- TwoClients
    NTunnel = 2
    NMgmt = 0
    MaxChannel = 3
    SeqMod = 2
    Configurations <- ProperAddresses
    Reservations <- ForTheFirst
    Endpoint = {"c"}
    Handle = {"h"}
    NSession = 2
    SessionTunnels = 1
    MaxId = 3
    User = {1}
    Version = {0, 1, 2}
    SessionTimeout = 1
    AuthTimeout = 1
    MaxKey = 2
    MaxFrame = 2
    MaxEvent = 2
INVARIANTS
    SessionsCoherent
    
PROPERTIES
    ReservationsKept
    SilentReleased
    SlotsReturn
CHECK_DEADLOCK FALSE

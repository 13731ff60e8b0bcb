SPECIFICATION MCSpec
CONSTANTS
    EntryCount = 3
    Tsap = {1}
    Links <- SharedLinks
    Sending <- SharedSending
    CommunicationEnable = {1, 2, 3}
    TransmitEnable = {1, 3}
    WriteEnable = {1, 2}
    ReadEnable = {1, 2}
    ResponseUpdateEnable = {1, 2}
    ReadOnInit = {1}
    Secured = {1}
    MaxRevision = 2
    Table <- TwoTables
    Kind <- TwoKinds
    Media = {"eeprom", "flash"}
    NPage = 3
    BlockPages = 2
    Versions = {1}
    MaxEvent = 5
INVARIANTS
    OneOutstanding
    BlocksPartition
    TablesUsable
    RestartsFaithful
PROPERTIES
    WritesKept
    RequestsServed
    UnloadKept
CHECK_DEADLOCK FALSE

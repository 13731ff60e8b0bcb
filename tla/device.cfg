SPECIFICATION MCSpec
CONSTANTS
    Client <- MCClient
    Desc <- MCDesc
    Factory <- MCFactory
    SaveOrder <- MCSaveOrder
    Control = "control"
    Domain = "domain"
    Version = "version"
    Octet <- MCOctet
    MemorySize = 2
    AppStart = 1
    LoadControlSize = 3
    PlainLimit = 2
    ExtLimit = 1
    MemoryLimit = 1
    DefaultAddress = 3
    DefaultDomain <- MCDefaultDomain
    Request <- MCRequest
    MaxEvent = 5
    Caller = {c1, c2}
    MaxChannel = 4
VIEW allView
CONSTRAINT OneTalks
SYMMETRY CallerSymmetry
INVARIANTS
    ConnectionsDistinct
PROPERTIES
    AnswersTrue
    ManagedOnlyWhenAllowed
    RestartKeepsSettings
CHECK_DEADLOCK FALSE

SPECIFICATION FairSpec
CONSTANTS
    upper = upper
    lower = lower
    backbone = backbone
    main = main
    sub = sub
    Coupler = {upper, lower}
    Line = {backbone, main, sub}
    Installations <- SmallInstallations
    MaxGroup = 3
    FirstHigh = 3
    OctetBits = 2
    Hops = {2, 7}
    DefaultHop = 6
    OpenHop = 5
    Settings <- SomeSettings
    ProxyTables <- Tables
    Passes <- SomePasses
    MaxLease = 1
    Used = {1, 3}
    MaxSend = 1
INVARIANTS
    RoutingConsistent
    AnswersReturn
PROPERTIES
    NeverDowngraded
    TelegramsSettle
CHECK_DEADLOCK FALSE

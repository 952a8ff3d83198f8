SPECIFICATION Spec
CONSTANTS
    k1 = k1
    k2 = k2
    kca = kca
    weak = weak
    t1 = t1
    t2 = t2
    b1 = b1
    b2 = b2
    r1 = r1
    p1 = p1
    None = None
    WeakKeys = {weak}
    Renewals <- TwoCredentials
    CABundle <- CACertificate
    Options <- Commands
    Paths = {p1}
    ForeignPacks <- OtherTools
    Builders = {b1, b2}
    Readers = {r1}
    MaxCommands = 3
    Configs <- HostConfigs
    Prefix = "/pemcast"
    Umasks <- HostUmasks
    Times = {1, 2, 3}
    MaxSeeds = 2
INVARIANTS
    TypeOK
    PackWhole
    ReadGenuine
    StagedIsFetched
    GenerationNamesContent
    PrunedIsRefused
    ConversionAgrees
    InstalledExact
    KeysPaired
    Repeatable
PROPERTIES
    NeverReplaced
CHECK_DEADLOCK FALSE

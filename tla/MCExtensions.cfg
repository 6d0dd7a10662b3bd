CONSTANTS
    Threads = {t1, t2}
    Objects = {o1, o2}
    Clients = {c1, c2}
    NoObject = NoObject
    NoClient = NoClient
    NoKind = NoKind
    Runners <- MCRunners
    Providers <- MCProviders
    Senders <- MCSenders
    Requesters <- MCRequesters
    MaxCalls = 4
    MaxLosses = 1
SPECIFICATION
    FairSpec
INVARIANTS
    FreshObject
    StartedTells
    OrphansExplained
PROPERTIES
    StopHeeded
CHECK_DEADLOCK
    FALSE

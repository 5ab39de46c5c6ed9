SPECIFICATION ClusterSpec
CONSTANTS
    None = None
    Null = Null
    Torn = Torn
    NodeName <- MCNodeName
    Dicts <- MCDicts
    Overrides = {None, "allegro"}
    NameRank <- MCNameRank
    Monikers <- MCMonikers
    MaxCalls = 2
    MaxKeys = 24
INVARIANTS
    TypeOK
    AddressesFit
    UpstreamsResolve
    ContainersMatchGenesis
    PeersAreCurrent
    PeersComplete
    SavedConfigReloads
    EndpointsLeadHome
    GuessServes
CHECK_DEADLOCK FALSE

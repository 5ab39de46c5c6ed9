SPECIFICATION Spec
CONSTANTS
    a1 = a1
    a2 = a2
    d1 = d1
    d2 = d2
    n0 = n0
    n1 = n1
    Addrs <- MCAddrs
    Monikers <- MCMonikers
    DockerAddrs <- MCDockerAddrs
    Configs <- LibraryConfigs
    Entries = {"localnet", "supervisor"}
    MaxRuns = 2
    None = None
    Torn = Torn
INVARIANTS
    TypeOK
    RegeneratedIsReady
CHECK_DEADLOCK FALSE

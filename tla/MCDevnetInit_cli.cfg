SPECIFICATION Spec
CONSTANTS
    a1 = a1
    a2 = a2
    d1 = d1
    d2 = d2
    n0 = n0
    n1 = n1
    Addrs <- MCAddrs
    Monikers <- MCMonikers
    DockerAddrs <- MCDockerAddrs
    Configs <- CliConfigs
    Entries = {"init", "compose"}
    MaxRuns = 2
    None = None
    Torn = Torn
INVARIANTS
    InitLeavesDevnet
    IniMeansReady
    ForcedInitRecovers
PROPERTIES
    ImplementsDirectory
CHECK_DEADLOCK FALSE

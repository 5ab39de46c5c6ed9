SPECIFICATION Spec
CONSTANTS
    Nodes = {1, 2}
    Clients = {c1}
    StartRetries = 1
    MaxBoots = 1
    MaxExits = 1
INVARIANTS
    StopAllStopsAll

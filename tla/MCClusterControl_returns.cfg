SPECIFICATION FairSpec
CONSTANTS
    Nodes = {1, 2}
    Clients = {c1}
    StartRetries = 1
    MaxBoots = 2
    MaxExits = 3
INVARIANTS
    TypeOK
    OkMeansDone
PROPERTIES
    CallsReturn
    StatusRecovers

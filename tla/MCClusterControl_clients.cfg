SPECIFICATION Spec
CONSTANTS
    Nodes = {1, 2}
    Clients = {c1, c2}
    StartRetries = 0
    MaxBoots = 1
    MaxExits = 0
SYMMETRY Symmetry
INVARIANTS
    OkMeansDone

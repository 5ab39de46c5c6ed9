SPECIFICATION Spec
CONSTANTS
    run1 = run1
    run2 = run2
    Callers = {run1, run2}
    Squatters = {other}
    SquatSockets <- MCSquatSockets
    Ephemeral <- MCEphemeral
    Count = 2
    Stride <- MCStride
    Hosts <- MCHosts
    Ceiling = 21
    Tries = 2
    Free = Free
INVARIANTS
    TypeOK
    ClashHasCause
    OverlapKeepsDown
PROPERTIES
    CallsRunDown
    EveryCallEnds

SPECIFICATION Spec
CONSTANTS
    Keys = {alice, bob}
    Roots = {}
    P256Keys = {}
    Bodies = {b1, b2}
    Tokens = {usd}
    Slots = {s1}
    MaxGrants = 3
    None = None
    Marker = Marker
    Garbage = Garbage
    Raised = Raised
INVARIANTS
    SponsoredStillVerifies
CHECK_DEADLOCK FALSE

SPECIFICATION Spec
CONSTANTS
    Keys = {alice, bob}
    Roots = {}
    P256Keys = {}
    Bodies = {b1}
    Tokens = {usd}
    Slots = {s1}
    MaxGrants = 4
    None = None
    Marker = Marker
    Garbage = Garbage
    Raised = Raised
INVARIANTS
    TypeOK
    FeePayerAuthentic
    SponsoredAccepted
    AcceptedIffPromised
PROPERTIES
    ResignKeepsSponsor
    TokenCommitment
SYMMETRY Symmetry
CHECK_DEADLOCK FALSE

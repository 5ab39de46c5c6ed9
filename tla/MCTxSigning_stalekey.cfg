SPECIFICATION Spec
CONSTANTS
    Keys = {alice, bob}
    Roots = {alice}
    P256Keys = {passkey}
    Bodies = {b1}
    Tokens = {usd}
    Slots = {s1}
    MaxGrants = 3
    None = None
    Marker = Marker
    Garbage = Garbage
    Raised = Raised
INVARIANTS
    KeychainVerifiedIsSigned
CHECK_DEADLOCK FALSE

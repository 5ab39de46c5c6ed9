SPECIFICATION Spec
CONSTANTS
    usd = usd
    dex = dex
    transfer = transfer
    approve = approve
    shop = shop
    bank = bank
    Targets <- MCTargets
    Selectors <- MCSelectors
    Recipients <- MCRecipients
    Scopes <- MCScopes
    Limits <- MCLimits
    Expiries <- MCExpiries
    MaxScopes = 2
    Zero = Zero
    None = None
    Empty = Empty
    Refused = Refused
INVARIANTS
    TypeOK
    NodeReadsAuthorization
    AdminIsUnrestricted
    BindingsAgree

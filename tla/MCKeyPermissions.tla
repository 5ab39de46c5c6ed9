--------------------------- MODULE MCKeyPermissions ---------------------------
EXTENDS KeyPermissions

CONSTANTS usd, dex, transfer, approve, shop, bank

MCTargets == {usd, dex}
MCSelectors == {transfer, approve}
MCRecipients == {shop, bank}

ToShop == [selector |-> transfer, recipients |-> {shop}]
AnyApprove == [selector |-> approve, recipients |-> {}]

Scope(target, selector, rules) ==
    [target |-> target, selector |-> selector, rules |-> rules]

\* transfer(), unrestricted(), with_selector() with a rule for its own
\* function, with a rule for another one, with two rules, and rules under the
\* zero selector.
MCScopes ==
    {Scope(usd, transfer, {}), Scope(dex, Zero, {}),
     Scope(usd, transfer, {ToShop}), Scope(usd, transfer, {AnyApprove}),
     Scope(usd, transfer, {ToShop, AnyApprove}), Scope(dex, Zero, {ToShop})}

MCLimits ==
    {[token |-> usd, limit |-> 5, period |-> 0],
     [token |-> usd, limit |-> 5, period |-> 3600]}

MCExpiries == {0, 100}
=============================================================================

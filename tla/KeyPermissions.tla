--------------------------- MODULE KeyPermissions ---------------------------
(***************************************************************************)
(* What an access key may do, and the encodings that tell the node:        *)
(* KeyRestrictions, CallScope, TokenLimit and KeyAuthorization of          *)
(* tempo/keychain.py, and AccountKeychain.authorize_key of                 *)
(* tempo/contracts/keychain.py.                                            *)
(*                                                                         *)
(* A program builds a KeyRestrictions with create, with_limits, add_call   *)
(* and as_admin, and sends what it says: as a KeyAuthorization inside a    *)
(* transaction, or as an authorizeKey call.  Tuples whose order nothing    *)
(* depends on are sets.  How the node reads the two is external, from the  *)
(* docstrings of the two to_rlp methods and of KeyAuthorization.           *)
(***************************************************************************)
EXTENDS Naturals, FiniteSets, Sequences

CONSTANTS
    Targets,     \* contracts
    Selectors,   \* four-byte function selectors, Zero not among them
    Recipients,
    Scopes,      \* the CallScopes the program uses
    Limits,      \* the TokenLimits the program uses
    Expiries,    \* 0 = never
    MaxScopes,   \* bound on allowed_calls
    Zero,        \* _ZERO_SELECTOR
    None,
    Empty,       \* b"", the placeholder of an absent field
    Refused      \* what the node makes of a list it cannot decode

Rules == [selector: Selectors, recipients: SUBSET Recipients]

ASSUME ScopesAssumption ==
    Scopes \subseteq [target: Targets, selector: Selectors \cup {Zero},
                      rules: SUBSET Rules]
ASSUME LimitsAssumption ==
    \A l \in Limits :
      /\ l = [token |-> l.token, limit |-> l.limit, period |-> l.period]
      /\ l.period \in Nat
ASSUME ExpiryAssumption == Expiries \subseteq Nat /\ MaxScopes \in Nat
ASSUME ValuesAssumption ==
    /\ Zero \notin Selectors
    /\ None # Empty /\ None # Refused /\ Empty # Refused
    /\ None \notin {"witness", "root"}
    /\ \A limits \in SUBSET Limits : limits # None
    /\ \A scopes \in SUBSET Scopes : scopes # None

VARIABLES
    restr,   \* the KeyRestrictions the program holds
    sent     \* None, what it sent the node for them, or that it could not

vars == <<restr, sent>>

KeyRestrictions ==
    [expiry: Expiries \cup {0}, enforceLimits: BOOLEAN, limits: SUBSET Limits,
     allowAnyCalls: BOOLEAN, allowedCalls: SUBSET Scopes]

-----------------------------------------------------------------------------
(* Encodings.  An RLP item is a string or a list; what a string holds is   *)
(* kept, since the node tells the fields' widths apart.                    *)

Item(type, value) == [type |-> type, value |-> value]

\* period: Option<NonZeroU64>, last in the list.
TokenLimitToRlp(l) ==
    IF l.period = 0 THEN <<l.token, l.limit>> ELSE <<l.token, l.limit, l.period>>

\* A plain selector becomes a rule for all recipients; rules hide the selector.
ScopeToRlp(s) ==
    [target |-> s.target,
     rules  |-> IF s.rules = {} /\ s.selector # Zero
                THEN {[selector |-> s.selector, recipients |-> {}]}
                ELSE s.rules]

\* What the optional fields hold when they are there.
Items ==
    [type: {"uint"}, value: Expiries]
    \cup [type: {"limits"}, value: SUBSET {TokenLimitToRlp(l) : l \in Limits}]
    \cup [type: {"scopes"}, value: SUBSET {ScopeToRlp(s) : s \in Scopes}]
    \cup [type: {"bytes32"}, value: {"witness"}]
    \cup [type: {"one"}, value: {TRUE}]
    \cup [type: {"address"}, value: {"root"}]

\* An absent field is none of them, nor the list in one of them.
ASSUME ItemsAssumption ==
    /\ {None, Empty} \cap Items = {}
    /\ \A list \in SUBSET {TokenLimitToRlp(l) : l \in Limits} : list # None
    /\ \A list \in SUBSET {ScopeToRlp(s) : s \in Scopes} : list # None

\* KeyAuthorization.to_rlp, after chain_id, key_type and key_id.
Optionals(a) ==
    <<IF a.expiry = 0 THEN None ELSE Item("uint", a.expiry),
      IF a.limits = None THEN None
      ELSE Item("limits", {TokenLimitToRlp(l) : l \in a.limits}),
      IF a.allowedCalls = None THEN None
      ELSE Item("scopes", {ScopeToRlp(s) : s \in a.allowedCalls}),
      IF a.witness = None THEN None ELSE Item("bytes32", a.witness),
      IF a.isAdmin THEN Item("one", TRUE) ELSE None,
      IF a.account = None THEN None ELSE Item("address", a.account)>>

\* Mutant: absent fields are left out wherever they are.
ToRlp_Compact(a) == SelectSeq(Optionals(a), LAMBDA v : v # None)

ToRlp(a) ==
    LET optionals == Optionals(a)
        last == CHOOSE n \in 0..6 :
                    /\ n > 0 => optionals[n] # None
                    /\ \A i \in (n + 1)..6 : optionals[i] = None
    IN  [i \in 1..last |-> IF optionals[i] = None THEN Empty ELSE optionals[i]]

\* __attrs_post_init__
\* Mutant: limits are not looked at.
AdminMayCarry_Limits(a) == a.expiry = 0 /\ a.allowedCalls = None

AdminMayCarry(a) == a.expiry = 0 /\ a.limits = None /\ a.allowedCalls = None

\* A program passes authorize_key scopes and limits as the documented tuples,
\* or as CallScope and TokenLimit objects.
Forms == [scopes: {"tuple", "object"}, limits: {"tuple", "object"}]

\* _scope_rules: what _build_restrictions_tuple takes of a scope.
\* Mutant: a tuple of two is taken to have no rules.
ScopeRules_Target(form, s) == IF form = "tuple" THEN {} ELSE s.rules

ScopeRules(form, s) ==
    IF form = "tuple" THEN ScopeToRlp(s).rules ELSE s.rules

BuildRestrictionsTuple(r, form) ==
    [expiry |-> r.expiry, enforceLimits |-> r.enforceLimits, limits |-> r.limits,
     allowAnyCalls |-> r.allowAnyCalls,
     allowedCalls |-> {[target |-> s.target, rules |-> ScopeRules(form.scopes, s)] :
                          s \in r.allowedCalls}]

\* tuple(lim) needs something to iterate over, which a TokenLimit is not; and
\* the SelectorRule objects of a CallScope are handed on as they are, for
\* which the ABI encoder has no (bytes4, address[]).
Encodable(r, form) ==
    /\ form.limits = "object" => r.limits = {}
    /\ form.scopes = "object" => \A s \in r.allowedCalls : s.rules = {}

-----------------------------------------------------------------------------
(* What the node grants (external): the calls a key may make, as a set of  *)
(* <<target, selector, recipient>>, and what it may spend.                 *)

AllCalls == Targets \X Selectors \X Recipients

NodeScopeCalls(wire) ==
    {c \in AllCalls :
        /\ c[1] = wire.target
        /\ wire.rules = {} \/ \E rule \in wire.rules :
               /\ rule.selector = c[2]
               /\ rule.recipients = {} \/ c[3] \in rule.recipients}

NodeCalls(wires) == UNION {NodeScopeCalls(w) : w \in wires}

\* A limit of the wire; a period that is there is not zero.
NodeLimit(wire) ==
    [token |-> wire[1], limit |-> wire[2],
     period |-> IF Len(wire) = 2 THEN 0 ELSE wire[3]]

LimitDecodes(wire) == Len(wire) = 2 \/ (Len(wire) = 3 /\ wire[3] # 0)

\* Field i of the trailing-canonical list: an absent one is missing from the
\* end or Empty before it, and the last one is never Empty.
FieldTypes == <<"uint", "limits", "scopes", "bytes32", "one", "address">>

NodeDecodes(wire) ==
    /\ Len(wire) > 0 => wire[Len(wire)] # Empty
    /\ \A i \in DOMAIN wire : wire[i] # Empty =>
          /\ wire[i].type = FieldTypes[i]
          /\ wire[i].type = "limits" => \A l \in wire[i].value : LimitDecodes(l)

NodeField(wire, i, absent) ==
    IF i > Len(wire) \/ wire[i] = Empty THEN absent ELSE wire[i].value

NodeReads(wire) ==
    IF ~NodeDecodes(wire) THEN Refused
    ELSE LET limits == NodeField(wire, 2, None)
             scopes == NodeField(wire, 3, None)
         IN  [expiry  |-> NodeField(wire, 1, 0),
              spend   |-> IF limits = None THEN None ELSE {NodeLimit(l) : l \in limits},
              calls   |-> IF scopes = None THEN AllCalls ELSE NodeCalls(scopes),
              witness |-> NodeField(wire, 4, None),
              isAdmin |-> NodeField(wire, 5, FALSE),
              account |-> NodeField(wire, 6, None)]

NodeReadsCall(tuple) ==
    [expiry |-> tuple.expiry,
     spend  |-> IF tuple.enforceLimits THEN tuple.limits ELSE None,
     calls  |-> IF tuple.allowAnyCalls THEN AllCalls
                ELSE NodeCalls(tuple.allowedCalls)]

-----------------------------------------------------------------------------
(* The operations.                                                         *)

NoRestrictions ==
    [expiry |-> 0, enforceLimits |-> FALSE, limits |-> {},
     allowAnyCalls |-> FALSE, allowedCalls |-> {}]

Init == restr = NoRestrictions /\ sent = None

Becomes(r) == restr' = r /\ sent' = None

\* KeyRestrictions.create: any keywords.
Create ==
    \E r \in KeyRestrictions :
        Cardinality(r.allowedCalls) <= MaxScopes /\ Becomes(r)

WithLimits ==
    \E limits \in SUBSET Limits :
        Becomes([restr EXCEPT !.enforceLimits = TRUE, !.limits = limits])

AddCall ==
    \E s \in Scopes :
        /\ Cardinality(restr.allowedCalls \cup {s}) <= MaxScopes
        /\ Becomes([restr EXCEPT !.allowAnyCalls = FALSE,
                                 !.allowedCalls = @ \cup {s}])

\* as_admin.
\* Mutant: no expiry is None, as KeyAuthorization has it on the wire.
Admin_NoneExpiry(r) ==
    [r EXCEPT !.expiry = None, !.enforceLimits = FALSE, !.limits = {},
              !.allowAnyCalls = TRUE, !.allowedCalls = {}]

Admin(r) ==
    [r EXCEPT !.expiry = 0, !.enforceLimits = FALSE, !.limits = {},
              !.allowAnyCalls = TRUE, !.allowedCalls = {}]

AsAdmin == Becomes(Admin(restr))

\* The program fills in a KeyAuthorization; the constructor refuses an admin
\* that carries restrictions.
Authorization(r, witness, isAdmin, account) ==
    [expiry |-> r.expiry,
     limits |-> IF r.enforceLimits THEN r.limits ELSE None,
     allowedCalls |-> IF r.allowAnyCalls THEN None ELSE r.allowedCalls,
     witness |-> witness, isAdmin |-> isAdmin, account |-> account]

SendAuthorization ==
    \E witness \in {None, "witness"}, isAdmin \in BOOLEAN, account \in {None, "root"} :
        LET a == Authorization(restr, witness, isAdmin, account)
        IN  /\ isAdmin => AdminMayCarry(a)
            /\ sent' = [kind |-> "authorization", of |-> a, wire |-> ToRlp(a)]
            /\ UNCHANGED restr

\* authorize_key and KeyRestrictions.create agree on the default of
\* enforce_limits and not on that of allow_any_calls.
Omitted(r, omit, anyByDefault) ==
    [r EXCEPT !.enforceLimits = "enforce_limits" \notin omit /\ @,
              !.allowAnyCalls = IF "allow_any_calls" \in omit THEN anyByDefault ELSE @]

SendAuthorizeKey ==
    \E omit \in SUBSET {"enforce_limits", "allow_any_calls"}, form \in Forms :
        LET given == Omitted(restr, omit, TRUE)
        IN  /\ Encodable(given, form)
            /\ sent' = [kind |-> "authorizeKey", omit |-> omit, form |-> form,
                        tuple |-> BuildRestrictionsTuple(given, form)]
            /\ UNCHANGED restr

\* TypeError of tuple(lim), or the encoder's error: no Call is built.
AuthorizeKeyRaises ==
    \E omit \in SUBSET {"enforce_limits", "allow_any_calls"}, form \in Forms :
        /\ ~Encodable(Omitted(restr, omit, TRUE), form)
        /\ sent' = [kind |-> "raised", form |-> form]
        /\ UNCHANGED restr

Next ==
    \/ Create
    \/ WithLimits
    \/ AddCall
    \/ AsAdmin
    \/ SendAuthorization
    \/ SendAuthorizeKey
    \/ AuthorizeKeyRaises

Spec == Init /\ [][Next]_vars

-----------------------------------------------------------------------------
(* Properties.                                                             *)

\* What the docstrings say of a CallScope: any function with the zero
\* selector, the recipients of each rule when there are rules, otherwise one
\* function.
ScopeCalls(s) ==
    {c \in AllCalls :
        /\ c[1] = s.target
        /\ IF s.rules # {}
           THEN \E rule \in s.rules :
                   rule.selector = c[2]
                   /\ (rule.recipients = {} \/ c[3] \in rule.recipients)
           ELSE s.selector \in {Zero, c[2]}}

\* What a KeyRestrictions means.
GrantOf(r) ==
    [expiry |-> r.expiry,
     spend  |-> IF r.enforceLimits THEN r.limits ELSE None,
     calls  |-> IF r.allowAnyCalls THEN AllCalls
                ELSE UNION {ScopeCalls(s) : s \in r.allowedCalls}]

TypeOK ==
    /\ restr \in KeyRestrictions
    /\ Cardinality(restr.allowedCalls) <= MaxScopes
    /\ sent # None => sent.kind \in {"authorization", "authorizeKey", "raised"}

\* The node never refuses the list KeyAuthorization.to_rlp makes, and reads
\* the permissions it was filled in from: an absent list stays apart from an
\* empty one and from every later field, and no scope that names a function
\* is read as any function.
NodeReadsAuthorization ==
    (sent # None /\ sent.kind = "authorization") =>
        LET grant == GrantOf(restr)
        IN  NodeReads(sent.wire) =
              [expiry |-> grant.expiry, spend |-> grant.spend, calls |-> grant.calls,
               witness |-> sent.of.witness, isAdmin |-> sent.of.isAdmin,
               account |-> sent.of.account]

\* An admin key has nothing to restrict it, and as_admin makes any
\* KeyRestrictions one an admin key can be authorized from.
AdminIsUnrestricted ==
    /\ (sent # None /\ sent.kind = "authorization" /\ sent.of.isAdmin) =>
           GrantOf(restr) = [expiry |-> 0, spend |-> None, calls |-> AllCalls]
    /\ AdminMayCarry(Authorization(Admin(restr), None, TRUE, None))

\* Where the program gives a plain CallScope to authorize_key, its selector
\* is lost.
LosesSelector(s) == s.selector # Zero /\ s.rules = {}

\* Any argument in the documented tuples goes through; and an authorize_key
\* that goes through grants what KeyRestrictions.create means for the same
\* keywords, except that it allows any call when allow_any_calls is left out
\* and any function of a plain CallScope's target: it never grants less.
CallsWiden ==
    /\ sent.kind = "raised" => "object" \in {sent.form.scopes, sent.form.limits}
    /\ sent.kind = "authorizeKey" =>
          LET node  == NodeReadsCall(sent.tuple)
              asked == Omitted(restr, sent.omit, FALSE)
              wider == \/ "allow_any_calls" \in sent.omit
                       \/ /\ sent.form.scopes = "object"
                          /\ \E s \in asked.allowedCalls : LosesSelector(s)
          IN  /\ GrantOf(asked).calls \subseteq node.calls
              /\ ~wider => node = GrantOf(asked)
              /\ [node EXCEPT !.calls = {}] = [GrantOf(asked) EXCEPT !.calls = {}]

\* A call that goes through with CallScope objects grants every function of
\* each target, if not every call.
ObjectsOpenTargets ==
    (sent.kind = "authorizeKey" /\ sent.form.scopes = "object") =>
        NodeReadsCall(sent.tuple).calls \in
            {AllCalls, {c \in AllCalls : \E s \in restr.allowedCalls : c[1] = s.target}}

\* authorize_key grants what KeyRestrictions.create means for the same keywords
\* or more, in two named cases, and takes all that is in the documented tuples;
\* and no restriction to functions or recipients survives in CallScope objects:
\* one that carries rules raises, one that does not opens its target.
BindingsAgree == sent # None => CallsWiden /\ ObjectsOpenTargets
=============================================================================

------------------------- MODULE KeyPermissionsProofs -------------------------
(***************************************************************************)
(* Proofs about KeyPermissions, for any targets, selectors, recipients,    *)
(* scopes, limits and expiries.  The argument: what was sent is the        *)
(* encoding of the restrictions the program still holds (Faithful), the    *)
(* decoding of a trailing-canonical list gives back each of its six fields *)
(* (FieldRead), and the encoding of a scope or a limit is read as the scope*)
(* or the limit (ScopeRead, LimitRead).                                    *)
(***************************************************************************)
EXTENDS KeyPermissions, FiniteSetTheorems, TLAPS

\* What was sent says what the restrictions in hand say: every operation that
\* changes them starts over.
SentAuthorization ==
    \E witness \in {None, "witness"}, isAdmin \in BOOLEAN, account \in {None, "root"} :
        LET a == Authorization(restr, witness, isAdmin, account)
        IN  /\ isAdmin => AdminMayCarry(a)
            /\ sent = [kind |-> "authorization", of |-> a, wire |-> ToRlp(a)]

SentAuthorizeKey ==
    \E omit \in SUBSET {"enforce_limits", "allow_any_calls"}, form \in Forms :
        LET given == Omitted(restr, omit, TRUE)
        IN  /\ Encodable(given, form)
            /\ sent = [kind |-> "authorizeKey", omit |-> omit, form |-> form,
                       tuple |-> BuildRestrictionsTuple(given, form)]

Raised ==
    \E omit \in SUBSET {"enforce_limits", "allow_any_calls"}, form \in Forms :
        /\ ~Encodable(Omitted(restr, omit, TRUE), form)
        /\ sent = [kind |-> "raised", form |-> form]

Faithful == sent = None \/ SentAuthorization \/ SentAuthorizeKey \/ Raised

IInv == TypeOK /\ Faithful

-----------------------------------------------------------------------------
(* The operations *)

LEMMA AdminIs ==
    ASSUME NEW r \in KeyRestrictions
    PROVE  /\ Admin(r) \in KeyRestrictions
           /\ Admin(r).expiry = 0 /\ ~Admin(r).enforceLimits /\ Admin(r).limits = {}
           /\ Admin(r).allowAnyCalls /\ Admin(r).allowedCalls = {}
  <1>1. Admin(r) \in KeyRestrictions
    BY DEF Admin, KeyRestrictions
  <1>2. Admin(r).expiry = 0
    BY DEF Admin, KeyRestrictions
  <1>3. Admin(r).enforceLimits = FALSE
    BY DEF Admin, KeyRestrictions
  <1>4. Admin(r).limits = {}
    BY DEF Admin, KeyRestrictions
  <1>5. Admin(r).allowAnyCalls = TRUE
    BY DEF Admin, KeyRestrictions
  <1>6. Admin(r).allowedCalls = {}
    BY DEF Admin, KeyRestrictions
  <1>7. QED
    BY <1>1, <1>2, <1>3, <1>4, <1>5, <1>6

LEMMA InitIInv == Init => IInv
  <1> SUFFICES ASSUME Init
               PROVE  IInv
    OBVIOUS
  <1>1. restr \in KeyRestrictions /\ restr.allowedCalls = {} /\ sent = None
    BY DEF Init, NoRestrictions, KeyRestrictions
  <1>2. Cardinality(restr.allowedCalls) <= MaxScopes
    BY <1>1, FS_EmptySet, ExpiryAssumption
  <1>3. QED
    BY <1>1, <1>2 DEF IInv, TypeOK, Faithful

LEMMA NextIInv == IInv /\ [Next]_vars => IInv'
  <1> SUFFICES ASSUME IInv, [Next]_vars
               PROVE  IInv'
    OBVIOUS
  <1>1. ASSUME NEW r \in KeyRestrictions, Cardinality(r.allowedCalls) <= MaxScopes,
               Becomes(r)
        PROVE  IInv'
    BY <1>1 DEF Becomes, IInv, TypeOK, Faithful
  <1>2. restr \in KeyRestrictions /\ Cardinality(restr.allowedCalls) <= MaxScopes
    BY DEF IInv, TypeOK
  <1>3. CASE Create
    BY <1>1, <1>3 DEF Create
  <1>4. CASE WithLimits
    <2>1. PICK limits \in SUBSET Limits :
            Becomes([restr EXCEPT !.enforceLimits = TRUE, !.limits = limits])
      BY <1>4 DEF WithLimits
    <2> DEFINE r == [restr EXCEPT !.enforceLimits = TRUE, !.limits = limits]
    <2>2. r \in KeyRestrictions /\ r.allowedCalls = restr.allowedCalls
      BY <1>2 DEF KeyRestrictions
    <2>3. QED
      BY <1>1, <1>2, <2>1, <2>2
  <1>5. CASE AddCall
    <2>1. PICK s \in Scopes :
            /\ Cardinality(restr.allowedCalls \cup {s}) <= MaxScopes
            /\ Becomes([restr EXCEPT !.allowAnyCalls = FALSE,
                                     !.allowedCalls = @ \cup {s}])
      BY <1>5 DEF AddCall
    <2> DEFINE r == [restr EXCEPT !.allowAnyCalls = FALSE,
                                  !.allowedCalls = @ \cup {s}]
    <2>2. r \in KeyRestrictions /\ r.allowedCalls = restr.allowedCalls \cup {s}
      BY <1>2 DEF KeyRestrictions
    <2>3. QED
      BY <1>1, <2>1, <2>2
  <1>6. CASE AsAdmin
    <2>1. /\ Admin(restr) \in KeyRestrictions
          /\ Admin(restr).allowedCalls = {}
      BY <1>2, AdminIs
    <2>2. Cardinality(Admin(restr).allowedCalls) <= MaxScopes
      BY <2>1, FS_EmptySet, ExpiryAssumption
    <2>3. QED
      BY <1>1, <1>6, <2>1, <2>2 DEF AsAdmin
  <1>7. CASE SendAuthorization
    <2>1. restr' = restr /\ SentAuthorization'
      BY <1>7 DEF SendAuthorization, SentAuthorization
    <2>2. sent'.kind = "authorization"
      BY <1>7 DEF SendAuthorization
    <2>3. QED
      BY <2>1, <2>2 DEF IInv, TypeOK, Faithful
  <1>8. CASE SendAuthorizeKey
    <2>1. restr' = restr /\ SentAuthorizeKey'
      BY <1>8 DEF SendAuthorizeKey, SentAuthorizeKey
    <2>2. sent'.kind = "authorizeKey"
      BY <1>8 DEF SendAuthorizeKey
    <2>3. QED
      BY <2>1, <2>2 DEF IInv, TypeOK, Faithful
  <1>9. CASE AuthorizeKeyRaises
    <2>1. restr' = restr /\ Raised'
      BY <1>9 DEF AuthorizeKeyRaises, Raised
    <2>2. sent'.kind = "raised"
      BY <1>9 DEF AuthorizeKeyRaises
    <2>3. QED
      BY <2>1, <2>2 DEF IInv, TypeOK, Faithful
  <1>10. CASE UNCHANGED vars
    BY <1>10 DEF vars, IInv, TypeOK, Faithful, SentAuthorization, SentAuthorizeKey,
       Raised
  <1>11. QED
    BY <1>3, <1>4, <1>5, <1>6, <1>7, <1>8, <1>9, <1>10 DEF Next

LEMMA SpecIInv == Spec => []IInv
  BY InitIInv, NextIInv, PTL DEF Spec

\* Restrictions are always well formed and within the bound.
THEOREM TypeCorrect == Spec => []TypeOK
  BY SpecIInv, PTL DEF IInv

-----------------------------------------------------------------------------
(* Scopes and limits *)

\* The node reads an encoded scope as the calls the scope stands for: neither
\* any function for a named one nor one function for a rule list.
LEMMA ScopeRead ==
    ASSUME NEW s \in Scopes
    PROVE  NodeScopeCalls(ScopeToRlp(s)) = ScopeCalls(s)
  <1>1. s \in [target: Targets, selector: Selectors \cup {Zero}, rules: SUBSET Rules]
    BY ScopesAssumption
  <1> DEFINE wire == ScopeToRlp(s)
  <1>2. wire.target = s.target
    BY DEF ScopeToRlp
  <1>3. CASE s.rules # {}
    <2>1. wire.rules = s.rules
      BY <1>3 DEF ScopeToRlp
    <2> HIDE DEF wire
    <2>2. QED
      BY <1>2, <1>3, <2>1 DEF NodeScopeCalls, ScopeCalls, wire
  <1>4. CASE s.rules = {} /\ s.selector = Zero
    <2>1. wire.rules = {}
      BY <1>4 DEF ScopeToRlp
    <2> HIDE DEF wire
    <2>2. QED
      BY <1>2, <1>4, <2>1 DEF NodeScopeCalls, ScopeCalls, wire
  <1>5. CASE s.rules = {} /\ s.selector # Zero
    <2> DEFINE only == [selector |-> s.selector, recipients |-> {}]
    <2>1. /\ wire.rules = {only}
          /\ only.selector = s.selector /\ only.recipients = {}
      BY <1>5 DEF ScopeToRlp
    <2> HIDE DEF wire, only
    <2>2. \A c \in AllCalls :
            (wire.rules = {} \/ \E rule \in wire.rules :
                                   /\ rule.selector = c[2]
                                   /\ rule.recipients = {} \/ c[3] \in rule.recipients)
              <=> s.selector \in {Zero, c[2]}
      BY <1>5, <2>1
    <2>3. QED
      BY <1>2, <1>5, <2>2 DEF NodeScopeCalls, ScopeCalls, wire
  <1>6. QED
    BY <1>3, <1>4, <1>5

LEMMA LimitRead ==
    ASSUME NEW l \in Limits
    PROVE  /\ LimitDecodes(TokenLimitToRlp(l))
           /\ NodeLimit(TokenLimitToRlp(l)) = l
  <1> DEFINE wire == TokenLimitToRlp(l)
  <1>1. CASE l.period = 0
    <2>1. wire = <<l.token, l.limit>>
      BY <1>1 DEF TokenLimitToRlp
    <2>2. Len(wire) = 2 /\ wire[1] = l.token /\ wire[2] = l.limit
      BY <2>1
    <2> HIDE DEF wire
    <2>3. QED
      BY <1>1, <2>2, LimitsAssumption DEF LimitDecodes, NodeLimit, wire
  <1>2. CASE l.period # 0
    <2>1. wire = <<l.token, l.limit, l.period>>
      BY <1>2 DEF TokenLimitToRlp
    <2>2. /\ Len(wire) = 3 /\ wire[1] = l.token /\ wire[2] = l.limit
          /\ wire[3] = l.period
      BY <2>1
    <2> HIDE DEF wire
    <2>3. QED
      BY <1>2, <2>2, LimitsAssumption DEF LimitDecodes, NodeLimit, wire
  <1>3. QED
    BY <1>1, <1>2

-----------------------------------------------------------------------------
(* Admin keys *)

LEMMA KindOfAuthorization ==
    ASSUME SentAuthorization
    PROVE  sent.kind = "authorization"
  <1>1. PICK witness, isAdmin, account :
          sent = [kind |-> "authorization",
                  of   |-> Authorization(restr, witness, isAdmin, account),
                  wire |-> ToRlp(Authorization(restr, witness, isAdmin, account))]
    BY Zenon DEF SentAuthorization
  <1>2. QED
    BY <1>1

LEMMA KindOfCall ==
    ASSUME SentAuthorizeKey
    PROVE  sent.kind = "authorizeKey"
  <1>1. PICK omit, form :
          sent = [kind |-> "authorizeKey", omit |-> omit, form |-> form,
                  tuple |-> BuildRestrictionsTuple(Omitted(restr, omit, TRUE), form)]
    BY Zenon DEF SentAuthorizeKey
  <1>2. QED
    BY <1>1

LEMMA KindOfRaised ==
    ASSUME Raised
    PROVE  sent.kind = "raised"
  <1>1. PICK form : sent = [kind |-> "raised", form |-> form]
    BY Zenon DEF Raised
  <1>2. QED
    BY <1>1

LEMMA FaithfulGivesAdmin == IInv => AdminIsUnrestricted
  <1> SUFFICES ASSUME IInv
               PROVE  AdminIsUnrestricted
    OBVIOUS
  <1>1. restr \in KeyRestrictions
    BY DEF IInv, TypeOK
  <1>2. \A r \in KeyRestrictions : \A w, adm, acc :
          AdminMayCarry(Authorization(r, w, adm, acc)) <=>
            r.expiry = 0 /\ ~r.enforceLimits /\ r.allowAnyCalls
    BY ValuesAssumption DEF AdminMayCarry, Authorization, KeyRestrictions
  <1>3. ASSUME sent # None, sent.kind = "authorization", sent.of.isAdmin
        PROVE  GrantOf(restr) = [expiry |-> 0, spend |-> None, calls |-> AllCalls]
    <2>1. SentAuthorization
      BY <1>3, KindOfCall, KindOfRaised DEF IInv, Faithful
    <2>2. PICK witness \in {None, "witness"}, isAdmin \in BOOLEAN,
               account \in {None, "root"} :
            LET a == Authorization(restr, witness, isAdmin, account)
            IN  /\ isAdmin => AdminMayCarry(a)
                /\ sent = [kind |-> "authorization", of |-> a, wire |-> ToRlp(a)]
      BY <2>1 DEF SentAuthorization
    <2>3. isAdmin
      <3>1. sent.of = Authorization(restr, witness, isAdmin, account)
        BY <2>2
      <3>2. QED
        BY <1>3, <3>1 DEF Authorization
    <2>4. restr.expiry = 0 /\ ~restr.enforceLimits /\ restr.allowAnyCalls
      BY <1>1, <1>2, <2>2, <2>3
    <2>5. QED
      BY <2>4 DEF GrantOf
  <1>4. AdminMayCarry(Authorization(Admin(restr), None, TRUE, None))
    BY <1>1, <1>2, AdminIs
  <1>5. QED
    BY <1>3, <1>4 DEF AdminIsUnrestricted

\* A key authorized as admin is one that nothing restricts, and as_admin makes
\* any restrictions fit for one.
THEOREM AdminKeys == Spec => []AdminIsUnrestricted
  BY SpecIInv, FaithfulGivesAdmin, PTL

-----------------------------------------------------------------------------
(* authorize_key *)

\* The keywords with the default of authorize_key, and with that of create.
LEMMA GivenIs ==
    ASSUME NEW r \in KeyRestrictions, NEW omit
    PROVE  LET given == Omitted(r, omit, TRUE)
           IN  /\ given.expiry = r.expiry /\ given.limits = r.limits
               /\ given.allowedCalls = r.allowedCalls
               /\ given.enforceLimits <=> "enforce_limits" \notin omit /\ r.enforceLimits
               /\ given.allowAnyCalls <=> "allow_any_calls" \in omit \/ r.allowAnyCalls
  BY DEF Omitted, KeyRestrictions

LEMMA AskedIs ==
    ASSUME NEW r \in KeyRestrictions, NEW omit
    PROVE  LET asked == Omitted(r, omit, FALSE)
           IN  /\ asked \in KeyRestrictions
               /\ asked.expiry = r.expiry /\ asked.limits = r.limits
               /\ asked.allowedCalls = r.allowedCalls
               /\ asked.enforceLimits <=> "enforce_limits" \notin omit /\ r.enforceLimits
               /\ asked.allowAnyCalls <=> "allow_any_calls" \notin omit /\ r.allowAnyCalls
  BY DEF Omitted, KeyRestrictions

\* The call that went through, and what could be encoded for it.
LEMMA CallSent ==
    ASSUME IInv, sent # None, sent.kind = "authorizeKey"
    PROVE  \E omit \in SUBSET {"enforce_limits", "allow_any_calls"}, form \in Forms :
             /\ Encodable(Omitted(restr, omit, TRUE), form)
             /\ sent.omit = omit /\ sent.form = form
             /\ sent.tuple = BuildRestrictionsTuple(Omitted(restr, omit, TRUE), form)
  <1>1. SentAuthorizeKey
    BY KindOfAuthorization, KindOfRaised DEF IInv, Faithful
  <1>2. PICK omit \in SUBSET {"enforce_limits", "allow_any_calls"}, form \in Forms :
          /\ Encodable(Omitted(restr, omit, TRUE), form)
          /\ sent = [kind |-> "authorizeKey", omit |-> omit, form |-> form,
                     tuple |-> BuildRestrictionsTuple(Omitted(restr, omit, TRUE), form)]
    BY <1>1 DEF SentAuthorizeKey
  <1>3. QED
    BY <1>2

\* What cannot be encoded is not the documented tuples.
LEMMA RaisedForObjects ==
    ASSUME IInv, sent # None, sent.kind = "raised"
    PROVE  "object" \in {sent.form.scopes, sent.form.limits}
  <1>1. Raised
    BY KindOfAuthorization, KindOfCall DEF IInv, Faithful
  <1>2. PICK omit \in SUBSET {"enforce_limits", "allow_any_calls"}, form \in Forms :
          /\ ~Encodable(Omitted(restr, omit, TRUE), form)
          /\ sent = [kind |-> "raised", form |-> form]
    BY <1>1 DEF Raised
  <1>3. form.limits \in {"tuple", "object"} /\ form.scopes \in {"tuple", "object"}
    BY DEF Forms
  <1>4. form.limits = "object" \/ form.scopes = "object"
    BY <1>2 DEF Encodable
  <1>5. sent.form = form
    BY <1>2
  <1>6. QED
    BY <1>4, <1>5

\* The rules the binding takes of a scope, as the node reads them: never less
\* than the scope, and the scope itself unless its selector is lost.
LEMMA BindingScope ==
    ASSUME NEW s \in Scopes, NEW form \in {"tuple", "object"}
    PROVE  LET wire == [target |-> s.target, rules |-> ScopeRules(form, s)]
           IN  /\ ScopeCalls(s) \subseteq NodeScopeCalls(wire)
               /\ form = "tuple" \/ ~LosesSelector(s)
                    => NodeScopeCalls(wire) = ScopeCalls(s)
  <1> DEFINE wire == [target |-> s.target, rules |-> ScopeRules(form, s)]
  <1>1. CASE form = "tuple"
    <2>1. wire = ScopeToRlp(s)
      BY <1>1 DEF ScopeRules, ScopeToRlp
    <2>2. QED
      BY <2>1, ScopeRead
  <1>2. CASE form = "object"
    <2>1. wire.target = s.target /\ wire.rules = s.rules
      BY <1>2 DEF ScopeRules
    <2> HIDE DEF wire
    <2>2. CASE s.rules # {}
      BY <2>1, <2>2 DEF NodeScopeCalls, ScopeCalls, wire
    <2>3. CASE s.rules = {}
      BY <1>2, <2>1, <2>3 DEF NodeScopeCalls, ScopeCalls, LosesSelector, wire
    <2>4. QED
      BY <2>2, <2>3
  <1>3. QED
    BY <1>1, <1>2

LEMMA FaithfulGivesBindings == IInv /\ sent # None => CallsWiden
  <1> SUFFICES ASSUME IInv, sent # None, sent.kind = "authorizeKey"
               PROVE  LET node  == NodeReadsCall(sent.tuple)
                          asked == Omitted(restr, sent.omit, FALSE)
                          wider == \/ "allow_any_calls" \in sent.omit
                                   \/ /\ sent.form.scopes = "object"
                                      /\ \E s \in asked.allowedCalls : LosesSelector(s)
                      IN  /\ GrantOf(asked).calls \subseteq node.calls
                          /\ ~wider => node = GrantOf(asked)
                          /\ [node EXCEPT !.calls = {}]
                               = [GrantOf(asked) EXCEPT !.calls = {}]
    BY RaisedForObjects DEF CallsWiden
  <1>1. PICK omit \in SUBSET {"enforce_limits", "allow_any_calls"}, f \in Forms :
          /\ sent.omit = omit /\ sent.form = f
          /\ sent.tuple = BuildRestrictionsTuple(Omitted(restr, omit, TRUE), f)
    BY CallSent
  <1> DEFINE form == f.scopes
  <1>2. form \in {"tuple", "object"}
    BY DEF Forms
  <1> DEFINE given == Omitted(restr, omit, TRUE)
             asked == Omitted(restr, omit, FALSE)
             tuple == BuildRestrictionsTuple(given, f)
             node == NodeReadsCall(tuple)
             grant == GrantOf(asked)
             lost == \E s \in asked.allowedCalls : LosesSelector(s)
  <1>3. sent.omit = omit /\ sent.form.scopes = form /\ sent.tuple = tuple
    BY <1>1
  <1>4. restr \in KeyRestrictions
    BY DEF IInv, TypeOK
  <1>5. /\ given.expiry = asked.expiry /\ given.limits = asked.limits
        /\ given.allowedCalls = asked.allowedCalls
        /\ given.enforceLimits <=> asked.enforceLimits
        /\ asked.allowAnyCalls => given.allowAnyCalls
        /\ "allow_any_calls" \notin omit => (given.allowAnyCalls <=> asked.allowAnyCalls)
        /\ asked.allowedCalls \subseteq Scopes
    <2>1. asked \in KeyRestrictions
      BY <1>4, AskedIs
    <2>2. asked.allowedCalls \subseteq Scopes
      BY <2>1 DEF KeyRestrictions
    <2>3. /\ given.expiry = restr.expiry /\ given.limits = restr.limits
          /\ given.allowedCalls = restr.allowedCalls
          /\ given.enforceLimits <=> "enforce_limits" \notin omit /\ restr.enforceLimits
          /\ given.allowAnyCalls <=> "allow_any_calls" \in omit \/ restr.allowAnyCalls
      BY <1>4, GivenIs
    <2>4. /\ asked.expiry = restr.expiry /\ asked.limits = restr.limits
          /\ asked.allowedCalls = restr.allowedCalls
          /\ asked.enforceLimits <=> "enforce_limits" \notin omit /\ restr.enforceLimits
          /\ asked.allowAnyCalls <=> "allow_any_calls" \notin omit /\ restr.allowAnyCalls
      BY <1>4, AskedIs
    <2> HIDE DEF given, asked
    <2>5. QED
      BY <2>2, <2>3, <2>4
  <1> DEFINE wires == {[target |-> s.target, rules |-> ScopeRules(form, s)] :
                         s \in asked.allowedCalls}
             spend == IF asked.enforceLimits THEN asked.limits ELSE None
  <1>6. node = [expiry |-> asked.expiry, spend |-> spend,
                calls |-> IF given.allowAnyCalls THEN AllCalls ELSE NodeCalls(wires)]
    BY <1>5 DEF NodeReadsCall, BuildRestrictionsTuple
  <1>7. grant = [expiry |-> asked.expiry, spend |-> spend,
                 calls |-> IF asked.allowAnyCalls THEN AllCalls
                           ELSE UNION {ScopeCalls(s) : s \in asked.allowedCalls}]
    BY DEF GrantOf
  <1>8. UNION {ScopeCalls(s) : s \in asked.allowedCalls} \subseteq NodeCalls(wires)
    <2> SUFFICES ASSUME NEW s \in asked.allowedCalls, NEW call \in ScopeCalls(s)
                 PROVE  call \in NodeCalls(wires)
      OBVIOUS
    <2> DEFINE wire == [target |-> s.target, rules |-> ScopeRules(form, s)]
    <2>1. call \in NodeScopeCalls(wire)
      BY <1>2, <1>5, BindingScope
    <2>2. wire \in wires
      OBVIOUS
    <2> HIDE DEF wire, wires
    <2>3. QED
      BY <2>1, <2>2 DEF NodeCalls
  <1>9. (form = "tuple" \/ ~lost) =>
          UNION {ScopeCalls(s) : s \in asked.allowedCalls} = NodeCalls(wires)
    <2> SUFFICES ASSUME form = "tuple" \/ ~lost
                 PROVE  NodeCalls(wires)
                          \subseteq UNION {ScopeCalls(s) : s \in asked.allowedCalls}
      BY <1>8
    <2>1. \A s \in asked.allowedCalls :
            NodeScopeCalls([target |-> s.target, rules |-> ScopeRules(form, s)])
              = ScopeCalls(s)
      BY <1>2, <1>5, BindingScope
    <2>2. QED
      BY <2>1 DEF NodeCalls
  <1>10. UNION {ScopeCalls(s) : s \in asked.allowedCalls} \subseteq AllCalls
    BY DEF ScopeCalls
  <1> HIDE DEF form, given, asked, tuple, node, grant, wires, spend, lost
  <1>11. grant.calls \subseteq node.calls
    BY <1>5, <1>6, <1>7, <1>8, <1>10
  <1>12. [node EXCEPT !.calls = {}] = [grant EXCEPT !.calls = {}]
    BY <1>6, <1>7
  <1>13. ("allow_any_calls" \notin omit /\ (form = "tuple" \/ ~lost)) => node = grant
    BY <1>2, <1>5, <1>6, <1>7, <1>9
  <1>14. QED
    BY <1>2, <1>3, <1>11, <1>12, <1>13 DEF node, grant, asked, lost, given, tuple

LEMMA EncodableOpens == IInv /\ sent # None => ObjectsOpenTargets
  <1> SUFFICES ASSUME IInv, sent # None, sent.kind = "authorizeKey",
                      sent.form.scopes = "object",
                      NodeReadsCall(sent.tuple).calls # AllCalls
               PROVE  NodeReadsCall(sent.tuple).calls =
                        {c \in AllCalls : \E s \in restr.allowedCalls : c[1] = s.target}
    BY DEF ObjectsOpenTargets
  <1>1. PICK omit \in SUBSET {"enforce_limits", "allow_any_calls"}, f \in Forms :
          /\ Encodable(Omitted(restr, omit, TRUE), f)
          /\ sent.form = f
          /\ sent.tuple = BuildRestrictionsTuple(Omitted(restr, omit, TRUE), f)
    BY CallSent
  <1> DEFINE given == Omitted(restr, omit, TRUE)
             wires == {[target |-> s.target, rules |-> ScopeRules("object", s)] :
                         s \in given.allowedCalls}
  <1>2. given.allowedCalls = restr.allowedCalls
    BY GivenIs DEF IInv, TypeOK
  <1>3. \A s \in given.allowedCalls : s.rules = {}
    BY <1>1 DEF Encodable
  <1>4. NodeReadsCall(sent.tuple).calls =
          IF given.allowAnyCalls THEN AllCalls ELSE NodeCalls(wires)
    <2>1. BuildRestrictionsTuple(given, f) =
            [expiry |-> given.expiry, enforceLimits |-> given.enforceLimits,
             limits |-> given.limits, allowAnyCalls |-> given.allowAnyCalls,
             allowedCalls |-> wires]
      BY <1>1 DEF BuildRestrictionsTuple
    <2>2. sent.tuple = BuildRestrictionsTuple(given, f)
      BY <1>1
    <2> HIDE DEF given, wires
    <2>3. sent.tuple.allowAnyCalls = given.allowAnyCalls /\ sent.tuple.allowedCalls = wires
      BY <2>1, <2>2
    <2>4. QED
      BY <2>3 DEF NodeReadsCall
  <1> HIDE DEF given
  <1>5. \A s \in given.allowedCalls :
          NodeScopeCalls([target |-> s.target, rules |-> ScopeRules("object", s)])
            = {c \in AllCalls : c[1] = s.target}
    BY <1>3 DEF NodeScopeCalls, ScopeRules
  <1>6. NodeCalls(wires) =
          UNION {{c \in AllCalls : c[1] = s.target} : s \in given.allowedCalls}
    <2>1. {NodeScopeCalls(w) : w \in wires} =
            {NodeScopeCalls([target |-> s.target, rules |-> ScopeRules("object", s)]) :
               s \in given.allowedCalls}
      OBVIOUS
    <2> HIDE DEF wires
    <2>2. {NodeScopeCalls([target |-> s.target, rules |-> ScopeRules("object", s)]) :
             s \in given.allowedCalls}
            = {{c \in AllCalls : c[1] = s.target} : s \in given.allowedCalls}
      BY <1>5
    <2>3. QED
      BY <2>1, <2>2 DEF NodeCalls
  <1>7. QED
    BY <1>2, <1>4, <1>6

\* The documented tuples go through; an authorize_key that goes through never
\* grants less than create means for the same keywords, and the same unless a
\* default or a lost selector widens it; and with CallScope objects it restricts
\* no function.
THEOREM BindingsWiden == Spec => []BindingsAgree
  <1>1. IInv => BindingsAgree
    BY FaithfulGivesBindings, EncodableOpens DEF BindingsAgree
  <1>2. QED
    BY SpecIInv, <1>1, PTL

-----------------------------------------------------------------------------
(* The trailing-canonical list *)

Authorizations ==
    [expiry: Expiries \cup {0}, limits: (SUBSET Limits) \cup {None},
     allowedCalls: (SUBSET Scopes) \cup {None}, witness: {None, "witness"},
     isAdmin: BOOLEAN, account: {None, "root"}]

LEMMA AuthorizationType ==
    ASSUME NEW r \in KeyRestrictions, NEW witness \in {None, "witness"},
           NEW isAdmin \in BOOLEAN, NEW account \in {None, "root"}
    PROVE  Authorization(r, witness, isAdmin, account) \in Authorizations
  BY DEF Authorization, Authorizations, KeyRestrictions

\* Each optional field is absent or an item of its own type.
LEMMA OptionalFields ==
    ASSUME NEW a \in Authorizations
    PROVE  LET o == Optionals(a)
           IN  /\ o[1] = IF a.expiry = 0 THEN None ELSE Item("uint", a.expiry)
               /\ o[2] = IF a.limits = None THEN None
                         ELSE Item("limits", {TokenLimitToRlp(l) : l \in a.limits})
               /\ o[3] = IF a.allowedCalls = None THEN None
                         ELSE Item("scopes", {ScopeToRlp(s) : s \in a.allowedCalls})
               /\ o[4] = IF a.witness = None THEN None ELSE Item("bytes32", a.witness)
               /\ o[5] = IF a.isAdmin THEN Item("one", TRUE) ELSE None
               /\ o[6] = IF a.account = None THEN None ELSE Item("address", a.account)
  BY DEF Optionals

LEMMA OptionalTypes ==
    ASSUME NEW a \in Authorizations, NEW i \in 1..6, Optionals(a)[i] # None
    PROVE  /\ Optionals(a)[i] \in Items
           /\ Optionals(a)[i].type = FieldTypes[i]
           /\ i = 2 <=> FieldTypes[i] = "limits"
  <1> DEFINE o == Optionals(a)
  <1>1. /\ a.expiry # 0 => a.expiry \in Expiries
        /\ a.limits # None => a.limits \in SUBSET Limits
        /\ a.allowedCalls # None => a.allowedCalls \in SUBSET Scopes
        /\ a.witness \in {None, "witness"} /\ a.account \in {None, "root"}
    BY DEF Authorizations
  <1>2. /\ FieldTypes[1] = "uint" /\ FieldTypes[2] = "limits"
        /\ FieldTypes[3] = "scopes" /\ FieldTypes[4] = "bytes32"
        /\ FieldTypes[5] = "one" /\ FieldTypes[6] = "address"
    BY DEF FieldTypes
  <1>3. i = 2 <=> FieldTypes[i] = "limits"
    BY <1>2
  <1>4. CASE i = 1
    <2>1. o[1] = Item("uint", a.expiry) /\ a.expiry \in Expiries
      BY <1>1, <1>4, OptionalFields
    <2> HIDE DEF o
    <2>2. QED
      BY <1>2, <1>3, <1>4, <2>1 DEF Item, Items, o
  <1>5. CASE i = 2
    <2>1. o[2] = Item("limits", {TokenLimitToRlp(l) : l \in a.limits})
          /\ a.limits \in SUBSET Limits
      BY <1>1, <1>5, OptionalFields
    <2>2. {TokenLimitToRlp(l) : l \in a.limits}
            \in SUBSET {TokenLimitToRlp(l) : l \in Limits}
      BY <2>1
    <2> HIDE DEF o
    <2>3. QED
      BY <1>2, <1>3, <1>5, <2>1, <2>2 DEF Item, Items, o
  <1>6. CASE i = 3
    <2>1. o[3] = Item("scopes", {ScopeToRlp(s) : s \in a.allowedCalls})
          /\ a.allowedCalls \in SUBSET Scopes
      BY <1>1, <1>6, OptionalFields
    <2>2. {ScopeToRlp(s) : s \in a.allowedCalls}
            \in SUBSET {ScopeToRlp(s) : s \in Scopes}
      BY <2>1
    <2> HIDE DEF o
    <2>3. QED
      BY <1>2, <1>3, <1>6, <2>1, <2>2 DEF Item, Items, o
  <1>7. CASE i = 4
    <2>1. o[4] = Item("bytes32", "witness")
      BY <1>1, <1>7, OptionalFields
    <2> HIDE DEF o
    <2>2. QED
      BY <1>2, <1>3, <1>7, <2>1 DEF Item, Items, o
  <1>8. CASE i = 5
    <2>1. o[5] = Item("one", TRUE)
      BY <1>8, OptionalFields
    <2> HIDE DEF o
    <2>2. QED
      BY <1>2, <1>3, <1>8, <2>1 DEF Item, Items, o
  <1>9. CASE i = 6
    <2>1. o[6] = Item("address", "root")
      BY <1>1, <1>9, OptionalFields
    <2> HIDE DEF o
    <2>2. QED
      BY <1>2, <1>3, <1>9, <2>1 DEF Item, Items, o
  <1>10. QED
    BY <1>4, <1>5, <1>6, <1>7, <1>8, <1>9

\* There is a last field that is present, or none is.
LEMMA LastPresent ==
    ASSUME NEW o
    PROVE  \E n \in 0..6 : /\ n > 0 => o[n] # None
                           /\ \A i \in (n + 1)..6 : o[i] = None
  <1>1. CASE o[6] # None
    <2>1. 6 \in 0..6 /\ \A i \in (6 + 1)..6 : o[i] = None
      OBVIOUS
    <2>2. QED
      BY <1>1, <2>1
  <1>2. CASE o[6] = None /\ o[5] # None
    <2>1. 5 \in 0..6 /\ \A i \in (5 + 1)..6 : o[i] = None
      BY <1>2
    <2>2. QED
      BY <1>2, <2>1
  <1>3. CASE o[6] = None /\ o[5] = None /\ o[4] # None
    <2>1. 4 \in 0..6 /\ \A i \in (4 + 1)..6 : o[i] = None
      BY <1>3
    <2>2. QED
      BY <1>3, <2>1
  <1>4. CASE o[6] = None /\ o[5] = None /\ o[4] = None /\ o[3] # None
    <2>1. 3 \in 0..6 /\ \A i \in (3 + 1)..6 : o[i] = None
      BY <1>4
    <2>2. QED
      BY <1>4, <2>1
  <1>5. CASE o[6] = None /\ o[5] = None /\ o[4] = None /\ o[3] = None /\ o[2] # None
    <2>1. 2 \in 0..6 /\ \A i \in (2 + 1)..6 : o[i] = None
      BY <1>5
    <2>2. QED
      BY <1>5, <2>1
  <1>6. CASE \A i \in 2..6 : o[i] = None
    <2>1. CASE o[1] # None
      <3>1. 1 \in 0..6 /\ \A i \in (1 + 1)..6 : o[i] = None
        BY <1>6
      <3>2. QED
        BY <2>1, <3>1
    <2>2. CASE o[1] = None
      <3>1. 0 \in 0..6 /\ \A i \in (0 + 1)..6 : o[i] = None
        BY <1>6, <2>2
      <3>2. QED
        BY <3>1
    <2>3. QED
      BY <2>1, <2>2
  <1>7. QED
    BY <1>1, <1>2, <1>3, <1>4, <1>5, <1>6

\* What to_rlp makes of the optional fields: it ends at the last one present,
\* and each one before is itself or the placeholder.
LEMMA WireOf ==
    ASSUME NEW a
    PROVE  LET o == Optionals(a)
               wire == ToRlp(a)
           IN  /\ Len(wire) \in 0..6 /\ DOMAIN wire = 1..Len(wire)
               /\ Len(wire) > 0 => o[Len(wire)] # None
               /\ \A i \in (Len(wire) + 1)..6 : o[i] = None
               /\ \A i \in 1..Len(wire) :
                    wire[i] = IF o[i] = None THEN Empty ELSE o[i]
  <1> DEFINE o == Optionals(a)
             Last(n) == /\ n > 0 => o[n] # None
                        /\ \A i \in (n + 1)..6 : o[i] = None
             last == CHOOSE n \in 0..6 : Last(n)
  <1>1. \E n \in 0..6 : Last(n)
    BY LastPresent
  <1>2. last \in 0..6 /\ Last(last)
    <2> HIDE DEF Last
    <2>1. QED
      BY <1>1
  <1>3. ToRlp(a) = [i \in 1..last |-> IF o[i] = None THEN Empty ELSE o[i]]
    BY Zenon DEF ToRlp
  <1> HIDE DEF last, o
  <1>4. /\ DOMAIN ToRlp(a) = 1..last
        /\ Len(ToRlp(a)) = last
        /\ \A i \in 1..last : ToRlp(a)[i] = IF o[i] = None THEN Empty ELSE o[i]
    BY <1>2, <1>3
  <1>5. QED
    BY <1>2, <1>4 DEF o

\* The node reads each field back, however many are absent around it.
LEMMA FieldRead ==
    ASSUME NEW a \in Authorizations, NEW i \in 1..6, NEW absent
    PROVE  NodeField(ToRlp(a), i, absent) =
             IF Optionals(a)[i] = None THEN absent ELSE Optionals(a)[i].value
  <1>1. Optionals(a)[i] # None => Optionals(a)[i] # Empty
    BY OptionalTypes, ItemsAssumption
  <1>2. QED
    BY <1>1, WireOf DEF NodeField

LEMMA AuthorizationDecodes ==
    ASSUME NEW a \in Authorizations
    PROVE  NodeDecodes(ToRlp(a))
  <1> DEFINE o == Optionals(a)
             wire == ToRlp(a)
  <1>1. \A i \in 1..6 : o[i] # None => o[i] # Empty /\ o[i].type = FieldTypes[i]
    BY OptionalTypes, ItemsAssumption
  <1>2. Len(wire) > 0 => wire[Len(wire)] # Empty
    BY <1>1, WireOf
  <1>3. ASSUME NEW i \in DOMAIN wire, wire[i] # Empty
        PROVE  /\ wire[i].type = FieldTypes[i]
               /\ wire[i].type = "limits" => \A l \in wire[i].value : LimitDecodes(l)
    <2>1. i \in 1..6 /\ wire[i] = o[i] /\ o[i] # None
      BY <1>3, WireOf
    <2>2. wire[i].type = "limits" => i = 2
      BY <2>1, OptionalTypes
    <2>3. o[2] # None => \A l \in o[2].value : LimitDecodes(l)
      <3> SUFFICES ASSUME o[2] # None
                   PROVE  \A l \in o[2].value : LimitDecodes(l)
        OBVIOUS
      <3>1. o[2] = Item("limits", {TokenLimitToRlp(l) : l \in a.limits})
            /\ a.limits # None
        BY OptionalFields
      <3>2. a.limits \subseteq Limits
        BY <3>1 DEF Authorizations
      <3>3. o[2].value = {TokenLimitToRlp(l) : l \in a.limits}
        BY <3>1 DEF Item
      <3>4. QED
        BY <3>2, <3>3, LimitRead
    <2>4. QED
      BY <1>1, <2>1, <2>2, <2>3
  <1>4. QED
    BY <1>2, <1>3 DEF NodeDecodes

\* The six fields as the node has them.
LEMMA FieldsRead ==
    ASSUME NEW a \in Authorizations
    PROVE  LET wire == ToRlp(a)
           IN  /\ NodeField(wire, 1, 0) = a.expiry
               /\ NodeField(wire, 2, None) =
                    IF a.limits = None THEN None
                    ELSE {TokenLimitToRlp(l) : l \in a.limits}
               /\ NodeField(wire, 3, None) =
                    IF a.allowedCalls = None THEN None
                    ELSE {ScopeToRlp(s) : s \in a.allowedCalls}
               /\ NodeField(wire, 4, None) = a.witness
               /\ NodeField(wire, 5, FALSE) = a.isAdmin
               /\ NodeField(wire, 6, None) = a.account
  <1> DEFINE o == Optionals(a)
             wire == ToRlp(a)
  <1>1. \A type, value : Item(type, value) \in Items => Item(type, value) # None
    BY ItemsAssumption
  <1>2. \A type, value : Item(type, value).value = value
    BY DEF Item
  <1>3. NodeField(wire, 1, 0) = a.expiry
    <2>1. a.expiry # 0 => Item("uint", a.expiry) # None
      <3>1. a.expiry # 0 => Item("uint", a.expiry) \in Items
        BY DEF Authorizations, Item, Items
      <3>2. QED
        BY <1>1, <3>1
    <2>2. o[1] = IF a.expiry = 0 THEN None ELSE Item("uint", a.expiry)
      BY OptionalFields
    <2>3. NodeField(wire, 1, 0) = IF o[1] = None THEN 0 ELSE o[1].value
      BY FieldRead
    <2> HIDE DEF o, wire
    <2>4. QED
      BY <1>2, <2>1, <2>2, <2>3
  <1>4. NodeField(wire, 2, None) = IF a.limits = None THEN None
                                   ELSE {TokenLimitToRlp(l) : l \in a.limits}
    <2> DEFINE list == {TokenLimitToRlp(l) : l \in a.limits}
    <2>1. a.limits # None => list \in SUBSET {TokenLimitToRlp(l) : l \in Limits}
      BY DEF Authorizations
    <2> HIDE DEF list
    <2>2. a.limits # None => Item("limits", list) # None
      BY <1>1, <2>1 DEF Item, Items
    <2>3. o[2] = IF a.limits = None THEN None ELSE Item("limits", list)
      BY OptionalFields DEF list
    <2>4. QED
      BY <1>2, <2>2, <2>3, FieldRead DEF list
  <1>5. NodeField(wire, 3, None) = IF a.allowedCalls = None THEN None
                                   ELSE {ScopeToRlp(s) : s \in a.allowedCalls}
    <2> DEFINE list == {ScopeToRlp(s) : s \in a.allowedCalls}
    <2>1. a.allowedCalls # None => list \in SUBSET {ScopeToRlp(s) : s \in Scopes}
      BY DEF Authorizations
    <2> HIDE DEF list
    <2>2. a.allowedCalls # None => Item("scopes", list) # None
      BY <1>1, <2>1 DEF Item, Items
    <2>3. o[3] = IF a.allowedCalls = None THEN None ELSE Item("scopes", list)
      BY OptionalFields DEF list
    <2>4. QED
      BY <1>2, <2>2, <2>3, FieldRead DEF list
  <1>6. NodeField(wire, 4, None) = a.witness
    <2>1. a.witness # None => Item("bytes32", a.witness) # None
      BY <1>1 DEF Authorizations, Item, Items
    <2>2. o[4] = IF a.witness = None THEN None ELSE Item("bytes32", a.witness)
      BY OptionalFields
    <2>3. NodeField(wire, 4, None) = IF o[4] = None THEN None ELSE o[4].value
      BY FieldRead
    <2> HIDE DEF o, wire
    <2>4. QED
      BY <1>2, <2>1, <2>2, <2>3
  <1>7. NodeField(wire, 5, FALSE) = a.isAdmin
    <2>1. Item("one", TRUE) # None
      BY <1>1 DEF Item, Items
    <2>2. a.isAdmin \in BOOLEAN
      BY DEF Authorizations
    <2>3. o[5] = IF a.isAdmin THEN Item("one", TRUE) ELSE None
      BY OptionalFields
    <2>4. NodeField(wire, 5, FALSE) = IF o[5] = None THEN FALSE ELSE o[5].value
      <3>1. 5 \in 1..6
        OBVIOUS
      <3>2. QED
        BY <3>1, FieldRead, Zenon
    <2>5. CASE a.isAdmin
      <3>1. o[5] = Item("one", TRUE)
        BY <2>3, <2>5
      <3>2. NodeField(wire, 5, FALSE) = Item("one", TRUE).value
        BY <2>1, <2>4, <3>1
      <3>3. QED
        BY <1>2, <2>2, <2>5, <3>2
    <2>6. CASE ~a.isAdmin
      <3>1. o[5] = None
        BY <2>3, <2>6
      <3>2. QED
        BY <2>2, <2>4, <2>6, <3>1
    <2>7. QED
      BY <2>5, <2>6
  <1>8. NodeField(wire, 6, None) = a.account
    <2>1. a.account # None => Item("address", a.account) # None
      BY <1>1 DEF Authorizations, Item, Items
    <2>2. o[6] = IF a.account = None THEN None ELSE Item("address", a.account)
      BY OptionalFields
    <2>3. NodeField(wire, 6, None) = IF o[6] = None THEN None ELSE o[6].value
      BY FieldRead
    <2> HIDE DEF o, wire
    <2>4. QED
      BY <1>2, <2>1, <2>2, <2>3
  <1>9. QED
    BY <1>3, <1>4, <1>5, <1>6, <1>7, <1>8

\* The node's reading of any authorization the program can fill in.
LEMMA AuthorizationRead ==
    ASSUME NEW a \in Authorizations
    PROVE  NodeReads(ToRlp(a)) =
             [expiry  |-> a.expiry,
              spend   |-> a.limits,
              calls   |-> IF a.allowedCalls = None THEN AllCalls
                          ELSE UNION {ScopeCalls(s) : s \in a.allowedCalls},
              witness |-> a.witness, isAdmin |-> a.isAdmin, account |-> a.account]
  <1> DEFINE wire == ToRlp(a)
             limits == NodeField(wire, 2, None)
             scopes == NodeField(wire, 3, None)
             spend == IF limits = None THEN None ELSE {NodeLimit(l) : l \in limits}
             calls == IF scopes = None THEN AllCalls ELSE NodeCalls(scopes)
  <1>1. NodeReads(wire) =
          [expiry |-> NodeField(wire, 1, 0), spend |-> spend, calls |-> calls,
           witness |-> NodeField(wire, 4, None),
           isAdmin |-> NodeField(wire, 5, FALSE),
           account |-> NodeField(wire, 6, None)]
    BY AuthorizationDecodes DEF NodeReads
  <1>2. spend = a.limits
    <2>1. CASE a.limits = None
      BY <2>1, FieldsRead
    <2>2. CASE a.limits # None
      <3>1. a.limits \in SUBSET Limits
        BY <2>2 DEF Authorizations
      <3>2. limits = {TokenLimitToRlp(l) : l \in a.limits}
        BY <2>2, FieldsRead
      <3>3. limits \in SUBSET {TokenLimitToRlp(l) : l \in Limits}
        BY <3>1, <3>2
      <3> HIDE DEF limits
      <3>4. limits # None
        BY <3>3, ItemsAssumption
      <3>5. {NodeLimit(l) : l \in limits} = a.limits
        <4>1. \A l \in a.limits : NodeLimit(TokenLimitToRlp(l)) = l
          BY <3>1, LimitRead
        <4>2. QED
          BY <3>2, <4>1
      <3>6. QED
        BY <3>4, <3>5
    <2>3. QED
      BY <2>1, <2>2
  <1>3. calls = IF a.allowedCalls = None THEN AllCalls
                ELSE UNION {ScopeCalls(s) : s \in a.allowedCalls}
    <2>1. CASE a.allowedCalls = None
      BY <2>1, FieldsRead
    <2>2. CASE a.allowedCalls # None
      <3>1. a.allowedCalls \in SUBSET Scopes
        BY <2>2 DEF Authorizations
      <3>2. scopes = {ScopeToRlp(s) : s \in a.allowedCalls}
        BY <2>2, FieldsRead
      <3>3. scopes \in SUBSET {ScopeToRlp(s) : s \in Scopes}
        BY <3>1, <3>2
      <3> HIDE DEF scopes
      <3>4. scopes # None
        BY <3>3, ItemsAssumption
      <3>5. NodeCalls(scopes) = UNION {ScopeCalls(s) : s \in a.allowedCalls}
        <4>1. \A s \in a.allowedCalls : NodeScopeCalls(ScopeToRlp(s)) = ScopeCalls(s)
          BY <3>1, ScopeRead
        <4>2. {NodeScopeCalls(w) : w \in scopes} = {ScopeCalls(s) : s \in a.allowedCalls}
          BY <3>2, <4>1
        <4>3. QED
          BY <4>2 DEF NodeCalls
      <3>6. QED
        BY <2>2, <3>4, <3>5
    <2>3. QED
      BY <2>1, <2>2
  <1> HIDE DEF spend, calls
  <1>4. QED
    BY <1>1, <1>2, <1>3, FieldsRead

LEMMA FaithfulGivesReading == IInv => NodeReadsAuthorization
  <1> SUFFICES ASSUME IInv, sent # None, sent.kind = "authorization"
               PROVE  LET grant == GrantOf(restr)
                      IN  NodeReads(sent.wire) =
                            [expiry |-> grant.expiry, spend |-> grant.spend,
                             calls |-> grant.calls, witness |-> sent.of.witness,
                             isAdmin |-> sent.of.isAdmin, account |-> sent.of.account]
    BY DEF NodeReadsAuthorization
  <1>1. restr \in KeyRestrictions
    BY DEF IInv, TypeOK
  <1>2. SentAuthorization
    BY KindOfCall, KindOfRaised DEF IInv, Faithful
  <1>3. PICK witness \in {None, "witness"}, isAdmin \in BOOLEAN,
             account \in {None, "root"} :
          sent = [kind |-> "authorization",
                  of   |-> Authorization(restr, witness, isAdmin, account),
                  wire |-> ToRlp(Authorization(restr, witness, isAdmin, account))]
    BY <1>2 DEF SentAuthorization
  <1> DEFINE a == Authorization(restr, witness, isAdmin, account)
             grant == GrantOf(restr)
  <1>4. a \in Authorizations
    BY <1>1, AuthorizationType
  <1>5. sent.of = a /\ sent.wire = ToRlp(a)
    BY <1>3
  <1>6. /\ a.expiry = grant.expiry /\ a.limits = grant.spend
        /\ grant.calls = IF a.allowedCalls = None THEN AllCalls
                         ELSE UNION {ScopeCalls(s) : s \in a.allowedCalls}
    <2>1. restr.allowedCalls # None
      BY <1>1, ValuesAssumption DEF KeyRestrictions
    <2>2. a.expiry = grant.expiry /\ a.limits = grant.spend
      BY DEF Authorization, GrantOf
    <2>3. a.allowedCalls = IF restr.allowAnyCalls THEN None ELSE restr.allowedCalls
      BY DEF Authorization
    <2>4. grant.calls = IF restr.allowAnyCalls THEN AllCalls
                        ELSE UNION {ScopeCalls(s) : s \in restr.allowedCalls}
      BY DEF GrantOf
    <2> HIDE DEF a, grant
    <2>5. QED
      BY <2>1, <2>2, <2>3, <2>4
  <1> HIDE DEF a, grant
  <1>7. NodeReads(sent.wire) =
          [expiry |-> grant.expiry, spend |-> grant.spend, calls |-> grant.calls,
           witness |-> a.witness, isAdmin |-> a.isAdmin, account |-> a.account]
    BY <1>4, <1>5, <1>6, AuthorizationRead
  <1>8. QED
    BY <1>5, <1>7 DEF grant

\* The node never refuses what to_rlp makes, and reads the permissions it was
\* filled in from.
THEOREM AuthorizationsAreRead == Spec => []NodeReadsAuthorization
  BY SpecIInv, FaithfulGivesReading, PTL
=============================================================================

-------------------------- MODULE TxAcceptanceProofs --------------------------
(***************************************************************************)
(* What TxAcceptance promises beyond authenticity, for every value of the  *)
(* constants: the three signing domains are apart, the node and the SDK    *)
(* compute the same payloads, and what another signature or another fee    *)
(* token does to the signatures that are there.                            *)
(***************************************************************************)
EXTENDS TxSigningProofs

-----------------------------------------------------------------------------
(* Domain separation *)

LEMMA SenderSigns ==
    ASSUME NEW g, g.role = "sender"
    PROVE  SignedBy(g) = GetSignPayload(g.tx)
  BY DEF SignedBy

LEMMA KeychainSigns ==
    ASSUME NEW g, g.role = "keychain"
    PROVE  SignedBy(g) = SigningHash(GetSignPayload(g.tx), g.account)
  BY DEF SignedBy

LEMMA FeePayerSigns ==
    ASSUME NEW g, g.role = "feePayer"
    PROVE  SignedBy(g) = GetFeePayerSignPayload(g.tx, g.account)
  BY DEF SignedBy

LEMMA RootSigns ==
    ASSUME NEW g, g.role = "root"
    PROVE  SignedBy(g) = [keyId |-> g.account, account |-> g.by]
  BY DEF SignedBy

\* The shape of what is signed gives the role away: the magic byte, and for the
\* authorization a root signs, that there is none.
LEMMA DomainOfRole ==
    ASSUME NEW g \in Grants
    PROVE  /\ g.role = "sender" =>
                \E f : SignedBy(g) = [magic |-> "0x76", fields |-> f]
           /\ g.role = "keychain" =>
                \E f, u : SignedBy(g) = [magic |-> "0x04", hash |-> f, user |-> u]
           /\ g.role = "feePayer" =>
                \E f : SignedBy(g) = [magic |-> "0x78", fields |-> f]
           /\ g.role = "root" =>
                \E f, u : SignedBy(g) = [keyId |-> f, account |-> u]
  <1>1. g.role = "sender" =>
          \E f : SignedBy(g) = [magic |-> "0x76", fields |-> f]
    BY SenderSigns DEF GetSignPayload, SerializeForSigning
  <1>2. g.role = "keychain" =>
          \E f, u : SignedBy(g) = [magic |-> "0x04", hash |-> f, user |-> u]
    BY KeychainSigns DEF SigningHash
  <1>3. g.role = "feePayer" =>
          \E f : SignedBy(g) = [magic |-> "0x78", fields |-> f]
    <2> SUFFICES ASSUME g.role = "feePayer"
                 PROVE  \E f : SignedBy(g) = [magic |-> "0x78", fields |-> f]
      OBVIOUS
    <2> DEFINE f == [BuildFields(g.tx, FALSE, TRUE) EXCEPT !.feePayer = g.account]
    <2>1. SignedBy(g) = [magic |-> "0x78", fields |-> f]
      BY FeePayerSigns, Zenon DEF GetFeePayerSignPayload, SerializeForFeePayerSigning
    <2>2. QED
      BY <2>1, Zenon
  <1>4. g.role = "root" => \E f, u : SignedBy(g) = [keyId |-> f, account |-> u]
    BY RootSigns
  <1>5. QED
    BY <1>1, <1>2, <1>3, <1>4, Zenon

\* Payloads of two roles are two values.
LEMMA DomainsApart ==
    ASSUME NEW f, NEW g, NEW u, NEW w, NEW a, NEW b
    PROVE  /\ [magic |-> "0x76", fields |-> f] # [magic |-> "0x78", fields |-> g]
           /\ [magic |-> "0x76", fields |-> f] # [magic |-> "0x04", hash |-> u, user |-> w]
           /\ [magic |-> "0x78", fields |-> f] # [magic |-> "0x04", hash |-> u, user |-> w]
           /\ [magic |-> "0x76", fields |-> f] # [keyId |-> a, account |-> b]
           /\ [magic |-> "0x78", fields |-> f] # [keyId |-> a, account |-> b]
           /\ [magic |-> "0x04", hash |-> u, user |-> w] # [keyId |-> a, account |-> b]
  OBVIOUS

LEMMA TypesSeparateRoles == TypeOK => RolesSeparated
  <1> SUFFICES ASSUME TypeOK, NEW g \in grants, NEW h \in grants,
                      SignedBy(g) = SignedBy(h)
               PROVE  /\ g.role = h.role
                      /\ g.role # "sender" => g.account = h.account
    BY DEF RolesSeparated
  <1>1. g \in Grants /\ h \in Grants
    BY DEF TypeOK
  <1>2. g.role \in Roles /\ h.role \in Roles
    BY <1>1 DEF Grants
  <1>3. g.role = h.role
    BY <1>1, <1>2, DomainOfRole, DomainsApart DEF Roles
  <1>4. CASE g.role = "keychain"
    <2>1. SigningHash(GetSignPayload(g.tx), g.account)
            = SigningHash(GetSignPayload(h.tx), h.account)
      BY <1>3, <1>4, KeychainSigns
    <2>2. QED
      BY <1>3, <2>1 DEF SigningHash
  <1>5. CASE g.role = "feePayer"
    <2>1. GetFeePayerSignPayload(g.tx, g.account)
            = GetFeePayerSignPayload(h.tx, h.account)
      BY <1>3, <1>5, FeePayerSigns
    <2>2. QED
      BY <1>3, <2>1, FeePayerPayloadBinds
  <1>6. CASE g.role = "root"
    <2>1. [keyId |-> g.account, account |-> g.by]
            = [keyId |-> h.account, account |-> h.by]
      BY <1>3, <1>6, RootSigns
    <2>2. QED
      BY <1>3, <2>1
  <1>7. QED
    BY <1>2, <1>3, <1>4, <1>5, <1>6 DEF Roles

\* No signature given in one role, or for one account, can ever be used in
\* another: 0x76, 0x78 and 0x04 keep apart what is signed over the same fields.
THEOREM RoleSeparation == Spec => []RolesSeparated
  BY TypeCorrect, TypesSeparateRoles, PTL

-----------------------------------------------------------------------------
(* The payloads, field by field *)

FieldsOf(body, feeToken, feePayer, keyAuth) ==
    [body |-> body, feeToken |-> feeToken, feePayer |-> feePayer,
     keyAuth |-> keyAuth, envelope |-> None]

LEMMA FieldsInjective ==
    ASSUME NEW b1, NEW f1, NEW p1, NEW k1, NEW b2, NEW f2, NEW p2, NEW k2,
           FieldsOf(b1, f1, p1, k1) = FieldsOf(b2, f2, p2, k2)
    PROVE  b1 = b2 /\ f1 = f2 /\ p1 = p2 /\ k1 = k2
  BY DEF FieldsOf

\* What the node puts into a list it has decoded, before it hashes it.
ReplacePayer(list, y) == [list EXCEPT !.feePayer = y, !.envelope = None]

ReplaceToken(list, x, y) ==
    [list EXCEPT !.feeToken = x, !.feePayer = y, !.envelope = None]

List(b, f, p, k, e) ==
    [body |-> b, feeToken |-> f, feePayer |-> p, keyAuth |-> k, envelope |-> e]

LEMMA ReplacedPayer ==
    \A b, f, p, k, e, y :
      ReplacePayer(List(b, f, p, k, e), y) = FieldsOf(b, f, y, k)
  <1> SUFFICES ASSUME NEW b, NEW f, NEW p, NEW k, NEW e, NEW y
               PROVE  ReplacePayer(List(b, f, p, k, e), y) = List(b, f, y, k, None)
    BY DEF FieldsOf, List
  <1>1. [List(b, f, p, k, e) EXCEPT !.feePayer = y] = List(b, f, y, k, e)
    BY DEF List
  <1>2. [List(b, f, y, k, e) EXCEPT !.envelope = None] = List(b, f, y, k, None)
    BY DEF List
  <1>3. QED
    BY <1>1, <1>2 DEF ReplacePayer

LEMMA ReplacedToken ==
    \A b, f, p, k, e, x, y :
      ReplaceToken(List(b, f, p, k, e), x, y) = FieldsOf(b, x, y, k)
  <1> SUFFICES ASSUME NEW b, NEW f, NEW p, NEW k, NEW e, NEW x, NEW y
               PROVE  ReplaceToken(List(b, f, p, k, e), x, y) = List(b, x, y, k, None)
    BY DEF FieldsOf, List
  <1>1. [List(b, f, p, k, e) EXCEPT !.feeToken = x] = List(b, x, p, k, e)
    BY DEF List
  <1>2. [List(b, x, p, k, e) EXCEPT !.feePayer = y] = List(b, x, y, k, e)
    BY DEF List
  <1>3. [List(b, x, y, k, e) EXCEPT !.envelope = None] = List(b, x, y, k, None)
    BY DEF List
  <1>4. QED
    BY <1>1, <1>2, <1>3 DEF ReplaceToken

LEMMA SignPayloadIs ==
    ASSUME NEW t
    PROVE  GetSignPayload(t) =
             [magic |-> "0x76",
              fields |-> FieldsOf(t.body,
                           IF t.awaiting \/ t.feeSig # None THEN None ELSE t.feeToken,
                           EncodeFeePayerField(t), t.keyAuth)]
  BY DEF GetSignPayload, SerializeForSigning, BuildFields, EncodeFeeToken, FieldsOf

LEMMA FeePayerPayloadIs ==
    ASSUME NEW t, NEW a
    PROVE  GetFeePayerSignPayload(t, a) =
             [magic |-> "0x78", fields |-> FieldsOf(t.body, t.feeToken, a, t.keyAuth)]
  <1>1. [BuildFields(t, FALSE, TRUE) EXCEPT !.feePayer = a]
          = FieldsOf(t.body, t.feeToken, a, t.keyAuth)
    BY DEF BuildFields, EncodeFeeToken, FieldsOf
  <1>2. QED
    BY <1>1, Zenon DEF GetFeePayerSignPayload, SerializeForFeePayerSigning

\* The wire tells a fee payer's signature from the marker and from nothing.
LEMMA SponsoredOnTheWire ==
    ASSUME NEW t \in TempoTransaction
    PROVE  /\ NodeSponsored(Serialize(t)) <=> t.feeSig # None
           /\ Serialize(t).fields.feePayer = EncodeFeePayerField(t)
           /\ t.feeSig # None => EncodeFeePayerField(t) = ToRlpList(t.feeSig)
           /\ t.feeSig # None => EncodeFeePayerField(t) \in RlpLists
  <1>1. Serialize(t).fields.feePayer = EncodeFeePayerField(t)
    BY DEF Serialize, BuildFields
  <1>2. t.feeSig # None =>
          /\ EncodeFeePayerField(t) = ToRlpList(t.feeSig)
          /\ EncodeFeePayerField(t) \in RlpLists
    BY DEF EncodeFeePayerField, ToRlpList, RlpLists, TempoTransaction,
           FeePayerSigs, Signatures
  <1>3. t.feeSig = None => EncodeFeePayerField(t) \in {None, Marker}
    BY DEF EncodeFeePayerField
  <1>4. QED
    BY <1>1, <1>2, <1>3, DistinctValues DEF NodeSponsored

\* What the node checks the sender's signature against.
LEMMA NodeSenderPayloadIs ==
    ASSUME NEW t \in TempoTransaction, KeyAuthCanonical(t)
    PROVE  NodeSenderPayload(Serialize(t)) =
             [magic |-> "0x76",
              fields |-> FieldsOf(t.body, IF t.feeSig # None THEN None ELSE t.feeToken,
                           IF t.feeSig # None THEN Marker ELSE None, t.keyAuth)]
  <1> DEFINE f == NodeReencode(Serialize(t).fields)
             sponsored == NodeSponsored(Serialize(t))
  <1>1. f = List(t.body, t.feeToken, f.feePayer, t.keyAuth, f.envelope)
    BY ReencodeKeepsKeyAuth DEF List
  <1>2. sponsored <=> t.feeSig # None
    BY SponsoredOnTheWire
  <1>3. NodeSenderPayload(Serialize(t)) =
          [magic |-> "0x76",
           fields |-> ReplaceToken(f, IF sponsored THEN None ELSE f.feeToken,
                                   IF sponsored THEN Marker ELSE None)]
    BY Zenon DEF NodeSenderPayload, ReplaceToken
  <1> HIDE DEF f, sponsored
  <1>4. ReplaceToken(f, IF sponsored THEN None ELSE f.feeToken,
                     IF sponsored THEN Marker ELSE None)
          = FieldsOf(t.body, IF sponsored THEN None ELSE f.feeToken,
                     IF sponsored THEN Marker ELSE None, t.keyAuth)
    BY <1>1, ReplacedToken
  <1>5. f.feeToken = t.feeToken
    BY <1>1 DEF List
  <1>6. QED
    BY <1>2, <1>3, <1>4, <1>5, Zenon

\* What the node checks the fee payer's signature against is what the fee payer
\* signs.
LEMMA NodeFeePayerAgrees ==
    ASSUME NEW t \in TempoTransaction, KeyAuthCanonical(t), NEW a, t.feeSig # None
    PROVE  NodeFeePayer(Serialize(t), a) = VerifyFeePayerSignature(t, a)
  <1> DEFINE f == NodeReencode(Serialize(t).fields)
  <1>1. f = List(t.body, t.feeToken, f.feePayer, t.keyAuth, f.envelope)
    BY ReencodeKeepsKeyAuth DEF List
  <1>2. NodeFeePayer(Serialize(t), a) =
          RecoverAddress([magic |-> "0x78", fields |-> ReplacePayer(f, a)],
                         ToRlpList(t.feeSig))
    BY SponsoredOnTheWire, Zenon DEF NodeFeePayer, ReplacePayer
  <1> HIDE DEF f
  <1>3. ReplacePayer(f, a) = FieldsOf(t.body, t.feeToken, a, t.keyAuth)
    BY <1>1, ReplacedPayer
  <1>4. NodeFeePayer(Serialize(t), a) =
          RecoverAddress(GetFeePayerSignPayload(t, a), ToRlpList(t.feeSig))
    BY <1>2, <1>3, FeePayerPayloadIs, Zenon
  <1>5. QED
    BY <1>4 DEF RecoverAddress, ToRlpList, VerifyFeePayerSignature

\* The signature the node finds in the envelope, and what it makes of it.
LEMMA NodeSigningKeyIs ==
    ASSUME NEW t \in TempoTransaction, t.senderSig # None
    PROVE  LET sig == t.senderSig
               payload == NodeSenderPayload(Serialize(t))
               key == NodeSigningKey(Serialize(t))
           IN  /\ key = IF sig.over = IF sig.user = None THEN payload
                                      ELSE SigningHash(payload, sig.user)
                        THEN sig.key ELSE Garbage
               /\ NodeSender(Serialize(t)) =
                    IF sig.user = None \/ key = Garbage THEN key ELSE sig.user
  <1>1. Serialize(t).fields.envelope = t.senderSig
    BY DEF Serialize, BuildFields
  <1>2. QED
    BY <1>1, Zenon DEF NodeSigningKey, NodeSender, RecoverAddress

-----------------------------------------------------------------------------
(* What the node accepts *)

\* The envelope of a held transaction is a signature the node re-encodes to
\* itself, unless it is a bare one whose v the signer left raw.
LEMMA ReencodeKeepsWire ==
    ASSUME NEW t \in TempoTransaction, KeyAuthCanonical(t), EnvelopeCanonical(t),
           t.senderSig # None, t.senderSig.user # None
    PROVE  NodeReencode(Serialize(t).fields) = Serialize(t).fields
  <1>1. t.senderSig \in SenderSigs /\ t.senderSig.v \in {"canonical", "absent"}
    BY DEF TempoTransaction, SenderSigs, EnvelopeCanonical
  <1>2. Canonical(t.senderSig) = t.senderSig
    BY <1>1 DEF Canonical, SenderSigs
  <1>3. Serialize(t).fields = List(t.body, t.feeToken, EncodeFeePayerField(t),
                                   t.keyAuth, t.senderSig)
    BY DEF Serialize, BuildFields, EncodeFeeToken, List
  <1>4. NodeReencode(Serialize(t).fields)
          = List(t.body, t.feeToken, EncodeFeePayerField(t), t.keyAuth, t.senderSig)
    BY <1>2, ReencodeKeepsKeyAuth DEF List
  <1>5. QED
    BY <1>3, <1>4

LEMMA ProvenanceGivesUnsponsored == IInv => UnsponsoredAccepted
  <1> SUFFICES ASSUME IInv, NEW s \in Slots,
                      tx[s] # None, tx[s].senderSig # None,
                      tx[s].feeSig = None, ~tx[s].awaiting
               PROVE  LET sig == tx[s].senderSig
                          payload == GetSignPayload(tx[s])
                          wire == Serialize(tx[s])
                      IN  IF sig.user = None
                          THEN RecoverAddress(payload, sig) = NodeSender(wire)
                          ELSE /\ NodeSender(wire) =
                                    IF sig.over = SigningHash(payload, sig.user)
                                    THEN sig.user ELSE Garbage
                               /\ NodeReencode(wire.fields) = wire.fields
    BY DEF UnsponsoredAccepted
  <1> DEFINE sig == tx[s].senderSig
             payload == GetSignPayload(tx[s])
             wire == Serialize(tx[s])
  <1>1. /\ tx[s] \in TempoTransaction
        /\ KeyAuthCanonical(tx[s]) /\ EnvelopeCanonical(tx[s])
    BY HeldTransaction DEF Traceable
  <1>2. EncodeFeePayerField(tx[s]) = None
    BY DEF EncodeFeePayerField
  <1>3. NodeSenderPayload(wire) = payload
    BY <1>1, <1>2, SignPayloadIs, NodeSenderPayloadIs
  <1>4. sig.key # Garbage
    BY <1>1, DistinctValues DEF TempoTransaction, SenderSigs
  <1>5. sig.user = None => RecoverAddress(payload, sig) = NodeSender(wire)
    BY <1>1, <1>3, NodeSigningKeyIs DEF RecoverAddress
  <1>6. sig.user # None =>
          NodeSender(wire) = IF sig.over = SigningHash(payload, sig.user)
                             THEN sig.user ELSE Garbage
    BY <1>1, <1>3, <1>4, NodeSigningKeyIs
  <1>7. sig.user # None => NodeReencode(wire.fields) = wire.fields
    BY <1>1, ReencodeKeepsWire
  <1>8. QED
    BY <1>5, <1>6, <1>7

\* With no fee payer involved, the node attributes a transaction to the account
\* whose signature the SDK recovers, and reads back the bytes that were signed.
THEOREM UnsponsoredAcceptance == Spec => []UnsponsoredAccepted
  BY SpecIInv, ProvenanceGivesUnsponsored, PTL

LEMMA ProvenanceGivesSponsored == IInv => SponsoredAccepted
  <1> DEFINE before(t) == [t EXCEPT !.feeSig = None, !.awaiting = TRUE]
  <1> SUFFICES ASSUME IInv, NEW s \in Slots,
                      tx[s] # None, tx[s].senderSig # None, tx[s].feeSig # None,
                      tx[s].senderSig.user = None,
                      VerifySignature(before(tx[s])) \in Addresses
               PROVE  /\ NodeSender(Serialize(tx[s])) = VerifySignature(before(tx[s]))
                      /\ NodeFeePayer(Serialize(tx[s]), tx[s].sender) =
                           VerifyFeePayerSignature(tx[s], tx[s].sender)
    BY DEF SponsoredAccepted
  <1>1. tx[s] \in TempoTransaction /\ KeyAuthCanonical(tx[s])
    BY HeldTransaction DEF Traceable
  <1>2. /\ before(tx[s]).body = tx[s].body
        /\ before(tx[s]).keyAuth = tx[s].keyAuth
        /\ before(tx[s]).senderSig = tx[s].senderSig
        /\ before(tx[s]).feeSig = None
        /\ before(tx[s]).awaiting = TRUE
    BY <1>1 DEF TempoTransaction
  <1> HIDE DEF before
  <1>3. GetSignPayload(before(tx[s])) = NodeSenderPayload(Serialize(tx[s]))
    <2>1. EncodeFeePayerField(before(tx[s])) = Marker
      BY <1>2 DEF EncodeFeePayerField
    <2>2. QED
      BY <1>1, <1>2, <2>1, SignPayloadIs, NodeSenderPayloadIs
  <1>4. NodeSender(Serialize(tx[s])) = VerifySignature(before(tx[s]))
    BY <1>1, <1>2, <1>3, NodeSigningKeyIs DEF VerifySignature, RecoverAddress
  <1>5. QED
    BY <1>1, <1>4, NodeFeePayerAgrees

\* Attaching a fee payer signature, with any fee token, to a transaction that
\* awaits one leaves it the sender's, and the node charges who the SDK reports.
THEOREM SponsoredAcceptance == Spec => []SponsoredAccepted
  BY SpecIInv, ProvenanceGivesSponsored, PTL

-----------------------------------------------------------------------------
(* What another signature or another fee token does *)

LEMMA IInvGivesResign == IInv /\ [Next]_vars => ResignStep
  <1> SUFFICES ASSUME IInv, NEW s \in Slots, NEW d \in Slots, NEW k \in Keys,
                      SignTransaction(s, d, k), tx[s].feeSig # None
               PROVE  LET payer == tx[s].feeSig.key
                          after == VerifyFeePayerSignature(tx'[d], k) = payer
                      IN  /\ after <=> VerifyFeePayerSignature(tx[s], k) = payer
                          /\ VerifyFeePayerSignature(tx[s], tx[s].sender) = payer
                               => (after <=> tx[s].sender = k)
    BY DEF ResignStep
  <1> DEFINE t == tx[s]
             u == tx'[d]
             payer == t.feeSig.key
  <1>1. t \in TempoTransaction
    BY HeldTransaction DEF SignTransaction
  <1>2. /\ u.body = t.body
        /\ u.feeToken = t.feeToken
        /\ u.keyAuth = t.keyAuth
        /\ u.feeSig = t.feeSig
    BY <1>1 DEF SignTransaction, IInv, TypeOK, TempoTransaction
  <1>3. payer # Garbage
    BY <1>1, DistinctValues DEF TempoTransaction, FeePayerSigs, Signatures
  <1> HIDE DEF u
  <1>4. \A a : VerifyFeePayerSignature(u, a) = VerifyFeePayerSignature(t, a)
    BY <1>2, FeePayerPayloadIs DEF VerifyFeePayerSignature, RecoverAddress
  <1>5. ASSUME VerifyFeePayerSignature(t, t.sender) = payer
        PROVE  VerifyFeePayerSignature(t, k) = payer <=> t.sender = k
    <2>1. \A a : VerifyFeePayerSignature(t, a) = payer
                   <=> t.feeSig.over = GetFeePayerSignPayload(t, a)
      BY <1>3 DEF VerifyFeePayerSignature, RecoverAddress
    <2>2. VerifyFeePayerSignature(t, k) = payer
            => GetFeePayerSignPayload(t, t.sender) = GetFeePayerSignPayload(t, k)
      BY <1>5, <2>1
    <2>3. GetFeePayerSignPayload(t, t.sender) = GetFeePayerSignPayload(t, k)
            => t.sender = k
      BY FeePayerPayloadBinds
    <2>4. QED
      BY <1>5, <2>2, <2>3
  <1>6. QED
    BY <1>4, <1>5 DEF u

\* A sponsorship survives another sender signature exactly when the fee payer
\* gave it for the account that signs.
THEOREM ResignTheorem == Spec => ResignKeepsSponsor
  <1>1. IInv /\ [Next]_vars => [ResignStep]_vars
    BY IInvGivesResign
  <1>2. QED
    BY SpecIInv, <1>1, PTL DEF Spec, ResignKeepsSponsor

LEMMA IInvGivesToken == IInv /\ [Next]_vars => TokenStep
  <1> SUFFICES ASSUME IInv, NEW s \in Slots, NEW d \in Slots,
                      NEW feeToken \in Tokens \cup {None},
                      SetFeeToken(s, d, feeToken),
                      tx[s].senderSig # None,
                      tx[s].senderSig.user = None,
                      tx[s].feeSig = None,
                      VerifySignature(tx[s]) = tx[s].senderSig.key
               PROVE  VerifySignature(tx'[d]) = tx[s].senderSig.key
                        <=> tx[s].awaiting \/ feeToken = tx[s].feeToken
    BY DEF TokenStep
  <1> DEFINE t == tx[s]
             u == tx'[d]
             sig == t.senderSig
  <1>1. t \in TempoTransaction
    BY HeldTransaction DEF SetFeeToken
  <1>2. /\ u.body = t.body
        /\ u.feeToken = feeToken
        /\ u.awaiting = t.awaiting
        /\ u.keyAuth = t.keyAuth
        /\ u.senderSig = sig
        /\ u.feeSig = None
    BY <1>1 DEF SetFeeToken, IInv, TypeOK, TempoTransaction
  <1>3. sig.key # Garbage
    BY <1>1, DistinctValues DEF TempoTransaction, SenderSigs
  <1>4. EncodeFeePayerField(u) = EncodeFeePayerField(t)
    BY <1>2 DEF EncodeFeePayerField
  <1> HIDE DEF u
  <1>5. sig.over = GetSignPayload(t)
    BY <1>3 DEF VerifySignature, RecoverAddress
  <1>6. VerifySignature(u) = sig.key <=> sig.over = GetSignPayload(u)
    BY <1>2, <1>3 DEF VerifySignature, RecoverAddress
  <1>7. GetSignPayload(t) = GetSignPayload(u)
          <=> t.awaiting \/ feeToken = t.feeToken
    <2> DEFINE signed(token) ==
          FieldsOf(t.body, IF t.awaiting THEN None ELSE token,
                   EncodeFeePayerField(t), t.keyAuth)
    <2>1. /\ GetSignPayload(t) = [magic |-> "0x76", fields |-> signed(t.feeToken)]
          /\ GetSignPayload(u) = [magic |-> "0x76", fields |-> signed(feeToken)]
      BY <1>2, <1>4, SignPayloadIs
    <2>2. GetSignPayload(t) = GetSignPayload(u)
            <=> signed(t.feeToken) = signed(feeToken)
      BY <2>1
    <2>3. (signed(t.feeToken) = signed(feeToken))
            => (t.awaiting \/ feeToken = t.feeToken)
      BY FieldsInjective
    <2>4. QED
      BY <2>2, <2>3
  <1>8. QED
    BY <1>5, <1>6, <1>7 DEF u

\* The fee token is part of what a sender commits to, except while it awaits a
\* fee payer.
THEOREM TokenTheorem == Spec => TokenCommitment
  <1>1. IInv /\ [Next]_vars => [TokenStep]_vars
    BY IInvGivesToken
  <1>2. QED
    BY SpecIInv, <1>1, PTL DEF Spec, TokenCommitment
=============================================================================

--------------------------- MODULE TxSigningProofs ---------------------------
(***************************************************************************)
(* Proofs about TxSigning for every set of keys, accounts, bodies, tokens  *)
(* and slots.  The argument: every signature found in a transaction was    *)
(* made by a recorded grant over the payload of the transaction shown to   *)
(* the signer (Provenance); a payload determines the content it was built  *)
(* from; so a signature that verifies now was given for what it is now     *)
(* attached to.                                                            *)
(***************************************************************************)
EXTENDS TxAcceptance, TLAPS

\* A signature found in a transaction was given by a grant in G, over what the
\* grant was shown.
SenderSigGranted(t, G) ==
    t.senderSig # None =>
      \E g \in G :
         /\ g.tx \in TempoTransaction
         /\ g.by = t.senderSig.key
         /\ t.senderSig.over = SignedBy(g)
         /\ \/ t.senderSig.user = None /\ g.role = "sender" /\ g.account = g.by
            \/ /\ t.senderSig.user # None
               /\ g.role = "keychain" /\ g.account = t.senderSig.user

FeeSigGranted(t, G) ==
    t.feeSig # None =>
      \E g \in G :
         /\ g.tx \in TempoTransaction
         /\ g.by = t.feeSig.key
         /\ g.role = "feePayer"
         /\ t.feeSig.over = SignedBy(g)

\* The root signature a transaction embeds has a canonical v.
KeyAuthCanonical(t) == t.keyAuth # None => t.keyAuth.sig.v = "canonical"

\* So has the inner signature of a keychain signature, if it has one at all.
EnvelopeCanonical(t) ==
    (t.senderSig # None /\ t.senderSig.user # None) => t.senderSig.v # "raw"

Traceable(t, G) ==
    /\ SenderSigGranted(t, G) /\ FeeSigGranted(t, G)
    /\ KeyAuthCanonical(t) /\ EnvelopeCanonical(t)

Provenance == \A s \in Slots : tx[s] # None => Traceable(tx[s], grants)

IInv == TypeOK /\ Provenance

-----------------------------------------------------------------------------
(* The payloads *)

LEMMA SignPayloadType ==
    ASSUME NEW t \in TempoTransaction
    PROVE  GetSignPayload(t) \in SenderPayloads
  <1>1. EncodeFeePayerField(t) \in RlpLists \cup {None, Marker}
    BY DEF EncodeFeePayerField, ToRlpList, TempoTransaction, FeePayerSigs,
           Signatures, RlpLists
  <1>2. QED
    BY <1>1 DEF GetSignPayload, SerializeForSigning, BuildFields, EncodeFeeToken,
           TempoTransaction, SenderPayloads, Fields

LEMMA FeePayerPayloadType ==
    ASSUME NEW t \in TempoTransaction, NEW a \in Addresses
    PROVE  GetFeePayerSignPayload(t, a) \in FeePayerPayloads
  BY DEF GetFeePayerSignPayload, SerializeForFeePayerSigning, BuildFields,
         EncodeFeeToken, TempoTransaction, FeePayerPayloads, Fields

LEMMA SigningHashType ==
    ASSUME NEW t \in TempoTransaction, NEW a \in Addresses
    PROVE  SigningHash(GetSignPayload(t), a) \in KeychainPayloads
  BY SignPayloadType DEF SigningHash, KeychainPayloads

LEMMA UnsignedType ==
    ASSUME NEW t \in TempoTransaction
    PROVE  Unsigned(t) \in TempoTransaction
  BY DEF Unsigned, TempoTransaction

\* Neither payload depends on the sender's signature, so what a grant keeps of
\* a transaction has the payload the transaction had.
LEMMA UnsignedPayload ==
    ASSUME NEW t \in TempoTransaction, NEW a
    PROVE  /\ GetSignPayload(Unsigned(t)) = GetSignPayload(t)
           /\ GetFeePayerSignPayload(Unsigned(t), a) = GetFeePayerSignPayload(t, a)
  <1>1. /\ Unsigned(t).body = t.body
        /\ Unsigned(t).feeToken = t.feeToken
        /\ Unsigned(t).awaiting = t.awaiting
        /\ Unsigned(t).feeSig = t.feeSig
        /\ Unsigned(t).keyAuth = t.keyAuth
    BY DEF Unsigned, TempoTransaction
  <1>2. EncodeFeePayerField(Unsigned(t)) = EncodeFeePayerField(t)
    BY <1>1 DEF EncodeFeePayerField
  <1>3. \A skip \in BOOLEAN :
          BuildFields(Unsigned(t), skip, TRUE) = BuildFields(t, skip, TRUE)
    BY <1>1, <1>2 DEF BuildFields, EncodeFeeToken
  <1>4. QED
    BY <1>1, <1>3 DEF GetSignPayload, SerializeForSigning,
       GetFeePayerSignPayload, SerializeForFeePayerSigning, TempoTransaction

-----------------------------------------------------------------------------
(* The inductive invariant *)

LEMMA InitIInv == Init => IInv
  BY DEF Init, IInv, TypeOK, Provenance

\* More grants make nothing untraceable.
LEMMA TraceableMonotone ==
    ASSUME NEW t, NEW G, NEW H, G \subseteq H, Traceable(t, G)
    PROVE  Traceable(t, H)
  BY DEF Traceable, SenderSigGranted, FeeSigGranted

\* A slot receives a well-typed, traceable transaction.
LEMMA PutIInv ==
    ASSUME IInv, NEW d \in Slots, NEW t \in TempoTransaction,
           tx' = [tx EXCEPT ![d] = t],
           grants \subseteq grants',
           grants' \subseteq Grants,
           Traceable(t, grants')
    PROVE  IInv'
  <1>1. TypeOK'
    BY DEF IInv, TypeOK
  <1>2. Provenance'
    <2> SUFFICES ASSUME NEW s \in Slots, tx'[s] # None
                 PROVE  Traceable(tx'[s], grants')
      BY DEF Provenance
    <2>1. CASE s = d
      BY <2>1 DEF IInv, TypeOK
    <2>2. CASE s # d
      <3>1. tx'[s] = tx[s]
        BY <2>2 DEF IInv, TypeOK
      <3>2. Traceable(tx[s], grants)
        BY <3>1 DEF IInv, Provenance
      <3>3. QED
        BY <3>1, <3>2, TraceableMonotone
    <2>3. QED
      BY <2>1, <2>2
  <1>3. QED
    BY <1>1, <1>2 DEF IInv

\* The transaction an operation starts from.
LEMMA HeldTransaction ==
    ASSUME IInv, NEW s \in Slots, tx[s] # None
    PROVE  /\ tx[s] \in TempoTransaction
           /\ Traceable(tx[s], grants)
  BY DEF IInv, TypeOK, Provenance

LEMMA BuildIInv ==
    ASSUME IInv, NEW s \in Slots, Build(s)
    PROVE  IInv'
  <1>1. PICK body \in Bodies, feeToken \in Tokens \cup {None}, awaiting \in BOOLEAN :
          tx' = [tx EXCEPT ![s] = NewTransaction(body, feeToken, awaiting)]
    BY DEF Build
  <1>2. NewTransaction(body, feeToken, awaiting) \in TempoTransaction
    BY DEF NewTransaction, TempoTransaction
  <1>3. Traceable(NewTransaction(body, feeToken, awaiting), grants')
    BY DEF NewTransaction, Traceable, SenderSigGranted, FeeSigGranted,
           KeyAuthCanonical, EnvelopeCanonical
  <1>4. grants' = grants /\ grants \subseteq Grants
    BY DEF Build, IInv, TypeOK
  <1>5. QED
    BY <1>1, <1>2, <1>3, <1>4, PutIInv

\* Dropping signatures, or changing a field that is not one, needs no new grant.
LEMMA EditIInv ==
    ASSUME IInv, NEW s \in Slots, NEW d \in Slots,
           \/ Clone(s, d)
           \/ \E feeToken \in Tokens \cup {None} : SetFeeToken(s, d, feeToken)
           \/ \E awaiting \in BOOLEAN \cup {None} : SetAwaiting(s, d, awaiting)
           \/ \E body \in Bodies : SetBody(s, d, body)
    PROVE  IInv'
  <1> DEFINE Edited(t) ==
        /\ tx' = [tx EXCEPT ![d] = t]
        /\ t.keyAuth = tx[s].keyAuth
        /\ t.senderSig \in {None, tx[s].senderSig}
        /\ t.feeSig \in {None, tx[s].feeSig}
  <1>1. tx[s] # None /\ grants' = grants /\ grants \subseteq Grants
    BY DEF Clone, SetFeeToken, SetAwaiting, SetBody, IInv, TypeOK
  <1>2. tx[s] \in TempoTransaction /\ Traceable(tx[s], grants)
    BY <1>1, HeldTransaction
  <1>3. \E t \in TempoTransaction : Edited(t)
    <2>1. CASE Clone(s, d)
      <3> DEFINE t == [tx[s] EXCEPT !.senderSig = None, !.feeSig = None]
      <3>1. t \in TempoTransaction /\ Edited(t)
        BY <1>2, <2>1 DEF Clone, TempoTransaction
      <3>2. QED
        BY <3>1
    <2>2. ASSUME NEW feeToken \in Tokens \cup {None}, SetFeeToken(s, d, feeToken)
          PROVE  \E t \in TempoTransaction : Edited(t)
      <3> DEFINE t == [tx[s] EXCEPT !.feeToken = feeToken]
      <3>1. t \in TempoTransaction /\ Edited(t)
        BY <1>2, <2>2 DEF SetFeeToken, TempoTransaction
      <3>2. QED
        BY <3>1
    <2>3. ASSUME NEW awaiting \in BOOLEAN \cup {None}, SetAwaiting(s, d, awaiting)
          PROVE  \E t \in TempoTransaction : Edited(t)
      <3> DEFINE t == [tx[s] EXCEPT !.awaiting =
                         IF awaiting = None THEN @ ELSE awaiting]
      <3>1. t \in TempoTransaction /\ Edited(t)
        BY <1>2, <2>3 DEF SetAwaiting, TempoTransaction
      <3>2. QED
        BY <3>1
    <2>4. ASSUME NEW body \in Bodies, SetBody(s, d, body)
          PROVE  \E t \in TempoTransaction : Edited(t)
      <3> DEFINE t == [tx[s] EXCEPT !.body = body]
      <3>1. t \in TempoTransaction /\ Edited(t)
        BY <1>2, <2>4 DEF SetBody, TempoTransaction
      <3>2. QED
        BY <3>1
    <2>5. QED
      BY <2>1, <2>2, <2>3, <2>4
  <1>4. PICK t \in TempoTransaction : Edited(t)
    BY <1>3
  <1>5. Traceable(t, grants)
    BY <1>2, <1>4 DEF Traceable, SenderSigGranted, FeeSigGranted,
       KeyAuthCanonical, EnvelopeCanonical
  <1>6. QED
    BY <1>1, <1>4, <1>5, PutIInv

LEMMA SignIInv ==
    ASSUME IInv, NEW s \in Slots, NEW d \in Slots, NEW k \in Keys,
           SignTransaction(s, d, k)
    PROVE  IInv'
  <1> DEFINE payload == GetSignPayload(tx[s])
             sig == BareSig(SignerSign(k, payload))
             t == [tx[s] EXCEPT !.senderSig = sig, !.sender = k]
             g == Grant(k, "sender", k, Unsigned(tx[s]))
  <1>1. tx[s] \in TempoTransaction /\ Traceable(tx[s], grants)
    BY HeldTransaction DEF SignTransaction
  <1>2. k \in Addresses /\ payload \in SenderPayloads
    BY <1>1, SignPayloadType DEF Addresses
  <1>3. sig \in SenderSigs /\ sig.user = None /\ sig.over = payload /\ sig.key = k
    BY <1>2 DEF BareSig, SignerSign, SenderSigs
  <1>4. /\ t \in TempoTransaction
        /\ t.senderSig = sig
        /\ t.feeSig = tx[s].feeSig
        /\ t.keyAuth = tx[s].keyAuth
    <2> HIDE DEF sig
    <2>1. QED
      BY <1>1, <1>2, <1>3 DEF TempoTransaction
  <1>5. /\ g \in Grants /\ g.by = k /\ g.role = "sender" /\ g.account = k
        /\ g.tx \in TempoTransaction
    BY <1>1, <1>2, UnsignedType DEF Grant, Grants, Roles
  <1>6. SignedBy(g) = payload
    BY <1>1, UnsignedPayload DEF SignedBy, Grant
  <1>7. grants' = grants \cup {g} /\ tx' = [tx EXCEPT ![d] = t]
    BY DEF SignTransaction, Record
  <1>8. grants' \subseteq Grants /\ grants \subseteq grants' /\ g \in grants'
    BY <1>5, <1>7 DEF IInv, TypeOK
  <1> HIDE DEF payload, sig, t, g
  <1>9. Traceable(t, grants')
    <2>1. SenderSigGranted(t, grants')
      BY <1>3, <1>4, <1>5, <1>6, <1>8 DEF SenderSigGranted
    <2>2. FeeSigGranted(t, grants') /\ KeyAuthCanonical(t)
      BY <1>1, <1>4, <1>8 DEF Traceable, FeeSigGranted, KeyAuthCanonical
    <2>3. EnvelopeCanonical(t)
      BY <1>3, <1>4 DEF EnvelopeCanonical
    <2>4. QED
      BY <2>1, <2>2, <2>3 DEF Traceable
  <1>10. QED
    BY <1>4, <1>7, <1>8, <1>9, PutIInv

LEMMA SponsorIInv ==
    ASSUME IInv, NEW s \in Slots, NEW d \in Slots, NEW k \in Keys,
           AddFeePayerSignature(s, d, k)
    PROVE  IInv'
  <1> DEFINE sender == tx[s].sender
             payload == GetFeePayerSignPayload(tx[s], sender)
             sig == SignerSign(k, payload)
             t == [tx[s] EXCEPT !.feeSig = sig]
             g == Grant(k, "feePayer", sender, Unsigned(tx[s]))
  <1>1. tx[s] \in TempoTransaction /\ Traceable(tx[s], grants)
    BY HeldTransaction DEF AddFeePayerSignature
  <1>2. sender \in Addresses
    BY <1>1 DEF AddFeePayerSignature, TempoTransaction
  <1>3. k \in Addresses /\ payload \in FeePayerPayloads
    BY <1>1, <1>2, FeePayerPayloadType DEF Addresses
  <1>4. sig \in FeePayerSigs /\ sig.over = payload /\ sig.key = k
    BY <1>3 DEF SignerSign, FeePayerSigs, Signatures
  <1>5. /\ t \in TempoTransaction
        /\ t.senderSig = tx[s].senderSig
        /\ t.feeSig = sig
        /\ t.keyAuth = tx[s].keyAuth
    <2> HIDE DEF sig
    <2>1. QED
      BY <1>1, <1>4 DEF TempoTransaction
  <1>6. /\ g \in Grants /\ g.by = k /\ g.role = "feePayer"
        /\ g.tx \in TempoTransaction
    BY <1>1, <1>2, <1>3, UnsignedType DEF Grant, Grants, Roles
  <1>7. SignedBy(g) = payload
    BY <1>1, UnsignedPayload DEF SignedBy, Grant
  <1>8. grants' = grants \cup {g} /\ tx' = [tx EXCEPT ![d] = t]
    BY DEF AddFeePayerSignature, Record
  <1>9. grants' \subseteq Grants /\ grants \subseteq grants' /\ g \in grants'
    BY <1>6, <1>8 DEF IInv, TypeOK
  <1> HIDE DEF payload, sig, t, g
  <1>10. Traceable(t, grants')
    <2>1. FeeSigGranted(t, grants')
      BY <1>4, <1>5, <1>6, <1>7, <1>9 DEF FeeSigGranted
    <2>2. /\ SenderSigGranted(t, grants')
          /\ KeyAuthCanonical(t) /\ EnvelopeCanonical(t)
      BY <1>1, <1>5, <1>9
         DEF Traceable, SenderSigGranted, KeyAuthCanonical, EnvelopeCanonical
    <2>3. QED
      BY <2>1, <2>2 DEF Traceable
  <1>11. QED
    BY <1>5, <1>8, <1>9, <1>10, PutIInv

\* What both keychain operations do last: u, which holds the key authorization,
\* gets the access key's signature for the root account.
LEMMA KeychainIInv ==
    ASSUME IInv, NEW d \in Slots, NEW u \in TempoTransaction,
           NEW access \in Addresses, NEW root \in Addresses,
           NEW G, G \subseteq Grants, grants \subseteq G,
           FeeSigGranted(u, G), KeyAuthCanonical(u),
           tx' = [tx EXCEPT ![d] =
             [u EXCEPT !.senderSig =
                 KeychainFromInner(
                   SignerSign(access, SigningHash(GetSignPayload(u), root)), root),
                       !.sender = root]],
           grants' = G \cup {Grant(access, "keychain", root, Unsigned(u))}
    PROVE  IInv'
  <1> DEFINE hash == SigningHash(GetSignPayload(u), root)
             sig == KeychainFromInner(SignerSign(access, hash), root)
             t == [u EXCEPT !.senderSig = sig, !.sender = root]
             g == Grant(access, "keychain", root, Unsigned(u))
  <1>1. hash \in KeychainPayloads
    BY SigningHashType
  <1>2. /\ sig \in SenderSigs
        /\ sig.user = root /\ sig.over = hash /\ sig.key = access /\ sig.v # "raw"
    BY <1>1 DEF KeychainFromInner, SignerSign, Canonical, SenderSigs
  <1>3. /\ t \in TempoTransaction
        /\ t.senderSig = sig
        /\ t.feeSig = u.feeSig
        /\ t.keyAuth = u.keyAuth
    <2> HIDE DEF sig
    <2>1. QED
      BY <1>2 DEF TempoTransaction
  <1>4. /\ g \in Grants /\ g.by = access /\ g.role = "keychain" /\ g.account = root
        /\ g.tx \in TempoTransaction
    BY UnsignedType DEF Grant, Grants, Roles
  <1>5. SignedBy(g) = hash
    BY UnsignedPayload DEF SignedBy, Grant
  <1>6. grants' \subseteq Grants /\ grants \subseteq grants' /\ g \in grants' /\ G \subseteq grants'
    BY <1>4
  <1>7. root # None
    BY DistinctValues
  <1>8. tx' = [tx EXCEPT ![d] = t]
    OBVIOUS
  <1> HIDE DEF hash, sig, t, g
  <1>9. Traceable(t, grants')
    <2>1. SenderSigGranted(t, grants')
      BY <1>2, <1>3, <1>4, <1>5, <1>6, <1>7 DEF SenderSigGranted
    <2>2. FeeSigGranted(t, grants') /\ KeyAuthCanonical(t)
      BY <1>3, <1>6 DEF FeeSigGranted, KeyAuthCanonical
    <2>3. EnvelopeCanonical(t)
      BY <1>2, <1>3 DEF EnvelopeCanonical
    <2>4. QED
      BY <2>1, <2>2, <2>3 DEF Traceable
  <1>10. QED
    BY <1>3, <1>6, <1>8, <1>9, PutIInv

LEMMA RegisteredKeyIInv ==
    ASSUME IInv, NEW s \in Slots, NEW d \in Slots,
           NEW access \in Addresses, NEW root \in Roots,
           SignTxRegisteredKey(s, d, access, root)
    PROVE  IInv'
  <1>1. tx[s] \in TempoTransaction /\ Traceable(tx[s], grants)
    BY HeldTransaction DEF SignTxRegisteredKey
  <1>2. root \in Addresses /\ grants \subseteq Grants
    BY DistinctValues DEF Addresses, IInv, TypeOK
  <1>3. QED
    BY <1>1, <1>2, KeychainIInv DEF SignTxRegisteredKey, Record, Traceable

LEMMA AccessKeyIInv ==
    ASSUME IInv, NEW s \in Slots, NEW d \in Slots, NEW access \in Keys,
           NEW root \in Roots, NEW keyId \in Addresses,
           SignTxAccessKey(s, d, access, root, keyId)
    PROVE  IInv'
  <1> DEFINE auth == [keyId |-> keyId, account |-> root]
             rootSig == Canonical(SignerSign(root, auth))
             signedAuth == [auth |-> auth, sig |-> rootSig]
             u == [tx[s] EXCEPT !.keyAuth = signedAuth]
             g == Grant(root, "root", keyId, None)
             G == grants \cup {g}
  <1>1. tx[s] \in TempoTransaction /\ Traceable(tx[s], grants)
    BY HeldTransaction DEF SignTxAccessKey
  <1>2. root \in Keys /\ root \in Addresses /\ access \in Addresses
    BY DistinctValues DEF Addresses
  <1>3. auth \in Auths
    BY <1>2 DEF Auths
  <1>4. rootSig \in Signatures(Auths) /\ rootSig.v = "canonical"
    BY <1>2, <1>3 DEF SignerSign, Canonical, Signatures
  <1>5. signedAuth \in SignedAuths /\ signedAuth.sig = rootSig
    BY <1>3, <1>4 DEF SignedAuths
  <1>6. /\ u \in TempoTransaction
        /\ u.feeSig = tx[s].feeSig
        /\ u.keyAuth = signedAuth
    <2> HIDE DEF signedAuth
    <2>1. QED
      BY <1>1, <1>5 DEF TempoTransaction
  <1>7. g \in Grants
    BY <1>2 DEF Grant, Grants, Roles
  <1>8. G \subseteq Grants /\ grants \subseteq G
    BY <1>7 DEF IInv, TypeOK
  <1>9. FeeSigGranted(u, G) /\ KeyAuthCanonical(u)
    BY <1>1, <1>4, <1>5, <1>6, <1>8 DEF Traceable, FeeSigGranted, KeyAuthCanonical
  <1>10. /\ grants' = G \cup {Grant(access, "keychain", root, Unsigned(u))}
         /\ tx' = [tx EXCEPT ![d] =
              [u EXCEPT !.senderSig =
                  KeychainFromInner(
                    SignerSign(access, SigningHash(GetSignPayload(u), root)), root),
                        !.sender = root]]
    BY DEF SignTxAccessKey, Record
  <1> HIDE DEF auth, rootSig, signedAuth, u, g, G
  <1>11. QED
    BY <1>2, <1>6, <1>8, <1>9, <1>10, KeychainIInv

LEMMA NextIInv == IInv /\ [Next]_vars => IInv'
  <1> SUFFICES ASSUME IInv, [Next]_vars
               PROVE  IInv'
    OBVIOUS
  <1>1. ASSUME NEW s \in Slots, Build(s)
        PROVE  IInv'
    BY <1>1, BuildIInv
  <1>2. ASSUME NEW s \in Slots, NEW d \in Slots, Step(s, d)
        PROVE  IInv'
    <2>1. ASSUME NEW k \in Keys, SignTransaction(s, d, k)
          PROVE  IInv'
      BY <2>1, SignIInv
    <2>2. ASSUME NEW k \in Keys, AddFeePayerSignature(s, d, k)
          PROVE  IInv'
      BY <2>2, SponsorIInv
    <2>3. ASSUME NEW access \in Keys, NEW root \in Roots, NEW keyId \in Addresses,
                 SignTxAccessKey(s, d, access, root, keyId)
          PROVE  IInv'
      BY <2>3, AccessKeyIInv
    <2>4. ASSUME NEW access \in Addresses, NEW root \in Roots,
                 SignTxRegisteredKey(s, d, access, root)
          PROVE  IInv'
      BY <2>4, RegisteredKeyIInv
    <2>5. CASE \/ Clone(s, d)
               \/ \E feeToken \in Tokens \cup {None} : SetFeeToken(s, d, feeToken)
               \/ \E awaiting \in BOOLEAN \cup {None} : SetAwaiting(s, d, awaiting)
               \/ \E body \in Bodies : SetBody(s, d, body)
      BY <2>5, EditIInv
    <2>6. QED
      BY <1>2, <2>1, <2>2, <2>3, <2>4, <2>5 DEF Step
  <1>3. CASE UNCHANGED vars
    BY <1>3 DEF vars, IInv, TypeOK, Provenance
  <1>4. QED
    BY <1>1, <1>2, <1>3 DEF Next

LEMMA SpecIInv == Spec => []IInv
  BY InitIInv, NextIInv, PTL DEF Spec

-----------------------------------------------------------------------------
(* The theorems *)

\* Every slot always holds a well-formed transaction (or none): signatures are
\* attached only in the field, and over the kind of payload, they belong to.
THEOREM TypeCorrect == Spec => []TypeOK
  BY SpecIInv, PTL DEF IInv

\* The payload a fee payer signs determines the body, the key authorization, the
\* fee token and the sender it was computed from.
LEMMA FeePayerPayloadBinds ==
    ASSUME NEW t, NEW u, NEW a, NEW b,
           GetFeePayerSignPayload(t, a) = GetFeePayerSignPayload(u, b)
    PROVE  /\ t.body = u.body
           /\ t.keyAuth = u.keyAuth
           /\ t.feeToken = u.feeToken
           /\ a = b
  <1>1. [BuildFields(t, FALSE, TRUE) EXCEPT !.feePayer = a]
          = [BuildFields(u, FALSE, TRUE) EXCEPT !.feePayer = b]
    BY DEF GetFeePayerSignPayload, SerializeForFeePayerSigning
  <1>2. QED
    BY <1>1 DEF BuildFields, EncodeFeeToken

LEMMA ProvenanceGivesFeePayer == IInv => FeePayerAuthentic
  <1> SUFFICES ASSUME IInv, NEW s \in Slots, NEW sender \in Addresses,
                      tx[s] # None,
                      VerifyFeePayerSignature(tx[s], sender) \in Addresses
               PROVE  \E g \in grants :
                        /\ g.by = VerifyFeePayerSignature(tx[s], sender)
                        /\ g.role = "feePayer" /\ g.account = sender
                        /\ SameContent(g, tx[s])
                        /\ g.tx.feeToken = tx[s].feeToken
    BY DEF FeePayerAuthentic
  <1>1. tx[s] \in TempoTransaction /\ Traceable(tx[s], grants)
    BY HeldTransaction
  <1>2. /\ tx[s].feeSig # None
        /\ tx[s].feeSig.over = GetFeePayerSignPayload(tx[s], sender)
        /\ VerifyFeePayerSignature(tx[s], sender) = tx[s].feeSig.key
    BY DistinctValues DEF VerifyFeePayerSignature, RecoverAddress
  <1>3. PICK g \in grants : /\ g.by = tx[s].feeSig.key
                            /\ g.role = "feePayer"
                            /\ tx[s].feeSig.over = SignedBy(g)
    BY <1>1, <1>2 DEF Traceable, FeeSigGranted
  <1>4. SignedBy(g) = GetFeePayerSignPayload(g.tx, g.account)
    BY <1>3 DEF SignedBy
  <1>5. GetFeePayerSignPayload(g.tx, g.account) = GetFeePayerSignPayload(tx[s], sender)
    BY <1>2, <1>3, <1>4
  <1>6. /\ g.tx.body = tx[s].body
        /\ g.tx.keyAuth = tx[s].keyAuth
        /\ g.tx.feeToken = tx[s].feeToken
        /\ g.account = sender
    BY <1>5, FeePayerPayloadBinds
  <1>7. QED
    BY <1>2, <1>3, <1>6 DEF SameContent

\* A key that sponsors a transaction does so by its own signature over that
\* content, token and sender, however many parties, copies and signatures.
THEOREM FeePayerAuthenticity == Spec => []FeePayerAuthentic
  BY SpecIInv, ProvenanceGivesFeePayer, PTL

\* A canonical root signature survives the node's re-encoding.
LEMMA ReencodeKeepsKeyAuth ==
    ASSUME NEW t \in TempoTransaction, KeyAuthCanonical(t)
    PROVE  LET f == NodeReencode(Serialize(t).fields)
           IN  /\ f.body = t.body
               /\ f.feeToken = t.feeToken
               /\ f.feePayer = EncodeFeePayerField(t)
               /\ f.keyAuth = t.keyAuth
               /\ f.envelope = IF t.senderSig = None THEN None
                               ELSE Canonical(t.senderSig)
               /\ f = [body |-> f.body, feeToken |-> f.feeToken,
                       feePayer |-> f.feePayer, keyAuth |-> f.keyAuth,
                       envelope |-> f.envelope]
  <1> DEFINE w == Serialize(t).fields
             f == NodeReencode(w)
  <1>1. w = [body |-> t.body, feeToken |-> t.feeToken,
             feePayer |-> EncodeFeePayerField(t),
             keyAuth |-> t.keyAuth, envelope |-> t.senderSig]
    BY DEF Serialize, BuildFields, EncodeFeeToken
  <1>2. t.keyAuth # None => CanonicalAuth(t.keyAuth) = t.keyAuth
    <2> SUFFICES ASSUME t.keyAuth # None
                 PROVE  CanonicalAuth(t.keyAuth) = t.keyAuth
      OBVIOUS
    <2>1. t.keyAuth \in SignedAuths /\ t.keyAuth.sig.v = "canonical"
      BY DEF TempoTransaction, KeyAuthCanonical
    <2>2. t.keyAuth.sig \in Signatures(Auths)
      BY <2>1 DEF SignedAuths
    <2>3. Canonical(t.keyAuth.sig) = t.keyAuth.sig
      BY <2>1, <2>2 DEF Canonical, Signatures
    <2>4. QED
      BY <2>1, <2>3 DEF SignedAuths, CanonicalAuth
  <1>3. w.keyAuth = t.keyAuth /\ w.envelope = t.senderSig
    BY <1>1
  <1>4. f = [w EXCEPT !.keyAuth = t.keyAuth,
                      !.envelope = IF t.senderSig = None THEN None
                                   ELSE Canonical(t.senderSig)]
    <2> HIDE DEF w
    <2>1. f = [w EXCEPT
                 !.keyAuth = IF w.keyAuth = None THEN w.keyAuth
                             ELSE CanonicalAuth(w.keyAuth),
                 !.envelope = IF w.envelope = None THEN w.envelope
                              ELSE Canonical(w.envelope)]
      BY DEF NodeReencode
    <2>2. QED
      BY <1>2, <1>3, <2>1
  <1>5. f = [body |-> t.body, feeToken |-> t.feeToken,
             feePayer |-> EncodeFeePayerField(t), keyAuth |-> t.keyAuth,
             envelope |-> IF t.senderSig = None THEN None
                          ELSE Canonical(t.senderSig)]
    <2> HIDE DEF f, w
    <2>1. QED
      BY <1>1, <1>4
  <1>6. QED
    BY <1>5

\* The payload against which a node checks the sender determines the content,
\* and the fee token too unless the signer left it open.
LEMMA SenderPayloadBinds ==
    ASSUME NEW t \in TempoTransaction, NEW u \in TempoTransaction,
           KeyAuthCanonical(t),
           GetSignPayload(u) = NodeSenderPayload(Serialize(t))
    PROVE  /\ u.body = t.body
           /\ u.keyAuth = t.keyAuth
           /\ u.awaiting \/ u.feeToken = t.feeToken
  <1> DEFINE f == NodeReencode(Serialize(t).fields)
             sponsored == NodeSponsored(Serialize(t))
  <1>1. BuildFields(u, u.awaiting \/ u.feeSig # None, TRUE)
          = [f EXCEPT !.feeToken = IF sponsored THEN None ELSE @,
                      !.feePayer = IF sponsored THEN Marker ELSE None,
                      !.envelope = None]
    BY DEF GetSignPayload, SerializeForSigning, NodeSenderPayload
  <1>2. /\ f.body = t.body /\ f.keyAuth = t.keyAuth /\ f.feeToken = t.feeToken
        /\ f = [body |-> f.body, feeToken |-> f.feeToken, feePayer |-> f.feePayer,
                keyAuth |-> f.keyAuth, envelope |-> f.envelope]
    BY ReencodeKeepsKeyAuth
  <1> HIDE DEF f, sponsored
  <1>3. /\ u.body = f.body
        /\ u.keyAuth = f.keyAuth
        /\ EncodeFeePayerField(u) = IF sponsored THEN Marker ELSE None
        /\ EncodeFeeToken(u, u.awaiting \/ u.feeSig # None)
             = IF sponsored THEN None ELSE f.feeToken
    BY <1>1, <1>2 DEF BuildFields
  <1>4. u.feeSig = None
    <2>1. u.feeSig # None => EncodeFeePayerField(u) \in RlpLists
      BY DEF EncodeFeePayerField, ToRlpList, RlpLists, TempoTransaction,
             FeePayerSigs, Signatures
    <2>2. QED
      BY <1>3, <2>1, DistinctValues
  <1>5. ~u.awaiting => ~sponsored
    BY <1>3, <1>4, DistinctValues DEF EncodeFeePayerField
  <1>6. QED
    BY <1>2, <1>3, <1>4, <1>5 DEF EncodeFeeToken, TempoTransaction

LEMMA ProvenanceGivesSender == IInv => SenderAuthentic
  <1> SUFFICES ASSUME IInv, NEW s \in Slots,
                      tx[s] # None, tx[s].senderSig # None,
                      NodeSigningKey(Serialize(tx[s])) \in Addresses
               PROVE  \E g \in grants :
                        /\ g.by = NodeSigningKey(Serialize(tx[s]))
                        /\ g.role = IF tx[s].senderSig.user = None
                                    THEN "sender" ELSE "keychain"
                        /\ g.account = NodeSender(Serialize(tx[s]))
                        /\ SameContent(g, tx[s])
                        /\ g.tx.awaiting \/ g.tx.feeToken = tx[s].feeToken
    BY DEF SenderAuthentic
  <1> DEFINE sig == tx[s].senderSig
             wire == Serialize(tx[s])
             payload == NodeSenderPayload(wire)
  <1>1. /\ tx[s] \in TempoTransaction
        /\ SenderSigGranted(tx[s], grants) /\ KeyAuthCanonical(tx[s])
    BY HeldTransaction DEF Traceable
  <1>2. wire.fields.envelope = sig
    BY DEF Serialize, BuildFields
  <1> HIDE DEF wire
  <1>3. /\ NodeSigningKey(wire) = sig.key
        /\ NodeSender(wire) = IF sig.user = None THEN sig.key ELSE sig.user
        /\ sig.over = IF sig.user = None THEN payload
                      ELSE SigningHash(payload, sig.user)
    <2>1. NodeSigningKey(wire) # Garbage
      BY DistinctValues DEF wire
    <2>2. QED
      BY <1>2, <2>1 DEF NodeSigningKey, NodeSender, RecoverAddress
  <1>4. PICK g \in grants :
          /\ g.tx \in TempoTransaction
          /\ g.by = sig.key
          /\ sig.over = SignedBy(g)
          /\ \/ sig.user = None /\ g.role = "sender" /\ g.account = g.by
             \/ sig.user # None /\ g.role = "keychain" /\ g.account = sig.user
    BY <1>1 DEF SenderSigGranted
  <1>5. GetSignPayload(g.tx) = payload
    <2>1. CASE sig.user = None
      BY <1>3, <1>4, <2>1 DEF SignedBy
    <2>2. CASE sig.user # None
      <3>1. SigningHash(GetSignPayload(g.tx), g.account) = SigningHash(payload, sig.user)
        BY <1>3, <1>4, <2>2 DEF SignedBy
      <3>2. QED
        BY <3>1 DEF SigningHash
    <2>3. QED
      BY <2>1, <2>2
  <1>6. /\ g.tx.body = tx[s].body
        /\ g.tx.keyAuth = tx[s].keyAuth
        /\ g.tx.awaiting \/ g.tx.feeToken = tx[s].feeToken
    BY <1>1, <1>4, <1>5, SenderPayloadBinds DEF wire
  <1>7. QED
    BY <1>3, <1>4, <1>6 DEF SameContent, wire

\* A transaction runs on behalf of an account only with the signature, over that
\* content, of the account's own key or of an access key that signed for it;
\* the fee token is the signed one unless the signer awaited a fee payer.
THEOREM SenderAuthenticity == Spec => []SenderAuthentic
  BY SpecIInv, ProvenanceGivesSender, PTL
=============================================================================

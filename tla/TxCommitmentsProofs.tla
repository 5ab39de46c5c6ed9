------------------------- MODULE TxCommitmentsProofs -------------------------
(***************************************************************************)
(* TxSigning implements Sponsorship, and a node accepts what was promised, *)
(* for every value of the constants.  The payload under a signature is the *)
(* one its grant was shown (Provenance), and such a payload holds, field by*)
(* field, the promise that Sponsorship records.                            *)
(***************************************************************************)
EXTENDS TxCommitments, TxAcceptanceProofs

-----------------------------------------------------------------------------
(* Promises and the payloads they are read off *)

\* What the fee token field of a sender's payload holds.
SignedToken(t) ==
    IF t.awaiting \/ t.feeSig # None THEN None ELSE t.feeToken

\* The payment a sender's payload stands for is decided by the transaction.
LEMMA PaymentOfField ==
    ASSUME NEW t \in TempoTransaction
    PROVE  Payment(EncodeFeePayerField(t)) =
             IF t.feeSig # None THEN "void"
             ELSE IF t.awaiting THEN "any" ELSE "own"
  <1>1. t.feeSig # None => EncodeFeePayerField(t) \in RlpLists
    BY SponsoredOnTheWire
  <1>2. t.feeSig = None =>
          EncodeFeePayerField(t) = IF t.awaiting THEN Marker ELSE None
    BY DEF EncodeFeePayerField
  <1>3. QED
    BY <1>1, <1>2, DistinctValues DEF Payment

\* The payload that a sender's signature, bare or keychain, is about.
Inner(sig) == IF sig.user = None THEN sig.over ELSE sig.over.hash

LEMMA SenderPromiseIs ==
    ASSUME NEW sig, NEW t \in TempoTransaction, Inner(sig) = GetSignPayload(t)
    PROVE  SenderPromiseOf(sig) =
             [by      |-> sig.key,
              account |-> IF sig.user = None THEN sig.key ELSE sig.user,
              terms   |-> TermsOf(t.body, t.keyAuth),
              token   |-> SignedToken(t),
              pays    |-> IF t.feeSig # None THEN "void"
                          ELSE IF t.awaiting THEN "any" ELSE "own"]
  <1> DEFINE fields == Inner(sig).fields
  <1>1. fields = FieldsOf(t.body, SignedToken(t), EncodeFeePayerField(t), t.keyAuth)
    BY SignPayloadIs DEF SignedToken
  <1>2. /\ fields.body = t.body
        /\ fields.feeToken = SignedToken(t)
        /\ fields.keyAuth = t.keyAuth
        /\ fields.feePayer = EncodeFeePayerField(t)
    BY <1>1 DEF FieldsOf
  <1>3. SenderPromiseOf(sig) =
          [by      |-> sig.key,
           account |-> IF sig.user = None THEN sig.key ELSE sig.user,
           terms   |-> TermsOf(fields.body, fields.keyAuth),
           token   |-> fields.feeToken,
           pays    |-> Payment(fields.feePayer)]
    BY DEF SenderPromiseOf, Inner
  <1> HIDE DEF fields
  <1>4. QED
    BY <1>2, <1>3, PaymentOfField

LEMMA PayerPromiseIs ==
    ASSUME NEW sig, NEW t, NEW a, sig.over = GetFeePayerSignPayload(t, a)
    PROVE  PayerPromiseOf(sig) =
             [by |-> sig.key, account |-> a,
              terms |-> TermsOf(t.body, t.keyAuth), token |-> t.feeToken]
  <1> DEFINE fields == sig.over.fields
  <1>1. fields = FieldsOf(t.body, t.feeToken, a, t.keyAuth)
    BY FeePayerPayloadIs
  <1>2. /\ fields.body = t.body
        /\ fields.feeToken = t.feeToken
        /\ fields.keyAuth = t.keyAuth
        /\ fields.feePayer = a
    BY <1>1 DEF FieldsOf
  <1>3. PayerPromiseOf(sig) =
          [by |-> sig.key, account |-> fields.feePayer,
           terms |-> TermsOf(fields.body, fields.keyAuth),
           token |-> fields.feeToken]
    BY DEF PayerPromiseOf
  <1> HIDE DEF fields
  <1>4. QED
    BY <1>2, <1>3

\* What Provenance says of the sender's signature, in terms of its payload.
LEMMA SenderSigShown ==
    ASSUME NEW t \in TempoTransaction, NEW G \in SUBSET Grants,
           SenderSigGranted(t, G), t.senderSig # None
    PROVE  \E u \in TempoTransaction :
             /\ Inner(t.senderSig) = GetSignPayload(u)
             /\ t.senderSig.over =
                  IF t.senderSig.user = None THEN GetSignPayload(u)
                  ELSE SigningHash(GetSignPayload(u), t.senderSig.user)
  <1> DEFINE sig == t.senderSig
  <1>1. PICK g \in G :
          /\ g.tx \in TempoTransaction
          /\ sig.over = SignedBy(g)
          /\ \/ sig.user = None /\ g.role = "sender"
             \/ sig.user # None /\ g.role = "keychain" /\ g.account = sig.user
    BY DEF SenderSigGranted
  <1>2. sig.over = IF sig.user = None THEN GetSignPayload(g.tx)
                   ELSE SigningHash(GetSignPayload(g.tx), sig.user)
    BY <1>1, SenderSigns, KeychainSigns
  <1>3. Inner(sig) = GetSignPayload(g.tx)
    BY <1>2 DEF Inner, SigningHash
  <1>4. QED
    BY <1>1, <1>2, <1>3

LEMMA FeeSigShown ==
    ASSUME NEW t \in TempoTransaction, NEW G \in SUBSET Grants,
           FeeSigGranted(t, G), t.feeSig # None
    PROVE  \E u \in TempoTransaction, a \in Addresses :
             t.feeSig.over = GetFeePayerSignPayload(u, a)
  <1>1. PICK g \in G : /\ g.tx \in TempoTransaction
                       /\ g.role = "feePayer"
                       /\ t.feeSig.over = SignedBy(g)
    BY DEF FeeSigGranted
  <1>2. g.account \in Addresses
    BY DEF Grants
  <1>3. QED
    BY <1>1, <1>2, FeePayerSigns

-----------------------------------------------------------------------------
(* Deals *)

TermsSet == [body: Bodies, keyAuth: SignedAuths \cup {None}]

LEMMA TermsType ==
    ASSUME NEW t \in TempoTransaction
    PROVE  TermsOf(t.body, t.keyAuth) \in TermsSet
  BY DEF TermsOf, TermsSet, TempoTransaction

LEMMA TermsInjective ==
    ASSUME NEW b, NEW k, NEW c, NEW l
    PROVE  TermsOf(b, k) = TermsOf(c, l) <=> b = c /\ k = l
  BY DEF TermsOf

LEMMA SenderPromiseType ==
    ASSUME NEW t \in TempoTransaction, NEW G \in SUBSET Grants,
           SenderSigGranted(t, G), t.senderSig # None
    PROVE  SenderPromiseOf(t.senderSig) \in Promises!SenderPromises
  <1> DEFINE sig == t.senderSig
  <1>1. PICK u \in TempoTransaction : Inner(sig) = GetSignPayload(u)
    BY SenderSigShown
  <1>2. sig.key \in Addresses /\ sig.user \in Addresses \cup {None}
    BY DEF TempoTransaction, SenderSigs
  <1>3. SignedToken(u) \in Tokens \cup {None}
    BY DEF SignedToken, TempoTransaction
  <1>4. TermsOf(u.body, u.keyAuth) \in TermsSet
    BY TermsType
  <1> HIDE DEF sig
  <1>5. QED
    BY <1>1, <1>2, <1>3, <1>4, SenderPromiseIs
       DEF Promises!SenderPromises, Promises!Payments, TermsSet, sig

LEMMA PayerPromiseType ==
    ASSUME NEW t \in TempoTransaction, NEW G \in SUBSET Grants,
           FeeSigGranted(t, G), t.feeSig # None
    PROVE  PayerPromiseOf(t.feeSig) \in Promises!PayerPromises
  <1>1. PICK u \in TempoTransaction, a \in Addresses :
          t.feeSig.over = GetFeePayerSignPayload(u, a)
    BY FeeSigShown
  <1>2. t.feeSig.key \in Addresses
    BY DEF TempoTransaction, FeePayerSigs, Signatures
  <1>3. u.feeToken \in Tokens \cup {None}
    BY DEF TempoTransaction
  <1>4. TermsOf(u.body, u.keyAuth) \in TermsSet
    BY TermsType
  <1>5. QED
    BY <1>1, <1>2, <1>3, <1>4, PayerPromiseIs
       DEF Promises!PayerPromises, TermsSet

\* The fields of the deal a transaction stands for.
LEMMA DealIs ==
    ASSUME NEW t \in TempoTransaction, NEW G \in SUBSET Grants,
           SenderSigGranted(t, G), FeeSigGranted(t, G)
    PROVE  /\ DealOf(t) =
                [terms  |-> TermsOf(t.body, t.keyAuth),
                 token  |-> t.feeToken,
                 open   |-> t.awaiting,
                 named  |-> t.sender,
                 sender |-> DealOf(t).sender,
                 payer  |-> DealOf(t).payer]
           /\ DealOf(t).sender = IF t.senderSig = None THEN None
                                 ELSE SenderPromiseOf(t.senderSig)
           /\ DealOf(t).payer = IF t.feeSig = None THEN None
                                ELSE PayerPromiseOf(t.feeSig)
           /\ DealOf(t).sender = None <=> t.senderSig = None
           /\ DealOf(t).payer = None <=> t.feeSig = None
           /\ DealOf(t) \in Promises!Deals
           /\ DealOf(t) # None
  <1>1. t # None
    BY NoneIsAbsence
  <1>2. /\ DealOf(t) =
             [terms  |-> TermsOf(t.body, t.keyAuth),
              token  |-> t.feeToken,
              open   |-> t.awaiting,
              named  |-> t.sender,
              sender |-> DealOf(t).sender,
              payer  |-> DealOf(t).payer]
        /\ DealOf(t).sender = IF t.senderSig = None THEN None
                              ELSE SenderPromiseOf(t.senderSig)
        /\ DealOf(t).payer = IF t.feeSig = None THEN None
                             ELSE PayerPromiseOf(t.feeSig)
    BY <1>1 DEF DealOf
  <1>3. t.senderSig # None =>
          SenderPromiseOf(t.senderSig) \in Promises!SenderPromises
    BY SenderPromiseType
  <1>4. t.feeSig # None => PayerPromiseOf(t.feeSig) \in Promises!PayerPromises
    BY PayerPromiseType
  <1>5. /\ DealOf(t).sender = None <=> t.senderSig = None
        /\ DealOf(t).payer = None <=> t.feeSig = None
    BY <1>2, <1>3, <1>4, NoneIsNoDeal
  <1>6. DealOf(t) \in Promises!Deals
    <2>1. /\ DealOf(t).sender \in Promises!SenderPromises \cup {None}
          /\ DealOf(t).payer \in Promises!PayerPromises \cup {None}
      BY <1>2, <1>3, <1>4
    <2>2. TermsOf(t.body, t.keyAuth) \in TermsSet
      BY TermsType
    <2>3. /\ t.feeToken \in Tokens \cup {None}
          /\ t.awaiting \in BOOLEAN
          /\ t.sender \in Addresses \cup {None}
      BY DEF TempoTransaction
    <2> DEFINE d == DealOf(t)
               terms == TermsOf(t.body, t.keyAuth)
    <2>4. d = [terms |-> terms, token |-> t.feeToken, open |-> t.awaiting,
               named |-> t.sender, sender |-> d.sender, payer |-> d.payer]
      BY <1>2
    <2>5. /\ d.sender \in Promises!SenderPromises \cup {None}
          /\ d.payer \in Promises!PayerPromises \cup {None}
          /\ terms \in TermsSet
      BY <2>1, <2>2
    <2> HIDE DEF d, terms
    <2>6. d \in Promises!Deals
      BY <2>3, <2>4, <2>5 DEF Promises!Deals, TermsSet
    <2>7. QED
      BY <2>6 DEF d
  <1>7. DealOf(t) # None
    BY <1>6, NoneIsNoDeal
  <1>8. QED
    BY <1>2, <1>5, <1>6, <1>7

-----------------------------------------------------------------------------
(* What the node accepts *)

\* The node finds the sender's key exactly while the payload it computes is the
\* one the signature was made over.
LEMMA NodeKeyFound ==
    ASSUME NEW t \in TempoTransaction, t.senderSig # None,
           NEW u \in TempoTransaction,
           t.senderSig.over = IF t.senderSig.user = None THEN GetSignPayload(u)
                              ELSE SigningHash(GetSignPayload(u), t.senderSig.user)
    PROVE  NodeSigningKey(Serialize(t)) # Garbage
             <=> GetSignPayload(u) = NodeSenderPayload(Serialize(t))
  <1>1. t.senderSig.key # Garbage
    BY DistinctValues DEF TempoTransaction, SenderSigs
  <1>2. \A p, q, a : SigningHash(p, a) = SigningHash(q, a) <=> p = q
    BY DEF SigningHash
  <1>3. QED
    BY <1>1, <1>2, NodeSigningKeyIs

LEMMA SenderBoundIffAccepted ==
    ASSUME NEW t \in TempoTransaction, NEW G \in SUBSET Grants, Traceable(t, G),
           t.senderSig # None
    PROVE  NodeSigningKey(Serialize(t)) # Garbage
             <=> Promises!SenderBound(DealOf(t))
  <1> DEFINE sig == t.senderSig
             d == DealOf(t)
             sponsored == t.feeSig # None
  <1>1. PICK u \in TempoTransaction :
          /\ Inner(sig) = GetSignPayload(u)
          /\ sig.over = IF sig.user = None THEN GetSignPayload(u)
                        ELSE SigningHash(GetSignPayload(u), sig.user)
    BY SenderSigShown DEF Traceable
  <1>2. NodeSigningKey(Serialize(t)) # Garbage
          <=> GetSignPayload(u) = NodeSenderPayload(Serialize(t))
    BY <1>1, NodeKeyFound
  <1>3. GetSignPayload(u) = NodeSenderPayload(Serialize(t)) <=>
          /\ u.body = t.body /\ u.keyAuth = t.keyAuth
          /\ SignedToken(u) = IF sponsored THEN None ELSE t.feeToken
          /\ EncodeFeePayerField(u) = IF sponsored THEN Marker ELSE None
    <2>1. GetSignPayload(u) =
            [magic |-> "0x76",
             fields |-> FieldsOf(u.body, SignedToken(u), EncodeFeePayerField(u),
                                 u.keyAuth)]
      BY SignPayloadIs DEF SignedToken
    <2>2. NodeSenderPayload(Serialize(t)) =
            [magic |-> "0x76",
             fields |-> FieldsOf(t.body, IF sponsored THEN None ELSE t.feeToken,
                                 IF sponsored THEN Marker ELSE None, t.keyAuth)]
      BY NodeSenderPayloadIs DEF Traceable
    <2> HIDE DEF sponsored
    <2>3. QED
      BY <2>1, <2>2 DEF FieldsOf
  <1>4. EncodeFeePayerField(u) = (IF sponsored THEN Marker ELSE None)
          <=> u.feeSig = None /\ (u.awaiting <=> sponsored)
    <2>1. u.feeSig # None => EncodeFeePayerField(u) \in RlpLists
      BY SponsoredOnTheWire
    <2>2. u.feeSig = None =>
            EncodeFeePayerField(u) = IF u.awaiting THEN Marker ELSE None
      BY DEF EncodeFeePayerField
    <2>3. QED
      BY <2>1, <2>2, DistinctValues
  <1>5. /\ d.terms = TermsOf(t.body, t.keyAuth)
        /\ d.token = t.feeToken
        /\ d.payer # None <=> sponsored
        /\ d.sender # None
        /\ d.sender = SenderPromiseOf(sig)
    BY DealIs DEF Traceable
  <1>6. /\ d.sender.terms = TermsOf(u.body, u.keyAuth)
        /\ d.sender.token = SignedToken(u)
        /\ d.sender.pays = IF u.feeSig # None THEN "void"
                           ELSE IF u.awaiting THEN "any" ELSE "own"
    BY <1>1, <1>5, SenderPromiseIs
  <1> HIDE DEF d
  <1>7. Promises!SenderBound(d) <=>
          /\ u.body = t.body /\ u.keyAuth = t.keyAuth
          /\ u.feeSig = None
          /\ \/ ~u.awaiting /\ ~sponsored /\ SignedToken(u) = t.feeToken
             \/ u.awaiting /\ sponsored
    BY <1>5, <1>6, TermsInjective DEF Promises!SenderBound
  <1>8. u.awaiting => SignedToken(u) = None
    BY DEF SignedToken
  <1>9. QED
    BY <1>2, <1>3, <1>4, <1>7, <1>8 DEF d

LEMMA PayerBoundIffAccepted ==
    ASSUME NEW t \in TempoTransaction, NEW G \in SUBSET Grants, Traceable(t, G),
           NEW account \in Addresses
    PROVE  (NodeSponsored(Serialize(t)) /\ NodeFeePayer(Serialize(t), account) # Garbage)
             <=> Promises!PayerBound(DealOf(t), account)
  <1>1. CASE t.feeSig = None
    <2>1. DealOf(t).payer = None
      BY <1>1, DealIs DEF Traceable
    <2>2. ~NodeSponsored(Serialize(t))
      BY <1>1, SponsoredOnTheWire
    <2>3. QED
      BY <2>1, <2>2 DEF Promises!PayerBound
  <1>2. CASE t.feeSig # None
    <2> DEFINE d == DealOf(t)
    <2>1. PICK u \in TempoTransaction, a \in Addresses :
            t.feeSig.over = GetFeePayerSignPayload(u, a)
      BY <1>2, FeeSigShown DEF Traceable
    <2>2. NodeSponsored(Serialize(t))
      BY <1>2, SponsoredOnTheWire
    <2>3. t.feeSig.key # Garbage
      BY <1>2, DistinctValues DEF TempoTransaction, FeePayerSigs, Signatures
    <2>4. NodeFeePayer(Serialize(t), account) # Garbage
            <=> t.feeSig.over = GetFeePayerSignPayload(t, account)
      BY <1>2, <2>3, NodeFeePayerAgrees
         DEF VerifyFeePayerSignature, RecoverAddress, Traceable
    <2>5. GetFeePayerSignPayload(u, a) = GetFeePayerSignPayload(t, account) <=>
            /\ u.body = t.body /\ u.keyAuth = t.keyAuth
            /\ u.feeToken = t.feeToken /\ a = account
      BY FeePayerPayloadIs, FeePayerPayloadBinds
    <2>6. /\ d.terms = TermsOf(t.body, t.keyAuth)
          /\ d.token = t.feeToken
          /\ d.payer # None
          /\ d.payer = PayerPromiseOf(t.feeSig)
      BY <1>2, DealIs DEF Traceable
    <2>7. /\ d.payer.terms = TermsOf(u.body, u.keyAuth)
          /\ d.payer.token = u.feeToken
          /\ d.payer.account = a
      BY <2>1, <2>6, PayerPromiseIs
    <2> HIDE DEF d
    <2>8. Promises!PayerBound(d, account) <=>
            /\ u.body = t.body /\ u.keyAuth = t.keyAuth
            /\ u.feeToken = t.feeToken /\ a = account
      BY <2>6, <2>7, TermsInjective DEF Promises!PayerBound
    <2>9. QED
      BY <2>1, <2>2, <2>4, <2>5, <2>8 DEF d
  <1>3. QED
    BY <1>1, <1>2

LEMMA ProvenanceGivesAccepted == IInv => AcceptedIffPromised
  <1> SUFFICES ASSUME IInv, NEW s \in Slots, tx[s] # None, tx[s].senderSig # None
               PROVE  LET wire == Serialize(tx[s])
                      IN  /\ (NodeSigningKey(wire) # Garbage) <=>
                                Promises!SenderBound(DealOf(tx[s]))
                          /\ \A account \in Addresses :
                               (NodeSponsored(wire) /\ NodeFeePayer(wire, account) # Garbage)
                                  <=> Promises!PayerBound(DealOf(tx[s]), account)
    BY DEF AcceptedIffPromised
  <1>1. tx[s] \in TempoTransaction /\ Traceable(tx[s], grants)
    BY HeldTransaction
  <1>2. grants \in SUBSET Grants
    BY DEF IInv, TypeOK
  <1>3. QED
    BY <1>1, <1>2, SenderBoundIffAccepted, PayerBoundIffAccepted

\* A node takes a transaction for its sender's, and charges its fee payer,
\* exactly while what they promised is what the transaction is.
THEOREM AcceptanceIsPromise == Spec => []AcceptedIffPromised
  BY SpecIInv, ProvenanceGivesAccepted, PTL

-----------------------------------------------------------------------------
(* The refinement: what each operation does to the deals *)

Deal(terms, token, open, named, sender, payer) ==
    [terms |-> terms, token |-> token, open |-> open, named |-> named,
     sender |-> sender, payer |-> payer]

WithSender(d, x, n) == [d EXCEPT !.sender = x, !.named = n]
WithTerms(d, c) == [d EXCEPT !.terms = c]
WithPayer(d, y) == [d EXCEPT !.payer = y]
Without(d) == [d EXCEPT !.sender = None, !.payer = None]
With(d, c, f, o) == [d EXCEPT !.terms = c, !.token = f, !.open = o]

LEMMA DealChanges ==
    \A c, f, o, n, x, y, c2, f2, o2, n2, x2, y2 :
      /\ WithSender(Deal(c, f, o, n, x, y), x2, n2) = Deal(c, f, o, n2, x2, y)
      /\ WithTerms(Deal(c, f, o, n, x, y), c2) = Deal(c2, f, o, n, x, y)
      /\ WithPayer(Deal(c, f, o, n, x, y), y2) = Deal(c, f, o, n, x, y2)
      /\ Without(Deal(c, f, o, n, x, y)) = Deal(c, f, o, n, None, None)
      /\ With(Deal(c, f, o, n, x, y), c2, f2, o2) = Deal(c2, f2, o2, n, x, y)
  <1> SUFFICES ASSUME NEW c, NEW f, NEW o, NEW n, NEW x, NEW y,
                      NEW c2, NEW f2, NEW o2, NEW n2, NEW x2, NEW y2
               PROVE  /\ WithSender(Deal(c, f, o, n, x, y), x2, n2)
                           = Deal(c, f, o, n2, x2, y)
                      /\ WithTerms(Deal(c, f, o, n, x, y), c2)
                           = Deal(c2, f, o, n, x, y)
                      /\ WithPayer(Deal(c, f, o, n, x, y), y2)
                           = Deal(c, f, o, n, x, y2)
                      /\ Without(Deal(c, f, o, n, x, y))
                           = Deal(c, f, o, n, None, None)
                      /\ With(Deal(c, f, o, n, x, y), c2, f2, o2)
                           = Deal(c2, f2, o2, n, x, y)
    OBVIOUS
  <1>1. WithSender(Deal(c, f, o, n, x, y), x2, n2) = Deal(c, f, o, n2, x2, y)
    <2>1. [Deal(c, f, o, n, x, y) EXCEPT !.sender = x2] = Deal(c, f, o, n, x2, y)
      BY DEF Deal
    <2>2. [Deal(c, f, o, n, x2, y) EXCEPT !.named = n2] = Deal(c, f, o, n2, x2, y)
      BY DEF Deal
    <2>3. QED
      BY <2>1, <2>2 DEF WithSender
  <1>2. WithTerms(Deal(c, f, o, n, x, y), c2) = Deal(c2, f, o, n, x, y)
    BY DEF WithTerms, Deal
  <1>3. WithPayer(Deal(c, f, o, n, x, y), y2) = Deal(c, f, o, n, x, y2)
    BY DEF WithPayer, Deal
  <1>4. Without(Deal(c, f, o, n, x, y)) = Deal(c, f, o, n, None, None)
    <2>1. [Deal(c, f, o, n, x, y) EXCEPT !.sender = None]
            = Deal(c, f, o, n, None, y)
      BY DEF Deal
    <2>2. [Deal(c, f, o, n, None, y) EXCEPT !.payer = None]
            = Deal(c, f, o, n, None, None)
      BY DEF Deal
    <2>3. QED
      BY <2>1, <2>2 DEF Without
  <1>5. With(Deal(c, f, o, n, x, y), c2, f2, o2) = Deal(c2, f2, o2, n, x, y)
    <2>1. [Deal(c, f, o, n, x, y) EXCEPT !.terms = c2] = Deal(c2, f, o, n, x, y)
      BY DEF Deal
    <2>2. [Deal(c2, f, o, n, x, y) EXCEPT !.token = f2] = Deal(c2, f2, o, n, x, y)
      BY DEF Deal
    <2>3. [Deal(c2, f2, o, n, x, y) EXCEPT !.open = o2] = Deal(c2, f2, o2, n, x, y)
      BY DEF Deal
    <2>4. QED
      BY <2>1, <2>2, <2>3 DEF With
  <1>6. QED
    BY <1>1, <1>2, <1>3, <1>4, <1>5

\* Two transactions with the same fields stand for the same deal.
LEMMA DealByFields ==
    ASSUME NEW t \in TempoTransaction, NEW G \in SUBSET Grants,
           SenderSigGranted(t, G), FeeSigGranted(t, G)
    PROVE  /\ DealOf(t) = Deal(TermsOf(t.body, t.keyAuth), t.feeToken, t.awaiting,
                               t.sender, DealOf(t).sender, DealOf(t).payer)
           /\ DealOf(t).terms = TermsOf(t.body, t.keyAuth)
           /\ DealOf(t).token = t.feeToken
           /\ DealOf(t).open = t.awaiting
           /\ DealOf(t).named = t.sender
  BY DealIs DEF Deal

\* A signature made for the sender promises the transaction as it is.
LEMMA SenderPromisedIs ==
    ASSUME NEW t \in TempoTransaction, NEW G \in SUBSET Grants,
           SenderSigGranted(t, G), FeeSigGranted(t, G),
           NEW u \in TempoTransaction, NEW H \in SUBSET Grants,
           SenderSigGranted(u, H), FeeSigGranted(u, H),
           u.body = t.body, u.keyAuth = t.keyAuth, u.feeToken = t.feeToken,
           u.awaiting = t.awaiting, u.feeSig = t.feeSig,
           u.senderSig # None, Inner(u.senderSig) = GetSignPayload(t),
           NEW by, NEW account, u.senderSig.key = by, u.sender = account,
           account = IF u.senderSig.user = None THEN by ELSE u.senderSig.user
    PROVE  Promises!SenderPromised(DealOf(t), DealOf(u), by, account)
  <1> DEFINE from == DealOf(t)
             to == DealOf(u)
             promise == Promises!SenderPromise(from, by, account)
  <1>1. to.sender = promise
    <2>1. /\ from.payer # None <=> t.feeSig # None
          /\ from.terms = TermsOf(t.body, t.keyAuth)
          /\ from.token = t.feeToken
          /\ from.open = t.awaiting
      BY DealIs, DealByFields
    <2>2. to.sender = SenderPromiseOf(u.senderSig)
      BY DealIs
    <2> HIDE DEF from, to
    <2>3. Promises!PaymentOf(from) = IF t.feeSig # None THEN "void"
                                     ELSE IF t.awaiting THEN "any" ELSE "own"
      BY <2>1 DEF Promises!PaymentOf
    <2>4. (IF Promises!PaymentOf(from) = "own" THEN from.token ELSE None)
            = SignedToken(t)
      BY <2>1, <2>3 DEF SignedToken
    <2>5. promise = [by |-> by, account |-> account,
                     terms |-> TermsOf(t.body, t.keyAuth), token |-> SignedToken(t),
                     pays |-> IF t.feeSig # None THEN "void"
                              ELSE IF t.awaiting THEN "any" ELSE "own"]
      BY <2>1, <2>3, <2>4 DEF Promises!SenderPromise
    <2>6. QED
      BY <2>2, <2>5, SenderPromiseIs
  <1>2. from = Deal(from.terms, from.token, from.open, from.named,
                    from.sender, from.payer)
    BY DealByFields
  <1>3. to = Deal(from.terms, from.token, from.open, account, promise, from.payer)
    <2>1. to.payer = from.payer
      BY DealIs
    <2>2. QED
      BY <1>1, <2>1, DealByFields
  <1> HIDE DEF from, to, promise
  <1>4. to = WithSender(from, promise, account)
    BY <1>2, <1>3, DealChanges
  <1>5. QED
    BY <1>4, Zenon DEF WithSender, Promises!SenderPromised, from, to, promise

LEMMA HeldDeal ==
    ASSUME IInv, NEW s \in Slots, tx[s] # None
    PROVE  /\ tx[s] \in TempoTransaction
           /\ SenderSigGranted(tx[s], grants) /\ FeeSigGranted(tx[s], grants)
           /\ KeyAuthCanonical(tx[s])
           /\ grants \in SUBSET Grants
           /\ DealOf(tx[s]) # None
  <1>1. /\ tx[s] \in TempoTransaction
        /\ SenderSigGranted(tx[s], grants) /\ FeeSigGranted(tx[s], grants)
        /\ KeyAuthCanonical(tx[s])
        /\ grants \in SUBSET Grants
    BY HeldTransaction DEF Traceable, IInv, TypeOK
  <1>2. QED
    BY <1>1, DealIs

\* The transaction an operation has left in a slot.
LEMMA WrittenTransaction ==
    ASSUME IInv, IInv', NEW d \in Slots, NEW u, tx' = [tx EXCEPT ![d] = u], u # None
    PROVE  /\ tx'[d] = u
           /\ u \in TempoTransaction
           /\ SenderSigGranted(u, grants') /\ FeeSigGranted(u, grants')
           /\ grants' \in SUBSET Grants
  BY DEF IInv, TypeOK, Provenance, Traceable

\* Writing a transaction into a slot writes its deal into the mapped slot.
LEMMA WriteDeal ==
    ASSUME IInv, IInv', NEW d \in Slots, NEW u \in TempoTransaction,
           tx' = [tx EXCEPT ![d] = u],
           \/ tx[d] = None /\ Promises!Drafted(DealOf(u))
           \/ \E s \in Slots :
                tx[s] # None /\ Promises!Becomes(DealOf(tx[s]), DealOf(u))
    PROVE  Promises!Next
  <1> DEFINE deal == [s \in Slots |-> DealOf(tx[s])]
  <1>1. u # None
    BY NoneIsAbsence
  <1>2. DealOf(u) # None
    BY <1>1, WrittenTransaction, DealIs
  <1>3. /\ tx'[d] = u
        /\ \A s \in Slots : s # d => tx'[s] = tx[s]
    BY DEF IInv, TypeOK
  <1>4. deal'[d] = DealOf(u)
    BY <1>3
  <1>5. deal' = [deal EXCEPT ![d] = deal'[d]]
    <2>1. /\ deal = [s \in Slots |-> deal[s]]
          /\ deal' = [s \in Slots |-> deal'[s]]
          /\ \A s \in Slots : s # d => deal'[s] = deal[s]
      BY <1>3
    <2> HIDE DEF deal
    <2>2. QED
      BY <2>1
  <1>6. tx[d] = None => deal[d] = None
    BY DEF DealOf
  <1>7. \A s \in Slots : tx[s] # None => deal[s] = DealOf(tx[s]) /\ deal[s] # None
    BY HeldDeal
  <1> HIDE DEF deal
  <1>8. \/ deal[d] = None /\ Promises!Drafted(deal'[d])
        \/ \E s \in Slots : deal[s] # None /\ Promises!Becomes(deal[s], deal'[d])
    BY <1>4, <1>6, <1>7
  <1>9. deal'[d] # None
    BY <1>2, <1>4
  <1>10. \E e \in Slots :
           /\ deal'[e] # None
           /\ deal' = [deal EXCEPT ![e] = deal'[e]]
           /\ \/ deal[e] = None /\ Promises!Drafted(deal'[e])
              \/ \E s \in Slots : deal[s] # None /\ Promises!Becomes(deal[s], deal'[e])
    BY <1>5, <1>8, <1>9
  <1>11. QED
    BY <1>10, Zenon DEF Promises!Next, deal

LEMMA BuildDrafts ==
    ASSUME IInv, IInv', NEW s \in Slots, Build(s)
    PROVE  Promises!Next
  <1>1. PICK body \in Bodies, feeToken \in Tokens \cup {None}, awaiting \in BOOLEAN :
          tx' = [tx EXCEPT ![s] = NewTransaction(body, feeToken, awaiting)]
    BY DEF Build
  <1> DEFINE u == NewTransaction(body, feeToken, awaiting)
  <1>2. u \in TempoTransaction /\ u.senderSig = None /\ u.feeSig = None /\ u.sender = None
    BY DEF NewTransaction, TempoTransaction
  <1> HIDE DEF u
  <1>3. SenderSigGranted(u, {}) /\ FeeSigGranted(u, {}) /\ {} \in SUBSET Grants
    BY <1>2 DEF SenderSigGranted, FeeSigGranted
  <1>4. Promises!Drafted(DealOf(u))
    BY <1>2, <1>3, DealIs, DealByFields DEF Promises!Drafted
  <1>5. tx[s] = None /\ tx' = [tx EXCEPT ![s] = u]
    BY <1>1 DEF Build, u
  <1>6. QED
    BY <1>2, <1>4, <1>5, WriteDeal

LEMMA SignPromises ==
    ASSUME IInv, IInv', NEW s \in Slots, NEW d \in Slots, NEW k \in Keys,
           SignTransaction(s, d, k)
    PROVE  Promises!Next
  <1> DEFINE t == tx[s]
             sig == BareSig(SignerSign(k, GetSignPayload(t)))
             u == [t EXCEPT !.senderSig = sig, !.sender = k]
  <1>1. /\ t # None /\ tx' = [tx EXCEPT ![d] = u]
    BY DEF SignTransaction
  <1>2. /\ t \in TempoTransaction
        /\ SenderSigGranted(t, grants) /\ FeeSigGranted(t, grants)
        /\ grants \in SUBSET Grants
    BY <1>1, HeldDeal
  <1>3. k \in Addresses /\ GetSignPayload(t) \in SenderPayloads
    BY <1>2, SignPayloadType DEF Addresses
  <1>4. sig.user = None /\ Inner(sig) = GetSignPayload(t) /\ sig.key = k
    BY DEF BareSig, SignerSign, Inner
  <1>5. sig \in SenderSigs
    BY <1>3 DEF BareSig, SignerSign, SenderSigs
  <1>6. /\ u.body = t.body /\ u.keyAuth = t.keyAuth /\ u.feeToken = t.feeToken
        /\ u.awaiting = t.awaiting /\ u.feeSig = t.feeSig
        /\ u.senderSig = sig /\ u.sender = k
        /\ u \in TempoTransaction
    <2> HIDE DEF sig
    <2>1. QED
      BY <1>2, <1>3, <1>5 DEF TempoTransaction
  <1> HIDE DEF u, sig
  <1>7. /\ SenderSigGranted(u, grants') /\ FeeSigGranted(u, grants')
        /\ grants' \in SUBSET Grants
    BY <1>1, <1>6, NoneIsAbsence, WrittenTransaction
  <1>8. u.senderSig # None
    BY <1>5, <1>6, NoneIsAbsence
  <1>9. Promises!SenderPromised(DealOf(t), DealOf(u), k, k)
    BY <1>2, <1>4, <1>6, <1>7, <1>8, SenderPromisedIs
  <1>10. Promises!Becomes(DealOf(t), DealOf(u))
    BY <1>3, <1>9, Zenon DEF Promises!Becomes
  <1>11. QED
    BY <1>1, <1>6, <1>10, WriteDeal

LEMMA SponsorPromises ==
    ASSUME IInv, IInv', NEW s \in Slots, NEW d \in Slots, NEW k \in Keys,
           AddFeePayerSignature(s, d, k)
    PROVE  Promises!Next
  <1> DEFINE t == tx[s]
             sig == SignerSign(k, GetFeePayerSignPayload(t, t.sender))
             u == [t EXCEPT !.feeSig = sig]
             from == DealOf(t)
             to == DealOf(u)
             promise == Promises!PayerPromise(from, k)
  <1>1. /\ t # None /\ t.senderSig # None /\ t.sender # None
        /\ tx' = [tx EXCEPT ![d] = u]
    BY DEF AddFeePayerSignature
  <1>2. /\ t \in TempoTransaction
        /\ SenderSigGranted(t, grants) /\ FeeSigGranted(t, grants)
        /\ grants \in SUBSET Grants
    BY <1>1, HeldDeal
  <1>3. t.sender \in Addresses /\ k \in Addresses
    BY <1>1, <1>2 DEF TempoTransaction, Addresses
  <1>4. GetFeePayerSignPayload(t, t.sender) \in FeePayerPayloads
    BY <1>2, <1>3, FeePayerPayloadType
  <1>5. /\ sig \in FeePayerSigs
        /\ sig.over = GetFeePayerSignPayload(t, t.sender) /\ sig.key = k
    BY <1>3, <1>4 DEF SignerSign, FeePayerSigs, Signatures
  <1>6. /\ u.body = t.body /\ u.keyAuth = t.keyAuth /\ u.feeToken = t.feeToken
        /\ u.awaiting = t.awaiting /\ u.senderSig = t.senderSig
        /\ u.feeSig = sig /\ u.sender = t.sender
        /\ u \in TempoTransaction
    <2> HIDE DEF sig
    <2>1. QED
      BY <1>2, <1>5 DEF TempoTransaction
  <1> HIDE DEF u, sig
  <1>7. /\ SenderSigGranted(u, grants') /\ FeeSigGranted(u, grants')
        /\ grants' \in SUBSET Grants
    BY <1>1, <1>6, NoneIsAbsence, WrittenTransaction
  <1>8. u.feeSig # None
    BY <1>5, <1>6, NoneIsAbsence
  <1>9. /\ from.terms = TermsOf(t.body, t.keyAuth) /\ from.token = t.feeToken
        /\ from.named = t.sender /\ from.sender # None
        /\ from = Deal(from.terms, from.token, from.open, from.named,
                       from.sender, from.payer)
    BY <1>1, <1>2, DealIs, DealByFields
  <1>10. to = Deal(from.terms, from.token, from.open, from.named,
                   from.sender, to.payer)
    <2>1. to.sender = from.sender
      BY <1>2, <1>6, <1>7, DealIs
    <2>2. QED
      BY <1>2, <1>6, <1>7, <2>1, DealByFields
  <1>11. to.payer = promise
    <2>1. to.payer = PayerPromiseOf(sig)
      BY <1>6, <1>7, <1>8, DealIs
    <2>2. PayerPromiseOf(sig) =
            [by |-> k, account |-> t.sender,
             terms |-> TermsOf(t.body, t.keyAuth), token |-> t.feeToken]
      BY <1>5, PayerPromiseIs
    <2> HIDE DEF from, to
    <2>3. promise = [by |-> k, account |-> t.sender,
                     terms |-> TermsOf(t.body, t.keyAuth), token |-> t.feeToken]
      BY <1>9 DEF Promises!PayerPromise
    <2>4. QED
      BY <2>1, <2>2, <2>3
  <1> HIDE DEF from, to, promise
  <1>12. to = WithPayer(from, promise)
    BY <1>9, <1>10, <1>11, DealChanges
  <1>13. from.sender # None /\ from.named # None
    BY <1>1, <1>9
  <1>14. Promises!PayerPromised(from, to, k)
    BY <1>12, <1>13, Zenon DEF WithPayer, Promises!PayerPromised, promise
  <1>15. Promises!Becomes(from, to)
    BY <1>3, <1>14, Zenon DEF Promises!Becomes
  <1>16. QED
    BY <1>1, <1>6, <1>15, WriteDeal DEF from, to

\* Another access key joins the terms, and promises what they then are.
LEMMA AccessKeyPromises ==
    ASSUME IInv, IInv', NEW s \in Slots, NEW d \in Slots, NEW access \in Keys,
           NEW root \in Roots, NEW keyId \in Addresses,
           SignTxAccessKey(s, d, access, root, keyId)
    PROVE  Promises!Next
  <1> DEFINE t == tx[s]
             auth == [keyId |-> keyId, account |-> root]
             rootSig == Canonical(SignerSign(root, auth))
             signedAuth == [auth |-> auth, sig |-> rootSig]
             v == [t EXCEPT !.keyAuth = signedAuth]
             sig == KeychainFromInner(
                      SignerSign(access, SigningHash(GetSignPayload(v), root)), root)
             u == [v EXCEPT !.senderSig = sig, !.sender = root]
             from == DealOf(t)
             to == DealOf(u)
  <1>1. /\ t # None /\ tx' = [tx EXCEPT ![d] = u]
    BY DEF SignTxAccessKey
  <1>2. /\ t \in TempoTransaction
        /\ SenderSigGranted(t, grants) /\ FeeSigGranted(t, grants)
        /\ grants \in SUBSET Grants
    BY <1>1, HeldDeal
  <1>3. root \in Addresses /\ access \in Addresses /\ root # None
    BY DistinctValues DEF Addresses
  <1>4. signedAuth \in SignedAuths
    <2>1. auth \in Auths
      BY <1>3 DEF Auths
    <2>2. rootSig \in Signatures(Auths)
      BY <1>3, <2>1 DEF SignerSign, Canonical, Signatures
    <2>3. QED
      BY <2>1, <2>2 DEF SignedAuths
  <1>5. /\ v.body = t.body /\ v.keyAuth = signedAuth /\ v.feeToken = t.feeToken
        /\ v.awaiting = t.awaiting /\ v.senderSig = t.senderSig
        /\ v.feeSig = t.feeSig /\ v.sender = t.sender
        /\ v \in TempoTransaction
    <2> HIDE DEF signedAuth
    <2>1. QED
      BY <1>2, <1>4 DEF TempoTransaction
  <1> HIDE DEF v, signedAuth
  <1>6. SenderSigGranted(v, grants) /\ FeeSigGranted(v, grants)
    BY <1>2, <1>5 DEF SenderSigGranted, FeeSigGranted
  <1>7. SigningHash(GetSignPayload(v), root) \in KeychainPayloads
    BY <1>3, <1>5, SigningHashType
  <1>8. /\ sig.user = root /\ sig.key = access
        /\ sig.over = SigningHash(GetSignPayload(v), root)
    BY DEF KeychainFromInner, SignerSign
  <1>9. sig \in SenderSigs /\ Inner(sig) = GetSignPayload(v)
    <2>1. Inner(sig) = GetSignPayload(v)
      BY <1>3, <1>8 DEF Inner, SigningHash
    <2>2. sig \in SenderSigs
      BY <1>3, <1>7 DEF KeychainFromInner, SignerSign, Canonical, SenderSigs
    <2>3. QED
      BY <2>1, <2>2
  <1>10. /\ u.body = v.body /\ u.keyAuth = v.keyAuth /\ u.feeToken = v.feeToken
         /\ u.awaiting = v.awaiting /\ u.feeSig = v.feeSig
         /\ u.senderSig = sig /\ u.sender = root
         /\ u \in TempoTransaction
    <2> HIDE DEF sig
    <2>1. QED
      BY <1>3, <1>5, <1>9 DEF TempoTransaction
  <1> HIDE DEF u, sig
  <1>11. /\ SenderSigGranted(u, grants') /\ FeeSigGranted(u, grants')
         /\ grants' \in SUBSET Grants
    BY <1>1, <1>10, NoneIsAbsence, WrittenTransaction
  <1>12. u.senderSig # None
    BY <1>9, <1>10, NoneIsAbsence
  <1>13. Promises!SenderPromised(DealOf(v), to, access, root)
    BY <1>2, <1>3, <1>5, <1>6, <1>8, <1>9, <1>10, <1>11, <1>12, SenderPromisedIs
  <1>14. /\ to.terms = TermsOf(v.body, v.keyAuth)
         /\ to.terms \in TermsSet
    BY <1>10, <1>11, DealByFields, TermsType
  <1>15. DealOf(v) = WithTerms(from, to.terms)
    <2>1. /\ DealOf(v).sender = from.sender /\ DealOf(v).payer = from.payer
      BY <1>2, <1>5, <1>6, DealIs
    <2>2. from = Deal(TermsOf(t.body, t.keyAuth), t.feeToken, t.awaiting, t.sender,
                      from.sender, from.payer)
      BY <1>2, DealByFields
    <2>3. DealOf(v) = Deal(to.terms, t.feeToken, t.awaiting, t.sender,
                           from.sender, from.payer)
      BY <1>2, <1>5, <1>6, <1>14, <2>1, DealByFields
    <2> HIDE DEF from, to
    <2>4. QED
      BY <2>2, <2>3, DealChanges
  <1> HIDE DEF from, to
  <1>16. Promises!SenderProvisioned(from, to, access, root)
    <2>1. Promises!SenderPromised(WithTerms(from, to.terms), to, access, root)
      BY <1>13, <1>15
    <2>2. QED
      BY <1>14, <2>1, Zenon DEF WithTerms, TermsSet, Promises!SenderProvisioned
  <1>17. Promises!Becomes(from, to)
    BY <1>3, <1>16, Zenon DEF Promises!Becomes
  <1>18. QED
    BY <1>1, <1>10, <1>17, WriteDeal DEF from, to

LEMMA RegisteredKeyPromises ==
    ASSUME IInv, IInv', NEW s \in Slots, NEW d \in Slots,
           NEW access \in Addresses, NEW root \in Roots,
           SignTxRegisteredKey(s, d, access, root)
    PROVE  Promises!Next
  <1> DEFINE t == tx[s]
             sig == KeychainFromInner(
                      SignerSign(access, SigningHash(GetSignPayload(t), root)), root)
             u == [t EXCEPT !.senderSig = sig, !.sender = root]
  <1>1. /\ t # None /\ tx' = [tx EXCEPT ![d] = u]
    BY DEF SignTxRegisteredKey
  <1>2. /\ t \in TempoTransaction
        /\ SenderSigGranted(t, grants) /\ FeeSigGranted(t, grants)
        /\ grants \in SUBSET Grants
    BY <1>1, HeldDeal
  <1>3. root \in Addresses /\ root # None
    BY DistinctValues DEF Addresses
  <1>4. SigningHash(GetSignPayload(t), root) \in KeychainPayloads
    BY <1>2, <1>3, SigningHashType
  <1>5. /\ sig.user = root /\ sig.key = access
        /\ sig.over = SigningHash(GetSignPayload(t), root)
    BY DEF KeychainFromInner, SignerSign
  <1>6. sig \in SenderSigs /\ Inner(sig) = GetSignPayload(t)
    <2>1. Inner(sig) = GetSignPayload(t)
      BY <1>3, <1>5 DEF Inner, SigningHash
    <2>2. sig \in SenderSigs
      BY <1>3, <1>4 DEF KeychainFromInner, SignerSign, Canonical, SenderSigs
    <2>3. QED
      BY <2>1, <2>2
  <1>7. /\ u.body = t.body /\ u.keyAuth = t.keyAuth /\ u.feeToken = t.feeToken
        /\ u.awaiting = t.awaiting /\ u.feeSig = t.feeSig
        /\ u.senderSig = sig /\ u.sender = root
        /\ u \in TempoTransaction
    <2> HIDE DEF sig
    <2>1. QED
      BY <1>2, <1>3, <1>6 DEF TempoTransaction
  <1> HIDE DEF u, sig
  <1>8. /\ SenderSigGranted(u, grants') /\ FeeSigGranted(u, grants')
        /\ grants' \in SUBSET Grants
    BY <1>1, <1>7, NoneIsAbsence, WrittenTransaction
  <1>9. u.senderSig # None
    BY <1>6, <1>7, NoneIsAbsence
  <1>10. Promises!SenderPromised(DealOf(t), DealOf(u), access, root)
    BY <1>2, <1>3, <1>5, <1>6, <1>7, <1>8, <1>9, SenderPromisedIs
  <1>11. Promises!Becomes(DealOf(t), DealOf(u))
    BY <1>3, <1>10, Zenon DEF Promises!Becomes
  <1>12. QED
    BY <1>1, <1>7, <1>11, WriteDeal

LEMMA CloneWithdraws ==
    ASSUME IInv, IInv', NEW s \in Slots, NEW d \in Slots, Clone(s, d)
    PROVE  Promises!Next
  <1> DEFINE t == tx[s]
             u == [t EXCEPT !.senderSig = None, !.feeSig = None]
             from == DealOf(t)
             to == DealOf(u)
  <1>1. t # None /\ tx' = [tx EXCEPT ![d] = u]
    BY DEF Clone
  <1>2. /\ t \in TempoTransaction
        /\ SenderSigGranted(t, grants) /\ FeeSigGranted(t, grants)
        /\ grants \in SUBSET Grants
    BY <1>1, HeldDeal
  <1>3. /\ u.body = t.body /\ u.keyAuth = t.keyAuth /\ u.feeToken = t.feeToken
        /\ u.awaiting = t.awaiting /\ u.sender = t.sender
        /\ u.senderSig = None /\ u.feeSig = None
        /\ u \in TempoTransaction
    BY <1>2 DEF TempoTransaction
  <1> HIDE DEF u
  <1>4. /\ SenderSigGranted(u, grants') /\ FeeSigGranted(u, grants')
        /\ grants' \in SUBSET Grants
    BY <1>1, <1>3, NoneIsAbsence, WrittenTransaction
  <1>5. from = Deal(TermsOf(t.body, t.keyAuth), t.feeToken, t.awaiting, t.sender,
                    from.sender, from.payer)
    BY <1>2, DealByFields
  <1>6. to = Deal(TermsOf(t.body, t.keyAuth), t.feeToken, t.awaiting, t.sender,
                  None, None)
    <2>1. to.sender = None /\ to.payer = None
      BY <1>3, <1>4, DealIs
    <2>2. QED
      BY <1>3, <1>4, <2>1, DealByFields
  <1> HIDE DEF from, to
  <1>7. to = Without(from)
    BY <1>5, <1>6, DealChanges
  <1>8. Promises!Becomes(from, to)
    BY <1>7, Zenon DEF Without, Promises!Withdrawn, Promises!Becomes
  <1>9. QED
    BY <1>1, <1>3, <1>8, WriteDeal DEF from, to

\* A change of the token, the openness or the body leaves the promises alone.
LEMMA EditAmends ==
    ASSUME IInv, IInv', NEW s \in Slots, NEW d \in Slots,
           \/ \E feeToken \in Tokens \cup {None} : SetFeeToken(s, d, feeToken)
           \/ \E awaiting \in BOOLEAN \cup {None} : SetAwaiting(s, d, awaiting)
           \/ \E body \in Bodies : SetBody(s, d, body)
    PROVE  Promises!Next
  <1> DEFINE t == tx[s]
             from == DealOf(t)
             Edited(u) == /\ tx' = [tx EXCEPT ![d] = u]
                          /\ u.keyAuth = t.keyAuth /\ u.sender = t.sender
                          /\ u.senderSig = t.senderSig /\ u.feeSig = t.feeSig
  <1>1. t # None
    BY DEF SetFeeToken, SetAwaiting, SetBody
  <1>2. /\ t \in TempoTransaction
        /\ SenderSigGranted(t, grants) /\ FeeSigGranted(t, grants)
        /\ grants \in SUBSET Grants
    BY <1>1, HeldDeal
  <1>3. \E u \in TempoTransaction : Edited(u)
    <2>1. ASSUME NEW feeToken \in Tokens \cup {None}, SetFeeToken(s, d, feeToken)
          PROVE  \E u \in TempoTransaction : Edited(u)
      <3> DEFINE u == [t EXCEPT !.feeToken = feeToken]
      <3>1. u \in TempoTransaction /\ Edited(u)
        BY <1>2, <2>1 DEF SetFeeToken, TempoTransaction
      <3>2. QED
        BY <3>1
    <2>2. ASSUME NEW awaiting \in BOOLEAN \cup {None}, SetAwaiting(s, d, awaiting)
          PROVE  \E u \in TempoTransaction : Edited(u)
      <3> DEFINE u == [t EXCEPT !.awaiting = IF awaiting = None THEN @ ELSE awaiting]
      <3>1. u \in TempoTransaction /\ Edited(u)
        BY <1>2, <2>2 DEF SetAwaiting, TempoTransaction
      <3>2. QED
        BY <3>1
    <2>3. ASSUME NEW body \in Bodies, SetBody(s, d, body)
          PROVE  \E u \in TempoTransaction : Edited(u)
      <3> DEFINE u == [t EXCEPT !.body = body]
      <3>1. u \in TempoTransaction /\ Edited(u)
        BY <1>2, <2>3 DEF SetBody, TempoTransaction
      <3>2. QED
        BY <3>1
    <2>4. QED
      BY <2>1, <2>2, <2>3
  <1>4. PICK u \in TempoTransaction : Edited(u)
    BY <1>3
  <1> DEFINE to == DealOf(u)
  <1>5. /\ SenderSigGranted(u, grants') /\ FeeSigGranted(u, grants')
        /\ grants' \in SUBSET Grants
    BY <1>4, NoneIsAbsence, WrittenTransaction
  <1>6. from = Deal(TermsOf(t.body, t.keyAuth), t.feeToken, t.awaiting, t.sender,
                    from.sender, from.payer)
    BY <1>2, DealByFields
  <1>7. /\ to = Deal(to.terms, to.token, to.open, t.sender, from.sender, from.payer)
        /\ to.terms \in TermsSet
        /\ to.token \in Tokens \cup {None}
        /\ to.open \in BOOLEAN
    <2>1. to.sender = from.sender /\ to.payer = from.payer
      BY <1>2, <1>4, <1>5, DealIs
    <2>2. u.feeToken \in Tokens \cup {None} /\ u.awaiting \in BOOLEAN
      BY DEF TempoTransaction
    <2>3. QED
      BY <1>4, <1>5, <2>1, <2>2, DealByFields, TermsType
  <1> HIDE DEF from, to
  <1>8. to = With(from, to.terms, to.token, to.open)
    BY <1>6, <1>7, DealChanges
  <1>9. Promises!Amended(from, to)
    BY <1>7, <1>8, Zenon DEF With, TermsSet, Promises!Amended
  <1>10. Promises!Becomes(from, to)
    BY <1>9, Zenon DEF Promises!Becomes
  <1>11. QED
    BY <1>1, <1>4, <1>10, WriteDeal DEF from, to

LEMMA StepRefines == IInv /\ IInv' /\ [Next]_vars =>
                       [Promises!Next]_([s \in Slots |-> DealOf(tx[s])])
  <1> SUFFICES ASSUME IInv, IInv', [Next]_vars
               PROVE  [Promises!Next]_([s \in Slots |-> DealOf(tx[s])])
    OBVIOUS
  <1>1. ASSUME NEW s \in Slots, Build(s)
        PROVE  Promises!Next
    BY <1>1, BuildDrafts
  <1>2. ASSUME NEW s \in Slots, NEW d \in Slots, Step(s, d)
        PROVE  Promises!Next
    <2>1. ASSUME NEW k \in Keys, SignTransaction(s, d, k)
          PROVE  Promises!Next
      BY <2>1, SignPromises
    <2>2. ASSUME NEW k \in Keys, AddFeePayerSignature(s, d, k)
          PROVE  Promises!Next
      BY <2>2, SponsorPromises
    <2>3. ASSUME NEW access \in Keys, NEW root \in Roots, NEW keyId \in Addresses,
                 SignTxAccessKey(s, d, access, root, keyId)
          PROVE  Promises!Next
      BY <2>3, AccessKeyPromises
    <2>4. ASSUME NEW access \in Addresses, NEW root \in Roots,
                 SignTxRegisteredKey(s, d, access, root)
          PROVE  Promises!Next
      BY <2>4, RegisteredKeyPromises
    <2>5. CASE Clone(s, d)
      BY <2>5, CloneWithdraws
    <2>6. CASE \/ \E feeToken \in Tokens \cup {None} : SetFeeToken(s, d, feeToken)
               \/ \E awaiting \in BOOLEAN \cup {None} : SetAwaiting(s, d, awaiting)
               \/ \E body \in Bodies : SetBody(s, d, body)
      BY <2>6, EditAmends
    <2>7. QED
      BY <1>2, <2>1, <2>2, <2>3, <2>4, <2>5, <2>6 DEF Step
  <1>3. CASE UNCHANGED vars
    BY <1>3 DEF vars
  <1>4. QED
    BY <1>1, <1>2, <1>3 DEF Next

LEMMA InitRefines == Init => Promises!Init
  BY DEF Init, Promises!Init, DealOf

\* Every operation of the SDK does to the promises what Sponsorship allows:
\* it makes one over the transaction as it is, drops both, or leaves them alone.
THEOREM Refinement == Spec => ImplementsSponsorship
  <1>1. Spec => [][Promises!Next]_([s \in Slots |-> DealOf(tx[s])])
    BY SpecIInv, StepRefines, PTL DEF Spec
  <1>2. QED
    BY <1>1, InitRefines, PTL DEF ImplementsSponsorship, Promises!Spec, Spec
=============================================================================

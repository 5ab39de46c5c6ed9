---------------------------- MODULE TxCommitments ----------------------------
(***************************************************************************)
(* TxSigning implements Sponsorship: the promise behind a signature is read*)
(* off the payload it was made over, and a node accepts a signature exactly*)
(* while that promise binds its maker to the transaction as it now is.     *)
(***************************************************************************)
EXTENDS TxAcceptance

\* None, an absent value, is neither a transaction nor a signature.
ASSUME NoneIsAbsence ==
    /\ None \notin TempoTransaction
    /\ None \notin SenderSigs
    /\ None \notin FeePayerSigs

TermsOf(body, keyAuth) == [body |-> body, keyAuth |-> keyAuth]

\* Field 11 of the sender's payload tells how the fee is to be paid.
Payment(field) ==
    IF field = None THEN "own" ELSE IF field = Marker THEN "any" ELSE "void"

SenderPromiseOf(sig) ==
    LET fields == IF sig.user = None THEN sig.over.fields
                  ELSE sig.over.hash.fields
    IN  [by      |-> sig.key,
         account |-> IF sig.user = None THEN sig.key ELSE sig.user,
         terms   |-> TermsOf(fields.body, fields.keyAuth),
         token   |-> fields.feeToken,
         pays    |-> Payment(fields.feePayer)]

PayerPromiseOf(sig) ==
    LET fields == sig.over.fields
    IN  [by |-> sig.key, account |-> fields.feePayer,
         terms |-> TermsOf(fields.body, fields.keyAuth),
         token |-> fields.feeToken]

DealOf(t) ==
    IF t = None THEN None
    ELSE [terms  |-> TermsOf(t.body, t.keyAuth),
          token  |-> t.feeToken,
          open   |-> t.awaiting,
          named  |-> t.sender,
          sender |-> IF t.senderSig = None THEN None
                     ELSE SenderPromiseOf(t.senderSig),
          payer  |-> IF t.feeSig = None THEN None ELSE PayerPromiseOf(t.feeSig)]

Promises == INSTANCE Sponsorship WITH
    Parties <- Addresses,
    Terms <- [body: Bodies, keyAuth: SignedAuths \cup {None}],
    deal <- [s \in Slots |-> DealOf(tx[s])]

\* Nor is it a deal or a promise.
ASSUME NoneIsNoDeal ==
    /\ None \notin Promises!Deals
    /\ None \notin Promises!SenderPromises
    /\ None \notin Promises!PayerPromises

-----------------------------------------------------------------------------
(* Properties *)

\* Every operation of the SDK is one of the abstract ones: signing promises the
\* transaction as it is, sponsoring joins the sender it names, and no edit,
\* copy or later signature changes what an earlier signature promised.
ImplementsSponsorship == Promises!Spec

\* A node takes a transaction for its sender's, and charges its fee payer,
\* exactly while their promises bind them: neither more (a replayed or altered
\* transaction) nor less (a sponsored one refused), serialize_for_signing and
\* serialize_for_fee_payer_signing against the node's own payloads.
AcceptedIffPromised ==
    \A s \in Slots :
      (tx[s] # None /\ tx[s].senderSig # None) =>
        LET wire == Serialize(tx[s])
        IN  /\ (NodeSigningKey(wire) # Garbage) <=>
                  Promises!SenderBound(DealOf(tx[s]))
            /\ \A account \in Addresses :
                 (NodeSponsored(wire) /\ NodeFeePayer(wire, account) # Garbage)
                    <=> Promises!PayerBound(DealOf(tx[s]), account)
=============================================================================

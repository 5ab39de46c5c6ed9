---------------------------- MODULE TxAcceptance ----------------------------
(***************************************************************************)
(* What a signed transaction means to those who receive it: the rules by   *)
(* which a Tempo node derives the sender and the fee payer from the wire   *)
(* bytes, and the properties that relate them to what the parties signed.  *)
(*                                                                         *)
(* The node is not in this repository.  Its rules are the ones the comments*)
(* of the source rely on: the fee token is skipped and field 11 is the     *)
(* 0x00 marker exactly when a fee payer signature is present, and embedded *)
(* secp256k1 signatures are re-encoded with a canonical v.                 *)
(***************************************************************************)
EXTENDS TxSigning

-----------------------------------------------------------------------------
(* The node (external) *)

NodeSponsored(wire) == wire.fields.feePayer \notin {None, Marker}

CanonicalAuth(signedAuth) ==
    [signedAuth EXCEPT !.sig = Canonical(signedAuth.sig)]

NodeReencode(fields) ==
    [fields EXCEPT
       !.keyAuth = IF @ = None THEN @ ELSE CanonicalAuth(@),
       !.envelope = IF @ = None THEN @ ELSE Canonical(@)]

NodeSenderPayload(wire) ==
    LET sponsored == NodeSponsored(wire)
    IN  [magic |-> "0x76",
         fields |-> [NodeReencode(wire.fields) EXCEPT
            !.feeToken = IF sponsored THEN None ELSE @,
            !.feePayer = IF sponsored THEN Marker ELSE None,
            !.envelope = None]]

\* The key that signed for the sender, Garbage when none did.
NodeSigningKey(wire) ==
    LET env == wire.fields.envelope
        payload == NodeSenderPayload(wire)
    IN  RecoverAddress(
          IF env.user = None THEN payload ELSE SigningHash(payload, env.user),
          env)

\* The account the transaction runs as.
NodeSender(wire) ==
    LET env == wire.fields.envelope
    IN  IF env.user = None \/ NodeSigningKey(wire) = Garbage
        THEN NodeSigningKey(wire) ELSE env.user

NodeFeePayer(wire, sender) ==
    RecoverAddress(
      [magic |-> "0x78",
       fields |-> [NodeReencode(wire.fields) EXCEPT
                      !.feePayer = sender, !.envelope = None]],
      wire.fields.feePayer)

-----------------------------------------------------------------------------
(* Properties *)

TypeOK ==
    /\ tx \in [Slots -> TempoTransaction \cup {None}]
    /\ grants \subseteq Grants

\* What the holder of a grant was shown: the content its signature is about.
SameContent(g, t) ==
    /\ g.tx.body = t.body
    /\ g.tx.keyAuth = t.keyAuth

\* Whenever verify_fee_payer_signature attributes a transaction to a key, that
\* key sponsored exactly this content, paid in exactly this fee token, for
\* exactly this sender (transaction.py: the 0x78 payload never skips the token).
FeePayerAuthentic ==
    \A s \in Slots, sender \in Addresses :
      tx[s] # None =>
        LET payer == VerifyFeePayerSignature(tx[s], sender)
        IN  payer \in Addresses =>
              \E g \in grants :
                 /\ g.by = payer /\ g.role = "feePayer" /\ g.account = sender
                 /\ SameContent(g, tx[s])
                 /\ g.tx.feeToken = tx[s].feeToken

\* Whenever a node would run a transaction on behalf of an account, the key that
\* signs for it was asked to sign exactly this content for this account, and
\* the fee token differs from the one it saw only if the transaction it signed
\* was marked as awaiting a fee payer.
SenderAuthentic ==
    \A s \in Slots :
      (tx[s] # None /\ tx[s].senderSig # None) =>
        LET wire == Serialize(tx[s])
        IN  NodeSigningKey(wire) \in Addresses =>
              \E g \in grants :
                 /\ g.by = NodeSigningKey(wire)
                 /\ g.role = IF tx[s].senderSig.user = None
                             THEN "sender" ELSE "keychain"
                 /\ g.account = NodeSender(wire)
                 /\ SameContent(g, tx[s])
                 /\ g.tx.awaiting \/ g.tx.feeToken = tx[s].feeToken

\* What a key signs in one role can never be taken for what a key signs in
\* another, or for another account (magic bytes 0x76, 0x78, 0x04).
SignedBy(g) ==
    CASE g.role = "sender"   -> GetSignPayload(g.tx)
      [] g.role = "keychain" -> SigningHash(GetSignPayload(g.tx), g.account)
      [] g.role = "feePayer" -> GetFeePayerSignPayload(g.tx, g.account)
      [] g.role = "root"     -> [keyId |-> g.account, account |-> g.by]

RolesSeparated ==
    \A g, h \in grants :
      SignedBy(g) = SignedBy(h) =>
        /\ g.role = h.role
        /\ g.role # "sender" => g.account = h.account

\* A transaction that the SDK verified before it was sponsored, while it awaited
\* its fee payer, is still the sender's to the node once a fee payer signature
\* is attached, whatever fee token the sponsor put in, and the node charges the
\* fee payer that the SDK reports.
SponsoredAccepted ==
    \A s \in Slots :
      (tx[s] # None /\ tx[s].senderSig # None /\ tx[s].feeSig # None) =>
        LET before == [tx[s] EXCEPT !.feeSig = None, !.awaiting = TRUE]
        IN  (tx[s].senderSig.user = None /\ VerifySignature(before) \in Addresses)
              => /\ NodeSender(Serialize(tx[s])) = VerifySignature(before)
                 /\ NodeFeePayer(Serialize(tx[s]), tx[s].sender) =
                      VerifyFeePayerSignature(tx[s], tx[s].sender)

\* With no fee payer involved, a transaction whose signer the SDK recovers (over
\* the keychain hash for an access key) is attributed to the same account by the
\* node, and for an access key the node's re-encoding is what was hashed locally:
\* embedded signatures are canonical (models.py, keychain.py).
UnsponsoredAccepted ==
    \A s \in Slots :
      (/\ tx[s] # None /\ tx[s].senderSig # None
       /\ tx[s].feeSig = None /\ ~tx[s].awaiting) =>
        LET sig == tx[s].senderSig
            payload == GetSignPayload(tx[s])
            wire == Serialize(tx[s])
        IN  IF sig.user = None
            THEN RecoverAddress(payload, sig) = NodeSender(wire)
            ELSE /\ NodeSender(wire) =
                      IF sig.over = SigningHash(payload, sig.user)
                      THEN sig.user ELSE Garbage
                 /\ NodeReencode(wire.fields) = wire.fields

\* Signing a sponsored transaction again: the sponsorship counts afterwards
\* exactly when the fee payer gave it for the new sender, so one that counts is
\* lost exactly when the sender changes, and comes back when the sender it was
\* given for signs once more.  The fee payer's payload holds the sender's
\* address and none of the signatures.
ResignStep ==
    \A s, d \in Slots, k \in Keys :
      (SignTransaction(s, d, k) /\ tx[s].feeSig # None) =>
        LET payer == tx[s].feeSig.key
            after == VerifyFeePayerSignature(tx'[d], k) = payer
        IN  /\ after <=> VerifyFeePayerSignature(tx[s], k) = payer
            /\ VerifyFeePayerSignature(tx[s], tx[s].sender) = payer
                 => (after <=> tx[s].sender = k)

ResignKeepsSponsor == [][ResignStep]_vars

\* Replacing the fee token of a transaction keeps a sender's own signature
\* valid exactly when the sender left the choice open (awaiting_fee_payer) or
\* the token is the one it signed.
TokenStep ==
    \A s, d \in Slots, feeToken \in Tokens \cup {None} :
      (/\ SetFeeToken(s, d, feeToken)
       /\ tx[s].senderSig # None
       /\ tx[s].senderSig.user = None
       /\ tx[s].feeSig = None
       /\ VerifySignature(tx[s]) = tx[s].senderSig.key) =>
         (VerifySignature(tx'[d]) = tx[s].senderSig.key
            <=> tx[s].awaiting \/ feeToken = tx[s].feeToken)

TokenCommitment == [][TokenStep]_vars

-----------------------------------------------------------------------------
(* What the documentation says and the code does not do *)

\* serialize_for_signing: "All signatures are removed".  Attaching a fee payer
\* signature to a transaction that awaits one should leave the sender that
\* verify_signature reports unchanged.
SponsoredStillVerifies ==
    \A s \in Slots :
      (/\ tx[s] # None /\ tx[s].senderSig # None
       /\ tx[s].feeSig # None /\ tx[s].awaiting) =>
        VerifySignature(tx[s]) =
          VerifySignature([tx[s] EXCEPT !.feeSig = None])

\* verify_signature: "the recovered key must be the access key".  A keychain
\* transaction that verifies should have been signed, as it stands, by the key
\* whose signature it carries.
KeychainVerifiedIsSigned ==
    \A s \in Slots :
      (tx[s] # None /\ tx[s].senderSig # None) =>
        ((tx[s].senderSig.user # None /\ VerifySignature(tx[s]) # Raised) =>
           \E g \in grants :
              /\ g.role = "keychain"
              /\ g.by = tx[s].senderSig.key
              /\ GetSignPayload(g.tx) = GetSignPayload(tx[s]))
=============================================================================

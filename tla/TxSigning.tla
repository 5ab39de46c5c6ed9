------------------------------ MODULE TxSigning ------------------------------
(***************************************************************************)
(* Signing of Tempo transactions by several parties: a sender, an access   *)
(* key that acts for a root account, and a fee payer that sponsors the     *)
(* transaction.  Translated from tempo/transaction.py, tempo/models.py,    *)
(* tempo/signer.py and tempo/keychain.py.                                  *)
(*                                                                         *)
(* A TempoTransaction is an immutable value and every operation returns a  *)
(* new one, so the state is what the program's variables hold (tx): an     *)
(* operation reads the value in slot s and stores its result in slot d,    *)
(* which may be s itself or another party's variable.                      *)
(*                                                                         *)
(* Cryptography is symbolic.  A hash is the value hashed (keccak256 is     *)
(* taken as collision free), a signature names the key and the payload it  *)
(* was made over, and recovering a signature against another payload gives *)
(* Garbage, an address that belongs to nobody.  RLP is injective on the    *)
(* record of fields below; None is the empty byte string.                  *)
(***************************************************************************)
EXTENDS FiniteSets, Naturals

CONSTANTS
    Keys,       \* secp256k1 keys (Signer); a key is named by its address
    P256Keys,   \* P-256 keys (P256Signer), usable only as access keys
    Roots,      \* the keys whose accounts have access keys
    Bodies,     \* what RLP fields 0..9 encode: chain, gas, calls, nonces, validity
    Tokens,     \* fee tokens
    Slots,      \* variables of the parties that hold transactions
    MaxGrants,  \* bound: how many different signatures are ever made
    None, Marker, Garbage, Raised

Addresses == Keys \cup P256Keys

VARIABLES
    tx,      \* the transaction each slot holds, None before the first one
    grants   \* history: what each key was asked to sign, and for what role

vars == <<tx, grants>>

-----------------------------------------------------------------------------
(* Values *)

\* The v byte of a signature: as the signer returned it (0 or 1), canonical
\* (27 or 28), or absent (P-256 envelopes).
Signatures(payloads) ==
    [key: Addresses, over: payloads, v: {"raw", "canonical", "absent"}]

\* A key authorization names the access key and the root account; the signed
\* form [authorization, root signature] is what a transaction embeds.
Auths == [keyId: Addresses, account: Addresses]
SignedAuths == [auth: Auths, sig: Signatures(Auths)]

Fields(feePayers, envelopes) ==
    [body: Bodies, feeToken: Tokens \cup {None}, feePayer: feePayers,
     keyAuth: SignedAuths \cup {None}, envelope: envelopes]

FeePayerPayloads == [magic: {"0x78"}, fields: Fields(Addresses, {None})]
FeePayerSigs == Signatures(FeePayerPayloads)

\* [y_parity, r, s]: the v byte is gone.
RlpLists == [key: Addresses, over: FeePayerPayloads]

SenderPayloads ==
    [magic: {"0x76"}, fields: Fields(RlpLists \cup {None, Marker}, {None})]
KeychainPayloads ==
    [magic: {"0x04"}, hash: SenderPayloads, user: Addresses]

\* A bare secp256k1 signature has user None; a KeychainSignature carries the
\* root account it acts for and, in the other fields, its inner signature.
SenderSigs ==
    [key: Addresses, over: SenderPayloads \cup KeychainPayloads,
     v: {"raw", "canonical", "absent"}, user: Addresses \cup {None}]

TempoTransaction ==
    [body: Bodies, feeToken: Tokens \cup {None}, awaiting: BOOLEAN,
     senderSig: SenderSigs \cup {None}, feeSig: FeePayerSigs \cup {None},
     sender: Addresses \cup {None}, keyAuth: SignedAuths \cup {None}]

\* The distinguished values are nothing else.
ASSUME DistinctValues ==
    /\ Keys \cap P256Keys = {}
    /\ Roots \subseteq Keys
    /\ {None, Marker, Garbage, Raised} \cap Addresses = {}
    /\ Marker # None
    /\ {None, Marker} \cap RlpLists = {}

Roles == {"sender", "keychain", "feePayer", "root"}
Grants ==
    [by: Addresses, role: Roles, account: Addresses,
     tx: TempoTransaction \cup {None}]

-----------------------------------------------------------------------------
(* Serialization *)

ToRlpList(sig) == [key |-> sig.key, over |-> sig.over]

EncodeFeePayerField(t) ==
    IF t.feeSig # None THEN ToRlpList(t.feeSig)
    ELSE IF t.awaiting THEN Marker ELSE None

\* Mutant: the fee token is never skipped.
EncodeFeeToken_NeverSkipped(t, skip) == t.feeToken

EncodeFeeToken(t, skip) == IF skip THEN None ELSE t.feeToken

BuildFields(t, skipFeeToken, dropSignatures) ==
    [body     |-> t.body,
     feeToken |-> EncodeFeeToken(t, skipFeeToken),
     feePayer |-> EncodeFeePayerField(t),
     keyAuth  |-> t.keyAuth,
     envelope |-> IF dropSignatures THEN None ELSE t.senderSig]

\* Mutants: the token is skipped only once the fee payer has signed, or always.
SerializeForSigning_SkipOnFeeSig(t) ==
    [magic |-> "0x76", fields |-> BuildFields(t, t.feeSig # None, TRUE)]

SerializeForSigning_AlwaysSkip(t) ==
    [magic |-> "0x76", fields |-> BuildFields(t, TRUE, TRUE)]

SerializeForSigning(t) ==
    [magic |-> "0x76",
     fields |-> BuildFields(t, t.awaiting \/ t.feeSig # None, TRUE)]

\* Mutants: the sender signature is kept, the fee token is skipped as in the
\* sender's payload, the magic byte is the sender's.
SerializeForFeePayerSigning_KeepsSig(t, sender) ==
    [magic |-> "0x78",
     fields |-> [BuildFields(t, FALSE, FALSE) EXCEPT !.feePayer = sender]]

SerializeForFeePayerSigning_SkipsToken(t, sender) ==
    [magic |-> "0x78",
     fields |-> [BuildFields(t, TRUE, TRUE) EXCEPT !.feePayer = sender]]

SerializeForFeePayerSigning_SenderMagic(t, sender) ==
    [magic |-> "0x76",
     fields |-> [BuildFields(t, FALSE, TRUE) EXCEPT !.feePayer = sender]]

SerializeForFeePayerSigning(t, sender) ==
    [magic |-> "0x78",
     fields |-> [BuildFields(t, FALSE, TRUE) EXCEPT !.feePayer = sender]]

Serialize(t) == [magic |-> "0x76", fields |-> BuildFields(t, FALSE, FALSE)]

GetSignPayload(t) == SerializeForSigning(t)
GetFeePayerSignPayload(t, sender) == SerializeForFeePayerSigning(t, sender)

\* Mutant: no domain separation, the access key signs the transaction's hash.
SigningHash_Plain(hash, user) == hash

\* keccak256(0x04 || sig_hash || root_account)
SigningHash(hash, user) == [magic |-> "0x04", hash |-> hash, user |-> user]

-----------------------------------------------------------------------------
(* Signatures *)

SignerSign(k, payload) ==
    [key |-> k, over |-> payload,
     v |-> IF k \in Keys THEN "raw" ELSE "absent"]

\* to_canonical_bytes; an envelope without a v byte is left as it is.
Canonical(sig) == [sig EXCEPT !.v = IF @ = "absent" THEN @ ELSE "canonical"]

RecoverAddress(payload, sig) ==
    IF sig.over = payload THEN sig.key ELSE Garbage

BareSig(sig) ==
    [key |-> sig.key, over |-> sig.over, v |-> sig.v, user |-> None]

\* Mutant: the inner signature is embedded as the signer returned it.
KeychainFromInner_RawV(inner, user) ==
    [key |-> inner.key, over |-> inner.over, v |-> inner.v, user |-> user]

KeychainFromInner(inner, user) ==
    [key |-> inner.key, over |-> inner.over, v |-> Canonical(inner).v,
     user |-> user]

\* The address verify_signature returns, or Raised.  For a keychain signature
\* the recovered key is discarded; only a secp256k1 inner can be parsed.
VerifySignature(t) ==
    IF t.senderSig = None THEN Raised
    ELSE IF t.senderSig.user = None
         THEN RecoverAddress(GetSignPayload(t), t.senderSig)
    ELSE IF t.senderSig.key \in Keys THEN t.senderSig.user ELSE Raised

VerifyFeePayerSignature(t, sender) ==
    IF t.feeSig = None THEN Raised
    ELSE RecoverAddress(GetFeePayerSignPayload(t, sender), t.feeSig)

-----------------------------------------------------------------------------
(* The operations *)

\* create, without a key_authorization that the caller made.
NewTransaction(body, feeToken, awaiting) ==
    [body |-> body, feeToken |-> feeToken, awaiting |-> awaiting,
     senderSig |-> None, feeSig |-> None, sender |-> None, keyAuth |-> None]

\* What a history entry keeps of the transaction that was signed.
Unsigned(t) == [t EXCEPT !.senderSig = None, !.sender = None]

Grant(by, role, account, t) ==
    [by |-> by, role |-> role, account |-> account, tx |-> t]

Record(new) ==
    /\ grants' = grants \cup new
    /\ Cardinality(grants') <= MaxGrants

Init ==
    /\ tx = [s \in Slots |-> None]
    /\ grants = {}

Build(s) ==
    /\ tx[s] = None
    /\ \E body \in Bodies, feeToken \in Tokens \cup {None}, awaiting \in BOOLEAN :
          tx' = [tx EXCEPT ![s] = NewTransaction(body, feeToken, awaiting)]
    /\ UNCHANGED grants

SignTransaction(s, d, k) ==
    /\ tx[s] # None
    /\ tx' = [tx EXCEPT ![d] =
         [tx[s] EXCEPT !.senderSig = BareSig(SignerSign(k, GetSignPayload(tx[s]))),
                       !.sender = k]]
    /\ Record({Grant(k, "sender", k, Unsigned(tx[s]))})

\* Raises without a sender signature (and, from as_address, without a sender).
AddFeePayerSignature(s, d, k) ==
    /\ tx[s] # None
    /\ tx[s].senderSig # None
    /\ tx[s].sender # None
    /\ tx' = [tx EXCEPT ![d] =
         [tx[s] EXCEPT !.feeSig =
            SignerSign(k, GetFeePayerSignPayload(tx[s], tx[s].sender))]]
    /\ Record({Grant(k, "feePayer", tx[s].sender, Unsigned(tx[s]))})

\* The root signs the authorization of keyId, the access key the transaction
\* that embeds it.
SignTxAccessKey(s, d, access, root, keyId) ==
    /\ tx[s] # None
    /\ LET auth == [keyId |-> keyId, account |-> root]
           withAuth == [tx[s] EXCEPT !.keyAuth =
               [auth |-> auth, sig |-> Canonical(SignerSign(root, auth))]]
           inner == SignerSign(access, SigningHash(GetSignPayload(withAuth), root))
       IN  /\ tx' = [tx EXCEPT ![d] =
                [withAuth EXCEPT !.senderSig = KeychainFromInner(inner, root),
                                 !.sender = root]]
           /\ Record({Grant(root, "root", keyId, None),
                      Grant(access, "keychain", root, Unsigned(withAuth))})

SignTxRegisteredKey(s, d, access, root) ==
    /\ tx[s] # None
    /\ LET inner == SignerSign(access, SigningHash(GetSignPayload(tx[s]), root))
       IN  tx' = [tx EXCEPT ![d] =
             [tx[s] EXCEPT !.senderSig = KeychainFromInner(inner, root),
                           !.sender = root]]
    /\ Record({Grant(access, "keychain", root, Unsigned(tx[s]))})

\* clone() drops the signatures; sender_address and key_authorization stay.
Clone(s, d) ==
    /\ tx[s] # None
    /\ tx' = [tx EXCEPT ![d] = [tx[s] EXCEPT !.senderSig = None, !.feeSig = None]]
    /\ UNCHANGED grants

\* _replace_fields on the fields that are not signatures: a keyword replaces
\* the field, and awaiting_fee_payer=None keeps it.
SetFeeToken(s, d, feeToken) ==
    /\ tx[s] # None
    /\ tx' = [tx EXCEPT ![d] = [tx[s] EXCEPT !.feeToken = feeToken]]
    /\ UNCHANGED grants

SetAwaiting(s, d, awaiting) ==
    /\ tx[s] # None
    /\ tx' = [tx EXCEPT ![d] =
         [tx[s] EXCEPT !.awaiting = IF awaiting = None THEN @ ELSE awaiting]]
    /\ UNCHANGED grants

SetBody(s, d, body) ==
    /\ tx[s] # None
    /\ tx' = [tx EXCEPT ![d] = [tx[s] EXCEPT !.body = body]]
    /\ UNCHANGED grants

Step(s, d) ==
    \/ \E k \in Keys : SignTransaction(s, d, k)
    \/ \E k \in Keys : AddFeePayerSignature(s, d, k)
    \/ \E access \in Keys, root \in Roots, keyId \in Addresses :
          SignTxAccessKey(s, d, access, root, keyId)
    \/ \E access \in Addresses, root \in Roots :
          SignTxRegisteredKey(s, d, access, root)
    \/ Clone(s, d)
    \/ \E feeToken \in Tokens \cup {None} : SetFeeToken(s, d, feeToken)
    \/ \E awaiting \in BOOLEAN \cup {None} : SetAwaiting(s, d, awaiting)
    \/ \E body \in Bodies : SetBody(s, d, body)

Next ==
    \/ \E s \in Slots : Build(s)
    \/ \E s, d \in Slots : Step(s, d)

Spec == Init /\ [][Next]_vars
=============================================================================

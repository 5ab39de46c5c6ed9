----------------------------- MODULE Sponsorship -----------------------------
(***************************************************************************)
(* What signing and sponsoring a transaction promises, without signatures, *)
(* payloads or encodings: a deal has terms, a fee token, and the promises  *)
(* of a sender and of a payer.  A promise is made over the deal as it is   *)
(* and is never changed afterwards, whatever is amended; it binds its      *)
(* maker only while the deal is what was promised.                         *)
(***************************************************************************)
CONSTANTS
    Parties,   \* who can promise, and the accounts promised for
    Terms,     \* everything the transaction does
    Tokens,    \* fee tokens
    Slots,     \* where deals are kept
    None

VARIABLE deal

\* How the sender means the fee to be paid: by itself in the deal's token, by
\* any sponsor in any token, or, promising over a deal that already names its
\* payer, in a way that nobody will ask it for.
Payments == {"own", "any", "void"}

SenderPromises ==
    [by: Parties, account: Parties, terms: Terms, token: Tokens \cup {None},
     pays: Payments]

PayerPromises ==
    [by: Parties, account: Parties, terms: Terms, token: Tokens \cup {None}]

Deals ==
    [terms: Terms, token: Tokens \cup {None}, open: BOOLEAN,
     named: Parties \cup {None},
     sender: SenderPromises \cup {None}, payer: PayerPromises \cup {None}]

PaymentOf(d) ==
    IF d.payer # None THEN "void" ELSE IF d.open THEN "any" ELSE "own"

SenderPromise(d, by, account) ==
    [by |-> by, account |-> account, terms |-> d.terms,
     token |-> IF PaymentOf(d) = "own" THEN d.token ELSE None,
     pays |-> PaymentOf(d)]

PayerPromise(d, by) ==
    [by |-> by, account |-> d.named, terms |-> d.terms, token |-> d.token]

\* A promise binds its maker to a deal.
SenderBound(d) ==
    /\ d.sender # None
    /\ d.sender.terms = d.terms
    /\ \/ d.sender.pays = "own" /\ d.payer = None /\ d.sender.token = d.token
       \/ d.sender.pays = "any" /\ d.payer # None

PayerBound(d, account) ==
    /\ d.payer # None
    /\ d.payer.terms = d.terms /\ d.payer.token = d.token
    /\ d.payer.account = account

-----------------------------------------------------------------------------
(* How one deal becomes another: what a party does to the deal from leaves  *)
(* the deal to.                                                             *)

Drafted(to) ==
    /\ to \in Deals
    /\ to.sender = None /\ to.payer = None /\ to.named = None

SenderPromised(from, to, by, account) ==
    to = [from EXCEPT !.sender = SenderPromise(from, by, account),
                      !.named = account]

\* The account brings in a new access key, which becomes part of the terms the
\* key then promises to.
SenderProvisioned(from, to, by, account) ==
    /\ to.terms \in Terms
    /\ SenderPromised([from EXCEPT !.terms = to.terms], to, by, account)

\* A payer only joins a sender.
PayerPromised(from, to, by) ==
    /\ from.sender # None /\ from.named # None
    /\ to = [from EXCEPT !.payer = PayerPromise(from, by)]

Withdrawn(from, to) == to = [from EXCEPT !.sender = None, !.payer = None]

\* Terms, token and openness change; the promises stay what they were.
Amended(from, to) ==
    /\ to.terms \in Terms /\ to.token \in Tokens \cup {None}
    /\ to.open \in BOOLEAN
    /\ to = [from EXCEPT !.terms = to.terms, !.token = to.token,
                         !.open = to.open]

Becomes(from, to) ==
    \/ Withdrawn(from, to)
    \/ Amended(from, to)
    \/ \E by, account \in Parties :
         \/ SenderPromised(from, to, by, account)
         \/ SenderProvisioned(from, to, by, account)
    \/ \E by \in Parties : PayerPromised(from, to, by)

-----------------------------------------------------------------------------
Init == deal = [s \in Slots |-> None]

\* One slot is written: a first deal, or what a deal in some slot becomes.
Next ==
    \E d \in Slots :
      /\ deal'[d] # None
      /\ deal' = [deal EXCEPT ![d] = deal'[d]]
      /\ \/ deal[d] = None /\ Drafted(deal'[d])
         \/ \E s \in Slots : deal[s] # None /\ Becomes(deal[s], deal'[d])

Spec == Init /\ [][Next]_deal
=============================================================================

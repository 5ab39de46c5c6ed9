----------------------------- MODULE MCTxSigning -----------------------------
(* Instances of TxSigning for TLC: the .cfg files give every constant, keys,   *)
(* bodies and tokens as model values.                                          *)
EXTENDS TxCommitments, TLC

\* Keys without roots, and bodies, are interchangeable.
Symmetry == Permutations(Keys) \cup Permutations(Bodies)
=============================================================================

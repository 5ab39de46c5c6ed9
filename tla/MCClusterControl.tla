--------------------------- MODULE MCClusterControl ---------------------------
(* Instances of ClusterControl for TLC: the clients are interchangeable. *)
EXTENDS ClusterControl, TLC

Symmetry == Permutations(Clients)
=============================================================================

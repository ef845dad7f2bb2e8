---------------------------- MODULE MCClusterMap ----------------------------
(* Small instances of ClusterMap for TLC.                                   *)
EXTENDS ClusterMap, TLC
Symmetry == Permutations(Client)
=============================================================================

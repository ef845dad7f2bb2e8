----------------------------- MODULE MCPathMap -----------------------------
(* Small instances of PathMap for TLC.                                      *)
EXTENDS PathMap
Symmetry == Permutations(Name)
=============================================================================

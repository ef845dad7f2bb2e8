----------------------------- MODULE MCNameOps -----------------------------
(* Small instances of NameOps for TLC.                                      *)
EXTENDS NameOps, TLC
Symmetry == Permutations(Client)
=============================================================================

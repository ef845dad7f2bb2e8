-------------------------- MODULE MCReplicatedKey --------------------------
(* Small instances of ReplicatedKey for TLC.                                *)
EXTENDS ReplicatedKey, TLC
Symmetry == Permutations(Client)
=============================================================================

-------------------------- MODULE MCPathPermission --------------------------
(* Small instances of PathPermission for TLC.                               *)
EXTENDS PathPermission, TLC
Symmetry == Permutations(Client)
Bits == {"user", "group", "other"}
MCUser == {[uid |-> i, gid |-> g] : i \in {1, 2}, g \in {1, 2}}
AllPerm == {[uid |-> i, gid |-> g, x |-> x] : i \in {1, 2}, g \in {1, 2}, x \in SUBSET Bits}
MCPerm == {[uid |-> 1, gid |-> 1, x |-> {"user"}], [uid |-> 2, gid |-> 2, x |-> {"user", "other"}]}
=============================================================================

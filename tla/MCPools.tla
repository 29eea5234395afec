------------------------------ MODULE MCPools ------------------------------
(***************************************************************************)
(* Pools for TLC: one configured pool with a client, ids for more, and a   *)
(* seed file that names a user of each pool, configured or not.            *)
(***************************************************************************)
EXTENDS Pools, TLC

CONSTANTS p1, c1, n1, v1

OnePool == [p \in {p1} |-> v1]

OneClient == [c \in {c1} |-> [userPoolId |-> p1, settings |-> v1]]

OneOfEach == PoolIds \X {n1}

Symmetry ==
  Permutations(PoolIds \ {p1}) \cup Permutations(ClientIds \ {c1})
  \cup Permutations(Usernames \ {n1}) \cup Permutations(Versions \ {v1})
=============================================================================

--------------------------- MODULE MCAccessTokens ---------------------------
(***************************************************************************)
(* AccessTokens for TLC: a pool of chosen usernames, which is the first of *)
(* the configuration, and a pool that draws them; a client of each.        *)
(***************************************************************************)
EXTENDS AccessTokens, TLC

CONSTANTS p1, p2, c1, c2

TwoClients == [c \in {c1, c2} |-> IF c = c1 THEN p1 ELSE p2]

Symmetry == Permutations(Names) \cup Permutations(Tokens)
=============================================================================

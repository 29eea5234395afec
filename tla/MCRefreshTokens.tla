-------------------------- MODULE MCRefreshTokens --------------------------
(***************************************************************************)
(* RefreshTokens for TLC.  Tokens, sessions and requests are               *)
(* interchangeable: no action or property names one of them.  So are the   *)
(* two pools of the run with one name, each with its client, as both are   *)
(* configured and have their seed user.                                    *)
(***************************************************************************)
EXTENDS RefreshTokens, TLC

CONSTANTS p1, p2, c1, c2, alice

OneUser == {[pool |-> p1, name |-> alice]}

\* The same name in two pools.
OnePerPool == [pool : {p1, p2}, name : {alice}]

InLowerCase == alice :> alice

ClientOfOne == c1 :> p1

ClientOfEach == c1 :> p1 @@ c2 :> p2

Symmetry == Permutations(Tokens) \cup Permutations(Sessions) \cup Permutations(Requests)

SymmetryAndPools ==
  Symmetry \cup {p1 :> p2 @@ p2 :> p1 @@ c1 :> c2 @@ c2 :> c1}
=============================================================================

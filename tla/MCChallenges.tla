---------------------------- MODULE MCChallenges ----------------------------
(***************************************************************************)
(* Challenges for TLC: pools that share their usernames.                   *)
(***************************************************************************)
EXTENDS Challenges, TLC

Symmetry ==
  Permutations(Pools) \cup Permutations(Names) \cup Permutations(Sessions)
  \cup Permutations(Codes) \cup Permutations(Checks)
=============================================================================

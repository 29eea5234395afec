------------------------ MODULE MCAuthorizationCodes ------------------------
(***************************************************************************)
(* AuthorizationCodes for TLC.                                             *)
(***************************************************************************)
EXTENDS AuthorizationCodes, TLC

Symmetry == Permutations(Codes) \cup Permutations(Users) \cup Permutations(Clients)
=============================================================================

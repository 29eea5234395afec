----------------------------- MODULE MCListings -----------------------------
(***************************************************************************)
(* Listings for TLC.  No symmetry: a liveness property is checked.         *)
(***************************************************************************)
EXTENDS Listings

MCKeys == {"a", "b", "c"}
=============================================================================

-------------------------- MODULE MCCrashRecovery --------------------------
(***************************************************************************)
(* CrashRecovery for TLC: one user comes from the seed file, in the        *)
(* group; all are in one pool.                                             *)
(***************************************************************************)
EXTENDS CrashRecovery
CONSTANTS u1, g1
OneSeed == [u \in {u1} |-> {g1}]
OnePool == {Users}
=============================================================================

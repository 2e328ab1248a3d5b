----------------------------- MODULE MCApiKeys ------------------------------
(***************************************************************************)
(* Values for the constants of ApiKeys.                                     *)
(***************************************************************************)
EXTENDS ApiKeys, TLC

CONSTANTS r1, r2, u1, t1, t2, t3, program

ApiKeysSymmetry == Permutations({r1, r2}) \cup Permutations({t1, t2, t3})
=============================================================================

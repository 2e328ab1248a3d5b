------------------------------ MODULE MCIntake ------------------------------
(***************************************************************************)
(* Values for the constants of Intake in the run.                           *)
(***************************************************************************)
EXTENDS Intake

CONSTANTS r1, r2, r3, r4, d1, d2, d3, k1, k2, t1, t2

Bodies ==
  [r \in Requests |->
     CASE r = r1 -> <<k1, k2>>
       [] r = r2 -> <<k2, k1>>
       [] r = r4 -> <<k2, k2>>
       [] OTHER -> <<k1>>]
OppositeBatches == {r1, r2, r3}
BurstsToSend == {OppositeBatches, {r4, d1}, {d1, d2}, {d1, d3}}
OneRecurs == [d \in Definitions |-> IF d = d2 THEN 0 ELSE 2]
=============================================================================

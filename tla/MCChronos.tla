----------------------------- MODULE MCChronos ------------------------------
(***************************************************************************)
(* Values for the constants of Chronos in the runs.                         *)
(***************************************************************************)
EXTENDS Chronos

CONSTANTS j1, j2, j3, w1, w2, q1, q2, l1, l2, l3, c1, c2, c3

SameQueue == [j \in Jobs |-> q1]
LimitOne == [q \in Queues |-> 1]
LimitTwo == [q \in Queues |-> 2]
OneAttempt == [j \in Jobs |-> 1]
TwoAttempts == [j \in Jobs |-> 2]
FlatPriority == [j \in Jobs |-> 0]
LoopEach == [p \in Reapers |-> IF p = l1 THEN w1 ELSE w2]
LaterJobsFirst == [j \in Jobs |-> IF j = j1 THEN 0 ELSE 1]
=============================================================================

------------------------------ MODULE MCPages -------------------------------
(***************************************************************************)
(* Values for the constants of Dashboard: a user who is admin of the        *)
(* organization, a member and a stranger.  The retry policies that queues   *)
(* are given stand beside it: they share no state, so a behaviour is of     *)
(* one of the two.                                                         *)
(***************************************************************************)
EXTENDS Dashboard, RetryDelay, TLC

CONSTANTS me, member, stranger, o1, p1, p2, q1, q2, i1, j1, j2, c1, c2

Roles ==
  [o \in Orgs |-> [u \in People |->
    CASE u = me -> "admin" [] u = member -> "member" [] OTHER -> NoRole]]

Powers == [n \in 0..MaxAttempt |-> 2 ^ n]

VARIABLE part

PagesInit ==
  /\ part \in {"pages", "delays"}
  /\ DashboardInit
  /\ RetryInit
  /\ part = "pages" => policy = [strategy |-> "fixed", base |-> 0, max |-> 0]
  /\ part = "delays" => open = "list" /\ limit = 1 /\ page = 1 /\ total = 0

Views == part = "pages" /\ DashboardNext /\ UNCHANGED <<part, retryVars>>

Delays == part = "delays" /\ FailAgain /\ UNCHANGED <<part, dashboardVars>>

PagesSpec == PagesInit /\ [][Views \/ Delays]_<<part, retryVars, dashboardVars>>

PagesSymmetry == Permutations({j1, j2}) \cup Permutations({c1, c2})
=============================================================================

----------------------------- MODULE Dashboard ------------------------------
(***************************************************************************)
(* A client of the API's lists: a tab of the dashboard with one of its two  *)
(* pages that write open, or a program that walks a list.  The pages share  *)
(* no state: what is in memory goes when a page is left, so what is not    *)
(* open stays as it is at its start.                                       *)
(***************************************************************************)
EXTENDS JobsPage, QueuesPage, ListWalk

VARIABLE open

dashboardVars == <<open, pageVars, projectVars, queuesPageVars, walkVars>>

\* The rows of a walk are chosen where there is one.
DashboardInit ==
  /\ open \in {"jobs", "queues", "list"}
  /\ PageInit
  /\ ProjectsInit /\ QueuesPageInit
  /\ WalkInit
  /\ open # "list" => limit = 1 /\ page = 1 /\ total = 0

OnJobsPage ==
  /\ open = "jobs"
  /\ PageNext
  /\ UNCHANGED <<open, projectVars, queuesPageVars, walkVars>>

OnQueuesPage ==
  /\ open = "queues"
  /\ QueuesPageNext
  /\ UNCHANGED <<open, pageVars, walkVars>>

OnList ==
  /\ open = "list"
  /\ AskPage
  /\ UNCHANGED <<open, pageVars, projectVars, queuesPageVars>>

DashboardNext == OnJobsPage \/ OnQueuesPage \/ OnList

DashboardSpec == DashboardInit /\ [][DashboardNext]_dashboardVars
=============================================================================

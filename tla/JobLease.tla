------------------------------ MODULE JobLease ------------------------------
(***************************************************************************)
(* What the pipeline promises of a job, without tables, loops or queries: a *)
(* job is open until it is settled; a worker leases open jobs that nobody   *)
(* leases, several at a time; only the worker that leases a job completes   *)
(* or dead-letters it; only a job that nobody leases is cancelled.  A lease *)
(* ends in no other way than by its worker: it gives the job back, or dies. *)
(*                                                                         *)
(* A job that loses one of the races the code leaves open is "wild", and    *)
(* nothing more is promised of it.                                          *)
(***************************************************************************)
CONSTANTS Jobs, Workers

VARIABLES
  phase,   \* of a job: "none", "open", an outcome, "cancelled" or "wild"
  lessees  \* the workers that lease a job

leaseVars == <<phase, lessees>>

Outcomes == {"completed", "dead_letter"}

LeaseInit ==
  /\ phase = [j \in Jobs |-> "none"]
  /\ lessees = [j \in Jobs |-> {}]

Free(j) == phase[j] = "open" /\ lessees[j] = {}
Enter(j, p) ==
  /\ phase' = [phase EXCEPT ![j] = p]
  /\ lessees' = [lessees EXCEPT ![j] = {}]

Submit(j) == phase[j] = "none" /\ Enter(j, "open")

Lease(w, S) ==
  /\ \A j \in S : Free(j)
  /\ lessees' = [j \in Jobs |-> IF j \in S THEN {w} ELSE lessees[j]]
  /\ UNCHANGED phase

GiveBack(w, S) ==
  /\ \A j \in S : lessees[j] = {w}
  /\ lessees' = [j \in Jobs |-> IF j \in S THEN {} ELSE lessees[j]]
  /\ UNCHANGED phase

Settle(w, j, outcome) ==
  /\ phase[j] = "open"
  /\ lessees[j] = {w}
  /\ Enter(j, outcome)

Cancel(j) == Free(j) /\ Enter(j, "cancelled")
Reopen(j) == phase[j] \in {"dead_letter", "cancelled"} /\ Enter(j, "open")
Break(j) == Enter(j, "wild")

LeaseNext ==
  \/ \E j \in Jobs : Submit(j) \/ Cancel(j) \/ Reopen(j) \/ Break(j)
  \/ \E w \in Workers :
       \/ \E S \in SUBSET Jobs : Lease(w, S) \/ GiveBack(w, S)
       \/ \E j \in Jobs, outcome \in Outcomes : Settle(w, j, outcome)

LeaseSpec == LeaseInit /\ [][LeaseNext]_leaseVars
=============================================================================

------------------------------- MODULE Reaper -------------------------------
(***************************************************************************)
(* The heartbeat writer and the reaper of worker/src/heartbeat.ts.          *)
(*                                                                         *)
(* startReaper sets two interval timers on the same callback, so every      *)
(* worker hosts two reap loops that fire together: Reapers are the loops    *)
(* and HostOf the process each one runs in.  reapPc[p] is the next await:   *)
(*   "idle"    findMany of the stale active workers                         *)
(*   "mark"    workers.status := dead for the next of them                  *)
(*   "orphans" its executions that are still running                        *)
(*   "claimed" the claimed or running jobs of those executions              *)
(*   "requeue" jobs.status := queued, attempt_count + 1                     *)
(*   "close"   running executions of the job := failed                      *)
(***************************************************************************)
EXTENDS Poller

CONSTANTS
  Reapers,    \* reap loops
  HostOf,     \* the worker process a reap loop runs in
  MaxStalls   \* bound on heartbeats a live process misses

ASSUME HostAssumption == HostOf \in [Reapers -> Workers]
ASSUME StallsAssumption == MaxStalls \in Nat

VARIABLES
  reapPc,   \* control point of each reap loop
  suspects, \* stale workers it has still to handle
  victim,   \* the worker it is handling
  orphans,  \* jobs of the victim it has still to requeue
  orphan,   \* the job whose executions it closes next
  stalls    \* heartbeats missed by live processes so far

reaperVars == <<reapPc, suspects, victim, orphans, orphan, stalls>>

ReapPcs == {"idle", "mark", "orphans", "claimed", "requeue", "close"}

ReaperInit ==
  /\ reapPc = [p \in Reapers |-> "idle"]
  /\ suspects = [p \in Reapers |-> {}]
  /\ victim = [p \in Reapers |-> NoWorker]
  /\ orphans = [p \in Reapers |-> {}]
  /\ orphan = [p \in Reapers |-> NoJob]
  /\ stalls = 0

ReaperTypeOK ==
  /\ reapPc \in [Reapers -> ReapPcs]
  /\ suspects \in [Reapers -> SUBSET Workers]
  /\ victim \in [Reapers -> Workers \cup {NoWorker}]
  /\ orphans \in [Reapers -> SUBSET Jobs]
  /\ orphan \in [Reapers -> Jobs \cup {NoJob}]
  /\ stalls \in 0..MaxStalls

\* last_heartbeat_at falls behind the TTL.  A process that is down sends no
\* heartbeat; a live one misses them when its event loop or database hangs.
HeartbeatLapses(w) ==
  /\ ~stale[w]
  /\ \/ ~Alive(w) /\ UNCHANGED stalls
     \/ Alive(w) /\ stalls < MaxStalls /\ stalls' = stalls + 1
  /\ stale' = [stale EXCEPT ![w] = TRUE]
  /\ UNCHANGED <<status, attempts, due, dlq, exec, owner, workerRow, lockedBy,
                 executorVars, proc, pollerVars,
                 reapPc, suspects, victim, orphans, orphan>>

\* The writer updates last_heartbeat_at only: a row marked dead stays dead.
Heartbeat(w) ==
  /\ Alive(w)
  /\ stale[w]
  /\ stale' = [stale EXCEPT ![w] = FALSE]
  /\ UNCHANGED <<status, attempts, due, dlq, exec, owner, workerRow, lockedBy,
                 executorVars, proc, pollerVars, reaperVars>>

ReapAt(p, here) == reapPc[p] = here /\ Alive(HostOf[p])
ReapGoto(p, next) == reapPc' = [reapPc EXCEPT ![p] = next]

\* The victim is done with: on to the next stale worker, if there is one.
NextSuspect(p) ==
  /\ ReapGoto(p, IF suspects[p] = {} THEN "idle" ELSE "mark")
  /\ victim' = [victim EXCEPT ![p] = NoWorker]

StaleWorkers == {w \in Workers : workerRow[w] = "active" /\ stale[w]}
RunningOf(w) == {r \in Runs : exec[r] = "running" /\ owner[r] = w}
OrphanedJobs(w) == {JobOf(r) : r \in RunningOf(w)}

FindStaleWorkers(p) ==
  /\ ReapAt(p, "idle")
  /\ StaleWorkers # {}
  /\ suspects' = [suspects EXCEPT ![p] = StaleWorkers]
  /\ ReapGoto(p, "mark")
  /\ UNCHANGED <<tables, executorVars, proc, pollerVars,
                 victim, orphans, orphan, stalls>>

\* Every column of the row but status is left alone, and no one checks that
\* the worker is still stale.
MarkDead(p) ==
  /\ ReapAt(p, "mark")
  /\ \E w \in suspects[p] :
       /\ workerRow' = [workerRow EXCEPT ![w] = "dead"]
       /\ victim' = [victim EXCEPT ![p] = w]
       /\ suspects' = [suspects EXCEPT ![p] = @ \ {w}]
  /\ ReapGoto(p, "orphans")
  /\ UNCHANGED <<status, attempts, due, dlq, exec, owner, stale, lockedBy,
                 executorVars, proc, pollerVars, orphans, orphan, stalls>>

FindOrphans(p) ==
  /\ ReapAt(p, "orphans")
  /\ orphans' = [orphans EXCEPT ![p] = OrphanedJobs(victim[p])]
  /\ IF OrphanedJobs(victim[p]) = {}
       THEN NextSuspect(p)
       ELSE ReapGoto(p, "claimed") /\ UNCHANGED victim
  /\ UNCHANGED <<tables, executorVars, proc, pollerVars, suspects, orphan, stalls>>

\* Mutant: the second query replaces the first one's jobs, and asks for
\* claimed jobs only.
FindOnlyClaimed(p) ==
  /\ ReapAt(p, "claimed")
  /\ orphans' = [orphans EXCEPT ![p] =
                   {j \in OrphanedJobs(victim[p]) : status[j] = "claimed"}]
  /\ IF orphans'[p] = {}
       THEN NextSuspect(p)
       ELSE ReapGoto(p, "requeue") /\ UNCHANGED victim
  /\ UNCHANGED <<tables, executorVars, proc, pollerVars, suspects, orphan, stalls>>

\* "Also pick up jobs in 'claimed' state": the query asks for a running
\* execution of the worker, so it adds only jobs that started one meanwhile.
FindClaimed(p) ==
  /\ ReapAt(p, "claimed")
  /\ orphans' = [orphans EXCEPT ![p] =
                   @ \cup {j \in OrphanedJobs(victim[p]) : status[j] \in InFlight}]
  /\ ReapGoto(p, "requeue")
  /\ UNCHANGED <<tables, executorVars, proc, pollerVars,
                 suspects, victim, orphan, stalls>>

\* Mutant: the requeue does not charge the attempt.
RequeueUncharged(p, j) ==
  /\ ReapAt(p, "requeue")
  /\ j \in orphans[p]
  /\ SetJob(j, "queued", attempts[j], due[j])
  /\ orphan' = [orphan EXCEPT ![p] = j]
  /\ orphans' = [orphans EXCEPT ![p] = @ \ {j}]
  /\ ReapGoto(p, "close")
  /\ UNCHANGED <<dlq, exec, owner, workerRow, stale, lockedBy,
                 executorVars, proc, pollerVars, suspects, victim, stalls>>

\* Whatever the row says by now.
RequeueJob(p, j) ==
  /\ ReapAt(p, "requeue")
  /\ j \in orphans[p]
  /\ SetJob(j, "queued", attempts[j] + 1, due[j])
  /\ orphan' = [orphan EXCEPT ![p] = j]
  /\ orphans' = [orphans EXCEPT ![p] = @ \ {j}]
  /\ ReapGoto(p, "close")
  /\ UNCHANGED <<dlq, exec, owner, workerRow, stale, lockedBy,
                 executorVars, proc, pollerVars, suspects, victim, stalls>>

NextOrphan(p) ==
  /\ orphan' = [orphan EXCEPT ![p] = NoJob]
  /\ IF orphans[p] # {}
       THEN ReapGoto(p, "requeue") /\ UNCHANGED victim
       ELSE NextSuspect(p)

\* Mutant: the updateMany has lost its status filter.
AllExecutions(j) == {r \in Runs : JobOf(r) = j /\ exec[r] # "none"}

OpenExecutions(j) == {r \in Runs : JobOf(r) = j /\ exec[r] = "running"}

\* updateMany by job id: the executions of every worker, not of the victim.
CloseExecutions(p) ==
  /\ ReapAt(p, "close")
  /\ exec' = [r \in Runs |->
                IF r \in OpenExecutions(orphan[p]) THEN "failed" ELSE exec[r]]
  /\ NextOrphan(p)
  /\ UNCHANGED <<status, attempts, due, dlq, owner, workerRow, stale, lockedBy,
                 executorVars, proc, pollerVars, suspects, orphans, stalls>>

\* An error before the loop over the jobs ends the cycle; one inside it is
\* caught per job, and the loop goes on with the next job.
CycleFails(p) ==
  /\ ReapAt(p, "mark") \/ ReapAt(p, "orphans") \/ ReapAt(p, "claimed")
  /\ Fault
  /\ suspects' = [suspects EXCEPT ![p] = {}]
  /\ orphans' = [orphans EXCEPT ![p] = {}]
  /\ victim' = [victim EXCEPT ![p] = NoWorker]
  /\ ReapGoto(p, "idle")
  /\ UNCHANGED <<tables, runPc, seen, proc, pollerVars, orphan, stalls>>

RequeueFails(p, j) ==
  /\ ReapAt(p, "requeue")
  /\ j \in orphans[p]
  /\ Fault
  /\ orphans' = [orphans EXCEPT ![p] = @ \ {j}]
  /\ IF orphans[p] # {j}
       THEN ReapGoto(p, "requeue") /\ UNCHANGED victim
       ELSE NextSuspect(p)
  /\ UNCHANGED <<tables, runPc, seen, proc, pollerVars, suspects, orphan, stalls>>

CloseFails(p) ==
  /\ ReapAt(p, "close")
  /\ Fault
  /\ NextOrphan(p)
  /\ UNCHANGED <<tables, runPc, seen, proc, pollerVars, suspects, orphans, stalls>>

ReapFault(p) ==
  \/ CycleFails(p) \/ CloseFails(p)
  \/ \E j \in Jobs : RequeueFails(p, j)
=============================================================================

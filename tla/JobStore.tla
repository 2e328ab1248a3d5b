------------------------------ MODULE JobStore ------------------------------
(***************************************************************************)
(* The PostgreSQL tables that every Chronos process reads and writes, cut   *)
(* down to the columns the job pipeline decides on: jobs(status,            *)
(* attempt_count, run_at), dead_letter_jobs, job_executions(status,         *)
(* worker_id) and workers(status, last_heartbeat_at).                       *)
(*                                                                         *)
(* A Prisma call outside a transaction, and a $transaction, is one atomic   *)
(* step.  The exception is the claim transaction, whose SELECT .. FOR       *)
(* UPDATE and UPDATE are separate statements: the rows it holds locked in   *)
(* between are lockedBy[w], and a writer of such a row waits.               *)
(***************************************************************************)
EXTENDS Integers, FiniteSets

CONSTANTS
  Jobs,         \* ids of the job rows
  Queues,       \* ids of the queues
  Workers,      \* worker processes; each registers one row in workers
  QueueOf,      \* the queue of a job
  Limit,        \* queues.concurrency_limit
  MaxAttempts,  \* max_attempts of the retry policy in effect for a job
  Priority,     \* jobs.priority
  Delayed,      \* jobs submitted with a run_at in the future
  MaxLaunches,  \* bound on executeJob calls per job (run identities)
  NoJob, NoQueue, NoWorker  \* null, for a local that has no value

ASSUME JobsAssumption == IsFiniteSet(Jobs)
ASSUME QueuesAssumption == QueueOf \in [Jobs -> Queues]
ASSUME LimitAssumption == Limit \in [Queues -> Nat]
ASSUME AttemptsAssumption == MaxAttempts \in [Jobs -> Nat]
ASSUME PriorityAssumption == Priority \in [Jobs -> Int]
ASSUME DelayedAssumption == Delayed \subseteq Jobs
ASSUME LaunchesAssumption == MaxLaunches \in Nat
ASSUME NullAssumption == NoJob \notin Jobs /\ NoQueue \notin Queues /\ NoWorker \notin Workers

\* A run is the n-th call of executeJob for job j; it creates at most one
\* row of job_executions, which is identified with the run.
Runs == Jobs \X (1..MaxLaunches)
JobOf(r) == r[1]

\* "absent" stands for a job that is not submitted yet.  The enum's value
\* "failed" is left out: no code writes it.
JobStatus == {"absent", "scheduled", "queued", "claimed", "running",
              "completed", "dead_letter", "cancelled"}
InFlight == {"claimed", "running"}
ExecStatus == {"none", "running", "completed", "failed"}

VARIABLES
  status,     \* jobs.status
  attempts,   \* jobs.attempt_count
  due,        \* jobs.run_at <= now()
  dlq,        \* jobs that have a row in dead_letter_jobs
  exec,       \* job_executions.status of the row of each run
  owner,      \* the worker of each run: job_executions.worker_id
  workerRow,  \* workers.status
  stale,      \* workers.last_heartbeat_at is older than the TTL
  lockedBy    \* rows locked by the open claim transaction of a worker

tables == <<status, attempts, due, dlq, exec, owner, workerRow, stale, lockedBy>>

StoreInit ==
  /\ status = [j \in Jobs |-> "absent"]
  /\ attempts = [j \in Jobs |-> 0]
  /\ due = [j \in Jobs |-> FALSE]
  /\ dlq = {}
  /\ exec = [r \in Runs |-> "none"]
  /\ owner = [r \in Runs |-> NoWorker]
  /\ workerRow = [w \in Workers |-> "active"]
  /\ stale = [w \in Workers |-> FALSE]
  /\ lockedBy = [w \in Workers |-> {}]

StoreTypeOK ==
  /\ status \in [Jobs -> JobStatus]
  /\ attempts \in [Jobs -> Nat]
  /\ due \in [Jobs -> BOOLEAN]
  /\ dlq \subseteq Jobs
  /\ exec \in [Runs -> ExecStatus]
  /\ owner \in [Runs -> Workers \cup {NoWorker}]
  /\ workerRow \in [Workers -> {"active", "draining", "dead"}]
  /\ stale \in [Workers -> BOOLEAN]
  /\ lockedBy \in [Workers -> SUBSET Jobs]

Locked(j) == \E w \in Workers : j \in lockedBy[w]

\* The update of one job row; the row lock of an open claim makes it wait.
SetJob(j, s, a, d) ==
  /\ ~Locked(j)
  /\ status' = [status EXCEPT ![j] = s]
  /\ attempts' = [attempts EXCEPT ![j] = a]
  /\ due' = [due EXCEPT ![j] = d]

\* now() passes the run_at of a job.
RunAtPasses(j) ==
  /\ status[j] # "absent"
  /\ ~due[j]
  /\ due' = [due EXCEPT ![j] = TRUE]
  /\ UNCHANGED <<status, attempts, dlq, exec, owner, workerRow, stale, lockedBy>>
=============================================================================

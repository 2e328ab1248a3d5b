------------------------------ MODULE Executor ------------------------------
(***************************************************************************)
(* executeJob of worker/src/executor.ts: one run of a claimed job.  Every   *)
(* await is an interleaving point, so a run is a small process of its own.  *)
(* runPc[r] names what the run does next:                                   *)
(*   "fetch"   findUnique of the job and its retry policy                   *)
(*   "mark"    jobs.status := running                                       *)
(*   "record"  insert of the job_executions row                             *)
(*   "handler" the job handler, then the success transaction                *)
(*   "fail"    the catch block: retry or dead letter                        *)
(* None of the updates looks at the row it overwrites.                      *)
(***************************************************************************)
EXTENDS JobStore

CONSTANT MaxFaults   \* bound on database errors and lost acknowledgements

ASSUME FaultsAssumption == MaxFaults \in Nat

VARIABLES
  runPc,   \* control point of each run
  seen,    \* job.attemptCount as the run read it
  faults   \* database faults so far

executorVars == <<runPc, seen, faults>>

RunPcs == {"unused", "fetch", "mark", "record", "handler", "fail", "done"}

ExecutorInit ==
  /\ runPc = [r \in Runs |-> "unused"]
  /\ seen = [r \in Runs |-> 0]
  /\ faults = 0

ExecutorTypeOK ==
  /\ runPc \in [Runs -> RunPcs]
  /\ seen \in [Runs -> Nat]
  /\ faults \in 0..MaxFaults

Live(r) == runPc[r] \notin {"unused", "done"}
LiveRuns(j) == {r \in Runs : JobOf(r) = j /\ Live(r)}
At(r, here) == runPc[r] = here
Goto(r, next) == runPc' = [runPc EXCEPT ![r] = next]
\* The run is over and its local variables with it.
Finish(r) ==
  /\ runPc' = [runPc EXCEPT ![r] = "done"]
  /\ seen' = [seen EXCEPT ![r] = 0]
Fault == faults < MaxFaults /\ faults' = faults + 1

\* findUnique: attempt_count is read here and used after the handler.
FetchJob(r) ==
  /\ At(r, "fetch")
  /\ seen' = [seen EXCEPT ![r] = attempts[JobOf(r)]]
  /\ Goto(r, "mark")
  /\ UNCHANGED <<tables, faults>>

MarkRunning(r) ==
  /\ At(r, "mark")
  /\ SetJob(JobOf(r), "running", attempts[JobOf(r)], due[JobOf(r)])
  /\ Goto(r, "record")
  /\ UNCHANGED <<dlq, exec, owner, workerRow, stale, lockedBy, seen, faults>>

CreateExecution(r) ==
  /\ At(r, "record")
  /\ exec' = [exec EXCEPT ![r] = "running"]
  /\ Goto(r, "handler")
  /\ UNCHANGED <<status, attempts, due, dlq, owner, workerRow, stale, lockedBy,
                 seen, faults>>

\* The rows the success transaction writes.
Completed(r) ==
  /\ SetJob(JobOf(r), "completed", attempts[JobOf(r)], due[JobOf(r)])
  /\ exec' = [exec EXCEPT ![r] = "completed"]

CommitSuccess(r) ==
  /\ At(r, "handler")
  /\ Completed(r)
  /\ Finish(r)
  /\ UNCHANGED <<dlq, owner, workerRow, stale, lockedBy, faults>>

HandlerThrows(r) ==
  /\ At(r, "handler")
  /\ Goto(r, "fail")
  /\ UNCHANGED <<tables, seen, faults>>

\* The success transaction is inside the try block: when it is rolled back,
\* the job takes the failure path although its handler returned.
SuccessRollsBack(r) ==
  /\ At(r, "handler")
  /\ Fault
  /\ Goto(r, "fail")
  /\ UNCHANGED <<tables, seen>>

\* It commits, but the client gets an error instead of the acknowledgement.
SuccessAckLost(r) ==
  /\ At(r, "handler")
  /\ Fault
  /\ Completed(r)
  /\ Goto(r, "fail")
  /\ UNCHANGED <<dlq, owner, workerRow, stale, lockedBy, seen>>

NewAttemptCount(r) == seen[r] + 1

\* Mutant: the retry counts the attempt but leaves the job running.
RetryStaysRunning(r) ==
  /\ At(r, "fail")
  /\ NewAttemptCount(r) < MaxAttempts[JobOf(r)]
  /\ SetJob(JobOf(r), "running", NewAttemptCount(r), FALSE)
  /\ exec' = [exec EXCEPT ![r] = "failed"]
  /\ Finish(r)
  /\ UNCHANGED <<dlq, owner, workerRow, stale, lockedBy, faults>>

RetryLater(r) ==
  /\ At(r, "fail")
  /\ NewAttemptCount(r) < MaxAttempts[JobOf(r)]
  /\ SetJob(JobOf(r), "queued", NewAttemptCount(r), FALSE)
  /\ exec' = [exec EXCEPT ![r] = "failed"]
  /\ Finish(r)
  /\ UNCHANGED <<dlq, owner, workerRow, stale, lockedBy, faults>>

MoveToDeadLetter(r) ==
  /\ At(r, "fail")
  /\ NewAttemptCount(r) >= MaxAttempts[JobOf(r)]
  /\ JobOf(r) \notin dlq
  /\ SetJob(JobOf(r), "dead_letter", NewAttemptCount(r), due[JobOf(r)])
  /\ exec' = [exec EXCEPT ![r] = "failed"]
  /\ dlq' = dlq \cup {JobOf(r)}
  /\ Finish(r)
  /\ UNCHANGED <<owner, workerRow, stale, lockedBy, faults>>

\* original_job_id is unique: with a row already there the transaction is
\* rolled back and executeJob rejects, leaving the job as it is.
DeadLetterConflict(r) ==
  /\ At(r, "fail")
  /\ NewAttemptCount(r) >= MaxAttempts[JobOf(r)]
  /\ JobOf(r) \in dlq
  /\ Finish(r)
  /\ UNCHANGED <<tables, faults>>

\* A query outside the try block rejects; the poller only logs it.  The
\* insert of the execution may have been applied all the same.
RunAborts(r) ==
  /\ runPc[r] \in {"fetch", "mark", "record", "fail"}
  /\ Fault
  /\ \/ UNCHANGED exec
     \/ At(r, "record") /\ exec' = [exec EXCEPT ![r] = "running"]
  /\ Finish(r)
  /\ UNCHANGED <<status, attempts, due, dlq, owner, workerRow, stale, lockedBy>>

RunStep(r) ==
  \/ FetchJob(r) \/ MarkRunning(r) \/ CreateExecution(r)
  \/ CommitSuccess(r) \/ HandlerThrows(r)
  \/ RetryLater(r) \/ MoveToDeadLetter(r) \/ DeadLetterConflict(r)

RunFault(r) == SuccessRollsBack(r) \/ SuccessAckLost(r) \/ RunAborts(r)
=============================================================================

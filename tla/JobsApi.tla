------------------------------- MODULE JobsApi ------------------------------
(***************************************************************************)
(* The job routes of api/src/routes/jobs.ts that write job rows: submit a   *)
(* one-shot job, cancel and manual retry.  Cancel and retry read the row,   *)
(* check its status, and write it in a later query without checking again.  *)
(***************************************************************************)
EXTENDS Reaper

CONSTANT Requests   \* cancel and retry calls, each made at most once

VARIABLES
  reqPc,   \* "new", "cancel" or "retry" (row read and accepted), "done"
  reqJob,  \* the job it is about
  sawDlq   \* job.deadLetter as the retry read it

apiVars == <<reqPc, reqJob, sawDlq>>

ApiInit ==
  /\ reqPc = [c \in Requests |-> "new"]
  /\ reqJob = [c \in Requests |-> NoJob]
  /\ sawDlq = [c \in Requests |-> FALSE]

ApiTypeOK ==
  /\ reqPc \in [Requests -> {"new", "cancel", "retry", "done"}]
  /\ reqJob \in [Requests -> Jobs \cup {NoJob}]
  /\ \A c \in Requests : reqPc[c] \in {"cancel", "retry"} => reqJob[c] \in Jobs
  /\ sawDlq \in [Requests -> BOOLEAN]

CancellableWhenClaimed == {"queued", "scheduled", "claimed"}      \* mutant
Cancellable == {"queued", "scheduled"}
RetryableWhenCompleted == {"dead_letter", "cancelled", "completed"}  \* mutant
Retryable == {"dead_letter", "cancelled"}   \* and "failed", never written

Answer(c) ==
  /\ reqPc' = [reqPc EXCEPT ![c] = "done"]
  /\ reqJob' = [reqJob EXCEPT ![c] = NoJob]
  /\ sawDlq' = [sawDlq EXCEPT ![c] = FALSE]

SubmitJob(j) ==
  /\ status[j] = "absent"
  /\ status' = [status EXCEPT ![j] = IF j \in Delayed THEN "scheduled" ELSE "queued"]
  /\ due' = [due EXCEPT ![j] = j \notin Delayed]
  /\ UNCHANGED <<attempts, dlq, exec, owner, workerRow, stale, lockedBy,
                 executorVars, proc, pollerVars, reaperVars, apiVars>>

\* A call whose check fails answers 400 and changes nothing.
ReadForCancel(c, j) ==
  /\ reqPc[c] = "new"
  /\ status[j] \in Cancellable
  /\ reqPc' = [reqPc EXCEPT ![c] = "cancel"]
  /\ reqJob' = [reqJob EXCEPT ![c] = j]
  /\ UNCHANGED <<tables, executorVars, proc, pollerVars, reaperVars, sawDlq>>

WriteCancelled(c) ==
  LET j == reqJob[c]
  IN /\ reqPc[c] = "cancel"
     /\ SetJob(j, "cancelled", attempts[j], due[j])
     /\ Answer(c)
     /\ UNCHANGED <<dlq, exec, owner, workerRow, stale, lockedBy,
                    executorVars, proc, pollerVars, reaperVars>>

ReadForRetry(c, j) ==
  /\ reqPc[c] = "new"
  /\ status[j] \in Retryable
  /\ reqPc' = [reqPc EXCEPT ![c] = "retry"]
  /\ reqJob' = [reqJob EXCEPT ![c] = j]
  /\ sawDlq' = [sawDlq EXCEPT ![c] = j \in dlq]
  /\ UNCHANGED <<tables, executorVars, proc, pollerVars, reaperVars>>

\* Mutant: the retry leaves the dead letter row where it is.
CommitRetryKeepsRow(c) ==
  LET j == reqJob[c]
  IN /\ reqPc[c] = "retry"
     /\ SetJob(j, "queued", 0, TRUE)
     /\ Answer(c)
     /\ UNCHANGED <<dlq, exec, owner, workerRow, stale, lockedBy,
                    executorVars, proc, pollerVars, reaperVars>>

\* The dead letter row is deleted if the read saw one, and only then.
CommitRetry(c) ==
  LET j == reqJob[c]
  IN /\ reqPc[c] = "retry"
     /\ sawDlq[c] => j \in dlq
     /\ SetJob(j, "queued", 0, TRUE)
     /\ dlq' = IF sawDlq[c] THEN dlq \ {j} ELSE dlq
     /\ Answer(c)
     /\ UNCHANGED <<exec, owner, workerRow, stale, lockedBy,
                    executorVars, proc, pollerVars, reaperVars>>

\* The delete finds no row any more: the transaction is rolled back.
RetryConflict(c) ==
  /\ reqPc[c] = "retry"
  /\ sawDlq[c]
  /\ reqJob[c] \notin dlq
  /\ Answer(c)
  /\ UNCHANGED <<tables, executorVars, proc, pollerVars, reaperVars>>
=============================================================================

------------------------------ MODULE Chronos -------------------------------
(***************************************************************************)
(* The Chronos job pipeline: the API routes, the poll loop, the runs, the   *)
(* reap loops and the life of every worker process, interleaved over the    *)
(* shared tables.                                                           *)
(*                                                                         *)
(* The code never re-checks a row before it overwrites it.  disturbed is a  *)
(* history variable: the jobs for which such a blind write landed on a row  *)
(* that no longer was what its writer had seen.  It names exactly the races *)
(* the code leaves open; everything else is claimed of the other jobs.      *)
(***************************************************************************)
EXTENDS WorkerProcess

VARIABLE disturbed

vars == <<tables, executorVars, proc, pollerVars, reaperVars, apiVars,
          processVars, disturbed>>

Init ==
  /\ StoreInit /\ ExecutorInit /\ PollerInit /\ ReaperInit /\ ApiInit /\ ProcessInit
  /\ disturbed = {}

TypeOK ==
  /\ StoreTypeOK /\ ExecutorTypeOK /\ PollerTypeOK
  /\ ReaperTypeOK /\ ApiTypeOK /\ ProcessTypeOK
  /\ disturbed \subseteq Jobs

-----------------------------------------------------------------------------
(* Who holds a job, and which writes are blind. *)

\* Jobs between the claim transaction of a worker and their launch.
InHand(w) == lockedBy[w] \cup batch[w]

\* A job is held while some process is going to act on the claim of it.
Held(j) == LiveRuns(j) # {} \/ \E w \in Workers : j \in InHand(w)

Settled == {"completed", "dead_letter", "cancelled"}

DisturbIf(cond, j) == disturbed' = IF cond THEN disturbed \cup {j} ELSE disturbed

\* The row left the statuses the route had checked, or a dead letter row
\* that the read did not see is left behind.
CancelIsStale(c) == status[reqJob[c]] \notin Cancellable
RetryIsStale(c) ==
  \/ status[reqJob[c]] \notin Retryable
  \/ ~sawDlq[c] /\ reqJob[c] \in dlq

\* The job is no orphan of the victim (any more): its execution ended, it was
\* settled or queued since, or someone alive holds it (its worker was
\* suspected wrongly, or it was claimed again).
RequeueIsStale(p, j) ==
  \/ j \notin OrphanedJobs(victim[p])
  \/ status[j] \notin InFlight
  \/ Held(j)

\* The execution of a run that is under way is closed with the orphan's.
ClosesLiveRun(p) == \E r \in OpenExecutions(orphan[p]) : Live(r)

-----------------------------------------------------------------------------
OfRuns == UNCHANGED <<proc, pollerVars, reaperVars, apiVars, processVars>>
OfPoller == UNCHANGED <<reaperVars, apiVars, processVars>>
OfReaper == UNCHANGED <<apiVars, processVars>>
Calm == UNCHANGED disturbed

\* What every process does on its own.
RunProgress(r) == RunStep(r) /\ OfRuns /\ Calm
PollProgress(w) == PollStep(w) /\ OfPoller /\ Calm
ReapProgress(p) ==
  \/ /\ FindStaleWorkers(p) \/ MarkDead(p) \/ FindOrphans(p) \/ FindClaimed(p)
     /\ OfReaper /\ Calm
  \/ \E j \in Jobs : RequeueJob(p, j) /\ OfReaper /\ DisturbIf(RequeueIsStale(p, j), j)
  \/ CloseExecutions(p) /\ OfReaper /\ DisturbIf(ClosesLiveRun(p), orphan[p])
HeartbeatProgress(w) == Heartbeat(w) /\ OfReaper /\ Calm
ShutdownProgress(w) == ShutdownStep(w) /\ Calm
TimeProgress(j) == RunAtPasses(j) /\ UNCHANGED executorVars /\ OfRuns /\ Calm

\* What clients ask for.
Client ==
  /\ UNCHANGED processVars
  /\ \/ /\ \/ \E j \in Jobs : SubmitJob(j)
           \/ \E c \in Requests, j \in Jobs : ReadForCancel(c, j) \/ ReadForRetry(c, j)
           \/ \E c \in Requests : RetryConflict(c)
        /\ Calm
     \/ \E c \in Requests :
          \/ WriteCancelled(c) /\ DisturbIf(CancelIsStale(c), reqJob[c])
          \/ CommitRetry(c) /\ DisturbIf(RetryIsStale(c), reqJob[c])

\* What goes wrong.  A success that was committed but reported as an error
\* sends the run on to overwrite its own result.
Fail ==
  \/ \E r \in Runs :
       \/ (SuccessRollsBack(r) \/ RunAborts(r)) /\ OfRuns /\ Calm
       \/ SuccessAckLost(r) /\ OfRuns /\ DisturbIf(TRUE, JobOf(r))
  \/ \E w \in Workers :
       \/ ClaimFails(w) /\ OfPoller /\ Calm
       \/ HeartbeatLapses(w) /\ OfReaper /\ Calm
       \/ (Crash(w) \/ ReceiveSigterm(w)) /\ Calm
  \/ \E p \in Reapers : ReapFault(p) /\ OfReaper /\ Calm

Next ==
  \/ \E r \in Runs : RunProgress(r)
  \/ \E w \in Workers : PollProgress(w) \/ HeartbeatProgress(w) \/ ShutdownProgress(w)
  \/ \E p \in Reapers : ReapProgress(p)
  \/ \E j \in Jobs : TimeProgress(j)
  \/ Client
  \/ Fail

Spec == Init /\ [][Next]_vars

\* Every started await returns, every timer fires, time passes, and a
\* process that is down misses its heartbeats.  Clients owe nothing, and no
\* fault has to happen.
Fairness ==
  /\ \A r \in Runs : WF_vars(RunProgress(r))
  /\ \A w \in Workers :
       /\ WF_vars(PollProgress(w))
       /\ WF_vars(HeartbeatProgress(w))
       /\ WF_vars(ShutdownProgress(w))
       /\ WF_vars(~Alive(w) /\ HeartbeatLapses(w) /\ OfReaper /\ Calm)
  /\ \A p \in Reapers : WF_vars(ReapProgress(p))
  /\ \A j \in Jobs : WF_vars(TimeProgress(j))

FairSpec == Spec /\ Fairness

-----------------------------------------------------------------------------
(* Safety.  A job that no blind write has hit behaves as documented. *)

\* SKIP LOCKED hands a job to one claimer, the claim to one run, and no
\* requeue happens while that run is alive: a job has at most one holder
\* (claimer.ts, poller.ts, heartbeat.ts).
SoleHolder ==
  \A j \in Jobs \ disturbed :
    /\ \A r1, r2 \in LiveRuns(j) : r1 = r2
    /\ \A w \in Workers : j \in InHand(w) =>
         /\ LiveRuns(j) = {}
         /\ \A v \in Workers : j \in InHand(v) => v = w

\* The row says what its holder is doing, so the holder's next update, which
\* checks nothing, finds the row as the holder left it (executor.ts).
RowTracksHolder ==
  \A j \in Jobs \ disturbed :
    /\ \A w \in Workers : j \in lockedBy[w] => status[j] = "queued"
    /\ \A w \in Workers : j \in batch[w] => status[j] = "claimed"
    /\ \A r \in LiveRuns(j) :
         status[j] = IF runPc[r] \in {"fetch", "mark"} THEN "claimed" ELSE "running"

\* As long as no process dies and no query fails, a job that is claimed or
\* running is in somebody's hands: it is not lost between claim and launch,
\* nor by a run that ends without settling it (poller.ts, executor.ts).
NoLostJob ==
  crashes = 0 /\ stops = 0 /\ faults = 0 =>
    \A j \in Jobs \ disturbed : status[j] \in InFlight => Held(j)

\* The dead letter queue and the jobs agree: whatever races happen, a
\* dead_letter job has its row and has spent its attempts; and a row belongs
\* to a dead_letter job (executor.ts, the retry route).
DeadLetterConsistent ==
  /\ \A j \in Jobs : status[j] = "dead_letter" => j \in dlq /\ attempts[j] >= MaxAttempts[j]
  /\ \A j \in dlq \ disturbed : status[j] = "dead_letter"

FailedRuns(j) == {r \in Runs : JobOf(r) = j /\ exec[r] = "failed"}
BeingClosed(j) == {p \in Reapers : orphan[p] = j}

\* An attempt is charged once for every failed execution and for nothing
\* else; the reaper charges it just before it closes the execution, and a
\* manual retry forgives them all (executor.ts, heartbeat.ts).
AttemptsAreExecutions ==
  faults = 0 /\ stops = 0 /\ crashes <= 1 =>
    \A j \in Jobs \ disturbed :
      LET charged == Cardinality(FailedRuns(j)) + Cardinality(BeingClosed(j))
      IN /\ attempts[j] <= charged
         /\ Requests = {} => attempts[j] = charged

\* A worker alone never holds more jobs of a queue than its limit, although
\* the count it claims by is stale when the claim commits (claimer.ts).
HeldBy(w, q) ==
  {j \in Jobs \ disturbed :
     /\ QueueOf[j] = q
     /\ j \in InHand(w) \/ \E r \in LiveRuns(j) : owner[r] = w}
WorkerWithinLimit ==
  \A w \in Workers, q \in Queues : Cardinality(HeldBy(w, q)) <= Limit[q]

\* A completed job stays completed (executor.ts, the cancel and retry routes,
\* the reaper's requeue).
CompletedIsFinal ==
  [][\A j \in Jobs : status[j] = "completed" /\ j \notin disturbed'
       => status'[j] = "completed"]_vars

SuccessfulRuns(j) == {r \in Runs : JobOf(r) = j /\ exec[r] = "completed"}

\* A job succeeds once: it is completed exactly when one execution of it is
\* (executor.ts, heartbeat.ts).
CompletedOnce ==
  \A j \in Jobs \ disturbed :
    Cardinality(SuccessfulRuns(j)) = IF status[j] = "completed" THEN 1 ELSE 0

\* Unless the wait times out, a graceful shutdown cuts off no run: none is
\* under way when the worker declares itself dead, and none starts after
\* (index.ts, poller.ts).  startPoller undoes a signal that comes before it:
\* the worker is "up" again, and goes on claiming while it shuts down.
ShutdownCutsNoRun ==
  timeouts = 0 =>
    \A w \in Workers :
      downPc[w] \in {"dead", "exit"} /\ proc[w] = "stopping" => InFlightRuns(w) = {}

-----------------------------------------------------------------------------
(* The pipeline implements JobLease. *)

PhaseOf(j) ==
  IF j \in disturbed THEN "wild"
  ELSE IF status[j] = "absent" THEN "none"
  ELSE IF status[j] \in Settled THEN status[j]
  ELSE "open"

LesseesOf(j) ==
  IF j \in disturbed THEN {}
  ELSE {w \in Workers : j \in InHand(w) \/ \E r \in LiveRuns(j) : owner[r] = w}

Leases == INSTANCE JobLease WITH
  phase <- [j \in Jobs |-> PhaseOf(j)],
  lessees <- [j \in Jobs |-> LesseesOf(j)]

\* Claims, runs, crashes, shutdowns, the reaper and the routes together treat
\* a job that no blind write has hit as a lease: one worker acts on it at a
\* time, only that worker settles it, a cancel lands only on a job nobody
\* holds, and a settled job is reopened by a manual retry only (claimer.ts,
\* executor.ts, heartbeat.ts, the cancel and retry routes).
LeaseKept == Leases!LeaseSpec

-----------------------------------------------------------------------------
(* Liveness. *)

\* As long as no process dies, is told to stop or meets a fault, a queued job is
\* eventually completed, dead-lettered or cancelled (poller.ts, executor.ts).
QueuedJobsSettle ==
  \A j \in Jobs :
    (status[j] = "queued") ~> (status[j] \in Settled \/ crashes + stops + faults > 0)

\* When a worker dies while it runs a job whose execution is recorded, the
\* job is settled all the same, provided that the row of the worker still said
\* active (one that dies while it drains is never reaped) and that no other
\* worker dies or exits, which may be in the middle of reaping it (heartbeat.ts).
RecordedOrphansSettle ==
  \A r \in Runs :
    (/\ exec[r] = "running" /\ ~Live(r)
     /\ workerRow[owner[r]] = "active"
     /\ \E p \in Reapers : Alive(HostOf[p]))
      ~> (\/ status[JobOf(r)] \in Settled
          \/ \E p \in Reapers : HostOf[p] # owner[r] /\ ~Alive(HostOf[p]))

-----------------------------------------------------------------------------
(* What the documentation promises and the code does not keep. *)

\* docs/DESIGN_DECISIONS.md:27, "This guarantees no duplicate execution".
NoDuplicateExecution ==
  \A r1, r2 \in Runs :
    /\ JobOf(r1) = JobOf(r2)
    /\ At(r1, "handler") /\ At(r2, "handler")
    => r1 = r2

\* README.md:433, "total claims never exceed the true available capacity".
ConcurrencyLimitRespected ==
  \A q \in Queues : Cardinality(InFlightOf(q)) <= Limit[q]

\* routes/jobs.ts:813, "only queued or scheduled jobs can be cancelled".
OnlyPendingJobsAreCancelled ==
  [][\A j \in Jobs : status'[j] = "cancelled" /\ status[j] # "cancelled"
       => status[j] \in Cancellable]_vars

\* docs/ARCHITECTURE.md:45, the reaper "requeues any jobs that were claimed or
\* running" under a dead worker.
ClaimedOrphansAreRequeued ==
  \A j \in Jobs : (status[j] = "claimed" /\ ~Held(j)) ~> (status[j] # "claimed")

\* README.md:44, "Immediate, delayed (run_at)": a delayed job gets to run.
DelayedJobsRun ==
  \A j \in Jobs : (status[j] = "scheduled") ~> (status[j] # "scheduled")
=============================================================================

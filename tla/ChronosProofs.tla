--------------------------- MODULE ChronosProofs ----------------------------
(***************************************************************************)
(* Proofs about Chronos for every value of its constants.                   *)
(***************************************************************************)
EXTENDS Chronos, FiniteSetTheorems, TLAPS

\* The frame conditions of the composition, for the steps that leave whole
\* components alone.
LEMMA InitTypeOK == Init => TypeOK
  BY NullAssumption, QueuesAssumption, LaunchesAssumption, FaultsAssumption,
     StallsAssumption, ExitsAssumption
  DEF Init, StoreInit, ExecutorInit, PollerInit, ReaperInit, ApiInit, ProcessInit,
      TypeOK, StoreTypeOK, ExecutorTypeOK, PollerTypeOK, ReaperTypeOK, ApiTypeOK,
      ProcessTypeOK, JobStatus, ExecStatus, RunPcs, PollPcs, ReapPcs, DownPcs

\* Every count of jobs is a natural number.
LEMMA InFlightCount ==
  ASSUME NEW q PROVE Cardinality(InFlightOf(q)) \in Nat
  <1>1. IsFiniteSet(InFlightOf(q))
    BY JobsAssumption, FS_Subset DEF InFlightOf
  <1> QED BY <1>1, FS_CardinalityType

LEMMA RunTypeOK ==
  ASSUME TypeOK, NEW r \in Runs, RunStep(r) \/ RunFault(r), OfRuns, disturbed' \subseteq Jobs
  PROVE  TypeOK'
  <1> JobOf(r) \in Jobs
    BY DEF Runs, JobOf
  <1> USE DEF TypeOK, StoreTypeOK, ExecutorTypeOK, PollerTypeOK, ReaperTypeOK,
              ApiTypeOK, ProcessTypeOK, OfRuns, pollerVars, reaperVars, apiVars,
              processVars, executorVars, tables, At, Goto, SetJob, Fault, Finish
  <1>1. CASE FetchJob(r)
    BY <1>1 DEF FetchJob, RunPcs
  <1>2. CASE MarkRunning(r)
    BY <1>2 DEF MarkRunning, RunPcs, JobStatus
  <1>3. CASE CreateExecution(r)
    BY <1>3 DEF CreateExecution, RunPcs, ExecStatus
  <1>4. CASE CommitSuccess(r)
    BY <1>4 DEF CommitSuccess, Completed, RunPcs, ExecStatus, JobStatus
  <1>5. CASE HandlerThrows(r)
    BY <1>5 DEF HandlerThrows, RunPcs
  <1>6. CASE RetryLater(r)
    BY <1>6 DEF RetryLater, NewAttemptCount, RunPcs, ExecStatus, JobStatus
  <1>7. CASE MoveToDeadLetter(r)
    BY <1>7 DEF MoveToDeadLetter, NewAttemptCount, RunPcs, ExecStatus, JobStatus
  <1>8. CASE DeadLetterConflict(r)
    BY <1>8 DEF DeadLetterConflict, RunPcs
  <1>9. CASE SuccessRollsBack(r)
    BY <1>9, FaultsAssumption DEF SuccessRollsBack, RunPcs
  <1>10. CASE SuccessAckLost(r)
    BY <1>10, FaultsAssumption DEF SuccessAckLost, Completed, RunPcs, ExecStatus, JobStatus
  <1>11. CASE RunAborts(r)
    <2>1. exec' \in [Runs -> ExecStatus]
      BY <1>11 DEF RunAborts, ExecStatus
    <2>2. faults' \in 0..MaxFaults
      BY <1>11, FaultsAssumption DEF RunAborts
    <2> QED BY <1>11, <2>1, <2>2 DEF RunAborts, RunPcs
  <1> QED
    BY <1>1, <1>2, <1>3, <1>4, <1>5, <1>6, <1>7, <1>8, <1>9, <1>10, <1>11
    DEF RunStep, RunFault

LEMMA PollTypeOK ==
  ASSUME TypeOK, NEW w \in Workers, PollStep(w) \/ ClaimFails(w), OfPoller,
         disturbed' \subseteq Jobs
  PROVE  TypeOK'
  <1> USE DEF TypeOK, StoreTypeOK, ExecutorTypeOK, PollerTypeOK, ReaperTypeOK,
              ApiTypeOK, ProcessTypeOK, OfPoller, reaperVars, apiVars,
              processVars, executorVars, tables, PollAt, NextQueue, Fault
  <1>1. CASE FetchQueues(w)
    BY <1>1 DEF FetchQueues, PollPcs
  <1>2. CASE CountInFlight(w)
    <2>1. PICK q \in todo[w] : CountInFlight(w)!3!(q)
      BY <1>2 DEF CountInFlight
    <2>2. q \in Queues /\ Limit[q] - Cardinality(InFlightOf(q)) \in Int
      BY <2>1, InFlightCount, LimitAssumption
    <2>3. available' \in [Workers -> Nat]
      <3> DEFINE free == Limit[q] - Cardinality(InFlightOf(q))
      <3>1. CASE free > 0
        <4>1. available' = [available EXCEPT ![w] = free]
          BY <3>1, <2>1
        <4> QED BY <3>1, <4>1, <2>2
      <3>2. CASE ~(free > 0)
        BY <3>2, <2>1
      <3> QED BY <3>1, <3>2
    <2>4. todo' \in [Workers -> SUBSET Queues]
      BY <2>1
    <2>5. queue' \in [Workers -> Queues \cup {NoQueue}]
      <3>1. queue' = queue \/ queue' = [queue EXCEPT ![w] = q]
        BY <2>1
      <3> QED BY <2>2, <3>1
    <2>6. pollPc' \in [Workers -> PollPcs]
      BY <2>1 DEF PollPcs
    <2> QED BY <1>2, <2>3, <2>4, <2>5, <2>6 DEF CountInFlight
  <1>3. CASE StopCycle(w)
    BY <1>3 DEF StopCycle, PollPcs
  <1>4. CASE SelectClaimable(w)
    <2>1. PICK S \in TopOf(Claimable(queue[w]), available[w]) : SelectClaimable(w)!2!(S)
      BY <1>4 DEF SelectClaimable
    <2>2. S \subseteq Jobs
      BY <2>1 DEF TopOf, Claimable
    <2>3. CASE S = {}
      <3>1. NextQueue(w) /\ UNCHANGED lockedBy
        BY <2>1, <2>3
      <3> QED BY <1>4, <3>1 DEF SelectClaimable, PollPcs
    <2>4. CASE S # {}
      <3>1. /\ lockedBy' = [lockedBy EXCEPT ![w] = S]
            /\ pollPc' = [pollPc EXCEPT ![w] = "update"]
            /\ UNCHANGED <<queue, available>>
        BY <2>1, <2>4
      <3> QED BY <1>4, <2>2, <3>1 DEF SelectClaimable, PollPcs
    <2> QED BY <2>3, <2>4
  <1>5. CASE UpdateClaimed(w)
    BY <1>5 DEF UpdateClaimed, Claim, PollPcs, JobStatus
  <1>6. CASE LaunchBatch(w)
    <2>1. \A j \in batch[w] : launches[j] + 1 \in 0..MaxLaunches
      BY <1>6, LaunchesAssumption DEF LaunchBatch
    <2> QED BY <1>6, <2>1 DEF LaunchBatch, RunPcs, PollPcs
  <1>7. CASE DropBatch(w)
    BY <1>7 DEF DropBatch, PollPcs
  <1>9. CASE StartPoller(w)
    BY <1>9 DEF StartPoller, PollPcs
  <1>8. CASE ClaimFails(w)
    <2>1. faults' \in 0..MaxFaults
      BY <1>8, FaultsAssumption DEF ClaimFails
    <2>2. status' \in [Jobs -> JobStatus]
      BY <1>8 DEF ClaimFails, Claim, JobStatus
    <2>3. lockedBy' \in [Workers -> SUBSET Jobs]
      BY <1>8 DEF ClaimFails, Claim
    <2>4. pollPc' \in [Workers -> PollPcs]
      BY <1>8 DEF ClaimFails, PollPcs
    <2>5. /\ queue' \in [Workers -> Queues \cup {NoQueue}]
          /\ available' \in [Workers -> Nat]
      BY <1>8 DEF ClaimFails
    <2> QED BY <1>8, <2>1, <2>2, <2>3, <2>4, <2>5 DEF ClaimFails
  <1> QED
    BY <1>1, <1>2, <1>3, <1>4, <1>5, <1>6, <1>7, <1>8, <1>9 DEF PollStep

LEMMA ReapTypeOK ==
  ASSUME TypeOK, NEW p \in Reapers, OfReaper, disturbed' \subseteq Jobs,
         \/ FindStaleWorkers(p) \/ MarkDead(p) \/ FindOrphans(p) \/ FindClaimed(p)
         \/ (\E j \in Jobs : RequeueJob(p, j)) \/ CloseExecutions(p)
         \/ ReapFault(p)
  PROVE  TypeOK'
  <1> USE DEF TypeOK, StoreTypeOK, ExecutorTypeOK, PollerTypeOK, ReaperTypeOK,
              ApiTypeOK, ProcessTypeOK, OfReaper, apiVars, processVars, pollerVars,
              executorVars, tables, ReapAt, ReapGoto, NextSuspect, NextOrphan,
              Fault, ReapPcs
  <1>0. \A w : OrphanedJobs(w) \subseteq Jobs
    BY DEF OrphanedJobs, RunningOf, Runs, JobOf
  <1>1. CASE FindStaleWorkers(p)
    BY <1>1 DEF FindStaleWorkers, StaleWorkers
  <1>2. CASE MarkDead(p)
    BY <1>2 DEF MarkDead
  <1>3. CASE FindOrphans(p)
    BY <1>3, <1>0 DEF FindOrphans
  <1>4. CASE FindClaimed(p)
    BY <1>4, <1>0 DEF FindClaimed
  <1>5. ASSUME NEW j \in Jobs, RequeueJob(p, j) PROVE TypeOK'
    BY <1>5 DEF RequeueJob, SetJob, JobStatus
  <1>6. CASE CloseExecutions(p)
    BY <1>6 DEF CloseExecutions, ExecStatus
  <1>7. CASE CycleFails(p)
    BY <1>7, FaultsAssumption DEF CycleFails
  <1>8. ASSUME NEW j \in Jobs, RequeueFails(p, j) PROVE TypeOK'
    <2>1. /\ reapPc' \in [Reapers -> ReapPcs]
          /\ victim' \in [Reapers -> Workers \cup {NoWorker}]
      <3>1. CASE orphans[p] # {j}
        BY <3>1, <1>8 DEF RequeueFails
      <3>2. CASE orphans[p] = {j}
        BY <3>2, <1>8 DEF RequeueFails
      <3> QED BY <3>1, <3>2
    <2>2. /\ orphans' \in [Reapers -> SUBSET Jobs]
          /\ faults' \in 0..MaxFaults
          /\ UNCHANGED <<tables, runPc, seen, proc, pollerVars, suspects, orphan, stalls>>
      BY <1>8, FaultsAssumption DEF RequeueFails
    <2> QED BY <2>1, <2>2
  <1>9. CASE CloseFails(p)
    <2>1. /\ reapPc' \in [Reapers -> ReapPcs]
          /\ victim' \in [Reapers -> Workers \cup {NoWorker}]
      BY <1>9 DEF CloseFails
    <2>2. /\ orphan' \in [Reapers -> Jobs \cup {NoJob}]
          /\ faults' \in 0..MaxFaults
          /\ UNCHANGED <<tables, runPc, seen, proc, pollerVars, suspects, orphans, stalls>>
      BY <1>9, FaultsAssumption DEF CloseFails
    <2> QED BY <2>1, <2>2
  <1> QED
    BY <1>1, <1>2, <1>3, <1>4, <1>5, <1>6, <1>7, <1>8, <1>9 DEF ReapFault

LEMMA ClientTypeOK ==
  ASSUME TypeOK, Client
  PROVE  TypeOK'
  <1> USE DEF TypeOK, StoreTypeOK, ExecutorTypeOK, PollerTypeOK, ReaperTypeOK,
              ApiTypeOK, ProcessTypeOK, apiVars, processVars, pollerVars,
              reaperVars, executorVars, tables, Answer, SetJob, Calm, DisturbIf
  <1>0. UNCHANGED processVars
    BY DEF Client
  <1>1. ASSUME NEW j \in Jobs, SubmitJob(j), Calm PROVE TypeOK'
    BY <1>0, <1>1 DEF SubmitJob, JobStatus
  <1>2. ASSUME NEW c \in Requests, NEW j \in Jobs, ReadForCancel(c, j), Calm PROVE TypeOK'
    BY <1>0, <1>2 DEF ReadForCancel
  <1>3. ASSUME NEW c \in Requests, NEW j \in Jobs, ReadForRetry(c, j), Calm PROVE TypeOK'
    BY <1>0, <1>3 DEF ReadForRetry
  <1>4. ASSUME NEW c \in Requests, RetryConflict(c), Calm PROVE TypeOK'
    BY <1>0, <1>4 DEF RetryConflict
  <1>5. ASSUME NEW c \in Requests, WriteCancelled(c),
               DisturbIf(CancelIsStale(c), reqJob[c])
        PROVE TypeOK'
    BY <1>0, <1>5 DEF WriteCancelled, JobStatus
  <1>6. ASSUME NEW c \in Requests, CommitRetry(c),
               DisturbIf(RetryIsStale(c), reqJob[c])
        PROVE TypeOK'
    BY <1>0, <1>6 DEF CommitRetry, JobStatus
  <1> QED
    BY <1>1, <1>2, <1>3, <1>4, <1>5, <1>6 DEF Client

LEMMA ProcessTypeOKStep ==
  ASSUME TypeOK, NEW w \in Workers, Calm,
         ShutdownStep(w) \/ Crash(w) \/ ReceiveSigterm(w)
  PROVE  TypeOK'
  <1> USE ExitsAssumption, FaultsAssumption
      DEF TypeOK, StoreTypeOK, ExecutorTypeOK, PollerTypeOK, ReaperTypeOK,
          ApiTypeOK, ProcessTypeOK, apiVars, pollerVars, reaperVars,
          executorVars, tables, Calm, Fault, DownPcs, SetWorkerRow
  <1>1. CASE MarkDraining(w)
    <2>1. workerRow' \in [Workers -> {"active", "draining", "dead"}]
      BY <1>1 DEF MarkDraining
    <2>3. faults' \in 0..MaxFaults
      BY <1>1 DEF MarkDraining
    <2>2. awaited' \in [Workers -> SUBSET Runs]
      BY <1>1 DEF MarkDraining, InFlightRuns
    <2> QED BY <1>1, <2>1, <2>2, <2>3 DEF MarkDraining
  <1>2. CASE WaitForInFlight(w)
    <2>1. timeouts' \in 0..MaxTimeouts
      BY <1>2 DEF WaitForInFlight
    <2> QED BY <1>2, <2>1 DEF WaitForInFlight
  <1>3. CASE MarkSelfDead(w)
    <2>1. workerRow' \in [Workers -> {"active", "draining", "dead"}]
      BY <1>3 DEF MarkSelfDead
    <2>3. faults' \in 0..MaxFaults
      BY <1>3 DEF MarkSelfDead
    <2> QED BY <1>3, <2>1, <2>3 DEF MarkSelfDead
  <1>4. CASE Exit(w)
    BY <1>4 DEF Exit, Vanish, RunPcs, PollPcs, ReapPcs
  <1>5. CASE Crash(w)
    BY <1>5 DEF Crash, Vanish, RunPcs, PollPcs, ReapPcs
  <1>6. CASE ReceiveSigterm(w)
    BY <1>6 DEF ReceiveSigterm
  <1> QED
    BY <1>1, <1>2, <1>3, <1>4, <1>5, <1>6 DEF ShutdownStep

LEMMA ClockTypeOK ==
  ASSUME TypeOK, Calm,
         \/ \E w \in Workers : (Heartbeat(w) \/ HeartbeatLapses(w)) /\ OfReaper
         \/ \E j \in Jobs : RunAtPasses(j) /\ UNCHANGED executorVars /\ OfRuns
  PROVE  TypeOK'
  <1> USE StallsAssumption
      DEF TypeOK, StoreTypeOK, ExecutorTypeOK, PollerTypeOK, ReaperTypeOK,
          ApiTypeOK, ProcessTypeOK, apiVars, pollerVars, reaperVars, processVars,
          executorVars, tables, Calm, OfReaper, OfRuns
  <1>1. ASSUME NEW w \in Workers, Heartbeat(w), OfReaper PROVE TypeOK'
    BY <1>1 DEF Heartbeat
  <1>2. ASSUME NEW w \in Workers, HeartbeatLapses(w), OfReaper PROVE TypeOK'
    BY <1>2 DEF HeartbeatLapses
  <1>3. ASSUME NEW j \in Jobs, RunAtPasses(j), UNCHANGED executorVars, OfRuns PROVE TypeOK'
    BY <1>3 DEF RunAtPasses
  <1> QED BY <1>1, <1>2, <1>3

-----------------------------------------------------------------------------

LEMMA TypeOKStep == TypeOK /\ [Next]_vars => TypeOK'
  <1> SUFFICES ASSUME TypeOK, [Next]_vars PROVE TypeOK'
    OBVIOUS
  <1>d. disturbed \subseteq Jobs
    BY DEF TypeOK
  <1>1. ASSUME NEW r \in Runs, RunProgress(r) PROVE TypeOK'
    BY <1>1, <1>d, RunTypeOK DEF RunProgress, Calm
  <1>2. ASSUME NEW w \in Workers, PollProgress(w) PROVE TypeOK'
    BY <1>2, <1>d, PollTypeOK DEF PollProgress, Calm
  <1>3. ASSUME NEW w \in Workers, HeartbeatProgress(w) PROVE TypeOK'
    BY <1>3, ClockTypeOK DEF HeartbeatProgress
  <1>4. ASSUME NEW w \in Workers, ShutdownProgress(w) PROVE TypeOK'
    BY <1>4, ProcessTypeOKStep DEF ShutdownProgress
  <1>5. ASSUME NEW p \in Reapers, ReapProgress(p) PROVE TypeOK'
    <2>1. \A r \in Runs : JobOf(r) \in Jobs
      BY DEF Runs, JobOf
    <2>2. ClosesLiveRun(p) => orphan[p] \in Jobs
      BY <2>1 DEF ClosesLiveRun, OpenExecutions
    <2>3. disturbed' \subseteq Jobs
      BY <1>5, <1>d, <2>2 DEF ReapProgress, Calm, DisturbIf
    <2>4. /\ OfReaper
          /\ \/ FindStaleWorkers(p) \/ MarkDead(p) \/ FindOrphans(p) \/ FindClaimed(p)
             \/ (\E j \in Jobs : RequeueJob(p, j)) \/ CloseExecutions(p)
      BY <1>5 DEF ReapProgress
    <2> QED BY <2>3, <2>4, ReapTypeOK
  <1>6. ASSUME NEW j \in Jobs, TimeProgress(j) PROVE TypeOK'
    BY <1>6, ClockTypeOK DEF TimeProgress
  <1>7. CASE Client
    BY <1>7, ClientTypeOK
  <1>8. CASE Fail
    <2>1. ASSUME NEW r \in Runs, RunFault(r), OfRuns, disturbed' \subseteq Jobs
          PROVE  TypeOK'
      BY <2>1, RunTypeOK
    <2>2. ASSUME NEW r \in Runs, SuccessAckLost(r), OfRuns, DisturbIf(TRUE, JobOf(r))
          PROVE  TypeOK'
      BY <2>1, <2>2, <1>d DEF DisturbIf, RunFault, Runs, JobOf
    <2>3. ASSUME NEW r \in Runs, SuccessRollsBack(r) \/ RunAborts(r), OfRuns, Calm
          PROVE  TypeOK'
      BY <2>1, <2>3, <1>d DEF Calm, RunFault
    <2>4. ASSUME NEW w \in Workers, ClaimFails(w), OfPoller, Calm PROVE TypeOK'
      BY <2>4, <1>d, PollTypeOK DEF Calm
    <2>5. ASSUME NEW w \in Workers, HeartbeatLapses(w), OfReaper, Calm PROVE TypeOK'
      BY <2>5, ClockTypeOK
    <2>6. ASSUME NEW w \in Workers, Crash(w) \/ ReceiveSigterm(w), Calm PROVE TypeOK'
      BY <2>6, ProcessTypeOKStep
    <2>7. ASSUME NEW p \in Reapers, ReapFault(p), OfReaper, Calm PROVE TypeOK'
      BY <2>7, <1>d, ReapTypeOK DEF Calm
    <2> QED
      BY <1>8, <2>2, <2>3, <2>4, <2>5, <2>6, <2>7 DEF Fail
  <1>9. CASE UNCHANGED vars
    BY <1>9
    DEF vars, TypeOK, StoreTypeOK, ExecutorTypeOK, PollerTypeOK, ReaperTypeOK,
        ApiTypeOK, ProcessTypeOK, apiVars, pollerVars, reaperVars, processVars,
        executorVars, tables
  <1> QED
    BY <1>1, <1>2, <1>3, <1>4, <1>5, <1>6, <1>7, <1>8, <1>9 DEF Next

\* Every variable keeps its type, for any number of jobs, workers, loops,
\* requests and faults.
THEOREM TypeCorrect == Spec => []TypeOK
  BY InitTypeOK, TypeOKStep, PTL DEF Spec

-----------------------------------------------------------------------------
(* Ownership: SoleHolder and RowTracksHolder are inductive together. A step  *)
(* matters to them in one of a few ways, and a lemma speaks of each.         *)

Ownership == SoleHolder /\ RowTracksHolder

RowOf(pc) == IF pc \in {"fetch", "mark"} THEN "claimed" ELSE "running"

LEMMA JobOfRun == \A r \in Runs : JobOf(r) \in Jobs
  BY DEF Runs, JobOf

\* Nothing that concerns the holders of an undisturbed job changes.
LEMMA OwnershipFrame ==
  ASSUME Ownership, UNCHANGED <<status, runPc, lockedBy, batch>>, disturbed \subseteq disturbed'
  PROVE  Ownership'
  BY DEF Ownership, SoleHolder, RowTracksHolder, LiveRuns, Live, InHand

\* Holders let go of jobs, and the rows stay.
LEMMA OwnershipRelease ==
  ASSUME Ownership, status' = status, disturbed \subseteq disturbed',
         \A r \in Runs : runPc'[r] \in {runPc[r], "done"},
         \A w \in Workers : lockedBy'[w] \subseteq lockedBy[w] /\ batch'[w] \subseteq batch[w]
  PROVE  Ownership'
  <1>1. \A j \in Jobs : LiveRuns(j)' \subseteq LiveRuns(j)
    BY DEF LiveRuns, Live
  <1>2. \A j \in Jobs : \A r \in LiveRuns(j)' : runPc'[r] = runPc[r]
    BY DEF LiveRuns, Live
  <1>3. \A w \in Workers : InHand(w)' \subseteq InHand(w)
    BY DEF InHand
  <1>4. SoleHolder'
    BY <1>1, <1>3 DEF Ownership, SoleHolder
  <1>5. RowTracksHolder'
    BY <1>1, <1>2 DEF Ownership, RowTracksHolder
  <1> QED BY <1>4, <1>5 DEF Ownership

\* The row of a job that nobody holds is written.
LEMMA OwnershipRow ==
  ASSUME TypeOK, Ownership, NEW j \in Jobs, NEW s,
         status' = [status EXCEPT ![j] = s],
         UNCHANGED <<runPc, lockedBy, batch>>, disturbed \subseteq disturbed',
         j \notin disturbed' => ~Held(j)
  PROVE  Ownership'
  <1>1. SoleHolder'
    BY DEF Ownership, SoleHolder, LiveRuns, Live, InHand
  <1>2. ASSUME NEW k \in Jobs \ disturbed'
        PROVE  /\ \A w \in Workers : k \in lockedBy'[w] => status'[k] = "queued"
               /\ \A w \in Workers : k \in batch'[w] => status'[k] = "claimed"
               /\ \A r \in LiveRuns(k)' : status'[k] = RowOf(runPc'[r])
    <2>1. LiveRuns(k)' = LiveRuns(k)
      BY DEF LiveRuns, Live
    <2>2. CASE k = j
      BY <2>1, <2>2, <1>2 DEF Held, InHand
    <2>3. CASE k # j
      <3>1. status'[k] = status[k]
        BY <2>3 DEF TypeOK, StoreTypeOK
      <3> QED BY <3>1, <2>1, <1>2 DEF Ownership, RowTracksHolder, RowOf
    <2> QED BY <2>2, <2>3
  <1>3. RowTracksHolder'
    BY <1>2 DEF RowTracksHolder, RowOf
  <1> QED BY <1>1, <1>3 DEF Ownership

\* A run moves on, and writes at most the row of its job.
LEMMA OwnershipRun ==
  ASSUME TypeOK, Ownership, NEW r \in Runs, Live(r), NEW pc,
         runPc' = [runPc EXCEPT ![r] = pc],
         \A k \in Jobs : k # JobOf(r) => status'[k] = status[k],
         UNCHANGED <<lockedBy, batch>>, disturbed \subseteq disturbed',
         pc # "done" /\ JobOf(r) \notin disturbed' => status'[JobOf(r)] = RowOf(pc)
  PROVE  Ownership'
  <1>1. \A k \in Jobs : LiveRuns(k)' \subseteq LiveRuns(k)
    BY DEF LiveRuns, Live, TypeOK, ExecutorTypeOK
  <1>2. SoleHolder'
    BY <1>1 DEF Ownership, SoleHolder, InHand
  <1>3. ASSUME NEW k \in Jobs \ disturbed'
        PROVE  /\ \A w \in Workers : k \in lockedBy'[w] => status'[k] = "queued"
               /\ \A w \in Workers : k \in batch'[w] => status'[k] = "claimed"
               /\ \A q \in LiveRuns(k)' : status'[k] = RowOf(runPc'[q])
    <2>1. CASE k = JobOf(r)
      <3>1. r \in LiveRuns(k)
        BY <2>1 DEF LiveRuns
      <3>2. \A w \in Workers : k \notin lockedBy[w] /\ k \notin batch[w]
        BY <3>1, <1>3 DEF Ownership, SoleHolder, InHand
      <3>3. \A q \in LiveRuns(k)' : q = r
        BY <3>1, <1>1, <1>3 DEF Ownership, SoleHolder
      <3>4. runPc'[r] = pc
        BY DEF TypeOK, ExecutorTypeOK
      <3>5. r \in LiveRuns(k)' => pc # "done"
        BY <3>4 DEF LiveRuns, Live
      <3> QED BY <3>2, <3>3, <3>4, <3>5, <2>1, <1>3
    <2>2. CASE k # JobOf(r)
      <3>1. status'[k] = status[k]
        BY <2>2
      <3>2. \A q \in LiveRuns(k)' : runPc'[q] = runPc[q]
        BY <2>2 DEF LiveRuns, TypeOK, ExecutorTypeOK
      <3> QED BY <3>1, <3>2, <1>1, <1>3 DEF Ownership, RowTracksHolder, RowOf
    <2> QED BY <2>1, <2>2
  <1>4. RowTracksHolder'
    BY <1>3 DEF RowTracksHolder, RowOf
  <1> QED BY <1>2, <1>4 DEF Ownership

-----------------------------------------------------------------------------

LEMMA OwnershipOfRuns ==
  ASSUME TypeOK, Ownership, NEW r \in Runs, OfRuns, disturbed \subseteq disturbed',
         \/ RunStep(r) \/ SuccessRollsBack(r) \/ RunAborts(r)
         \/ SuccessAckLost(r) /\ JobOf(r) \in disturbed'
  PROVE  Ownership'
  <1> USE JobOfRun
  <1>0. /\ batch' = batch
        /\ JobOf(r) \notin disturbed' => (Live(r) => status[JobOf(r)] = RowOf(runPc[r]))
    BY DEF OfRuns, pollerVars, Ownership, RowTracksHolder, LiveRuns, RowOf
  <1>j. \A s, a, d : SetJob(JobOf(r), s, a, d) =>
          /\ status'[JobOf(r)] = s
          /\ \A k \in Jobs : k # JobOf(r) => status'[k] = status[k]
    BY DEF SetJob, TypeOK, StoreTypeOK
  <1>1. ASSUME runPc[r] \in {"fetch", "mark", "record", "handler", "fail"}
        PROVE  Live(r)
    BY <1>1 DEF Live
  <1>2. CASE FetchJob(r)
    BY <1>0, <1>1, <1>2, OwnershipRun DEF FetchJob, At, Goto, tables, RowOf
  <1>3. CASE MarkRunning(r)
    BY <1>0, <1>1, <1>3, <1>j, OwnershipRun DEF MarkRunning, At, Goto, RowOf
  <1>4. CASE CreateExecution(r)
    BY <1>0, <1>1, <1>4, OwnershipRun DEF CreateExecution, At, Goto, RowOf
  <1>5. CASE CommitSuccess(r)
    BY <1>0, <1>1, <1>5, <1>j, OwnershipRun DEF CommitSuccess, Completed, At, Finish
  <1>6. CASE HandlerThrows(r)
    BY <1>0, <1>1, <1>6, OwnershipRun DEF HandlerThrows, At, Goto, tables, RowOf
  <1>7. CASE RetryLater(r)
    BY <1>0, <1>1, <1>7, <1>j, OwnershipRun DEF RetryLater, At, Finish
  <1>8. CASE MoveToDeadLetter(r)
    BY <1>0, <1>1, <1>8, <1>j, OwnershipRun DEF MoveToDeadLetter, At, Finish
  <1>9. CASE DeadLetterConflict(r)
    BY <1>0, <1>1, <1>9, OwnershipRun DEF DeadLetterConflict, At, Finish, tables
  <1>10. CASE SuccessRollsBack(r)
    BY <1>0, <1>1, <1>10, OwnershipRun DEF SuccessRollsBack, At, Goto, tables, RowOf
  <1>11. CASE SuccessAckLost(r) /\ JobOf(r) \in disturbed'
    BY <1>0, <1>1, <1>11, <1>j, OwnershipRun DEF SuccessAckLost, Completed, At, Goto
  <1>12. CASE RunAborts(r)
    BY <1>0, <1>1, <1>12, OwnershipRun DEF RunAborts, Finish
  <1> QED
    BY <1>2, <1>3, <1>4, <1>5, <1>6, <1>7, <1>8, <1>9, <1>10, <1>11, <1>12
    DEF RunStep

LEMMA OwnershipOfReaper ==
  ASSUME TypeOK, Ownership, NEW p \in Reapers, ReapProgress(p) \/ (ReapFault(p) /\ Calm)
  PROVE  Ownership'
  <1>1. CASE ReapFault(p) /\ Calm
    BY <1>1, OwnershipFrame
    DEF ReapFault, CycleFails, CloseFails, RequeueFails, Calm, tables, pollerVars
  <1>2. CASE /\ FindStaleWorkers(p) \/ MarkDead(p) \/ FindOrphans(p) \/ FindClaimed(p)
             /\ Calm
    BY <1>2, OwnershipFrame
    DEF FindStaleWorkers, MarkDead, FindOrphans, FindClaimed, Calm, tables,
        pollerVars, executorVars
  <1>3. ASSUME NEW j \in Jobs, RequeueJob(p, j), DisturbIf(RequeueIsStale(p, j), j)
        PROVE  Ownership'
    <2>1. disturbed \subseteq disturbed' /\ (Held(j) => j \in disturbed')
      BY <1>3 DEF DisturbIf, RequeueIsStale
    <2> QED
      BY <1>3, <2>1, OwnershipRow
      DEF RequeueJob, SetJob, pollerVars, executorVars
  <1>4. CASE CloseExecutions(p) /\ DisturbIf(ClosesLiveRun(p), orphan[p])
    BY <1>4, OwnershipFrame DEF CloseExecutions, DisturbIf, pollerVars, executorVars
  <1> QED
    BY <1>1, <1>2, <1>3, <1>4 DEF ReapProgress

\* Only queued rows are claimed and no queued or settled job has a live holder,
\* unless a claim transaction has it locked.
LEMMA UnclaimedIsUnheld ==
  ASSUME TypeOK, Ownership, NEW j \in Jobs \ disturbed,
         status[j] \notin InFlight, ~Locked(j)
  PROVE  ~Held(j)
  BY DEF Ownership, RowTracksHolder, Held, InHand, Locked, InFlight

LEMMA OwnershipOfClient ==
  ASSUME TypeOK, Ownership, Client
  PROVE  Ownership'
  <1>1. ASSUME NEW j \in Jobs, SubmitJob(j), Calm PROVE Ownership'
    <2>1. ~Locked(j) \/ j \in disturbed
      BY <1>1 DEF SubmitJob, Ownership, RowTracksHolder, Locked
    <2>2. j \notin disturbed => ~Held(j)
      BY <1>1, <2>1, UnclaimedIsUnheld DEF SubmitJob, InFlight
    <2> QED
      BY <1>1, <2>2, OwnershipRow DEF SubmitJob, Calm, executorVars, pollerVars
  <1>2. ASSUME NEW c \in Requests, NEW j \in Jobs,
               ReadForCancel(c, j) \/ ReadForRetry(c, j) \/ RetryConflict(c), Calm
        PROVE  Ownership'
    BY <1>2, OwnershipFrame
    DEF ReadForCancel, ReadForRetry, RetryConflict, Calm, tables, executorVars, pollerVars
  <1>3. ASSUME NEW c \in Requests, RetryConflict(c), Calm PROVE Ownership'
    BY <1>3, OwnershipFrame DEF RetryConflict, Calm, tables, executorVars, pollerVars
  <1>4. ASSUME NEW c \in Requests, WriteCancelled(c),
               DisturbIf(CancelIsStale(c), reqJob[c])
        PROVE  Ownership'
    <2>1. reqJob[c] \in Jobs /\ ~Locked(reqJob[c])
      BY <1>4 DEF WriteCancelled, SetJob, TypeOK, ApiTypeOK
    <2>2. disturbed \subseteq disturbed'
          /\ (reqJob[c] \notin disturbed' => status[reqJob[c]] \in Cancellable)
      BY <1>4 DEF DisturbIf, CancelIsStale
    <2>3. reqJob[c] \notin disturbed' => ~Held(reqJob[c])
      BY <2>1, <2>2, UnclaimedIsUnheld DEF Cancellable, InFlight
    <2> QED
      BY <1>4, <2>1, <2>2, <2>3, OwnershipRow
      DEF WriteCancelled, SetJob, executorVars, pollerVars
  <1>5. ASSUME NEW c \in Requests, CommitRetry(c),
               DisturbIf(RetryIsStale(c), reqJob[c])
        PROVE  Ownership'
    <2>1. reqJob[c] \in Jobs /\ ~Locked(reqJob[c])
      BY <1>5 DEF CommitRetry, SetJob, TypeOK, ApiTypeOK
    <2>2. disturbed \subseteq disturbed'
          /\ (reqJob[c] \notin disturbed' => status[reqJob[c]] \in Retryable)
      BY <1>5 DEF DisturbIf, RetryIsStale
    <2>3. reqJob[c] \notin disturbed' => ~Held(reqJob[c])
      BY <2>1, <2>2, UnclaimedIsUnheld DEF Retryable, InFlight
    <2> QED
      BY <1>5, <2>1, <2>2, <2>3, OwnershipRow
      DEF CommitRetry, SetJob, executorVars, pollerVars
  <1> QED
    BY <1>1, <1>2, <1>3, <1>4, <1>5 DEF Client

LEMMA OwnershipSelect ==
  ASSUME TypeOK, Ownership, NEW w \in Workers, SelectClaimable(w), UNCHANGED disturbed
  PROVE  Ownership'
  <1>1. PICK S \in TopOf(Claimable(queue[w]), available[w]) :
          \/ UNCHANGED lockedBy
          \/ lockedBy' = [lockedBy EXCEPT ![w] = S]
    BY DEF SelectClaimable
  <1>2. UNCHANGED <<status, runPc, batch>>
    BY DEF SelectClaimable, executorVars
  <1>3. CASE UNCHANGED lockedBy
    BY <1>2, <1>3, OwnershipFrame
  <1>4. CASE lockedBy' = [lockedBy EXCEPT ![w] = S]
    <2>1. \A j \in S : j \in Jobs /\ status[j] = "queued" /\ ~Locked(j)
      BY DEF TopOf, Claimable
    <2>2. \A j \in S \ disturbed : ~Held(j)
      BY <2>1, UnclaimedIsUnheld DEF InFlight
    <2>3. \A v \in Workers : lockedBy'[v] = IF v = w THEN S ELSE lockedBy[v]
      BY <1>4 DEF TypeOK, StoreTypeOK
    <2>4. \A j \in Jobs : LiveRuns(j)' = LiveRuns(j)
      BY <1>2 DEF LiveRuns, Live
    <2>5. SoleHolder'
      BY <1>2, <2>2, <2>3, <2>4 DEF Ownership, SoleHolder, Held, InHand
    <2>6. RowTracksHolder'
      BY <1>2, <2>1, <2>3, <2>4 DEF Ownership, RowTracksHolder
    <2> QED BY <2>5, <2>6 DEF Ownership
  <1> QED BY <1>1, <1>3, <1>4

\* The locked rows become claimed, whether the poll loop learns of it or not.
LEMMA OwnershipClaim ==
  ASSUME TypeOK, Ownership, NEW w \in Workers, Claim(w), UNCHANGED <<runPc, disturbed>>,
         batch' = batch \/ batch' = [batch EXCEPT ![w] = lockedBy[w]]
  PROVE  Ownership'
  <1>1. \A v \in Workers : /\ lockedBy'[v] = IF v = w THEN {} ELSE lockedBy[v]
                           /\ batch'[v] = batch[v] \/ (v = w /\ batch'[v] = lockedBy[v])
    BY DEF Claim, TypeOK, StoreTypeOK, PollerTypeOK
  <1>2. \A j \in Jobs : status'[j] = IF j \in lockedBy[w] THEN "claimed" ELSE status[j]
    BY DEF Claim
  <1>3. \A j \in Jobs : LiveRuns(j)' = LiveRuns(j)
    BY DEF LiveRuns, Live
  <1>4. \A v \in Workers : InHand(v)' \subseteq InHand(v)
    BY <1>1 DEF InHand
  <1>5. SoleHolder'
    BY <1>3, <1>4 DEF Ownership, SoleHolder
  <1>6. ASSUME NEW j \in Jobs \ disturbed'
        PROVE  /\ \A v \in Workers : j \in lockedBy'[v] => status'[j] = "queued"
               /\ \A v \in Workers : j \in batch'[v] => status'[j] = "claimed"
               /\ \A r \in LiveRuns(j)' : status'[j] = RowOf(runPc'[r])
    <2>1. CASE j \in lockedBy[w]
      <3>1. \A v \in Workers : j \in lockedBy[v] => v = w
        BY <1>6, <2>1 DEF Ownership, SoleHolder, InHand
      <3>2. LiveRuns(j) = {}
        BY <1>6, <2>1 DEF Ownership, SoleHolder, InHand
      <3> QED BY <1>1, <1>2, <1>3, <2>1, <3>1, <3>2
    <2>2. CASE j \notin lockedBy[w]
      BY <1>1, <1>2, <1>3, <1>6, <2>2 DEF Ownership, RowTracksHolder, RowOf
    <2> QED BY <2>1, <2>2
  <1>7. RowTracksHolder'
    BY <1>6 DEF RowTracksHolder, RowOf
  <1> QED BY <1>5, <1>7 DEF Ownership

LEMMA OwnershipLaunch ==
  ASSUME TypeOK, Ownership, NEW w \in Workers, LaunchBatch(w), UNCHANGED disturbed
  PROVE  Ownership'
  <1>1. UNCHANGED <<status, lockedBy>>
    BY DEF LaunchBatch
  <1>2. \A v \in Workers : batch'[v] = IF v = w THEN {} ELSE batch[v]
    BY DEF LaunchBatch, TypeOK, PollerTypeOK
  <1>3. ASSUME NEW j \in batch[w]
        PROVE  NewRun(j) \in Runs /\ JobOf(NewRun(j)) = j
    BY <1>3, LaunchesAssumption
    DEF LaunchBatch, NewRun, Runs, JobOf, TypeOK, PollerTypeOK
  <1>4. \A r \in Runs : runPc'[r] = IF r = NewRun(JobOf(r)) /\ JobOf(r) \in batch[w]
                                      THEN "fetch" ELSE runPc[r]
    BY <1>3 DEF LaunchBatch
  <1>5. ASSUME NEW j \in Jobs, j \in batch[w], j \notin disturbed
        PROVE  /\ LiveRuns(j) = {}
               /\ \A v \in Workers : j \in InHand(v) => v = w
               /\ j \notin lockedBy[w]
               /\ status[j] = "claimed"
    BY <1>5 DEF Ownership, SoleHolder, RowTracksHolder, InHand
  <1>6. ASSUME NEW j \in Jobs, j \in batch[w], j \notin disturbed
        PROVE  \A r \in LiveRuns(j)' : r = NewRun(j) /\ runPc'[r] = "fetch"
    BY <1>4, <1>5, <1>6 DEF LiveRuns, Live
  <1>7. ASSUME NEW j \in Jobs, j \notin batch[w]
        PROVE  /\ LiveRuns(j)' = LiveRuns(j)
               /\ \A r \in LiveRuns(j)' : runPc'[r] = runPc[r]
    BY <1>4, <1>7 DEF LiveRuns, Live
  <1>8. ASSUME NEW j \in Jobs \ disturbed'
        PROVE  /\ \A r1, r2 \in LiveRuns(j)' : r1 = r2
               /\ \A v \in Workers : j \in InHand(v)' =>
                    /\ LiveRuns(j)' = {}
                    /\ \A u \in Workers : j \in InHand(u)' => u = v
    <2>1. CASE j \in batch[w]
      BY <1>1, <1>2, <1>5, <1>6, <1>8, <2>1 DEF InHand
    <2>2. CASE j \notin batch[w]
      BY <1>1, <1>2, <1>7, <1>8, <2>2 DEF InHand, Ownership, SoleHolder
    <2> QED BY <2>1, <2>2
  <1>9. ASSUME NEW j \in Jobs \ disturbed'
        PROVE  /\ \A v \in Workers : j \in lockedBy'[v] => status'[j] = "queued"
               /\ \A v \in Workers : j \in batch'[v] => status'[j] = "claimed"
               /\ \A r \in LiveRuns(j)' : status'[j] = RowOf(runPc'[r])
    <2>1. CASE j \in batch[w]
      BY <1>1, <1>2, <1>5, <1>6, <1>9, <2>1 DEF InHand, RowOf
    <2>2. CASE j \notin batch[w]
      BY <1>1, <1>2, <1>7, <1>9, <2>2 DEF Ownership, RowTracksHolder, RowOf
    <2> QED BY <2>1, <2>2
  <1>10. SoleHolder'
    BY <1>8 DEF SoleHolder
  <1>11. RowTracksHolder'
    BY <1>9 DEF RowTracksHolder, RowOf
  <1> QED BY <1>10, <1>11 DEF Ownership

LEMMA OwnershipOfPoller ==
  ASSUME TypeOK, Ownership, NEW w \in Workers, PollStep(w) \/ ClaimFails(w), Calm
  PROVE  Ownership'
  <1>1. CASE StartPoller(w) \/ FetchQueues(w) \/ CountInFlight(w) \/ StopCycle(w)
    BY <1>1, OwnershipFrame
    DEF StartPoller, FetchQueues, CountInFlight, StopCycle, tables, executorVars, Calm
  <1>2. CASE SelectClaimable(w)
    BY <1>2, OwnershipSelect DEF Calm
  <1>3. CASE UpdateClaimed(w)
    BY <1>3, OwnershipClaim DEF UpdateClaimed, executorVars, Calm
  <1>4. CASE ClaimFails(w)
    <2>1. CASE lockedBy' = [lockedBy EXCEPT ![w] = {}] /\ UNCHANGED status
      <3>1. /\ \A v \in Workers : lockedBy'[v] \subseteq lockedBy[v]
            /\ UNCHANGED <<status, runPc, batch, disturbed>>
        BY <1>4, <2>1 DEF ClaimFails, Calm, TypeOK, StoreTypeOK
      <3> QED BY <3>1, OwnershipRelease
    <2>2. CASE Claim(w)
      BY <1>4, <2>2, OwnershipClaim DEF ClaimFails, Calm
    <2> QED BY <1>4, <2>1, <2>2 DEF ClaimFails
  <1>5. CASE LaunchBatch(w)
    BY <1>5, OwnershipLaunch DEF Calm
  <1>6. CASE DropBatch(w)
    <2>1. /\ \A v \in Workers : batch'[v] \subseteq batch[v]
          /\ UNCHANGED <<status, runPc, lockedBy, disturbed>>
      BY <1>6 DEF DropBatch, Calm, tables, executorVars, TypeOK, PollerTypeOK
    <2> QED BY <2>1, OwnershipRelease
  <1> QED
    BY <1>1, <1>2, <1>3, <1>4, <1>5, <1>6 DEF PollStep

LEMMA OwnershipOfProcess ==
  ASSUME TypeOK, Ownership, NEW w \in Workers,
         ShutdownStep(w) \/ Crash(w) \/ ReceiveSigterm(w), Calm
  PROVE  Ownership'
  <1>1. CASE Vanish(w)
    <2>1. /\ \A r \in Runs : runPc'[r] \in {runPc[r], "done"}
          /\ \A v \in Workers : lockedBy'[v] \subseteq lockedBy[v] /\ batch'[v] \subseteq batch[v]
          /\ UNCHANGED <<status, disturbed>>
      BY <1>1 DEF Vanish, Calm, TypeOK, StoreTypeOK, PollerTypeOK
    <2> QED BY <2>1, OwnershipRelease
  <1>2. CASE MarkDraining(w) \/ WaitForInFlight(w) \/ MarkSelfDead(w) \/ ReceiveSigterm(w)
    BY <1>2, OwnershipFrame
    DEF MarkDraining, WaitForInFlight, MarkSelfDead, ReceiveSigterm, Calm,
        tables, executorVars, pollerVars
  <1> QED
    BY <1>1, <1>2 DEF ShutdownStep, Exit, Crash

LEMMA OwnershipStep == TypeOK /\ Ownership /\ [Next]_vars => Ownership'
  <1> SUFFICES ASSUME TypeOK, Ownership, [Next]_vars PROVE Ownership'
    OBVIOUS
  <1>1. ASSUME NEW r \in Runs, RunProgress(r) PROVE Ownership'
    BY <1>1, OwnershipOfRuns DEF RunProgress, Calm
  <1>2. ASSUME NEW w \in Workers, PollProgress(w) PROVE Ownership'
    BY <1>2, OwnershipOfPoller DEF PollProgress
  <1>3. ASSUME NEW w \in Workers, HeartbeatProgress(w) PROVE Ownership'
    BY <1>3, OwnershipFrame DEF HeartbeatProgress, Heartbeat, Calm, executorVars, pollerVars
  <1>4. ASSUME NEW w \in Workers, ShutdownProgress(w) PROVE Ownership'
    BY <1>4, OwnershipOfProcess DEF ShutdownProgress
  <1>5. ASSUME NEW p \in Reapers, ReapProgress(p) PROVE Ownership'
    BY <1>5, OwnershipOfReaper
  <1>6. ASSUME NEW j \in Jobs, TimeProgress(j) PROVE Ownership'
    BY <1>6, OwnershipFrame
    DEF TimeProgress, RunAtPasses, OfRuns, Calm, executorVars, pollerVars
  <1>7. CASE Client
    BY <1>7, OwnershipOfClient
  <1>8. CASE Fail
    <2>1. ASSUME NEW r \in Runs, SuccessAckLost(r), OfRuns, DisturbIf(TRUE, JobOf(r))
          PROVE  Ownership'
      BY <2>1, OwnershipOfRuns DEF DisturbIf
    <2>2. ASSUME NEW r \in Runs, SuccessRollsBack(r) \/ RunAborts(r), OfRuns, Calm
          PROVE  Ownership'
      BY <2>2, OwnershipOfRuns DEF Calm
    <2>3. ASSUME NEW w \in Workers, ClaimFails(w), Calm PROVE Ownership'
      BY <2>3, OwnershipOfPoller
    <2>4. ASSUME NEW w \in Workers, HeartbeatLapses(w), Calm PROVE Ownership'
      BY <2>4, OwnershipFrame DEF HeartbeatLapses, Calm, executorVars, pollerVars
    <2>5. ASSUME NEW w \in Workers, Crash(w) \/ ReceiveSigterm(w), Calm PROVE Ownership'
      BY <2>5, OwnershipOfProcess
    <2>6. ASSUME NEW p \in Reapers, ReapFault(p), Calm PROVE Ownership'
      BY <2>6, OwnershipOfReaper
    <2> QED
      BY <1>8, <2>1, <2>2, <2>3, <2>4, <2>5, <2>6 DEF Fail
  <1>9. CASE UNCHANGED vars
    BY <1>9, OwnershipFrame DEF vars, tables, executorVars, pollerVars
  <1> QED
    BY <1>1, <1>2, <1>3, <1>4, <1>5, <1>6, <1>7, <1>8, <1>9 DEF Next

LEMMA InitOwnership == Init => Ownership
  BY DEF Init, StoreInit, ExecutorInit, PollerInit, Ownership, SoleHolder,
         RowTracksHolder, LiveRuns, Live, InHand

\* A job that no blind write has hit has at most one holder, for any number of
\* workers, reap loops and clients (claimer.ts, poller.ts, heartbeat.ts).
THEOREM OneHolder == Spec => []SoleHolder
  <1>1. Spec => [](TypeOK /\ Ownership)
    BY InitTypeOK, TypeOKStep, InitOwnership, OwnershipStep, PTL DEF Spec
  <1>2. Ownership => SoleHolder
    BY DEF Ownership
  <1> QED BY <1>1, <1>2, PTL

\* Its row says what the holder is doing (executor.ts).
THEOREM HolderFindsItsRow == Spec => []RowTracksHolder
  <1>1. Spec => [](TypeOK /\ Ownership)
    BY InitTypeOK, TypeOKStep, InitOwnership, OwnershipStep, PTL DEF Spec
  <1>2. Ownership => RowTracksHolder
    BY DEF Ownership
  <1> QED BY <1>1, <1>2, PTL

-----------------------------------------------------------------------------
(* What becomes of a settled job, and of its dead letter row. *)

RowKept(j) ==
  status'[j] = status[j] /\ attempts'[j] = attempts[j] /\ (j \in dlq' <=> j \in dlq)
RowLive(j) == status'[j] # "dead_letter" /\ (j \in dlq' => j \in dlq)
RowOpened(j) == RowLive(j) /\ status'[j] # "completed"
RowBuried(j) ==
  status'[j] = "dead_letter" /\ j \in dlq' /\ attempts'[j] >= MaxAttempts[j]

\* The update of one row, with the dead letters left alone.
LEMMA WriteRow ==
  ASSUME TypeOK, NEW k \in Jobs, NEW s, NEW a, NEW d,
         SetJob(k, s, a, d), s # "dead_letter", dlq' \subseteq dlq, dlq \ {k} \subseteq dlq'
  PROVE  \A j \in Jobs : RowKept(j) \/ (RowLive(j) /\ status'[j] = s)
  BY DEF TypeOK, StoreTypeOK, SetJob, RowKept, RowLive

LEMMA RowsOfRuns ==
  ASSUME TypeOK, NEW r \in Runs, RunStep(r) \/ RunFault(r)
  PROVE  \A j \in Jobs : RowKept(j) \/ RowLive(j) \/ RowBuried(j)
  <1> USE JobOfRun
  <1>1. CASE \/ FetchJob(r) \/ CreateExecution(r) \/ HandlerThrows(r)
             \/ DeadLetterConflict(r) \/ SuccessRollsBack(r) \/ RunAborts(r)
    BY <1>1
    DEF FetchJob, CreateExecution, HandlerThrows, DeadLetterConflict,
        SuccessRollsBack, RunAborts, tables, RowKept
  <1>2. CASE MarkRunning(r) \/ CommitSuccess(r) \/ SuccessAckLost(r) \/ RetryLater(r)
    BY <1>2, WriteRow
    DEF MarkRunning, CommitSuccess, SuccessAckLost, RetryLater, Completed
  <1>3. CASE MoveToDeadLetter(r)
    <2>1. seen[r] \in Nat /\ MaxAttempts[JobOf(r)] \in Nat
      BY AttemptsAssumption DEF TypeOK, ExecutorTypeOK
    <2>2. RowBuried(JobOf(r))
      BY <1>3, <2>1
      DEF MoveToDeadLetter, SetJob, NewAttemptCount, RowBuried, TypeOK, StoreTypeOK
    <2>3. \A j \in Jobs : j # JobOf(r) => RowKept(j)
      BY <1>3 DEF MoveToDeadLetter, SetJob, RowKept, TypeOK, StoreTypeOK
    <2> QED BY <2>2, <2>3
  <1> QED BY <1>1, <1>2, <1>3 DEF RunStep, RunFault

LEMMA RowsOfOthers ==
  ASSUME TypeOK,
         \/ \E w \in Workers : PollStep(w) \/ ClaimFails(w) \/ Heartbeat(w)
                               \/ HeartbeatLapses(w) \/ ShutdownStep(w)
                               \/ Crash(w) \/ ReceiveSigterm(w)
         \/ \E p \in Reapers : ReapProgress(p) \/ ReapFault(p)
         \/ \E j \in Jobs : RunAtPasses(j)
         \/ Client
  PROVE  \A j \in Jobs : RowKept(j) \/ RowOpened(j)
  <1>1. ASSUME NEW w \in Workers, PollStep(w) \/ ClaimFails(w)
        PROVE  \A j \in Jobs : RowKept(j) \/ RowOpened(j)
    <2>1. CASE Claim(w) /\ UNCHANGED <<attempts, dlq>>
      BY <2>1 DEF Claim, RowKept, RowOpened, RowLive
    <2>2. CASE UNCHANGED <<status, attempts, dlq>>
      BY <2>2 DEF RowKept
    <2> QED
      BY <1>1, <2>1, <2>2
      DEF PollStep, StartPoller, FetchQueues, CountInFlight, StopCycle, SelectClaimable,
          UpdateClaimed, LaunchBatch, DropBatch, ClaimFails, tables
  <1>2. ASSUME NEW w \in Workers,
               Heartbeat(w) \/ HeartbeatLapses(w) \/ ShutdownStep(w) \/ Crash(w)
               \/ ReceiveSigterm(w)
        PROVE  \A j \in Jobs : RowKept(j)
    BY <1>2
    DEF Heartbeat, HeartbeatLapses, ShutdownStep, MarkDraining, WaitForInFlight,
        MarkSelfDead, Exit, Crash, Vanish, ReceiveSigterm, tables, RowKept
  <1>3. ASSUME NEW p \in Reapers, ReapProgress(p) \/ ReapFault(p)
        PROVE  \A j \in Jobs : RowKept(j) \/ RowOpened(j)
    <2>1. ASSUME NEW k \in Jobs, RequeueJob(p, k)
          PROVE  \A j \in Jobs : RowKept(j) \/ RowOpened(j)
      BY <2>1, WriteRow DEF RequeueJob, RowOpened
    <2>2. CASE UNCHANGED <<status, attempts, dlq>>
      BY <2>2 DEF RowKept
    <2> QED
      BY <1>3, <2>1, <2>2
      DEF ReapProgress, FindStaleWorkers, MarkDead, FindOrphans, FindClaimed,
          CloseExecutions, ReapFault, CycleFails, CloseFails, RequeueFails, tables
  <1>4. ASSUME NEW j \in Jobs, RunAtPasses(j) PROVE \A k \in Jobs : RowKept(k)
    BY <1>4 DEF RunAtPasses, RowKept
  <1>5. CASE Client
    <2>1. ASSUME NEW k \in Jobs, SubmitJob(k)
          PROVE  \A j \in Jobs : RowKept(j) \/ RowOpened(j)
      BY <2>1 DEF SubmitJob, RowKept, RowOpened, RowLive, TypeOK, StoreTypeOK
    <2>2. ASSUME NEW c \in Requests, WriteCancelled(c)
          PROVE  \A j \in Jobs : RowKept(j) \/ RowOpened(j)
      <3>1. reqJob[c] \in Jobs
        BY <2>2 DEF WriteCancelled, TypeOK, ApiTypeOK
      <3> QED BY <2>2, <3>1, WriteRow DEF WriteCancelled, RowOpened
    <2>3. ASSUME NEW c \in Requests, CommitRetry(c)
          PROVE  \A j \in Jobs : RowKept(j) \/ RowOpened(j)
      <3>1. reqJob[c] \in Jobs
        BY <2>3 DEF CommitRetry, TypeOK, ApiTypeOK
      <3>2. SetJob(reqJob[c], "queued", 0, TRUE)
        BY <2>3 DEF CommitRetry
      <3>3. dlq' \subseteq dlq /\ dlq \ {reqJob[c]} \subseteq dlq'
        BY <2>3 DEF CommitRetry
      <3>4. \A j \in Jobs : RowKept(j) \/ (RowLive(j) /\ status'[j] = "queued")
        BY <3>1, <3>2, <3>3, WriteRow
      <3> QED BY <3>4 DEF RowOpened
    <2>4. CASE UNCHANGED <<status, attempts, dlq>>
      BY <2>4 DEF RowKept
    <2> QED
      BY <1>5, <2>1, <2>2, <2>3, <2>4
      DEF Client, ReadForCancel, ReadForRetry, RetryConflict, tables
  <1> QED BY <1>1, <1>2, <1>3, <1>4, <1>5

LEMMA RowsStep ==
  TypeOK /\ [Next]_vars => \A j \in Jobs : RowKept(j) \/ RowLive(j) \/ RowBuried(j)
  <1>1. CASE UNCHANGED vars
    BY <1>1 DEF vars, tables, RowKept
  <1> QED
    BY <1>1, RowsOfRuns, RowsOfOthers
    DEF RowOpened, Next, Fail, RunProgress, RunFault, PollProgress, HeartbeatProgress,
        ShutdownProgress, TimeProgress

LEMMA DisturbedGrows == [Next]_vars => disturbed \subseteq disturbed'
  BY DEF Next, Fail, Client, RunProgress, PollProgress, HeartbeatProgress,
         ShutdownProgress, TimeProgress, ReapProgress, Calm, DisturbIf, vars

\* Nobody but a manual retry touches a settled job, short of a blind write.
LEMMA SettledStep ==
  ASSUME TypeOK, Ownership, [Next]_vars, NEW j \in Jobs \ disturbed', status[j] \in Settled
  PROVE  status'[j] = status[j] \/ (status[j] \in Retryable /\ j \notin dlq')
  <1>d. j \notin disturbed
    BY DisturbedGrows
  <1>s. status[j] \notin InFlight /\ status[j] # "queued" /\ status[j] # "absent"
    BY DEF Settled, InFlight
  <1>h. LiveRuns(j) = {} /\ \A w \in Workers : j \notin lockedBy[w]
    BY <1>d, <1>s DEF Ownership, RowTracksHolder, InFlight
  <1>1. ASSUME NEW r \in Runs, RunStep(r) \/ RunFault(r) PROVE status'[j] = status[j]
    <2>1. runPc[r] \in {"fetch", "mark", "record", "handler", "fail"}
      BY <1>1
      DEF RunStep, RunFault, FetchJob, MarkRunning, CreateExecution, CommitSuccess,
          HandlerThrows, RetryLater, MoveToDeadLetter, DeadLetterConflict,
          SuccessRollsBack, SuccessAckLost, RunAborts, At
    <2>2. JobOf(r) # j
      BY <1>h, <2>1 DEF LiveRuns, Live
    <2> QED
      BY <1>1, <2>2
      DEF RunStep, RunFault, FetchJob, MarkRunning, CreateExecution, CommitSuccess,
          HandlerThrows, RetryLater, MoveToDeadLetter, DeadLetterConflict,
          SuccessRollsBack, SuccessAckLost, RunAborts, Completed, SetJob, tables,
          TypeOK, StoreTypeOK
  <1>2. ASSUME NEW w \in Workers, PollStep(w) \/ ClaimFails(w)
        PROVE  status'[j] = status[j]
    BY <1>2, <1>h
    DEF PollStep, StartPoller, FetchQueues, CountInFlight, StopCycle, SelectClaimable, UpdateClaimed,
        LaunchBatch, DropBatch, ClaimFails, Claim, tables
  <1>3. ASSUME NEW w \in Workers,
               Heartbeat(w) \/ HeartbeatLapses(w) \/ ShutdownStep(w) \/ Crash(w)
               \/ ReceiveSigterm(w)
        PROVE  status'[j] = status[j]
    BY <1>3
    DEF Heartbeat, HeartbeatLapses, ShutdownStep, MarkDraining, WaitForInFlight,
        MarkSelfDead, Exit, Crash, Vanish, ReceiveSigterm, tables
  <1>4. ASSUME NEW p \in Reapers, ReapProgress(p) \/ ReapFault(p)
        PROVE  status'[j] = status[j]
    <2>1. ASSUME NEW k \in Jobs, RequeueJob(p, k), DisturbIf(RequeueIsStale(p, k), k)
          PROVE  status'[j] = status[j]
      <3>1. k # j
        BY <2>1, <1>s DEF DisturbIf, RequeueIsStale
      <3> QED BY <2>1, <3>1 DEF RequeueJob, SetJob, TypeOK, StoreTypeOK
    <2> QED
      BY <1>4, <2>1
      DEF ReapProgress, FindStaleWorkers, MarkDead, FindOrphans, FindClaimed,
          CloseExecutions, ReapFault, CycleFails, CloseFails, RequeueFails, tables
  <1>5. ASSUME NEW k \in Jobs, RunAtPasses(k) PROVE status'[j] = status[j]
    BY <1>5 DEF RunAtPasses
  <1>6. CASE Client
    <2>1. ASSUME NEW k \in Jobs, SubmitJob(k) PROVE status'[j] = status[j]
      BY <2>1, <1>s DEF SubmitJob, TypeOK, StoreTypeOK
    <2>2. ASSUME NEW c \in Requests, WriteCancelled(c),
                 DisturbIf(CancelIsStale(c), reqJob[c])
          PROVE  status'[j] = status[j]
      <3>1. reqJob[c] # j
        BY <2>2 DEF DisturbIf, CancelIsStale, Settled, Cancellable
      <3> QED BY <2>2, <3>1 DEF WriteCancelled, SetJob, TypeOK, StoreTypeOK
    <2>3. ASSUME NEW c \in Requests, CommitRetry(c),
                 DisturbIf(RetryIsStale(c), reqJob[c])
          PROVE  status'[j] = status[j] \/ (status[j] \in Retryable /\ j \notin dlq')
      <3>1. CASE reqJob[c] = j
        BY <2>3, <3>1 DEF CommitRetry, DisturbIf, RetryIsStale
      <3>2. CASE reqJob[c] # j
        BY <2>3, <3>2 DEF CommitRetry, SetJob, TypeOK, StoreTypeOK
      <3> QED BY <3>1, <3>2
    <2> QED
      BY <1>6, <2>1, <2>2, <2>3
      DEF Client, ReadForCancel, ReadForRetry, RetryConflict, tables
  <1>7. CASE UNCHANGED vars
    BY <1>7 DEF vars, tables
  <1> QED
    BY <1>1, <1>2, <1>3, <1>4, <1>5, <1>6, <1>7
    DEF Next, Fail, RunProgress, RunFault, PollProgress, HeartbeatProgress,
        ShutdownProgress, TimeProgress

LEMMA DeadLetterStep ==
  TypeOK /\ Ownership /\ DeadLetterConsistent /\ [Next]_vars => DeadLetterConsistent'
  <1> SUFFICES ASSUME TypeOK, Ownership, DeadLetterConsistent, [Next]_vars
               PROVE  DeadLetterConsistent'
    OBVIOUS
  <1>1. ASSUME NEW j \in Jobs, status'[j] = "dead_letter"
        PROVE  j \in dlq' /\ attempts'[j] >= MaxAttempts[j]
    BY <1>1, RowsStep DEF DeadLetterConsistent, RowKept, RowLive, RowBuried
  <1>2. ASSUME NEW j \in dlq' \ disturbed'
        PROVE  status'[j] = "dead_letter"
    <2>1. j \in Jobs /\ j \notin disturbed
      BY <1>2, TypeOKStep, DisturbedGrows DEF TypeOK, StoreTypeOK
    <2>2. CASE j \in dlq
      BY <1>2, <2>1, <2>2, SettledStep DEF DeadLetterConsistent, Settled
    <2>3. CASE j \notin dlq
      BY <1>2, <2>1, <2>3, RowsStep DEF RowKept, RowLive, RowBuried
    <2> QED BY <2>2, <2>3
  <1> QED BY <1>1, <1>2 DEF DeadLetterConsistent

LEMMA InitDeadLetter == Init => DeadLetterConsistent
  BY DEF Init, StoreInit, DeadLetterConsistent

\* A dead_letter job has its row in the dead letter queue and has spent its
\* attempts, and a row of a job that no blind write has hit belongs to a
\* dead_letter job (executor.ts, the retry route).
THEOREM DeadLettersAgree == Spec => []DeadLetterConsistent
  BY InitTypeOK, TypeOKStep, InitOwnership, OwnershipStep, InitDeadLetter,
     DeadLetterStep, PTL DEF Spec

\* No step takes a completed job out of its status without being a blind
\* write (executor.ts, the cancel and retry routes, the reaper's requeue).
THEOREM CompletedStays == Spec => CompletedIsFinal
  <1>1. Spec => [](TypeOK /\ Ownership)
    BY InitTypeOK, TypeOKStep, InitOwnership, OwnershipStep, PTL DEF Spec
  <1>2. TypeOK /\ Ownership /\ [Next]_vars =>
          [\A j \in Jobs : status[j] = "completed" /\ j \notin disturbed'
             => status'[j] = "completed"]_vars
    BY SettledStep DEF Settled, Retryable
  <1> QED BY <1>1, <1>2, PTL DEF Spec, CompletedIsFinal

-----------------------------------------------------------------------------
(* A job is completed exactly when one of its executions is. *)

SuccessInv ==
  \A j \in Jobs \ disturbed :
    IF status[j] = "completed"
    THEN \E r \in Runs : SuccessfulRuns(j) = {r}
    ELSE SuccessfulRuns(j) = {}

\* Only the runs themselves complete executions.
LEMMA SuccessesOfOthers ==
  ASSUME TypeOK,
         \/ \E w \in Workers : PollStep(w) \/ ClaimFails(w) \/ Heartbeat(w)
                               \/ HeartbeatLapses(w) \/ ShutdownStep(w)
                               \/ Crash(w) \/ ReceiveSigterm(w)
         \/ \E p \in Reapers : ReapProgress(p) \/ ReapFault(p)
         \/ \E j \in Jobs : RunAtPasses(j)
         \/ Client
         \/ UNCHANGED vars
  PROVE  \A j \in Jobs : SuccessfulRuns(j)' = SuccessfulRuns(j)
  <1>1. CASE exec' = exec
    BY <1>1 DEF SuccessfulRuns
  <1>2. ASSUME NEW p \in Reapers, CloseExecutions(p)
        PROVE  \A j \in Jobs : SuccessfulRuns(j)' = SuccessfulRuns(j)
    BY <1>2 DEF CloseExecutions, OpenExecutions, SuccessfulRuns, TypeOK, StoreTypeOK
  <1>3. ASSUME NEW w \in Workers,
               \/ PollStep(w) \/ ClaimFails(w) \/ Heartbeat(w) \/ HeartbeatLapses(w)
               \/ ShutdownStep(w) \/ Crash(w) \/ ReceiveSigterm(w)
        PROVE  exec' = exec
    BY <1>3
    DEF PollStep, StartPoller, FetchQueues, CountInFlight, StopCycle, SelectClaimable,
        UpdateClaimed, LaunchBatch, DropBatch, ClaimFails, Claim, Heartbeat, HeartbeatLapses,
        ShutdownStep, MarkDraining, WaitForInFlight, MarkSelfDead, Exit, Crash, Vanish,
        ReceiveSigterm, tables
  <1>4. ASSUME NEW p \in Reapers, ReapProgress(p) \/ ReapFault(p)
        PROVE  exec' = exec \/ CloseExecutions(p)
    BY <1>4
    DEF ReapProgress, FindStaleWorkers, MarkDead, FindOrphans, FindClaimed, RequeueJob,
        ReapFault, CycleFails, CloseFails, RequeueFails, tables
  <1>5. CASE Client
    BY <1>1, <1>5
    DEF Client, SubmitJob, ReadForCancel, ReadForRetry, RetryConflict, WriteCancelled,
        CommitRetry, tables
  <1>6. ASSUME NEW j \in Jobs, RunAtPasses(j) PROVE exec' = exec
    BY <1>6 DEF RunAtPasses
  <1>7. CASE UNCHANGED vars
    BY <1>1, <1>7 DEF vars, tables
  <1> QED
    BY <1>1, <1>2, <1>3, <1>4, <1>5, <1>6, <1>7

LEMMA SuccessOfRun ==
  ASSUME TypeOK, Ownership, SuccessInv, disturbed \subseteq disturbed', NEW r \in Runs,
         \/ RunStep(r) \/ SuccessRollsBack(r) \/ RunAborts(r)
         \/ SuccessAckLost(r) /\ JobOf(r) \in disturbed'
  PROVE  SuccessInv'
  <1>1. Live(r)
    BY DEF RunStep, FetchJob, MarkRunning, CreateExecution, CommitSuccess,
           HandlerThrows, RetryLater, MoveToDeadLetter, DeadLetterConflict,
           SuccessRollsBack, SuccessAckLost, RunAborts, At, Live
  <1>2. \A k \in Jobs : k # JobOf(r) =>
          status'[k] = status[k] /\ SuccessfulRuns(k)' = SuccessfulRuns(k)
    <2>1. \A s \in Runs : s # r => exec'[s] = exec[s]
      BY DEF RunStep, FetchJob, MarkRunning, CreateExecution, CommitSuccess,
             HandlerThrows, RetryLater, MoveToDeadLetter, DeadLetterConflict, Completed,
             SuccessRollsBack, SuccessAckLost, RunAborts, tables, TypeOK, StoreTypeOK
    <2>2. \A k \in Jobs : k # JobOf(r) => status'[k] = status[k]
      BY DEF RunStep, FetchJob, MarkRunning, CreateExecution, CommitSuccess,
             HandlerThrows, RetryLater, MoveToDeadLetter, DeadLetterConflict, Completed,
             SuccessRollsBack, SuccessAckLost, RunAborts, SetJob, tables, TypeOK, StoreTypeOK
    <2> QED
      BY <2>1, <2>2 DEF SuccessfulRuns
  <1>3. ASSUME JobOf(r) \notin disturbed'
        PROVE  IF status'[JobOf(r)] = "completed"
               THEN \E s \in Runs : SuccessfulRuns(JobOf(r))' = {s}
               ELSE SuccessfulRuns(JobOf(r))' = {}
    <2>1. JobOf(r) \in Jobs \ disturbed
      BY <1>3, JobOfRun
    <2>2. status[JobOf(r)] # "completed"
      BY <1>1, <2>1 DEF Ownership, RowTracksHolder, LiveRuns
    <2>3. SuccessfulRuns(JobOf(r)) = {}
      BY <2>1, <2>2 DEF SuccessInv
    <2>4. CASE CommitSuccess(r)
      <3>1. status'[JobOf(r)] = "completed" /\ exec' = [exec EXCEPT ![r] = "completed"]
        BY <2>1, <2>4 DEF CommitSuccess, Completed, SetJob, TypeOK, StoreTypeOK
      <3>2. SuccessfulRuns(JobOf(r))' = {r}
        BY <2>3, <3>1 DEF SuccessfulRuns, TypeOK, StoreTypeOK
      <3> QED
        BY <3>1, <3>2
    <2>5. CASE ~CommitSuccess(r)
      <3>1. status'[JobOf(r)] # "completed"
        BY <1>3, <2>1, <2>2, <2>5
        DEF RunStep, FetchJob, MarkRunning, CreateExecution,
            HandlerThrows, RetryLater, MoveToDeadLetter, DeadLetterConflict,
            SuccessRollsBack, RunAborts, SetJob, tables, TypeOK, StoreTypeOK
      <3>2. exec' = exec \/ \E x \in {"running", "failed"} : exec' = [exec EXCEPT ![r] = x]
        BY <1>3, <2>5
        DEF RunStep, FetchJob, MarkRunning, CreateExecution,
            HandlerThrows, RetryLater, MoveToDeadLetter, DeadLetterConflict,
            SuccessRollsBack, RunAborts, tables
      <3>3. SuccessfulRuns(JobOf(r))' = {}
        BY <2>3, <3>2 DEF SuccessfulRuns, TypeOK, StoreTypeOK
      <3> QED
        BY <3>1, <3>3
    <2> QED
      BY <2>4, <2>5
  <1>4. ASSUME NEW j \in Jobs \ disturbed'
        PROVE  IF status'[j] = "completed"
               THEN \E s \in Runs : SuccessfulRuns(j)' = {s}
               ELSE SuccessfulRuns(j)' = {}
    <2>1. CASE j = JobOf(r)
      BY <1>3, <2>1
    <2>2. CASE j # JobOf(r)
      BY <1>2, <2>2 DEF SuccessInv
    <2> QED
      BY <2>1, <2>2
  <1> QED
    BY <1>4 DEF SuccessInv

LEMMA SuccessStep == TypeOK /\ Ownership /\ SuccessInv /\ [Next]_vars => SuccessInv'
  <1> SUFFICES ASSUME TypeOK, Ownership, SuccessInv, [Next]_vars PROVE SuccessInv'
    OBVIOUS
  <1>1. ASSUME NEW r \in Runs,
               \/ RunProgress(r)
               \/ (SuccessRollsBack(r) \/ RunAborts(r)) /\ OfRuns /\ Calm
               \/ SuccessAckLost(r) /\ OfRuns /\ DisturbIf(TRUE, JobOf(r))
        PROVE  SuccessInv'
    BY <1>1, DisturbedGrows, SuccessOfRun DEF RunProgress, DisturbIf
  <1>2. CASE ~\E r \in Runs :
                 \/ RunProgress(r)
                 \/ (SuccessRollsBack(r) \/ RunAborts(r)) /\ OfRuns /\ Calm
                 \/ SuccessAckLost(r) /\ OfRuns /\ DisturbIf(TRUE, JobOf(r))
    <2>1. \/ \E w \in Workers : PollStep(w) \/ ClaimFails(w) \/ Heartbeat(w)
                                \/ HeartbeatLapses(w) \/ ShutdownStep(w)
                                \/ Crash(w) \/ ReceiveSigterm(w)
          \/ \E p \in Reapers : ReapProgress(p) \/ ReapFault(p)
          \/ \E j \in Jobs : RunAtPasses(j)
          \/ Client
          \/ UNCHANGED vars
      BY <1>2 DEF Next, Fail, PollProgress, HeartbeatProgress, ShutdownProgress, TimeProgress
    <2>2. \A j \in Jobs : SuccessfulRuns(j)' = SuccessfulRuns(j)
      BY <2>1, SuccessesOfOthers
    <2>3. ASSUME NEW j \in Jobs \ disturbed' PROVE status'[j] = "completed" <=> status[j] = "completed"
      <3>1. status'[j] = "completed" => status[j] = "completed"
        BY <2>1, RowsOfOthers DEF RowKept, RowOpened, vars, tables
      <3>2. status[j] = "completed" => status'[j] = "completed"
        BY <2>3, SettledStep DEF Settled, Retryable
      <3> QED
        BY <3>1, <3>2
    <2> QED
      BY <2>2, <2>3, DisturbedGrows DEF SuccessInv
  <1> QED
    BY <1>1, <1>2

\* No job succeeds twice, and none is completed without a success (executor.ts,
\* heartbeat.ts).
THEOREM SucceedsOnce == Spec => []CompletedOnce
  <1>1. Init => SuccessInv
    BY DEF Init, StoreInit, ExecutorInit, SuccessInv, SuccessfulRuns
  <1>2. SuccessInv => CompletedOnce
    BY FS_EmptySet, FS_Singleton DEF SuccessInv, CompletedOnce
  <1> QED
    BY <1>1, <1>2, InitTypeOK, TypeOKStep, InitOwnership, OwnershipStep, SuccessStep, PTL
    DEF Spec
=============================================================================

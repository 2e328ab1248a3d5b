---------------------------- MODULE LeaseProofs ----------------------------
(***************************************************************************)
(* The pipeline implements JobLease: Spec => LeaseKept.  Every step is one  *)
(* of the abstract ones or a stutter; what it does to each job is described *)
(* by PhaseOf and LesseesOf, before and after.                              *)
(***************************************************************************)
EXTENDS ChronosProofs

SameLease(j) == PhaseOf(j)' = PhaseOf(j) /\ LesseesOf(j)' = LesseesOf(j)
EntersPhase(j, p) == PhaseOf(j)' = p /\ LesseesOf(j)' = {}

\* The abstract steps, job by job.
LEMMA StutterStep ==
  ASSUME \A j \in Jobs : SameLease(j)
  PROVE  [Leases!LeaseNext]_(Leases!leaseVars)
  BY DEF SameLease, Leases!leaseVars

LEMMA EnterStep ==
  ASSUME NEW j \in Jobs, NEW p, EntersPhase(j, p),
         \A k \in Jobs \ {j} : SameLease(k)
  PROVE  Leases!Enter(j, p)
  BY DEF SameLease, EntersPhase, Leases!Enter

LEMMA SettleStep ==
  ASSUME NEW j \in Jobs, NEW w \in Workers, NEW p \in {"completed", "dead_letter"},
         EntersPhase(j, p), PhaseOf(j) = "open", LesseesOf(j) = {w},
         \A k \in Jobs \ {j} : SameLease(k)
  PROVE  [Leases!LeaseNext]_(Leases!leaseVars)
  <1>1. Leases!Settle(w, j, p)
    BY EnterStep DEF Leases!Settle
  <1> QED BY <1>1 DEF Leases!LeaseNext, Leases!Outcomes

LEMMA GiveBackStep ==
  ASSUME NEW w \in Workers, NEW S \in SUBSET Jobs,
         \A j \in S : LesseesOf(j) = {w} /\ LesseesOf(j)' = {} /\ PhaseOf(j)' = PhaseOf(j),
         \A j \in Jobs \ S : SameLease(j)
  PROVE  [Leases!LeaseNext]_(Leases!leaseVars)
  <1>1. Leases!GiveBack(w, S)
    BY DEF SameLease, Leases!GiveBack
  <1> QED BY <1>1 DEF Leases!LeaseNext

LEMMA LeaseStep ==
  ASSUME NEW w \in Workers, NEW S \in SUBSET Jobs,
         \A j \in S : /\ PhaseOf(j) = "open" /\ PhaseOf(j)' = "open"
                      /\ LesseesOf(j) = {} /\ LesseesOf(j)' = {w},
         \A j \in Jobs \ S : SameLease(j)
  PROVE  [Leases!LeaseNext]_(Leases!leaseVars)
  <1>1. Leases!Lease(w, S)
    BY DEF SameLease, Leases!Lease, Leases!Free
  <1> QED BY <1>1 DEF Leases!LeaseNext

LEMMA BreakStep ==
  ASSUME NEW j \in Jobs, j \in disturbed', \A k \in Jobs \ {j} : SameLease(k)
  PROVE  [Leases!LeaseNext]_(Leases!leaseVars)
  <1>1. EntersPhase(j, "wild")
    BY DEF EntersPhase, PhaseOf, LesseesOf
  <1>2. Leases!Break(j)
    BY <1>1, EnterStep DEF Leases!Break
  <1> QED BY <1>2 DEF Leases!LeaseNext

-----------------------------------------------------------------------------
(* Two more invariants: a claim is in the hands of a worker only at the two  *)
(* awaits where it should be, and a run that is under way has an owner.      *)

LoopState ==
  \A w \in Workers :
    /\ pollPc[w] # "update" => lockedBy[w] = {}
    /\ pollPc[w] # "launch" => batch[w] = {}

OwnersKnown == \A r \in Runs : Live(r) => owner[r] \in Workers

HandsKnown == LoopState /\ OwnersKnown

LEMMA InitHands == Init => HandsKnown
  BY DEF Init, StoreInit, ExecutorInit, PollerInit, HandsKnown, LoopState, OwnersKnown, Live

LEMMA HandsFrame ==
  ASSUME HandsKnown, UNCHANGED <<pollPc, lockedBy, batch, owner>>,
         \A r \in Runs : Live(r)' => Live(r)
  PROVE  HandsKnown'
  BY DEF HandsKnown, LoopState, OwnersKnown

LEMMA HandsOfRuns ==
  ASSUME TypeOK, HandsKnown, NEW r \in Runs, RunStep(r) \/ RunFault(r), OfRuns
  PROVE  HandsKnown'
  <1>1. UNCHANGED <<pollPc, lockedBy, batch, owner>>
    BY DEF RunStep, RunFault, FetchJob, MarkRunning, CreateExecution, CommitSuccess,
           HandlerThrows, RetryLater, MoveToDeadLetter, DeadLetterConflict,
           SuccessRollsBack, SuccessAckLost, RunAborts, OfRuns, tables, pollerVars
  <1>2. Live(r)
    BY DEF RunStep, RunFault, FetchJob, MarkRunning, CreateExecution, CommitSuccess,
           HandlerThrows, RetryLater, MoveToDeadLetter, DeadLetterConflict,
           SuccessRollsBack, SuccessAckLost, RunAborts, At, Live
  <1>3. \A q \in Runs \ {r} : runPc'[q] = runPc[q]
    BY DEF RunStep, RunFault, FetchJob, MarkRunning, CreateExecution, CommitSuccess,
           HandlerThrows, RetryLater, MoveToDeadLetter, DeadLetterConflict,
           SuccessRollsBack, SuccessAckLost, RunAborts, Goto, Finish,
           TypeOK, ExecutorTypeOK
  <1>4. \A q \in Runs : Live(q)' => Live(q)
    BY <1>2, <1>3 DEF Live
  <1> QED BY <1>1, <1>4, HandsFrame

LEMMA HandsOfPoller ==
  ASSUME TypeOK, HandsKnown, NEW w \in Workers, PollStep(w) \/ ClaimFails(w)
  PROVE  HandsKnown'
  <1> USE DEF TypeOK, StoreTypeOK, ExecutorTypeOK, PollerTypeOK
  <1>1. CASE LaunchBatch(w)
    <2>1. LoopState'
      BY <1>1 DEF LaunchBatch, NextQueue, PollAt, HandsKnown, LoopState
    <2>2. OwnersKnown'
      BY <1>1 DEF LaunchBatch, HandsKnown, OwnersKnown, Live
    <2> QED BY <2>1, <2>2 DEF HandsKnown
  <1>2. CASE ~LaunchBatch(w)
    <2>1. UNCHANGED <<runPc, owner>>
      BY <1>2 DEF PollStep, StartPoller, FetchQueues, CountInFlight, StopCycle,
                  SelectClaimable, UpdateClaimed, DropBatch, ClaimFails, executorVars, tables
    <2>2. OwnersKnown'
      BY <2>1 DEF HandsKnown, OwnersKnown, Live
    <2>3. CASE StartPoller(w)
      BY <2>2, <2>3 DEF StartPoller, PollAt, tables, HandsKnown, LoopState
    <2>4. CASE FetchQueues(w)
      BY <2>2, <2>4 DEF FetchQueues, PollAt, tables, HandsKnown, LoopState
    <2>5. CASE CountInFlight(w)
      <3>1. /\ UNCHANGED <<lockedBy, batch>>
            /\ pollPc[w] = "count"
            /\ \E pc \in {"idle", "count", "select"} : pollPc' = [pollPc EXCEPT ![w] = pc]
        BY <2>5 DEF CountInFlight, PollAt, tables
      <3> QED BY <2>2, <3>1 DEF HandsKnown, LoopState
    <2>6. CASE StopCycle(w)
      BY <2>2, <2>6 DEF StopCycle, PollAt, tables, HandsKnown, LoopState
    <2>7. CASE SelectClaimable(w)
      <3>1. /\ UNCHANGED batch
            /\ pollPc[w] = "select"
            /\ \/ UNCHANGED lockedBy /\ \E pc \in {"idle", "count"} : pollPc' = [pollPc EXCEPT ![w] = pc]
               \/ /\ \A v \in Workers \ {w} : lockedBy'[v] = lockedBy[v]
                  /\ pollPc' = [pollPc EXCEPT ![w] = "update"]
        BY <2>7 DEF SelectClaimable, PollAt, NextQueue
      <3> QED BY <2>2, <3>1 DEF HandsKnown, LoopState
    <2>8. CASE UpdateClaimed(w)
      BY <2>2, <2>8 DEF UpdateClaimed, Claim, PollAt, HandsKnown, LoopState
    <2>9. CASE DropBatch(w)
      BY <2>2, <2>9 DEF DropBatch, NextQueue, PollAt, tables, HandsKnown, LoopState
    <2>10. CASE ClaimFails(w)
      <3>1. /\ UNCHANGED batch
            /\ pollPc[w] \in {"select", "update"}
            /\ lockedBy' = [lockedBy EXCEPT ![w] = {}]
            /\ \E pc \in {"idle", "count"} : pollPc' = [pollPc EXCEPT ![w] = pc]
        BY <2>10 DEF ClaimFails, Claim, NextQueue, PollAt
      <3> QED BY <2>2, <3>1 DEF HandsKnown, LoopState
    <2> QED
      BY <1>2, <2>3, <2>4, <2>5, <2>6, <2>7, <2>8, <2>9, <2>10 DEF PollStep
  <1> QED BY <1>1, <1>2

LEMMA HandsOfProcess ==
  ASSUME TypeOK, HandsKnown, NEW w \in Workers,
         ShutdownStep(w) \/ Crash(w) \/ ReceiveSigterm(w)
  PROVE  HandsKnown'
  <1>1. CASE Vanish(w)
    BY <1>1
    DEF Vanish, HandsKnown, LoopState, OwnersKnown, Live, TypeOK, StoreTypeOK,
        ExecutorTypeOK, PollerTypeOK
  <1>2. CASE MarkDraining(w) \/ WaitForInFlight(w) \/ MarkSelfDead(w) \/ ReceiveSigterm(w)
    BY <1>2, HandsFrame
    DEF MarkDraining, WaitForInFlight, MarkSelfDead, ReceiveSigterm, tables,
        executorVars, pollerVars, Live
  <1> QED BY <1>1, <1>2 DEF ShutdownStep, Exit, Crash

\* The other steps leave the hands of all workers and all runs alone.
HandsIdle == UNCHANGED <<runPc, pollPc, lockedBy, batch, owner>>

LEMMA IdleSteps ==
  ASSUME \/ \E w \in Workers : (Heartbeat(w) \/ HeartbeatLapses(w)) /\ OfReaper
         \/ \E p \in Reapers : ReapProgress(p) \/ ReapFault(p)
         \/ \E j \in Jobs : TimeProgress(j)
         \/ Client
  PROVE  HandsIdle
  <1>1. CASE \E w \in Workers : (Heartbeat(w) \/ HeartbeatLapses(w)) /\ OfReaper
    BY <1>1 DEF Heartbeat, HeartbeatLapses, executorVars, pollerVars, HandsIdle
  <1>2. CASE \E p \in Reapers : ReapProgress(p) \/ ReapFault(p)
    BY <1>2
    DEF ReapProgress, ReapFault, FindStaleWorkers, MarkDead, FindOrphans, FindClaimed,
        RequeueJob, CloseExecutions, CycleFails, RequeueFails, CloseFails,
        tables, executorVars, pollerVars, HandsIdle
  <1>3. CASE \E j \in Jobs : TimeProgress(j)
    BY <1>3 DEF TimeProgress, RunAtPasses, OfRuns, executorVars, pollerVars, HandsIdle
  <1>4. CASE Client
    BY <1>4
    DEF Client, SubmitJob, ReadForCancel, ReadForRetry, RetryConflict, WriteCancelled,
        CommitRetry, tables, executorVars, pollerVars, HandsIdle
  <1> QED BY <1>1, <1>2, <1>3, <1>4

LEMMA HandsStep == TypeOK /\ HandsKnown /\ [Next]_vars => HandsKnown'
  <1> SUFFICES ASSUME TypeOK, HandsKnown, [Next]_vars PROVE HandsKnown'
    OBVIOUS
  <1>1. CASE HandsIdle
    BY <1>1, HandsFrame DEF HandsIdle, Live
  <1>2. ASSUME NEW r \in Runs, RunStep(r) \/ RunFault(r), OfRuns PROVE HandsKnown'
    BY <1>2, HandsOfRuns
  <1>3. ASSUME NEW w \in Workers, PollStep(w) \/ ClaimFails(w) PROVE HandsKnown'
    BY <1>3, HandsOfPoller
  <1>4. ASSUME NEW w \in Workers, ShutdownStep(w) \/ Crash(w) \/ ReceiveSigterm(w)
        PROVE  HandsKnown'
    BY <1>4, HandsOfProcess
  <1>5. CASE UNCHANGED vars
    BY <1>1, <1>5 DEF vars, tables, executorVars, pollerVars, HandsIdle
  <1> QED
    BY <1>1, <1>2, <1>3, <1>4, <1>5, IdleSteps
    DEF Next, Fail, RunProgress, RunFault, PollProgress, HeartbeatProgress, ShutdownProgress

-----------------------------------------------------------------------------
(* What the steps do to the lease of a job. *)

\* Nothing that concerns the job changes.
LEMMA Untouched ==
  ASSUME NEW j \in Jobs, status'[j] = status[j],
         j \in disturbed' <=> j \in disturbed,
         \A w \in Workers : j \in InHand(w)' <=> j \in InHand(w),
         \A r \in Runs : JobOf(r) = j => /\ Live(r)' <=> Live(r)
                                         /\ Live(r) => owner'[r] = owner[r]
  PROVE  SameLease(j)
  <1>1. PhaseOf(j)' = PhaseOf(j)
    BY DEF PhaseOf
  <1>2. LesseesOf(j)' = LesseesOf(j)
    BY DEF LesseesOf, LiveRuns
  <1> QED BY <1>1, <1>2 DEF SameLease

\* A blind write has hit it before.
LEMMA StaysWild ==
  ASSUME NEW j \in disturbed, disturbed \subseteq disturbed'
  PROVE  SameLease(j)
  BY DEF SameLease, PhaseOf, LesseesOf

LEMMA UntouchedByRun ==
  ASSUME TypeOK, NEW r \in Runs, NEW j \in Jobs, j # JobOf(r),
         status'[j] = status[j], j \in disturbed' <=> j \in disturbed,
         \A q \in Runs \ {r} : runPc'[q] = runPc[q],
         UNCHANGED <<lockedBy, batch, owner>>
  PROVE  SameLease(j)
  <1>1. \A q \in Runs : JobOf(q) = j => (Live(q)' <=> Live(q)) /\ owner'[q] = owner[q]
    BY DEF Live
  <1> QED BY <1>1, Untouched DEF InHand

\* The job of a run that is under way is leased by the owner of the run.
LEMMA LeasedByRun ==
  ASSUME TypeOK, Ownership, OwnersKnown, NEW r \in Runs, Live(r), JobOf(r) \notin disturbed
  PROVE  /\ PhaseOf(JobOf(r)) = "open"
         /\ LesseesOf(JobOf(r)) = {owner[r]}
         /\ owner[r] \in Workers
         /\ \A q \in Runs \ {r} : JobOf(q) = JobOf(r) => ~Live(q)
         /\ \A w \in Workers : JobOf(r) \notin InHand(w)
  <1>1. JobOf(r) \in Jobs /\ r \in LiveRuns(JobOf(r))
    BY JobOfRun DEF LiveRuns
  <1>2. /\ \A q \in Runs \ {r} : JobOf(q) = JobOf(r) => ~Live(q)
        /\ \A w \in Workers : JobOf(r) \notin InHand(w)
    BY <1>1 DEF Ownership, SoleHolder, LiveRuns
  <1>3. status[JobOf(r)] \in {"claimed", "running"}
    BY <1>1 DEF Ownership, RowTracksHolder
  <1>4. PhaseOf(JobOf(r)) = "open"
    BY <1>3 DEF PhaseOf, Settled
  <1>5. owner[r] \in Workers
    BY DEF OwnersKnown
  <1>6. LesseesOf(JobOf(r)) = {owner[r]}
    BY <1>1, <1>2, <1>5 DEF LesseesOf, LiveRuns
  <1> QED BY <1>2, <1>4, <1>5, <1>6

\* A step of a run that goes on, and one that ends it.
LEMMA RunGoesOn ==
  ASSUME TypeOK, Ownership, OwnersKnown, NEW r \in Runs, Live(r), Live(r)',
         \A q \in Runs \ {r} : runPc'[q] = runPc[q],
         UNCHANGED <<lockedBy, batch, owner, disturbed>>,
         \A k \in Jobs \ {JobOf(r)} : status'[k] = status[k],
         status'[JobOf(r)] \in {status[JobOf(r)], "running"}
  PROVE  [Leases!LeaseNext]_(Leases!leaseVars)
  <1>1. \A k \in Jobs \ {JobOf(r)} : SameLease(k)
    BY UntouchedByRun
  <1>2. CASE JobOf(r) \in disturbed
    BY <1>1, <1>2, StaysWild, StutterStep
  <1>3. CASE JobOf(r) \notin disturbed
    <2>1. LesseesOf(JobOf(r))' = LesseesOf(JobOf(r))
      <3>1. \A q \in Runs : JobOf(q) = JobOf(r) => (Live(q)' <=> Live(q))
        BY DEF Live
      <3> QED BY <3>1 DEF LesseesOf, LiveRuns, InHand
    <2>2. PhaseOf(JobOf(r)) = "open"
      BY <1>3, LeasedByRun
    <2>3. PhaseOf(JobOf(r))' = "open"
      BY <1>3, <2>2 DEF PhaseOf, Settled
    <2> QED BY <1>1, <2>1, <2>2, <2>3, StutterStep DEF SameLease
  <1> QED BY <1>2, <1>3

LEMMA RunEnds ==
  ASSUME TypeOK, Ownership, OwnersKnown, NEW r \in Runs, Live(r), runPc'[r] = "done",
         \A q \in Runs \ {r} : runPc'[q] = runPc[q],
         UNCHANGED <<lockedBy, batch, owner, disturbed>>,
         \A k \in Jobs \ {JobOf(r)} : status'[k] = status[k],
         status'[JobOf(r)] \in {status[JobOf(r)], "queued", "completed", "dead_letter"}
  PROVE  [Leases!LeaseNext]_(Leases!leaseVars)
  <1>1. \A k \in Jobs \ {JobOf(r)} : SameLease(k)
    BY UntouchedByRun
  <1>2. CASE JobOf(r) \in disturbed
    BY <1>1, <1>2, StaysWild, StutterStep
  <1>3. CASE JobOf(r) \notin disturbed
    <2> DEFINE j == JobOf(r)
    <2>1. j \in Jobs
      BY JobOfRun
    <2>2. /\ PhaseOf(j) = "open" /\ LesseesOf(j) = {owner[r]} /\ owner[r] \in Workers
          /\ \A q \in Runs \ {r} : JobOf(q) = j => ~Live(q)
          /\ \A w \in Workers : j \notin InHand(w)
      BY <1>3, LeasedByRun
    <2>3. LesseesOf(j)' = {}
      <3>1. \A q \in Runs : JobOf(q) = j => ~Live(q)'
        BY <2>2 DEF Live
      <3>2. \A w \in Workers : j \notin InHand(w)'
        BY <2>2 DEF InHand
      <3> QED BY <3>1, <3>2 DEF LesseesOf, LiveRuns
    <2>4. CASE status'[j] \in {"completed", "dead_letter"}
      <3>1. EntersPhase(j, status'[j])
        BY <1>3, <2>3, <2>4 DEF EntersPhase, PhaseOf, Settled
      <3> QED BY <1>1, <2>1, <2>2, <2>4, <3>1, SettleStep
    <2>5. CASE status'[j] \notin {"completed", "dead_letter"}
      <3>1. PhaseOf(j)' = "open"
        BY <1>3, <2>2, <2>5 DEF PhaseOf, Settled
      <3>2. \A k \in Jobs \ {j} : SameLease(k)
        BY <1>1
      <3> HIDE DEF j
      <3>3. /\ {j} \in SUBSET Jobs
            /\ \A k \in {j} : LesseesOf(k) = {owner[r]} /\ LesseesOf(k)' = {} /\ PhaseOf(k)' = PhaseOf(k)
            /\ \A k \in Jobs \ {j} : SameLease(k)
        BY <2>1, <2>2, <2>3, <3>1, <3>2
      <3> QED BY <2>2, <3>3, GiveBackStep
    <2> QED BY <2>4, <2>5
  <1> QED BY <1>2, <1>3

LEMMA LeaseOfRuns ==
  ASSUME TypeOK, Ownership, OwnersKnown, NEW r \in Runs, OfRuns,
         \/ (RunStep(r) \/ SuccessRollsBack(r) \/ RunAborts(r)) /\ Calm
         \/ SuccessAckLost(r) /\ DisturbIf(TRUE, JobOf(r))
  PROVE  [Leases!LeaseNext]_(Leases!leaseVars)
  <1> USE DEF TypeOK, StoreTypeOK, ExecutorTypeOK
  <1>1. /\ Live(r)
        /\ UNCHANGED <<lockedBy, batch, owner>>
        /\ \A q \in Runs \ {r} : runPc'[q] = runPc[q]
        /\ \A k \in Jobs \ {JobOf(r)} : status'[k] = status[k]
    <2>1. Live(r)
      BY DEF RunStep, FetchJob, MarkRunning, CreateExecution, CommitSuccess,
             HandlerThrows, RetryLater, MoveToDeadLetter, DeadLetterConflict,
             SuccessRollsBack, SuccessAckLost, RunAborts, At, Live
    <2>2. UNCHANGED <<lockedBy, batch, owner>>
      BY DEF RunStep, FetchJob, MarkRunning, CreateExecution, CommitSuccess,
             HandlerThrows, RetryLater, MoveToDeadLetter, DeadLetterConflict,
             SuccessRollsBack, SuccessAckLost, RunAborts, OfRuns, tables, pollerVars
    <2>3. \A q \in Runs \ {r} : runPc'[q] = runPc[q]
      BY DEF RunStep, FetchJob, MarkRunning, CreateExecution, CommitSuccess,
             HandlerThrows, RetryLater, MoveToDeadLetter, DeadLetterConflict,
             SuccessRollsBack, SuccessAckLost, RunAborts, Goto, Finish
    <2>4. \A k \in Jobs \ {JobOf(r)} : status'[k] = status[k]
      BY DEF RunStep, FetchJob, MarkRunning, CreateExecution, CommitSuccess,
             HandlerThrows, RetryLater, MoveToDeadLetter, DeadLetterConflict,
             SuccessRollsBack, SuccessAckLost, RunAborts, Completed, SetJob, tables
    <2> QED BY <2>1, <2>2, <2>3, <2>4
  <1>2. JobOf(r) \in Jobs
    BY JobOfRun
  <1>3. CASE (FetchJob(r) \/ CreateExecution(r) \/ HandlerThrows(r) \/ SuccessRollsBack(r)) /\ Calm
    BY <1>1, <1>3, RunGoesOn
    DEF FetchJob, CreateExecution, HandlerThrows, SuccessRollsBack, Goto, Live, Calm, tables
  <1>4. CASE MarkRunning(r) /\ Calm
    <2>1. status'[JobOf(r)] = "running" /\ Live(r)' /\ UNCHANGED disturbed
      BY <1>2, <1>4 DEF MarkRunning, SetJob, Goto, Live, Calm
    <2> QED BY <1>1, <2>1, RunGoesOn
  <1>5. CASE (CommitSuccess(r) \/ RetryLater(r) \/ MoveToDeadLetter(r)
              \/ DeadLetterConflict(r) \/ RunAborts(r)) /\ Calm
    <2>1. runPc'[r] = "done" /\ UNCHANGED disturbed
      BY <1>5 DEF CommitSuccess, RetryLater, MoveToDeadLetter, DeadLetterConflict,
                  RunAborts, Finish, Calm
    <2>2. status'[JobOf(r)] \in {status[JobOf(r)], "queued", "completed", "dead_letter"}
      BY <1>2, <1>5 DEF CommitSuccess, Completed, RetryLater, MoveToDeadLetter,
                        DeadLetterConflict, RunAborts, SetJob, tables
    <2> QED BY <1>1, <2>1, <2>2, RunEnds
  <1>6. CASE SuccessAckLost(r) /\ DisturbIf(TRUE, JobOf(r))
    <2>1. disturbed' = disturbed \cup {JobOf(r)}
      BY <1>6 DEF DisturbIf
    <2>2. \A k \in Jobs \ {JobOf(r)} : SameLease(k)
      BY <1>1, <2>1, UntouchedByRun
    <2> QED BY <1>2, <2>1, <2>2, BreakStep
  <1> QED
    BY <1>3, <1>4, <1>5, <1>6 DEF RunStep

-----------------------------------------------------------------------------
(* The other processes. *)

\* Neither hands nor runs nor history change, and rows only as said.
LEMMA IdleKeepsLease ==
  ASSUME HandsIdle, NEW j \in Jobs, status'[j] = status[j], j \in disturbed' <=> j \in disturbed
  PROVE  SameLease(j)
  BY Untouched DEF HandsIdle, InHand, Live

\* Handing over, dropping or losing what a worker has in hand.
LEMMA LeaseOfSelect ==
  ASSUME TypeOK, Ownership, LoopState, NEW w \in Workers, SelectClaimable(w), Calm
  PROVE  [Leases!LeaseNext]_(Leases!leaseVars)
  <1>1. UNCHANGED <<status, runPc, owner, batch, disturbed>> /\ pollPc[w] = "select"
    BY DEF SelectClaimable, executorVars, Calm, PollAt
  <1>2. PICK S \in TopOf(Claimable(queue[w]), available[w]) :
          UNCHANGED lockedBy \/ lockedBy' = [lockedBy EXCEPT ![w] = S]
    BY DEF SelectClaimable
  <1>3. CASE UNCHANGED lockedBy
    BY <1>1, <1>3, Untouched, StutterStep DEF InHand, Live
  <1>4. CASE lockedBy' = [lockedBy EXCEPT ![w] = S]
    <2> DEFINE T == S \ disturbed
    <2>1. \A j \in S : j \in Jobs /\ status[j] = "queued" /\ ~Locked(j)
      BY DEF TopOf, Claimable
    <2>2. lockedBy[w] = {} /\ \A v \in Workers : lockedBy'[v] = IF v = w THEN S ELSE lockedBy[v]
      BY <1>1, <1>4 DEF LoopState, TypeOK, StoreTypeOK
    <2>3. ASSUME NEW j \in T
          PROVE  /\ PhaseOf(j) = "open" /\ PhaseOf(j)' = "open"
                 /\ LesseesOf(j) = {} /\ LesseesOf(j)' = {w}
      <3>1. j \in Jobs \ disturbed /\ status[j] = "queued" /\ ~Held(j)
        BY <2>1, UnclaimedIsUnheld DEF InFlight
      <3>2. \A r \in LiveRuns(j) : FALSE
        BY <3>1 DEF Held
      <3>3. \A v \in Workers : j \notin InHand(v)
        BY <3>1 DEF Held
      <3>4. LesseesOf(j) = {}
        BY <3>2, <3>3 DEF LesseesOf
      <3>5. \A v \in Workers : j \in InHand(v)' <=> v = w
        BY <1>1, <2>2, <3>3 DEF InHand
      <3>6. \A r \in LiveRuns(j)' : FALSE
        BY <1>1, <3>2 DEF LiveRuns, Live
      <3>7. LesseesOf(j)' = {w}
        BY <1>1, <3>1, <3>5, <3>6 DEF LesseesOf
      <3>8. PhaseOf(j) = "open" /\ PhaseOf(j)' = "open"
        BY <1>1, <3>1 DEF PhaseOf, Settled
      <3> QED BY <3>4, <3>7, <3>8
    <2>4. ASSUME NEW j \in Jobs \ T PROVE SameLease(j)
      <3>1. CASE j \in disturbed
        BY <1>1, <3>1, StaysWild
      <3>2. CASE j \notin S
        BY <1>1, <2>2, <3>2, Untouched DEF InHand, Live
      <3> QED BY <3>1, <3>2
    <2>5. T \in SUBSET Jobs
      BY <2>1
    <2> HIDE DEF T
    <2> QED BY <2>3, <2>4, <2>5, LeaseStep
  <1> QED BY <1>2, <1>3, <1>4

\* A worker lets go of some jobs, which no run of its own acts on.
LEMMA LeaseOfDrop ==
  ASSUME TypeOK, Ownership, NEW w \in Workers, UNCHANGED <<runPc, owner, disturbed>>,
         \A v \in Workers : v # w => InHand(v)' = InHand(v),
         InHand(w)' \subseteq InHand(w),
         \A j \in Jobs \ disturbed :
           status'[j] = status[j] \/ (status[j] = "queued" /\ status'[j] = "claimed")
  PROVE  [Leases!LeaseNext]_(Leases!leaseVars)
  <1> DEFINE T == {j \in Jobs \ disturbed : j \in InHand(w) /\ j \notin InHand(w)'}
  <1>1. ASSUME NEW j \in Jobs PROVE PhaseOf(j)' = PhaseOf(j)
    BY DEF PhaseOf, Settled
  <1>2. ASSUME NEW j \in Jobs PROVE LiveRuns(j)' = LiveRuns(j)
    BY DEF LiveRuns, Live
  <1>3. ASSUME NEW j \in T PROVE LesseesOf(j) = {w} /\ LesseesOf(j)' = {}
    <2>1. LiveRuns(j) = {} /\ \A v \in Workers : j \in InHand(v) => v = w
      BY DEF Ownership, SoleHolder
    <2>2. LesseesOf(j) = {w}
      BY <2>1 DEF LesseesOf
    <2>3. \A v \in Workers : j \notin InHand(v)'
      BY <2>1
    <2>4. LesseesOf(j)' = {}
      BY <1>2, <2>1, <2>3 DEF LesseesOf
    <2> QED BY <2>2, <2>4
  <1>4. ASSUME NEW j \in Jobs \ T PROVE SameLease(j)
    <2>1. CASE j \in disturbed
      BY <2>1, StaysWild
    <2>2. CASE j \notin disturbed
      <3>1. \A v \in Workers : j \in InHand(v)' <=> j \in InHand(v)
        BY <1>4, <2>2
      <3>2. LesseesOf(j)' = LesseesOf(j)
        BY <1>2, <1>4, <3>1 DEF LesseesOf
      <3> QED BY <1>1, <1>4, <3>2 DEF SameLease
    <2> QED BY <2>1, <2>2
  <1>5. T \in SUBSET Jobs /\ \A j \in T : PhaseOf(j)' = PhaseOf(j)
    BY <1>1
  <1> HIDE DEF T
  <1> QED BY <1>3, <1>4, <1>5, GiveBackStep

LEMMA LeaseOfLaunch ==
  ASSUME TypeOK, Ownership, LoopState, NEW w \in Workers, LaunchBatch(w), Calm
  PROVE  [Leases!LeaseNext]_(Leases!leaseVars)
  <1>1. UNCHANGED <<status, lockedBy, disturbed>>
    BY DEF LaunchBatch, Calm
  <1>2. /\ lockedBy[w] = {}
        /\ \A v \in Workers : batch'[v] = IF v = w THEN {} ELSE batch[v]
    BY DEF LaunchBatch, PollAt, LoopState, TypeOK, PollerTypeOK
  <1>3. ASSUME NEW j \in batch[w]
        PROVE  NewRun(j) \in Runs /\ JobOf(NewRun(j)) = j
    BY <1>3, LaunchesAssumption DEF LaunchBatch, NewRun, Runs, JobOf, TypeOK, PollerTypeOK
  <1>4. \A r \in Runs :
          IF r = NewRun(JobOf(r)) /\ JobOf(r) \in batch[w]
            THEN runPc'[r] = "fetch" /\ owner'[r] = w
            ELSE runPc'[r] = runPc[r] /\ owner'[r] = owner[r]
    BY <1>3 DEF LaunchBatch
  <1>5. ASSUME NEW j \in Jobs PROVE SameLease(j)
    <2>1. CASE j \in disturbed
      BY <1>1, <2>1, StaysWild
    <2>2. CASE j \notin disturbed /\ j \in batch[w]
      <3>1. LiveRuns(j) = {} /\ \A v \in Workers : j \in InHand(v) <=> v = w
        BY <1>5, <2>2 DEF Ownership, SoleHolder, InHand
      <3>2. LesseesOf(j) = {w}
        BY <2>2, <3>1 DEF LesseesOf
      <3>3. \A v \in Workers : j \notin InHand(v)'
        BY <1>1, <1>2, <3>1 DEF InHand
      <3>4. /\ NewRun(j) \in LiveRuns(j)' /\ owner'[NewRun(j)] = w
            /\ \A r \in LiveRuns(j)' : owner'[r] = w
        BY <1>3, <1>4, <2>2, <3>1 DEF LiveRuns, Live
      <3>5. LesseesOf(j)' = {w}
        BY <1>1, <2>2, <3>3, <3>4 DEF LesseesOf
      <3>6. PhaseOf(j)' = PhaseOf(j)
        BY <1>1 DEF PhaseOf
      <3> QED BY <3>2, <3>5, <3>6 DEF SameLease
    <2>3. CASE j \notin batch[w]
      <3>1. \A r \in Runs : JobOf(r) = j => runPc'[r] = runPc[r] /\ owner'[r] = owner[r]
        BY <1>4, <2>3
      <3>2. \A v \in Workers : j \in InHand(v)' <=> j \in InHand(v)
        BY <1>1, <1>2, <2>3 DEF InHand
      <3> QED BY <1>1, <1>5, <3>1, <3>2, Untouched DEF Live
    <2> QED BY <2>1, <2>2, <2>3
  <1> QED BY <1>5, StutterStep

LEMMA LeaseOfPoller ==
  ASSUME TypeOK, Ownership, HandsKnown, NEW w \in Workers, PollStep(w) \/ ClaimFails(w), Calm
  PROVE  [Leases!LeaseNext]_(Leases!leaseVars)
  <1>1. CASE StartPoller(w) \/ FetchQueues(w) \/ CountInFlight(w) \/ StopCycle(w)
    <2>1. UNCHANGED <<status, runPc, owner, lockedBy, batch, disturbed>>
      BY <1>1 DEF StartPoller, FetchQueues, CountInFlight, StopCycle, tables, executorVars, Calm
    <2> QED BY <2>1, Untouched, StutterStep DEF InHand, Live
  <1>2. CASE SelectClaimable(w)
    BY <1>2, LeaseOfSelect DEF HandsKnown
  <1>3. CASE LaunchBatch(w)
    BY <1>3, LeaseOfLaunch DEF HandsKnown
  <1>4. CASE UpdateClaimed(w)
    <2>1. UNCHANGED <<runPc, owner, disturbed>> /\ batch[w] = {}
      BY <1>4 DEF UpdateClaimed, executorVars, Calm, HandsKnown, LoopState, PollAt
    <2>2. \A v \in Workers : InHand(v)' = InHand(v)
      BY <1>4, <2>1 DEF UpdateClaimed, Claim, InHand, TypeOK, StoreTypeOK, PollerTypeOK
    <2>3. \A j \in Jobs \ disturbed :
            status'[j] = status[j] \/ (status[j] = "queued" /\ status'[j] = "claimed")
      BY <1>4 DEF UpdateClaimed, Claim, Ownership, RowTracksHolder
    <2>4. ASSUME NEW j \in Jobs PROVE SameLease(j)
      <3>1. CASE j \in disturbed
        BY <2>1, <3>1, StaysWild
      <3>2. CASE j \notin disturbed
        <4>1. PhaseOf(j)' = PhaseOf(j)
          BY <2>1, <2>3, <2>4, <3>2 DEF PhaseOf, Settled
        <4>2. LesseesOf(j)' = LesseesOf(j)
          BY <2>1, <2>2 DEF LesseesOf, LiveRuns, Live
        <4> QED BY <4>1, <4>2 DEF SameLease
      <3> QED BY <3>1, <3>2
    <2> QED BY <2>4, StutterStep
  <1>5. CASE DropBatch(w)
    <2>1. /\ UNCHANGED <<status, runPc, owner, lockedBy, disturbed>>
          /\ \A v \in Workers : batch'[v] = IF v = w THEN {} ELSE batch[v]
      BY <1>5 DEF DropBatch, tables, executorVars, Calm, TypeOK, PollerTypeOK
    <2> QED BY <2>1, LeaseOfDrop DEF InHand
  <1>6. CASE ClaimFails(w)
    <2>1. /\ UNCHANGED <<runPc, owner, batch, disturbed>>
          /\ \A v \in Workers : lockedBy'[v] = IF v = w THEN {} ELSE lockedBy[v]
      BY <1>6 DEF ClaimFails, Claim, Calm, TypeOK, StoreTypeOK
    <2>2. \A j \in Jobs \ disturbed :
            status'[j] = status[j] \/ (status[j] = "queued" /\ status'[j] = "claimed")
      BY <1>6 DEF ClaimFails, Claim, Ownership, RowTracksHolder
    <2>3. /\ \A v \in Workers : v # w => InHand(v)' = InHand(v)
          /\ InHand(w)' \subseteq InHand(w)
      BY <2>1 DEF InHand
    <2> QED BY <2>1, <2>2, <2>3, LeaseOfDrop
  <1> QED
    BY <1>1, <1>2, <1>3, <1>4, <1>5, <1>6 DEF PollStep

\* The process is gone, and with it all it had in hand and all its runs.
LEMMA LeaseOfVanish ==
  ASSUME TypeOK, Ownership, NEW w \in Workers, Vanish(w), Calm
  PROVE  [Leases!LeaseNext]_(Leases!leaseVars)
  <1> DEFINE T == {j \in Jobs \ disturbed : w \in LesseesOf(j)}
  <1>1. UNCHANGED <<status, owner, disturbed>>
    BY DEF Vanish, Calm
  <1>2. \A v \in Workers : InHand(v)' = IF v = w THEN {} ELSE InHand(v)
    BY DEF Vanish, InHand, TypeOK, StoreTypeOK, PollerTypeOK
  <1>3. \A r \in Runs : Live(r)' <=> Live(r) /\ owner[r] # w
    BY DEF Vanish, InFlightRuns, Live
  <1>4. ASSUME NEW j \in Jobs PROVE PhaseOf(j)' = PhaseOf(j)
    BY <1>1 DEF PhaseOf
  <1>5. ASSUME NEW j \in Jobs PROVE LesseesOf(j)' = LesseesOf(j) \ {w}
    BY <1>1, <1>2, <1>3 DEF LesseesOf, LiveRuns
  <1>6. ASSUME NEW j \in T PROVE LesseesOf(j) = {w}
    <2>1. \A v \in LesseesOf(j) : j \in InHand(v) \/ \E r \in LiveRuns(j) : owner[r] = v
      BY DEF LesseesOf
    <2>2. \A u, v \in LesseesOf(j) : u = v
      BY <2>1 DEF Ownership, SoleHolder, LesseesOf
    <2> QED BY <2>2
  <1>7. /\ T \in SUBSET Jobs
        /\ \A j \in T : LesseesOf(j) = {w} /\ LesseesOf(j)' = {} /\ PhaseOf(j)' = PhaseOf(j)
    BY <1>4, <1>5, <1>6
  <1>8. ASSUME NEW j \in Jobs \ T PROVE SameLease(j)
    <2>1. CASE j \in disturbed
      BY <1>1, <2>1, StaysWild
    <2>2. CASE j \notin disturbed
      BY <1>4, <1>5, <1>8, <2>2 DEF SameLease
    <2> QED BY <2>1, <2>2
  <1> HIDE DEF T
  <1> QED BY <1>7, <1>8, GiveBackStep

LEMMA LeaseOfReaper ==
  ASSUME TypeOK, Ownership, NEW p \in Reapers, ReapProgress(p) \/ (ReapFault(p) /\ Calm)
  PROVE  [Leases!LeaseNext]_(Leases!leaseVars)
  <1>0. HandsIdle
    BY IdleSteps
  <1>1. CASE ReapFault(p) /\ Calm
    <2>1. UNCHANGED <<status, disturbed>>
      BY <1>1 DEF ReapFault, CycleFails, CloseFails, RequeueFails, Calm, tables
    <2> QED BY <1>0, <2>1, IdleKeepsLease, StutterStep
  <1>2. CASE (FindStaleWorkers(p) \/ MarkDead(p) \/ FindOrphans(p) \/ FindClaimed(p)) /\ Calm
    <2>1. UNCHANGED <<status, disturbed>>
      BY <1>2 DEF FindStaleWorkers, MarkDead, FindOrphans, FindClaimed, Calm, tables
    <2> QED BY <1>0, <2>1, IdleKeepsLease, StutterStep
  <1>3. ASSUME NEW j \in Jobs, RequeueJob(p, j), DisturbIf(RequeueIsStale(p, j), j)
        PROVE  [Leases!LeaseNext]_(Leases!leaseVars)
    <2>1. status' = [status EXCEPT ![j] = "queued"]
      BY <1>3 DEF RequeueJob, SetJob
    <2>2. disturbed' = disturbed \/ disturbed' = disturbed \cup {j}
      BY <1>3 DEF DisturbIf
    <2>3. \A k \in Jobs \ {j} : SameLease(k)
      BY <1>0, <2>1, <2>2, IdleKeepsLease DEF TypeOK, StoreTypeOK
    <2>4. CASE j \in disturbed'
      BY <2>3, <2>4, BreakStep
    <2>5. CASE j \notin disturbed'
      <3>1. j \notin disturbed /\ status[j] \in InFlight
        BY <1>3, <2>2, <2>5 DEF DisturbIf, RequeueIsStale
      <3>2. PhaseOf(j) = "open" /\ PhaseOf(j)' = "open"
        BY <2>1, <2>5, <3>1 DEF PhaseOf, InFlight, Settled, TypeOK, StoreTypeOK
      <3>3. LesseesOf(j)' = LesseesOf(j)
        BY <1>0, <2>5, <3>1 DEF LesseesOf, HandsIdle, InHand, LiveRuns, Live
      <3> QED BY <2>3, <3>2, <3>3, StutterStep DEF SameLease
    <2> QED BY <2>4, <2>5
  <1>4. CASE CloseExecutions(p) /\ DisturbIf(ClosesLiveRun(p), orphan[p])
    <2>1. UNCHANGED status
      BY <1>4 DEF CloseExecutions
    <2>2. CASE disturbed' = disturbed
      BY <1>0, <2>1, <2>2, IdleKeepsLease, StutterStep
    <2>3. CASE disturbed' # disturbed
      <3>1. disturbed' = disturbed \cup {orphan[p]} /\ orphan[p] \in Jobs
        BY <1>4, <2>3, JobOfRun DEF DisturbIf, ClosesLiveRun, OpenExecutions
      <3>2. \A k \in Jobs \ {orphan[p]} : SameLease(k)
        BY <1>0, <2>1, <3>1, IdleKeepsLease
      <3> QED BY <3>1, <3>2, BreakStep
    <2> QED BY <2>2, <2>3
  <1> QED
    BY <1>1, <1>2, <1>3, <1>4 DEF ReapProgress

LEMMA LeaseOfClient ==
  ASSUME TypeOK, Ownership, Client
  PROVE  [Leases!LeaseNext]_(Leases!leaseVars)
  <1>0. HandsIdle
    BY IdleSteps
  <1>1. ASSUME NEW j \in Jobs, disturbed' \in {disturbed, disturbed \cup {j}},
               \A k \in Jobs \ {j} : status'[k] = status[k]
        PROVE  \A k \in Jobs \ {j} : SameLease(k)
    BY <1>0, <1>1, IdleKeepsLease
  <1>2. ASSUME NEW j \in Jobs \ disturbed, ~Held(j), j \notin disturbed'
        PROVE  LesseesOf(j) = {} /\ LesseesOf(j)' = {}
    BY <1>0, <1>2 DEF Held, LesseesOf, HandsIdle, InHand, LiveRuns, Live
  <1>3. ASSUME NEW j \in Jobs, SubmitJob(j), Calm PROVE [Leases!LeaseNext]_(Leases!leaseVars)
    <2>1. /\ status[j] = "absent" /\ status'[j] \in {"scheduled", "queued"}
          /\ \A k \in Jobs \ {j} : status'[k] = status[k]
          /\ disturbed' = disturbed
      BY <1>3 DEF SubmitJob, Calm, TypeOK, StoreTypeOK
    <2>2. \A k \in Jobs \ {j} : SameLease(k)
      BY <1>1, <2>1
    <2>3. CASE j \in disturbed
      BY <2>1, <2>2, <2>3, BreakStep
    <2>4. CASE j \notin disturbed
      <3>1. ~Locked(j)
        BY <2>1, <2>4 DEF Ownership, RowTracksHolder, Locked
      <3>2. ~Held(j)
        BY <2>1, <2>4, <3>1, UnclaimedIsUnheld DEF InFlight
      <3>3. EntersPhase(j, "open") /\ PhaseOf(j) = "none"
        BY <1>2, <2>1, <2>4, <3>2 DEF EntersPhase, PhaseOf, Settled
      <3>4. Leases!Submit(j)
        BY <2>2, <3>3, EnterStep DEF Leases!Submit
      <3> QED BY <3>4 DEF Leases!LeaseNext
    <2> QED BY <2>3, <2>4
  <1>4. ASSUME NEW c \in Requests, NEW j \in Jobs, Calm,
               ReadForCancel(c, j) \/ ReadForRetry(c, j) \/ RetryConflict(c)
        PROVE  [Leases!LeaseNext]_(Leases!leaseVars)
    <2>1. UNCHANGED <<status, disturbed>>
      BY <1>4 DEF ReadForCancel, ReadForRetry, RetryConflict, Calm, tables
    <2> QED BY <1>0, <2>1, IdleKeepsLease, StutterStep
  <1>5. ASSUME NEW c \in Requests, RetryConflict(c), Calm
        PROVE  [Leases!LeaseNext]_(Leases!leaseVars)
    <2>1. UNCHANGED <<status, disturbed>>
      BY <1>5 DEF RetryConflict, Calm, tables
    <2> QED BY <1>0, <2>1, IdleKeepsLease, StutterStep
  <1>6. ASSUME NEW c \in Requests, WriteCancelled(c), DisturbIf(CancelIsStale(c), reqJob[c])
        PROVE  [Leases!LeaseNext]_(Leases!leaseVars)
    <2>0. PICK j \in Jobs : j = reqJob[c]
      BY <1>6 DEF WriteCancelled, TypeOK, ApiTypeOK
    <2>1. /\ j \in Jobs /\ ~Locked(j)
          /\ status'[j] = "cancelled" /\ \A k \in Jobs \ {j} : status'[k] = status[k]
      BY <1>6, <2>0 DEF WriteCancelled, SetJob, TypeOK, ApiTypeOK, StoreTypeOK
    <2>2. /\ disturbed' \in {disturbed, disturbed \cup {j}}
          /\ j \notin disturbed' => j \notin disturbed /\ status[j] \in Cancellable
      BY <1>6, <2>0 DEF DisturbIf, CancelIsStale
    <2>3. \A k \in Jobs \ {j} : SameLease(k)
      BY <1>1, <2>1, <2>2
    <2>4. CASE j \in disturbed'
      BY <2>1, <2>3, <2>4, BreakStep
    <2>5. CASE j \notin disturbed'
      <3>1. LesseesOf(j) = {} /\ LesseesOf(j)' = {}
        BY <1>2, <2>1, <2>2, <2>5, UnclaimedIsUnheld DEF Cancellable, InFlight
      <3>2. PhaseOf(j) = "open" /\ PhaseOf(j)' = "cancelled"
        BY <2>1, <2>2, <2>5 DEF PhaseOf, Settled, Cancellable
      <3>3. Leases!Enter(j, "cancelled")
        BY <2>1, <2>3, <3>1, <3>2, EnterStep DEF EntersPhase
      <3>4. Leases!Cancel(j)
        BY <2>1, <3>1, <3>2, <3>3 DEF Leases!Cancel, Leases!Free
      <3> QED BY <2>1, <3>4 DEF Leases!LeaseNext
    <2> QED BY <2>4, <2>5
  <1>7. ASSUME NEW c \in Requests, CommitRetry(c), DisturbIf(RetryIsStale(c), reqJob[c])
        PROVE  [Leases!LeaseNext]_(Leases!leaseVars)
    <2>0. PICK j \in Jobs : j = reqJob[c]
      BY <1>7 DEF CommitRetry, TypeOK, ApiTypeOK
    <2>1. /\ j \in Jobs /\ ~Locked(j)
          /\ status'[j] = "queued" /\ \A k \in Jobs \ {j} : status'[k] = status[k]
      BY <1>7, <2>0 DEF CommitRetry, SetJob, TypeOK, ApiTypeOK, StoreTypeOK
    <2>2. /\ disturbed' \in {disturbed, disturbed \cup {j}}
          /\ j \notin disturbed' => j \notin disturbed /\ status[j] \in Retryable
      BY <1>7, <2>0 DEF DisturbIf, RetryIsStale
    <2>3. \A k \in Jobs \ {j} : SameLease(k)
      BY <1>1, <2>1, <2>2
    <2>4. CASE j \in disturbed'
      BY <2>1, <2>3, <2>4, BreakStep
    <2>5. CASE j \notin disturbed'
      <3>1. LesseesOf(j)' = {}
        BY <1>2, <2>1, <2>2, <2>5, UnclaimedIsUnheld DEF Retryable, InFlight
      <3>2. PhaseOf(j) \in {"dead_letter", "cancelled"} /\ PhaseOf(j)' = "open"
        BY <2>1, <2>2, <2>5 DEF PhaseOf, Settled, Retryable
      <3>3. Leases!Enter(j, "open")
        BY <2>1, <2>3, <3>1, <3>2, EnterStep DEF EntersPhase
      <3>4. Leases!Reopen(j)
        BY <2>1, <3>2, <3>3 DEF Leases!Reopen
      <3> QED BY <2>1, <3>4 DEF Leases!LeaseNext
    <2> QED BY <2>4, <2>5
  <1> QED
    BY <1>3, <1>4, <1>5, <1>6, <1>7 DEF Client

LEMMA LeaseKeptStep ==
  TypeOK /\ Ownership /\ HandsKnown /\ [Next]_vars => [Leases!LeaseNext]_(Leases!leaseVars)
  <1> SUFFICES ASSUME TypeOK, Ownership, HandsKnown, [Next]_vars
               PROVE  [Leases!LeaseNext]_(Leases!leaseVars)
    OBVIOUS
  <1>1. CASE HandsIdle /\ UNCHANGED <<status, disturbed>>
    BY <1>1, IdleKeepsLease, StutterStep
  <1>2. ASSUME NEW r \in Runs,
               \/ RunProgress(r)
               \/ (SuccessRollsBack(r) \/ RunAborts(r)) /\ OfRuns /\ Calm
               \/ SuccessAckLost(r) /\ OfRuns /\ DisturbIf(TRUE, JobOf(r))
        PROVE  [Leases!LeaseNext]_(Leases!leaseVars)
    BY <1>2, LeaseOfRuns DEF RunProgress, HandsKnown
  <1>3. ASSUME NEW w \in Workers, PollProgress(w) \/ (ClaimFails(w) /\ Calm)
        PROVE  [Leases!LeaseNext]_(Leases!leaseVars)
    BY <1>3, LeaseOfPoller DEF PollProgress
  <1>4. ASSUME NEW w \in Workers, ShutdownStep(w) \/ Crash(w) \/ ReceiveSigterm(w), Calm
        PROVE  [Leases!LeaseNext]_(Leases!leaseVars)
    <2>1. CASE Vanish(w)
      BY <1>4, <2>1, LeaseOfVanish
    <2>2. CASE MarkDraining(w) \/ WaitForInFlight(w) \/ MarkSelfDead(w) \/ ReceiveSigterm(w)
      <3>1. HandsIdle /\ UNCHANGED <<status, disturbed>>
        BY <1>4, <2>2 DEF MarkDraining, WaitForInFlight, MarkSelfDead, ReceiveSigterm,
                          Calm, tables, executorVars, pollerVars, HandsIdle
      <3> QED BY <1>1, <3>1
    <2> QED BY <1>4, <2>1, <2>2 DEF ShutdownStep, Exit, Crash
  <1>5. ASSUME NEW p \in Reapers, ReapProgress(p) \/ (ReapFault(p) /\ Calm)
        PROVE  [Leases!LeaseNext]_(Leases!leaseVars)
    BY <1>5, LeaseOfReaper
  <1>6. ASSUME NEW w \in Workers, (Heartbeat(w) \/ HeartbeatLapses(w)) /\ OfReaper /\ Calm
        PROVE  [Leases!LeaseNext]_(Leases!leaseVars)
    BY <1>1, <1>6, IdleSteps DEF Heartbeat, HeartbeatLapses, Calm
  <1>7. ASSUME NEW j \in Jobs, TimeProgress(j)
        PROVE  [Leases!LeaseNext]_(Leases!leaseVars)
    BY <1>1, <1>7, IdleSteps DEF TimeProgress, RunAtPasses, Calm
  <1>8. CASE Client
    BY <1>8, LeaseOfClient
  <1>9. CASE UNCHANGED vars
    BY <1>1, <1>9 DEF vars, tables, executorVars, pollerVars, HandsIdle
  <1> QED
    BY <1>2, <1>3, <1>4, <1>5, <1>6, <1>7, <1>8, <1>9
    DEF Next, Fail, HeartbeatProgress, ShutdownProgress

LEMMA InitLease == Init => Leases!LeaseInit
  BY DEF Init, StoreInit, ExecutorInit, PollerInit, Leases!LeaseInit, PhaseOf, LesseesOf,
         InHand, LiveRuns, Live

\* The pipeline implements the lease: for any number of jobs, workers, reap
\* loops and requests, whatever crashes, stops and database faults happen, a
\* job that no blind write has hit is leased by one worker at a time, settled
\* by that worker only, cancelled only when nobody holds it, and reopened only
\* by a manual retry (claimer.ts, poller.ts, executor.ts, heartbeat.ts,
\* routes/jobs.ts).
THEOREM ImplementsLease == Spec => LeaseKept
  <1>1. TypeOK /\ Ownership /\ HandsKnown /\ [Next]_vars => (TypeOK /\ Ownership /\ HandsKnown)'
    BY TypeOKStep, OwnershipStep, HandsStep
  <1> QED
    BY <1>1, InitTypeOK, InitOwnership, InitHands, InitLease, LeaseKeptStep, PTL
    DEF Spec, LeaseKept, Leases!LeaseSpec
=============================================================================

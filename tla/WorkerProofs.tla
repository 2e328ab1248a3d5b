---------------------------- MODULE WorkerProofs ----------------------------
(***************************************************************************)
(* More proofs about Chronos: what one worker holds and lets go of, and      *)
(* what is charged for it.                                                  *)
(***************************************************************************)
EXTENDS ChronosProofs

\* The state that says which jobs a worker has in its hands.
hands == <<runPc, owner, lockedBy, batch, pollPc, queue, available, proc, processVars>>

\* A run goes on, or ends.
Moves(r) ==
  /\ Live(r)
  /\ \E pc \in RunPcs \ {"unused"} : runPc' = [runPc EXCEPT ![r] = pc]
  /\ UNCHANGED <<owner, lockedBy, batch, pollPc, queue, available, proc, processVars>>

\* Only runs, poll loops and the ends of processes take or let go of jobs.
LEMMA StepKinds ==
  ASSUME [Next]_vars
  PROVE  \/ UNCHANGED hands
         \/ \E r \in Runs : Moves(r)
         \/ \E w \in Workers : (PollStep(w) \/ ClaimFails(w)) /\ OfPoller /\ Calm
         \/ \E w \in Workers : (ShutdownStep(w) \/ Crash(w) \/ ReceiveSigterm(w)) /\ Calm
  <1>1. ASSUME NEW r \in Runs, RunStep(r) \/ RunFault(r), OfRuns PROVE Moves(r)
    BY <1>1
    DEF RunStep, FetchJob, MarkRunning, CreateExecution, CommitSuccess, HandlerThrows,
        RetryLater, MoveToDeadLetter, DeadLetterConflict, RunFault, SuccessRollsBack,
        SuccessAckLost, RunAborts, At, Goto, Finish, Live, Moves, RunPcs, tables, OfRuns,
        pollerVars, processVars
  <1>2. ASSUME NEW w \in Workers, Heartbeat(w) \/ HeartbeatLapses(w), OfReaper
        PROVE  UNCHANGED hands
    BY <1>2 DEF Heartbeat, HeartbeatLapses, OfReaper, hands, executorVars, pollerVars
  <1>3. ASSUME NEW p \in Reapers, ReapProgress(p) \/ (ReapFault(p) /\ OfReaper)
        PROVE  UNCHANGED hands
    BY <1>3
    DEF ReapProgress, FindStaleWorkers, MarkDead, FindOrphans, FindClaimed, RequeueJob,
        CloseExecutions, ReapFault, CycleFails, RequeueFails, CloseFails, OfReaper,
        hands, tables, executorVars, pollerVars
  <1>4. ASSUME NEW j \in Jobs, TimeProgress(j) PROVE UNCHANGED hands
    BY <1>4 DEF TimeProgress, RunAtPasses, OfRuns, hands, executorVars, pollerVars
  <1>5. CASE Client
    BY <1>5
    DEF Client, SubmitJob, ReadForCancel, ReadForRetry, RetryConflict, WriteCancelled,
        CommitRetry, hands, tables, executorVars, pollerVars
  <1>6. CASE UNCHANGED vars
    BY <1>6 DEF vars, hands, tables, executorVars, pollerVars
  <1>7. ASSUME NEW r \in Runs, RunProgress(r) PROVE Moves(r)
    BY <1>1, <1>7 DEF RunProgress
  <1>8. ASSUME NEW w \in Workers, HeartbeatProgress(w) PROVE UNCHANGED hands
    BY <1>2, <1>8 DEF HeartbeatProgress
  <1>9. ASSUME Fail,
               ~\E w \in Workers :
                  \/ ClaimFails(w) /\ OfPoller /\ Calm
                  \/ (Crash(w) \/ ReceiveSigterm(w)) /\ Calm
        PROVE  UNCHANGED hands \/ \E r \in Runs : Moves(r)
    <2>1. ASSUME NEW r \in Runs,
                 (SuccessRollsBack(r) \/ RunAborts(r) \/ SuccessAckLost(r)) /\ OfRuns
          PROVE  Moves(r)
      BY <1>1, <2>1 DEF RunFault
    <2> QED BY <1>2, <1>3, <1>9, <2>1 DEF Fail
  <1>10. CASE \E w \in Workers : PollProgress(w) \/ HeartbeatProgress(w) \/ ShutdownProgress(w)
    BY <1>8, <1>10 DEF PollProgress, ShutdownProgress
  <1>11. CASE Fail
    BY <1>9, <1>11
  <1>12. CASE \E p \in Reapers : ReapProgress(p)
    BY <1>3, <1>12
  <1> QED
    BY <1>4, <1>5, <1>6, <1>7, <1>10, <1>11, <1>12 DEF Next

-----------------------------------------------------------------------------
(* A graceful shutdown leaves no run behind. *)

\* While the stop flag is set no run of the worker starts, so the runs under
\* way are the ones collected when it was.
ShutdownInv ==
  timeouts = 0 =>
    \A w \in Workers : proc[w] = "stopping" =>
      /\ downPc[w] = "wait" => InFlightRuns(w) \subseteq awaited[w]
      /\ downPc[w] \in {"dead", "exit"} => InFlightRuns(w) = {}


LEMMA ShutdownOfPoller ==
  ASSUME TypeOK, ShutdownInv, NEW v \in Workers, PollStep(v) \/ ClaimFails(v), OfPoller
  PROVE  ShutdownInv'
  <1>1. UNCHANGED processVars
    BY DEF OfPoller
  <1>2. CASE StartPoller(v)
    <2>1. \A w \in Workers : proc'[w] = "stopping" => proc[w] = "stopping"
      BY <1>2 DEF StartPoller, TypeOK, PollerTypeOK
    <2>2. \A w \in Workers : InFlightRuns(w)' = InFlightRuns(w)
      BY <1>2 DEF StartPoller, InFlightRuns, Live, tables, executorVars
    <2> QED BY <1>1, <2>1, <2>2 DEF ShutdownInv, processVars
  <1>3. CASE LaunchBatch(v)
    <2>1. UNCHANGED proc /\ proc[v] = "up"
      BY <1>3 DEF LaunchBatch
    <2>2. ASSUME NEW w \in Workers, proc[w] = "stopping"
          PROVE  InFlightRuns(w)' \subseteq InFlightRuns(w)
      BY <1>3, <2>1, <2>2 DEF LaunchBatch, InFlightRuns, Live
    <2> QED BY <1>1, <2>1, <2>2 DEF ShutdownInv, processVars
  <1>4. ASSUME ~StartPoller(v), ~LaunchBatch(v)
        PROVE  UNCHANGED <<proc, runPc, owner>>
    BY <1>4
    DEF PollStep, FetchQueues, CountInFlight, StopCycle, SelectClaimable, UpdateClaimed,
        DropBatch, ClaimFails, tables, executorVars
  <1>5. CASE UNCHANGED <<proc, runPc, owner>>
    BY <1>1, <1>5 DEF ShutdownInv, InFlightRuns, Live, processVars
  <1> QED BY <1>2, <1>3, <1>4, <1>5

LEMMA ShutdownOfProcess ==
  ASSUME TypeOK, ShutdownInv, NEW v \in Workers,
         ShutdownStep(v) \/ Crash(v) \/ ReceiveSigterm(v)
  PROVE  ShutdownInv'
  <1>1. ASSUME NEW w \in Workers, timeouts' = 0, proc'[w] = "stopping"
        PROVE  /\ downPc'[w] = "wait" => InFlightRuns(w)' \subseteq awaited'[w]
               /\ downPc'[w] \in {"dead", "exit"} => InFlightRuns(w)' = {}
    <2>0. timeouts = 0
      BY <1>1 DEF ShutdownStep, MarkDraining, WaitForInFlight, MarkSelfDead, Exit, Crash,
               ReceiveSigterm, TypeOK, ProcessTypeOK
    <2>1. CASE Vanish(v)
      <3>1. v # w
        BY <1>1, <2>1 DEF Vanish, TypeOK, PollerTypeOK
      <3>2. InFlightRuns(w)' \subseteq InFlightRuns(w)
        BY <2>1 DEF Vanish, InFlightRuns, Live
      <3>3. UNCHANGED <<proc[w], downPc[w], awaited[w]>>
        BY <2>1, <3>1 DEF Vanish, TypeOK, PollerTypeOK, ProcessTypeOK
      <3> QED BY <1>1, <2>0, <3>2, <3>3 DEF ShutdownInv
    <2>2. CASE ReceiveSigterm(v)
      <3>1. InFlightRuns(w)' = InFlightRuns(w)
        BY <2>2 DEF ReceiveSigterm, InFlightRuns, Live, tables, executorVars
      <3> QED
        BY <1>1, <2>0, <2>2, <3>1
        DEF ReceiveSigterm, ShutdownInv, TypeOK, PollerTypeOK, ProcessTypeOK
    <2>3. CASE MarkDraining(v) \/ WaitForInFlight(v) \/ MarkSelfDead(v)
      <3>1. InFlightRuns(w)' = InFlightRuns(w) /\ UNCHANGED proc
        BY <2>3 DEF MarkDraining, WaitForInFlight, MarkSelfDead, InFlightRuns, Live,
                 tables, executorVars
      <3>2. CASE v # w
        <4>1. UNCHANGED <<downPc[w], awaited[w]>>
          BY <2>3, <3>2 DEF MarkDraining, WaitForInFlight, MarkSelfDead, TypeOK, ProcessTypeOK
        <4> QED BY <1>1, <2>0, <3>1, <4>1 DEF ShutdownInv
      <3>3. CASE v = w /\ MarkDraining(v)
        BY <3>1, <3>3 DEF MarkDraining, TypeOK, ProcessTypeOK
      <3>4. CASE v = w /\ WaitForInFlight(v)
        <4>1. awaited[w] \cap InFlightRuns(w) = {}
          BY <1>1, <2>0, <3>4 DEF WaitForInFlight
        <4>2. InFlightRuns(w) = {}
          BY <1>1, <2>0, <3>1, <3>4, <4>1 DEF ShutdownInv, WaitForInFlight
        <4> QED BY <3>1, <3>4, <4>2 DEF WaitForInFlight, TypeOK, ProcessTypeOK
      <3>5. CASE v = w /\ MarkSelfDead(v)
        BY <1>1, <2>0, <3>1, <3>5 DEF MarkSelfDead, ShutdownInv, TypeOK, ProcessTypeOK
      <3> QED BY <2>3, <3>2, <3>3, <3>4, <3>5
    <2> QED BY <2>1, <2>2, <2>3 DEF ShutdownStep, Exit, Crash
  <1> QED BY <1>1 DEF ShutdownInv

LEMMA ShutdownInvStep == TypeOK /\ ShutdownInv /\ [Next]_vars => ShutdownInv'
  <1> SUFFICES ASSUME TypeOK, ShutdownInv, [Next]_vars PROVE ShutdownInv'
    OBVIOUS
  <1>1. CASE UNCHANGED hands
    BY <1>1 DEF hands, ShutdownInv, InFlightRuns, Live, processVars
  <1>2. ASSUME NEW r \in Runs, Moves(r) PROVE ShutdownInv'
    <2>1. \A w \in Workers : InFlightRuns(w)' \subseteq InFlightRuns(w)
      BY <1>2 DEF Moves, InFlightRuns, Live, TypeOK, ExecutorTypeOK
    <2> QED BY <1>2, <2>1 DEF Moves, ShutdownInv, processVars
  <1> QED BY <1>1, <1>2, StepKinds, ShutdownOfPoller, ShutdownOfProcess

\* A worker that has shut down within its timeout has cut off no run, for any
\* number of runs and signals, and whenever they come (index.ts, poller.ts).
THEOREM ShutdownIsClean == Spec => []ShutdownCutsNoRun
  <1>1. Init => ShutdownInv
    BY DEF Init, PollerInit, ProcessInit, ShutdownInv
  <1>2. ShutdownInv => ShutdownCutsNoRun
    BY DEF ShutdownInv, ShutdownCutsNoRun
  <1> QED
    BY <1>1, <1>2, InitTypeOK, TypeOKStep, ShutdownInvStep, PTL DEF Spec

-----------------------------------------------------------------------------
(* A poll loop has locks only while it updates, and a batch only while it    *)
(* launches.                                                                *)

HandsOK ==
  \A w \in Workers :
    /\ lockedBy[w] # {} => pollPc[w] = "update"
    /\ batch[w] # {} => pollPc[w] = "launch"

LEMMA HandsOKStep == TypeOK /\ HandsOK /\ [Next]_vars => HandsOK'
  <1> SUFFICES ASSUME TypeOK, HandsOK, [Next]_vars PROVE HandsOK'
    OBVIOUS
  <1>1. CASE UNCHANGED hands
    BY <1>1 DEF hands, HandsOK
  <1>2. ASSUME NEW r \in Runs, Moves(r) PROVE HandsOK'
    BY <1>2 DEF Moves, HandsOK
  <1>3. ASSUME NEW w \in Workers, PollStep(w) \/ ClaimFails(w) PROVE HandsOK'
    BY <1>3
    DEF PollStep, StartPoller, FetchQueues, CountInFlight, StopCycle, SelectClaimable,
        UpdateClaimed, LaunchBatch, DropBatch, ClaimFails, Claim, NextQueue, PollAt, tables,
        HandsOK, TypeOK, StoreTypeOK, PollerTypeOK
  <1>4. ASSUME NEW w \in Workers, ShutdownStep(w) \/ Crash(w) \/ ReceiveSigterm(w)
        PROVE  HandsOK'
    <2>1. CASE ReceiveSigterm(w)
      BY <2>1 DEF ReceiveSigterm, pollerVars, tables, HandsOK
    <2>2. CASE Crash(w)
      BY <2>2 DEF Crash, Vanish, HandsOK, TypeOK, StoreTypeOK, PollerTypeOK
    <2>3. CASE ShutdownStep(w)
      BY <2>3
      DEF ShutdownStep, MarkDraining, WaitForInFlight, MarkSelfDead, Exit, Vanish,
          pollerVars, tables, HandsOK, TypeOK, StoreTypeOK, PollerTypeOK
    <2> QED BY <1>4, <2>1, <2>2, <2>3
  <1> QED BY <1>1, <1>2, <1>3, <1>4, StepKinds

LEMMA InitHandsOK == Init => HandsOK
  BY DEF Init, StoreInit, PollerInit, HandsOK

-----------------------------------------------------------------------------
(* No job is lost. *)

\* Without faults and ends every worker is up and none is told to stop.
LostInv ==
  crashes = 0 /\ stops = 0 /\ faults = 0 =>
    /\ \A w \in Workers : proc[w] = "up" /\ downPc[w] = "none"
    /\ \A j \in Jobs \ disturbed : status[j] \in InFlight => Held(j)

\* A job in flight that nobody holds was so already: the step does not lose it.
Keeps(j) ==
  status'[j] \in InFlight => Held(j)' \/ (status[j] \in InFlight /\ (Held(j) => Held(j)'))

LEMMA KeepsOfRuns ==
  ASSUME TypeOK, DeadLetterConsistent, NEW r \in Runs, RunStep(r), OfRuns,
         disturbed \subseteq disturbed', NEW j \in Jobs \ disturbed'
  PROVE  Keeps(j)
  <1>1. UNCHANGED <<lockedBy, batch>>
    BY DEF OfRuns, RunStep, FetchJob, MarkRunning, CreateExecution, CommitSuccess,
           HandlerThrows, RetryLater, MoveToDeadLetter, DeadLetterConflict, tables, pollerVars
  <1>2. CASE j # JobOf(r)
    <2>1. status'[j] = status[j] /\ \A s \in Runs : s # r => runPc'[s] = runPc[s]
      BY <1>2
      DEF RunStep, FetchJob, MarkRunning, CreateExecution, CommitSuccess, Completed,
          HandlerThrows, RetryLater, MoveToDeadLetter, DeadLetterConflict, tables,
          SetJob, Goto, Finish, TypeOK, StoreTypeOK, ExecutorTypeOK
    <2>2. LiveRuns(j)' = LiveRuns(j)
      BY <1>2, <2>1 DEF LiveRuns, Live
    <2> QED BY <1>1, <2>1, <2>2 DEF Keeps, Held, InHand
  <1>3. ASSUME j = JobOf(r), status'[j] \in InFlight PROVE Held(j)'
    <2>1. CASE FetchJob(r) \/ MarkRunning(r) \/ CreateExecution(r) \/ HandlerThrows(r)
      <3>1. Live(r)'
        BY <2>1 DEF FetchJob, MarkRunning, CreateExecution, HandlerThrows, Goto, Live,
                 TypeOK, ExecutorTypeOK
      <3> QED BY <1>3, <3>1 DEF Held, LiveRuns
    <2>2. CASE CommitSuccess(r) \/ RetryLater(r) \/ MoveToDeadLetter(r)
      BY <1>3, <2>2
      DEF CommitSuccess, Completed, RetryLater, MoveToDeadLetter, SetJob, InFlight,
          TypeOK, StoreTypeOK
    <2>3. CASE DeadLetterConflict(r)
      <3>1. status[j] = "dead_letter"
        BY <1>3, <2>3 DEF DeadLetterConflict, DeadLetterConsistent
      <3> QED BY <1>3, <2>3, <3>1 DEF DeadLetterConflict, tables, InFlight
    <2> QED BY <2>1, <2>2, <2>3 DEF RunStep
  <1> QED BY <1>2, <1>3 DEF Keeps

LEMMA KeepsOfPoller ==
  ASSUME TypeOK, HandsOK, NEW w \in Workers, PollStep(w), ~DropBatch(w), NEW j \in Jobs
  PROVE  Keeps(j)
  <1>1. CASE StartPoller(w) \/ FetchQueues(w) \/ CountInFlight(w) \/ StopCycle(w)
    <2>1. UNCHANGED <<status, runPc, lockedBy, batch>>
      BY <1>1 DEF StartPoller, FetchQueues, CountInFlight, StopCycle, tables, executorVars
    <2> QED BY <2>1 DEF Keeps, Held, LiveRuns, Live, InHand
  <1>2. CASE SelectClaimable(w)
    <2>1. UNCHANGED <<status, runPc, batch>>
      BY <1>2 DEF SelectClaimable, executorVars
    <2>2. lockedBy[w] = {}
      BY <1>2 DEF SelectClaimable, PollAt, HandsOK
    <2>3. \A v \in Workers : lockedBy[v] \subseteq lockedBy'[v]
      BY <1>2, <2>2 DEF SelectClaimable, TypeOK, StoreTypeOK
    <2> QED BY <2>1, <2>3 DEF Keeps, Held, LiveRuns, Live, InHand
  <1>3. CASE UpdateClaimed(w)
    <2>1. batch[w] = {}
      BY <1>3 DEF UpdateClaimed, PollAt, HandsOK
    <2>2. \A v \in Workers : InHand(v)' = InHand(v)
      BY <1>3, <2>1 DEF UpdateClaimed, Claim, InHand, TypeOK, StoreTypeOK, PollerTypeOK
    <2>3. UNCHANGED runPc /\ (status'[j] = status[j] \/ j \in lockedBy[w])
      BY <1>3 DEF UpdateClaimed, Claim, executorVars, TypeOK, StoreTypeOK
    <2>4. Held(j)' = Held(j) /\ (j \in lockedBy[w] => Held(j))
      BY <2>2, <2>3 DEF Held, LiveRuns, Live, InHand
    <2> QED BY <2>3, <2>4 DEF Keeps
  <1>4. CASE LaunchBatch(w)
    <2>1. UNCHANGED <<status, lockedBy>>
      BY <1>4 DEF LaunchBatch
    <2>2. \A v \in Workers : v # w => batch'[v] = batch[v]
      BY <1>4 DEF LaunchBatch, TypeOK, PollerTypeOK
    <2>3. ASSUME j \in batch[w] PROVE Held(j)'
      <3>1. NewRun(j) \in Runs /\ JobOf(NewRun(j)) = j
        BY <1>4, <2>3, LaunchesAssumption
        DEF LaunchBatch, NewRun, Runs, JobOf, TypeOK, PollerTypeOK
      <3>2. runPc'[NewRun(j)] = "fetch"
        BY <1>4, <2>3, <3>1 DEF LaunchBatch
      <3> QED BY <3>1, <3>2 DEF Held, LiveRuns, Live
    <2>4. \A r \in Runs : Live(r) => Live(r)'
      BY <1>4 DEF LaunchBatch, Live
    <2>5. ASSUME j \notin batch[w], Held(j) PROVE Held(j)'
      BY <2>1, <2>2, <2>4, <2>5 DEF Held, LiveRuns, InHand
    <2> QED BY <2>1, <2>3, <2>5 DEF Keeps
  <1> QED BY <1>1, <1>2, <1>3, <1>4 DEF PollStep

LEMMA HeldFrame ==
  ASSUME LostInv, UNCHANGED <<proc, downPc>>, disturbed \subseteq disturbed',
         (crashes' = 0 /\ stops' = 0 /\ faults' = 0) => (crashes = 0 /\ stops = 0 /\ faults = 0),
         \A j \in Jobs \ disturbed' : Keeps(j)
  PROVE  LostInv'
  <1> SUFFICES ASSUME crashes' = 0, stops' = 0, faults' = 0 PROVE LostInv'
    BY DEF LostInv
  <1>1. \A w \in Workers : proc'[w] = "up" /\ downPc'[w] = "none"
    BY DEF LostInv
  <1>2. \A j \in Jobs \ disturbed' : status'[j] \in InFlight => Held(j)'
    BY DEF LostInv, Keeps
  <1> QED BY <1>1, <1>2 DEF LostInv

\* Without a fault, a run takes one of its regular steps.
LEMMA RunWithoutFault ==
  ASSUME TypeOK, NEW r \in Runs, RunStep(r) \/ RunFault(r), faults' = 0
  PROVE  RunStep(r) /\ faults = 0
  <1>1. ~RunFault(r)
    BY DEF RunFault, SuccessRollsBack, SuccessAckLost, RunAborts, Fault, TypeOK, ExecutorTypeOK
  <1>2. RunStep(r) => faults' = faults
    BY DEF RunStep, FetchJob, MarkRunning, CreateExecution, CommitSuccess, HandlerThrows,
           RetryLater, MoveToDeadLetter, DeadLetterConflict, tables
  <1> QED BY <1>1, <1>2

LEMMA PollWithoutFault ==
  ASSUME TypeOK, NEW w \in Workers, PollStep(w) \/ ClaimFails(w), faults' = 0
  PROVE  PollStep(w) /\ faults = 0
  BY DEF PollStep, StartPoller, FetchQueues, CountInFlight, StopCycle, SelectClaimable,
         UpdateClaimed, LaunchBatch, DropBatch, ClaimFails, Fault, executorVars,
         TypeOK, ExecutorTypeOK

LEMMA LostOfRuns ==
  ASSUME TypeOK, DeadLetterConsistent, LostInv, NEW r \in Runs,
         RunStep(r) \/ RunFault(r), OfRuns, disturbed \subseteq disturbed'
  PROVE  LostInv'
  <1>1. CASE faults' = 0
    <2>1. faults = 0 /\ RunStep(r)
      BY <1>1, RunWithoutFault
    <2> QED BY <2>1, KeepsOfRuns, HeldFrame DEF OfRuns, processVars
  <1>2. CASE faults' # 0
    BY <1>2 DEF LostInv
  <1> QED BY <1>1, <1>2

LEMMA LostOfPoller ==
  ASSUME TypeOK, HandsOK, LostInv, NEW w \in Workers, PollStep(w) \/ ClaimFails(w),
         OfPoller, Calm
  PROVE  LostInv'
  <1> SUFFICES ASSUME crashes' = 0, stops' = 0, faults' = 0 PROVE LostInv'
    BY DEF LostInv
  <1>1. PollStep(w) /\ faults = 0 /\ crashes = 0 /\ stops = 0
    BY PollWithoutFault DEF OfPoller, processVars
  <1>2. UNCHANGED <<proc, downPc, disturbed>>
    BY <1>1
    DEF OfPoller, processVars, Calm, PollStep, StartPoller, FetchQueues, CountInFlight,
        StopCycle, SelectClaimable, UpdateClaimed, LaunchBatch, DropBatch, LostInv, TypeOK,
        PollerTypeOK
  <1>3. ~DropBatch(w)
    BY <1>1 DEF DropBatch, LostInv
  <1> QED BY <1>1, <1>2, <1>3, KeepsOfPoller, HeldFrame

LEMMA LostOfProcess ==
  ASSUME TypeOK, LostInv, NEW w \in Workers, ShutdownStep(w) \/ Crash(w) \/ ReceiveSigterm(w)
  PROVE  LostInv'
  <1>1. CASE ShutdownStep(w)
    <2>1. downPc[w] # "none"
      BY <1>1 DEF ShutdownStep, MarkDraining, WaitForInFlight, MarkSelfDead, Exit
    <2>2. crashes' = crashes /\ stops' = stops /\ (faults' = 0 => faults = 0)
      BY <1>1 DEF ShutdownStep, MarkDraining, WaitForInFlight, MarkSelfDead, Exit, Vanish,
                  Fault, executorVars, TypeOK, ExecutorTypeOK
    <2> QED BY <2>1, <2>2 DEF LostInv
  <1>2. CASE Crash(w) \/ ReceiveSigterm(w)
    <2>1. crashes' # 0 \/ stops' # 0
      BY <1>2 DEF Crash, ReceiveSigterm, TypeOK, ProcessTypeOK
    <2> QED BY <2>1 DEF LostInv
  <1> QED BY <1>1, <1>2

LEMMA LostOfOthers ==
  ASSUME TypeOK, LostInv, disturbed \subseteq disturbed', UNCHANGED hands,
         faults' = 0 => faults = 0,
         \A j \in Jobs : status'[j] \in InFlight => status[j] \in InFlight
  PROVE  LostInv'
  BY HeldFrame DEF hands, processVars, Keeps, Held, LiveRuns, Live, InHand

LEMMA LostStep ==
  TypeOK /\ DeadLetterConsistent /\ HandsOK /\ LostInv /\ [Next]_vars => LostInv'
  <1> SUFFICES ASSUME TypeOK, DeadLetterConsistent, HandsOK, LostInv, [Next]_vars
               PROVE  LostInv'
    OBVIOUS
  <1>0. disturbed \subseteq disturbed'
    BY DisturbedGrows
  <1>1. ASSUME NEW r \in Runs, RunStep(r) \/ RunFault(r), OfRuns PROVE LostInv'
    BY <1>0, <1>1, LostOfRuns
  <1>2. ASSUME NEW w \in Workers, PollStep(w) \/ ClaimFails(w), OfPoller, Calm PROVE LostInv'
    BY <1>2, LostOfPoller
  <1>3. ASSUME NEW w \in Workers, ShutdownStep(w) \/ Crash(w) \/ ReceiveSigterm(w)
        PROVE  LostInv'
    BY <1>3, LostOfProcess
  <1>4. ASSUME NEW w \in Workers, Heartbeat(w) \/ HeartbeatLapses(w), OfReaper PROVE LostInv'
    BY <1>0, <1>4, LostOfOthers
    DEF Heartbeat, HeartbeatLapses, OfReaper, hands, executorVars, pollerVars
  <1>5. ASSUME NEW p \in Reapers, ReapProgress(p) \/ (ReapFault(p) /\ OfReaper) PROVE LostInv'
    <2>1. UNCHANGED hands /\ (faults' = 0 => faults = 0)
      BY <1>5
      DEF ReapProgress, FindStaleWorkers, MarkDead, FindOrphans, FindClaimed, RequeueJob,
          CloseExecutions, ReapFault, CycleFails, RequeueFails, CloseFails, OfReaper, Fault,
          hands, tables, executorVars, pollerVars, TypeOK, ExecutorTypeOK
    <2>2. ASSUME NEW j \in Jobs, status'[j] \in InFlight PROVE status[j] \in InFlight
      BY <1>5, <2>2
      DEF ReapProgress, FindStaleWorkers, MarkDead, FindOrphans, FindClaimed, RequeueJob,
          CloseExecutions, ReapFault, CycleFails, RequeueFails, CloseFails, SetJob, InFlight,
          tables, TypeOK, StoreTypeOK
    <2> QED BY <1>0, <2>1, <2>2, LostOfOthers
  <1>6. ASSUME NEW j \in Jobs, TimeProgress(j) PROVE LostInv'
    BY <1>0, <1>6, LostOfOthers
    DEF TimeProgress, RunAtPasses, OfRuns, hands, executorVars, pollerVars
  <1>7. CASE Client
    <2>1. UNCHANGED hands /\ faults' = faults
      BY <1>7
      DEF Client, SubmitJob, ReadForCancel, ReadForRetry, RetryConflict, WriteCancelled,
          CommitRetry, hands, tables, executorVars, pollerVars
    <2>2. ASSUME NEW j \in Jobs, status'[j] \in InFlight PROVE status[j] \in InFlight
      BY <1>7, <2>2
      DEF Client, SubmitJob, ReadForCancel, ReadForRetry, RetryConflict, WriteCancelled,
          CommitRetry, SetJob, InFlight, tables, TypeOK, StoreTypeOK
    <2> QED BY <1>0, <2>1, <2>2, LostOfOthers
  <1>8. CASE UNCHANGED vars
    BY <1>0, <1>8, LostOfOthers DEF vars, hands, tables, executorVars, pollerVars
  <1>9. CASE Fail
    <2>1. ASSUME NEW r \in Runs,
                 (SuccessRollsBack(r) \/ RunAborts(r) \/ SuccessAckLost(r)) /\ OfRuns
          PROVE  LostInv'
      BY <1>1, <2>1 DEF RunFault
    <2> QED BY <1>2, <1>3, <1>4, <1>5, <1>9, <2>1 DEF Fail
  <1>10. CASE \E r \in Runs : RunProgress(r)
    BY <1>1, <1>10 DEF RunProgress
  <1>11. CASE \E w \in Workers : PollProgress(w) \/ HeartbeatProgress(w) \/ ShutdownProgress(w)
    BY <1>2, <1>3, <1>4, <1>11 DEF PollProgress, HeartbeatProgress, ShutdownProgress
  <1>12. CASE \E p \in Reapers : ReapProgress(p)
    BY <1>5, <1>12
  <1> QED BY <1>6, <1>7, <1>8, <1>9, <1>10, <1>11, <1>12 DEF Next

\* As long as no process ends and no query fails, a job that is claimed or
\* running is in somebody's hands (poller.ts, executor.ts).
THEOREM NoJobIsLost == Spec => []NoLostJob
  <1>1. Init => LostInv
    BY DEF Init, StoreInit, PollerInit, ProcessInit, LostInv, InFlight
  <1>2. LostInv => NoLostJob
    BY DEF LostInv, NoLostJob
  <1> QED
    BY <1>1, <1>2, InitTypeOK, TypeOKStep, InitOwnership, OwnershipStep, InitDeadLetter,
       DeadLetterStep, InitHandsOK, HandsOKStep, LostStep, PTL
    DEF Spec

-----------------------------------------------------------------------------
(* A worker stays within the limit of a queue. *)

\* What the worker holds and what it is about to claim are within the limit.
LimitInv ==
  \A w \in Workers :
    /\ \A q \in Queues : Cardinality(HeldBy(w, q)) <= Limit[q]
    /\ \A q \in Queues : pollPc[w] = "select" /\ queue[w] = q =>
         Cardinality(HeldBy(w, q)) + available[w] <= Limit[q]

LEMMA HeldCount ==
  ASSUME NEW w, NEW q
  PROVE  IsFiniteSet(HeldBy(w, q)) /\ Cardinality(HeldBy(w, q)) \in Nat
  <1>1. IsFiniteSet(HeldBy(w, q))
    BY JobsAssumption, FS_Subset DEF HeldBy
  <1> QED BY <1>1, FS_CardinalityType

LEMMA LimitFrame ==
  ASSUME LimitInv, TypeOK,
         \A w \in Workers, q \in Queues : HeldBy(w, q)' \subseteq HeldBy(w, q),
         \A w \in Workers : pollPc'[w] = "select" =>
           pollPc[w] = "select" /\ queue'[w] = queue[w] /\ available'[w] = available[w]
  PROVE  LimitInv'
  <1>1. ASSUME NEW w \in Workers, NEW q \in Queues
        PROVE  /\ Cardinality(HeldBy(w, q)) \in Nat
               /\ Cardinality(HeldBy(w, q)') \in Nat
               /\ Cardinality(HeldBy(w, q)') <= Cardinality(HeldBy(w, q))
    <2>1. HeldBy(w, q)' \subseteq HeldBy(w, q)
      OBVIOUS
    <2> QED BY <2>1, HeldCount, FS_Subset, FS_CardinalityType
  <1>2. ASSUME NEW w \in Workers, NEW q \in Queues
        PROVE  /\ Cardinality(HeldBy(w, q)') <= Limit[q]
               /\ pollPc'[w] = "select" /\ queue'[w] = q =>
                    Cardinality(HeldBy(w, q)') + available'[w] <= Limit[q]
    <2>1. Cardinality(HeldBy(w, q)) <= Limit[q] /\ Limit[q] \in Nat /\ available[w] \in Nat
      BY LimitAssumption DEF LimitInv, TypeOK, PollerTypeOK
    <2>2. pollPc[w] = "select" /\ queue[w] = q =>
            Cardinality(HeldBy(w, q)) + available[w] <= Limit[q]
      BY DEF LimitInv
    <2> QED BY <1>1, <2>1, <2>2
  <1> QED BY <1>2 DEF LimitInv

\* The job rows in flight include all that a worker without locks holds.
LEMMA HeldIsInFlight ==
  ASSUME Ownership, NEW w \in Workers, NEW q, lockedBy[w] = {}
  PROVE  HeldBy(w, q) \subseteq InFlightOf(q)
  BY DEF HeldBy, InFlightOf, InHand, Ownership, RowTracksHolder, LiveRuns, InFlight

LEMMA LimitOfCount ==
  ASSUME TypeOK, Ownership, HandsOK, LimitInv, NEW v \in Workers, CountInFlight(v), Calm
  PROVE  LimitInv'
  <1>1. \A w \in Workers, q \in Queues : HeldBy(w, q)' = HeldBy(w, q)
    BY DEF CountInFlight, Calm, HeldBy, InHand, LiveRuns, Live, tables, executorVars
  <1>2. \A w \in Workers : w # v =>
          pollPc'[w] = pollPc[w] /\ queue'[w] = queue[w] /\ available'[w] = available[w]
    BY DEF CountInFlight, TypeOK, PollerTypeOK
  <1>3. PICK q \in todo[v] :
          LET free == Limit[q] - Cardinality(InFlightOf(q))
          IN IF free > 0
               THEN /\ queue' = [queue EXCEPT ![v] = q]
                    /\ available' = [available EXCEPT ![v] = free]
                    /\ pollPc' = [pollPc EXCEPT ![v] = "select"]
               ELSE /\ pollPc' = [pollPc EXCEPT ![v] =
                                    IF todo[v] = {q} THEN "idle" ELSE "count"]
                    /\ UNCHANGED <<queue, available>>
    BY DEF CountInFlight
  <1>4. q \in Queues
    BY DEF TypeOK, PollerTypeOK
  <1>5. CASE ~(Limit[q] - Cardinality(InFlightOf(q)) > 0)
    <2>1. pollPc'[v] # "select"
      BY <1>3, <1>5 DEF TypeOK, PollerTypeOK
    <2> QED BY <1>1, <1>2, <2>1, LimitFrame
  <1>6. CASE Limit[q] - Cardinality(InFlightOf(q)) > 0
    <2>1. /\ queue'[v] = q
          /\ available'[v] = Limit[q] - Cardinality(InFlightOf(q))
      BY <1>3, <1>6 DEF TypeOK, PollerTypeOK
    <2>2. HeldBy(v, q) \subseteq InFlightOf(q)
      BY HeldIsInFlight DEF HandsOK, CountInFlight, PollAt
    <2>3. IsFiniteSet(InFlightOf(q))
      BY JobsAssumption, FS_Subset DEF InFlightOf
    <2>4. /\ Cardinality(HeldBy(v, q)) <= Cardinality(InFlightOf(q))
          /\ Cardinality(HeldBy(v, q)) \in Nat /\ Cardinality(InFlightOf(q)) \in Nat
      BY <2>2, <2>3, FS_Subset, FS_CardinalityType
    <2>5. Cardinality(HeldBy(v, q)) + available'[v] <= Limit[q]
      BY <1>4, <2>1, <2>4, LimitAssumption
    <2>6. ASSUME NEW w \in Workers, NEW p \in Queues, pollPc'[w] = "select", queue'[w] = p
          PROVE  Cardinality(HeldBy(w, p)') + available'[w] <= Limit[p]
      <3>1. CASE w = v
        BY <1>1, <1>4, <2>1, <2>5, <2>6, <3>1
      <3>2. CASE w # v
        BY <1>1, <1>2, <2>6, <3>2 DEF LimitInv
      <3> QED BY <3>1, <3>2
    <2>7. \A w \in Workers, p \in Queues : Cardinality(HeldBy(w, p)') <= Limit[p]
      BY <1>1 DEF LimitInv
    <2> QED BY <2>6, <2>7 DEF LimitInv
  <1> QED BY <1>5, <1>6

LEMMA LimitOfSelect ==
  ASSUME TypeOK, HandsOK, LimitInv, NEW v \in Workers, SelectClaimable(v), Calm
  PROVE  LimitInv'
  <1>1. PICK S \in TopOf(Claimable(queue[v]), available[v]) :
          \/ S = {} /\ NextQueue(v) /\ UNCHANGED lockedBy
          \/ /\ S # {}
             /\ lockedBy' = [lockedBy EXCEPT ![v] = S]
             /\ pollPc' = [pollPc EXCEPT ![v] = "update"]
             /\ UNCHANGED <<queue, available>>
    BY DEF SelectClaimable
  <1>2. UNCHANGED <<runPc, owner, batch, disturbed>>
    BY DEF SelectClaimable, executorVars, Calm
  <1>3. \A w \in Workers : w # v =>
          /\ pollPc'[w] = pollPc[w] /\ queue'[w] = queue[w] /\ available'[w] = available[w]
          /\ lockedBy'[w] = lockedBy[w]
    BY <1>1 DEF NextQueue, TypeOK, StoreTypeOK, PollerTypeOK
  <1>4. pollPc'[v] # "select"
    BY <1>1 DEF NextQueue, TypeOK, PollerTypeOK
  <1>5. lockedBy'[v] \subseteq S
    BY <1>1 DEF SelectClaimable, PollAt, HandsOK, TypeOK, StoreTypeOK
  <1>6. /\ IsFiniteSet(S) /\ Cardinality(S) \in Nat /\ Cardinality(S) <= available[v]
        /\ S \subseteq Claimable(queue[v])
    <2>1. S \subseteq Claimable(queue[v])
      BY DEF TopOf
    <2>2. IsFiniteSet(Claimable(queue[v]))
      BY JobsAssumption, FS_Subset DEF Claimable
    <2>3. IsFiniteSet(S) /\ Cardinality(S) \in Nat /\ Cardinality(Claimable(queue[v])) \in Nat
      BY <2>1, <2>2, FS_Subset, FS_CardinalityType
    <2>4. available[v] \in Nat
      BY DEF TypeOK, PollerTypeOK
    <2>5. Cardinality(S) = IF available[v] < Cardinality(Claimable(queue[v]))
                             THEN available[v] ELSE Cardinality(Claimable(queue[v]))
      BY DEF TopOf
    <2> QED BY <2>1, <2>3, <2>4, <2>5
  <1>7. ASSUME NEW w \in Workers, NEW q \in Queues, w # v \/ q # queue[v]
        PROVE  HeldBy(w, q)' \subseteq HeldBy(w, q)
    <2>1. CASE w # v
      BY <1>2, <1>3, <2>1 DEF HeldBy, InHand, LiveRuns, Live
    <2>2. CASE w = v
      <3>1. \A j \in S : QueueOf[j] # q
        BY <1>6, <1>7, <2>2 DEF Claimable
      <3> QED BY <1>2, <1>5, <2>2, <3>1 DEF HeldBy, InHand, LiveRuns, Live
    <2> QED BY <2>1, <2>2
  <1>8. ASSUME NEW q \in Queues, q = queue[v]
        PROVE  Cardinality(HeldBy(v, q)') <= Limit[q]
    <2>1. HeldBy(v, q)' \subseteq HeldBy(v, q) \cup S
      BY <1>2, <1>5 DEF HeldBy, InHand, LiveRuns, Live
    <2>2. IsFiniteSet(HeldBy(v, q)) /\ Cardinality(HeldBy(v, q)) \in Nat
      BY HeldCount
    <2>3. /\ IsFiniteSet(HeldBy(v, q) \cup S)
          /\ Cardinality(HeldBy(v, q) \cup S) \in Nat
          /\ Cardinality(HeldBy(v, q) \cup S) <= Cardinality(HeldBy(v, q)) + Cardinality(S)
      <3>1. IsFiniteSet(HeldBy(v, q) \cap S) /\ Cardinality(HeldBy(v, q) \cap S) \in Nat
        BY <2>2, FS_Subset, FS_CardinalityType
      <3>2. /\ IsFiniteSet(HeldBy(v, q) \cup S)
            /\ Cardinality(HeldBy(v, q) \cup S)
                 = Cardinality(HeldBy(v, q)) + Cardinality(S) - Cardinality(HeldBy(v, q) \cap S)
        BY <1>6, <2>2, FS_Union
      <3>3. Cardinality(HeldBy(v, q) \cup S) \in Nat
        BY <3>2, FS_CardinalityType
      <3> QED BY <1>6, <2>2, <3>1, <3>2, <3>3
    <2>4. /\ Cardinality(HeldBy(v, q)') \in Nat
          /\ Cardinality(HeldBy(v, q)') <= Cardinality(HeldBy(v, q) \cup S)
      BY <2>1, <2>3, FS_Subset, FS_CardinalityType
    <2>5. Cardinality(HeldBy(v, q)) + available[v] <= Limit[q] /\ available[v] \in Nat
      BY <1>8 DEF LimitInv, SelectClaimable, PollAt, TypeOK, PollerTypeOK
    <2> QED BY <1>6, <2>2, <2>3, <2>4, <2>5, LimitAssumption
  <1>9. ASSUME NEW w \in Workers, NEW q \in Queues, w # v \/ q # queue[v]
        PROVE  /\ Cardinality(HeldBy(w, q)') <= Cardinality(HeldBy(w, q))
               /\ Cardinality(HeldBy(w, q)') \in Nat /\ Cardinality(HeldBy(w, q)) \in Nat
    BY <1>7, <1>9, HeldCount, FS_Subset, FS_CardinalityType
  <1>10. ASSUME NEW w \in Workers, NEW q \in Queues
         PROVE  Cardinality(HeldBy(w, q)') <= Limit[q]
    <2>1. CASE w = v /\ q = queue[v]
      BY <1>8, <2>1
    <2>2. CASE w # v \/ q # queue[v]
      BY <1>9, <2>2, LimitAssumption DEF LimitInv
    <2> QED BY <2>1, <2>2
  <1>11. ASSUME NEW w \in Workers, NEW q \in Queues, pollPc'[w] = "select", queue'[w] = q
         PROVE  Cardinality(HeldBy(w, q)') + available'[w] <= Limit[q]
    <2>1. w # v
      BY <1>4, <1>11
    <2>2. Cardinality(HeldBy(w, q)) + available[w] <= Limit[q] /\ available[w] \in Nat
      BY <1>3, <1>11, <2>1 DEF LimitInv, TypeOK, PollerTypeOK
    <2>3. available'[w] = available[w]
      BY <1>3, <2>1
    <2> QED BY <1>9, <2>1, <2>2, <2>3, LimitAssumption
  <1> QED BY <1>10, <1>11 DEF LimitInv

LEMMA LimitOfPoller ==
  ASSUME TypeOK, Ownership, HandsOK, LimitInv, NEW v \in Workers,
         PollStep(v) \/ ClaimFails(v), Calm
  PROVE  LimitInv'
  <1>1. CASE StartPoller(v) \/ FetchQueues(v) \/ StopCycle(v)
    <2>1. UNCHANGED <<runPc, owner, lockedBy, batch, disturbed, queue, available>>
      BY <1>1 DEF StartPoller, FetchQueues, StopCycle, Calm, tables, executorVars
    <2>2. \A w \in Workers : pollPc'[w] = "select" => pollPc[w] = "select"
      BY <1>1 DEF StartPoller, FetchQueues, StopCycle, TypeOK, PollerTypeOK
    <2>3. \A w \in Workers, q \in Queues : HeldBy(w, q)' = HeldBy(w, q)
      BY <2>1 DEF HeldBy, InHand, LiveRuns, Live
    <2> QED BY <2>1, <2>2, <2>3, LimitFrame
  <1>2. CASE UpdateClaimed(v) \/ DropBatch(v) \/ ClaimFails(v) \/ LaunchBatch(v)
    <2>1. /\ \A w \in Workers : w # v => UNCHANGED <<pollPc[w], queue[w], available[w]>>
          /\ pollPc'[v] # "select"
      BY <1>2 DEF UpdateClaimed, DropBatch, ClaimFails, LaunchBatch, NextQueue, TypeOK, PollerTypeOK
    <2>2. CASE UpdateClaimed(v) \/ DropBatch(v) \/ ClaimFails(v)
      <3>1. \A w \in Workers : InHand(w)' \subseteq InHand(w)
        BY <2>2 DEF UpdateClaimed, DropBatch, ClaimFails, Claim, InHand, tables,
                 TypeOK, StoreTypeOK, PollerTypeOK
      <3>2. UNCHANGED <<runPc, owner, disturbed>>
        BY <2>2 DEF UpdateClaimed, DropBatch, ClaimFails, Calm, tables, executorVars
      <3> QED BY <2>1, <3>1, <3>2, LimitFrame DEF HeldBy, LiveRuns, Live
    <2>3. CASE LaunchBatch(v)
      <3>1. UNCHANGED <<lockedBy, disturbed>>
        BY <2>3 DEF LaunchBatch, Calm
      <3>2. \A w \in Workers : batch'[w] \subseteq batch[w]
        BY <2>3 DEF LaunchBatch, TypeOK, PollerTypeOK
      <3>3. ASSUME NEW r \in Runs, NEW w \in Workers, Live(r)', owner'[r] = w
            PROVE  (Live(r) /\ owner[r] = w) \/ (w = v /\ JobOf(r) \in batch[v])
        BY <2>3, <3>3 DEF LaunchBatch, Live, NewRun, JobOf
      <3>4. \A w \in Workers, q \in Queues : HeldBy(w, q)' \subseteq HeldBy(w, q)
        BY <3>1, <3>2, <3>3 DEF HeldBy, InHand, LiveRuns
      <3> QED BY <2>1, <3>4, LimitFrame
    <2> QED BY <1>2, <2>2, <2>3
  <1> QED BY <1>1, <1>2, LimitOfCount, LimitOfSelect DEF PollStep

LEMMA LimitStep == TypeOK /\ Ownership /\ HandsOK /\ LimitInv /\ [Next]_vars => LimitInv'
  <1> SUFFICES ASSUME TypeOK, Ownership, HandsOK, LimitInv, [Next]_vars PROVE LimitInv'
    OBVIOUS
  <1>0. disturbed \subseteq disturbed'
    BY DisturbedGrows
  <1>1. CASE UNCHANGED hands
    <2>1. \A w \in Workers, q \in Queues : HeldBy(w, q)' \subseteq HeldBy(w, q)
      BY <1>0, <1>1 DEF hands, HeldBy, InHand, LiveRuns, Live
    <2> QED BY <1>1, <2>1, LimitFrame DEF hands
  <1>2. ASSUME NEW r \in Runs, Moves(r) PROVE LimitInv'
    <2>1. \A s \in Runs : Live(s)' => Live(s)
      BY <1>2 DEF Moves, Live, TypeOK, ExecutorTypeOK
    <2>2. \A w \in Workers, q \in Queues : HeldBy(w, q)' \subseteq HeldBy(w, q)
      BY <1>0, <1>2, <2>1 DEF Moves, HeldBy, InHand, LiveRuns
    <2> QED BY <1>2, <2>2, LimitFrame DEF Moves
  <1>3. ASSUME NEW w \in Workers, (PollStep(w) \/ ClaimFails(w)) /\ Calm PROVE LimitInv'
    BY <1>3, LimitOfPoller
  <1>4. ASSUME NEW v \in Workers, ShutdownStep(v) \/ Crash(v) \/ ReceiveSigterm(v)
        PROVE  LimitInv'
    <2>1. /\ \A r \in Runs : Live(r)' => Live(r)
          /\ \A w \in Workers : lockedBy'[w] \subseteq lockedBy[w] /\ batch'[w] \subseteq batch[w]
          /\ UNCHANGED owner
      BY <1>4
      DEF ShutdownStep, MarkDraining, WaitForInFlight, MarkSelfDead, Exit, Crash, Vanish,
          ReceiveSigterm, Live, pollerVars, executorVars, tables,
          TypeOK, StoreTypeOK, PollerTypeOK
    <2>2. \A w \in Workers, q \in Queues : HeldBy(w, q)' \subseteq HeldBy(w, q)
      BY <1>0, <2>1 DEF HeldBy, InHand, LiveRuns
    <2>3. \A w \in Workers : pollPc'[w] = "select" =>
            pollPc[w] = "select" /\ queue'[w] = queue[w] /\ available'[w] = available[w]
      BY <1>4
      DEF ShutdownStep, MarkDraining, WaitForInFlight, MarkSelfDead, Exit, Crash, Vanish,
          ReceiveSigterm, pollerVars, TypeOK, PollerTypeOK
    <2> QED BY <2>2, <2>3, LimitFrame
  <1> QED BY <1>1, <1>2, <1>3, <1>4, StepKinds

\* A worker never holds more jobs of a queue than the queue's limit, however
\* stale the count it claimed by was (claimer.ts).
THEOREM LimitHolds == Spec => []WorkerWithinLimit
  <1>1. Init => LimitInv
    <2> SUFFICES ASSUME Init PROVE LimitInv
      OBVIOUS
    <2>1. \A w \in Workers, q \in Queues : HeldBy(w, q) = {}
      BY DEF Init, StoreInit, ExecutorInit, PollerInit, HeldBy, InHand, LiveRuns, Live
    <2>2. \A w \in Workers : pollPc[w] = "off"
      BY DEF Init, PollerInit
    <2> QED BY <2>1, <2>2, FS_EmptySet, LimitAssumption DEF LimitInv
  <1>2. LimitInv => WorkerWithinLimit
    BY DEF LimitInv, WorkerWithinLimit
  <1> QED
    BY <1>1, <1>2, InitTypeOK, TypeOKStep, InitOwnership, OwnershipStep, InitHandsOK,
       HandsOKStep, LimitStep, PTL
    DEF Spec

-----------------------------------------------------------------------------
(* An attempt is charged for every failed execution. *)

\* A run that was not launched yet has left no trace.
FreshRuns ==
  \A r \in Runs : r[2] > launches[JobOf(r)] => runPc[r] = "unused" /\ exec[r] = "none"

\* A reap loop has an orphan in hand only while it is to close its executions.
OrphanAtClose == \A p \in Reapers : reapPc[p] # "close" => orphan[p] = NoJob

\* A run's execution says how far it is, and the attempts it read are current.
RunAgrees(r) ==
  /\ exec[r] = IF runPc[r] \in {"fetch", "mark", "record"} THEN "none" ELSE "running"
  /\ runPc[r] # "fetch" => seen[r] = attempts[JobOf(r)]

RunsAgree == \A r \in Runs : Live(r) /\ JobOf(r) \notin disturbed => RunAgrees(r)

\* The next run of a job that is launched has never been.
LEMMA NewRunIsFresh ==
  ASSUME TypeOK, FreshRuns, NEW j \in Jobs, launches[j] < MaxLaunches
  PROVE  /\ NewRun(j) \in Runs /\ JobOf(NewRun(j)) = j
         /\ runPc[NewRun(j)] = "unused" /\ exec[NewRun(j)] = "none"
  <1>1. launches[j] \in 0..MaxLaunches
    BY DEF TypeOK, PollerTypeOK
  <1>2. NewRun(j) \in Runs /\ JobOf(NewRun(j)) = j /\ NewRun(j)[2] = launches[j] + 1
    BY <1>1, LaunchesAssumption DEF NewRun, Runs, JobOf
  <1> QED BY <1>1, <1>2, LaunchesAssumption DEF FreshRuns

\* What a step that launches nothing may do to runs.
LEMMA FreshFrame ==
  ASSUME FreshRuns, launches' = launches,
         \A r \in Runs : runPc[r] = "unused" => runPc'[r] = "unused",
         \A r \in Runs : runPc[r] = "unused" /\ exec[r] = "none" => exec'[r] = "none"
  PROVE  FreshRuns'
  BY DEF FreshRuns

LEMMA FreshLaunch ==
  ASSUME TypeOK, FreshRuns, NEW w \in Workers, LaunchBatch(w)
  PROVE  FreshRuns'
  <1>1. ASSUME NEW r \in Runs, r[2] > launches'[JobOf(r)]
        PROVE  runPc'[r] = "unused" /\ exec'[r] = "none"
    <2>1. JobOf(r) \in Jobs /\ r[2] \in Int
      BY DEF Runs, JobOf
    <2>2. launches[JobOf(r)] \in Int
      BY <2>1, LaunchesAssumption DEF TypeOK, PollerTypeOK
    <2>3. launches'[JobOf(r)] \in {launches[JobOf(r)], launches[JobOf(r)] + 1}
          /\ (JobOf(r) \in batch[w] => launches'[JobOf(r)] = launches[JobOf(r)] + 1)
      BY <2>1 DEF LaunchBatch
    <2>4. r[2] > launches[JobOf(r)]
      BY <1>1, <2>1, <2>2, <2>3
    <2>5. ASSUME NEW j \in batch[w], r = NewRun(j) PROVE FALSE
      <3>1. JobOf(r) = j /\ r[2] = launches[j] + 1
        BY <2>5 DEF NewRun, JobOf
      <3> QED BY <1>1, <2>2, <2>3, <3>1
    <2>6. runPc'[r] = runPc[r] /\ exec'[r] = exec[r]
      BY <2>5 DEF LaunchBatch
    <2> QED BY <2>4, <2>6 DEF FreshRuns
  <1> QED BY <1>1 DEF FreshRuns

\* What a step of a run does to the run itself and to the others.
LEMMA RunEffect ==
  ASSUME TypeOK, NEW r \in Runs, RunStep(r) \/ RunFault(r)
  PROVE  /\ Live(r)
         /\ \A q \in Runs : q # r =>
              runPc'[q] = runPc[q] /\ exec'[q] = exec[q] /\ seen'[q] = seen[q]
         /\ \A j \in Jobs : j # JobOf(r) => attempts'[j] = attempts[j]
         /\ runPc'[r] # "unused"
  <1>1. Live(r)
    BY DEF RunStep, RunFault, FetchJob, MarkRunning, CreateExecution, CommitSuccess,
           HandlerThrows, RetryLater, MoveToDeadLetter, DeadLetterConflict,
           SuccessRollsBack, SuccessAckLost, RunAborts, At, Live
  <1>2. \/ \E pc \in RunPcs \ {"unused"} : runPc' = [runPc EXCEPT ![r] = pc]
        \/ FALSE
    BY DEF RunStep, RunFault, FetchJob, MarkRunning, CreateExecution, CommitSuccess,
           HandlerThrows, RetryLater, MoveToDeadLetter, DeadLetterConflict,
           SuccessRollsBack, SuccessAckLost, RunAborts, Goto, Finish, RunPcs
  <1>3. exec' = exec \/ \E s : exec' = [exec EXCEPT ![r] = s]
    BY DEF RunStep, RunFault, FetchJob, MarkRunning, CreateExecution, CommitSuccess,
           HandlerThrows, RetryLater, MoveToDeadLetter, DeadLetterConflict, Completed,
           SuccessRollsBack, SuccessAckLost, RunAborts, tables
  <1>4. seen' = seen \/ \E s : seen' = [seen EXCEPT ![r] = s]
    BY DEF RunStep, RunFault, FetchJob, MarkRunning, CreateExecution, CommitSuccess,
           HandlerThrows, RetryLater, MoveToDeadLetter, DeadLetterConflict,
           SuccessRollsBack, SuccessAckLost, RunAborts, Finish
  <1>5. attempts' = attempts \/ \E n : attempts' = [attempts EXCEPT ![JobOf(r)] = n]
    BY DEF RunStep, RunFault, FetchJob, MarkRunning, CreateExecution, CommitSuccess,
           HandlerThrows, RetryLater, MoveToDeadLetter, DeadLetterConflict, Completed,
           SuccessRollsBack, SuccessAckLost, RunAborts, SetJob, tables
  <1> QED
    BY <1>1, <1>2, <1>3, <1>4, <1>5 DEF TypeOK, StoreTypeOK, ExecutorTypeOK, RunPcs

\* A step that moves no run, but may end some of them.
QuietForRuns ==
  /\ UNCHANGED launches
  /\ \A r \in Runs : /\ runPc'[r] \in {runPc[r], "done"}
                     /\ runPc[r] = "unused" => runPc'[r] = "unused"
                     /\ exec[r] = "none" => exec'[r] = "none"
                     /\ runPc'[r] # "done" => seen'[r] = seen[r]

\* A step of no run, that starts none.
OtherStep ==
  \/ \E w \in Workers :
       \/ (PollProgress(w) /\ ~LaunchBatch(w)) \/ (ClaimFails(w) /\ OfPoller /\ Calm)
       \/ Heartbeat(w) \/ HeartbeatLapses(w) \/ ShutdownStep(w) \/ Crash(w) \/ ReceiveSigterm(w)
  \/ \E p \in Reapers : ReapProgress(p) \/ (ReapFault(p) /\ OfReaper /\ Calm)
  \/ \E j \in Jobs : TimeProgress(j)
  \/ Client
  \/ UNCHANGED vars

LEMMA OthersAreQuiet ==
  ASSUME TypeOK, OtherStep
  PROVE  QuietForRuns
  <1>1. CASE UNCHANGED <<runPc, seen, exec, launches>>
    BY <1>1 DEF QuietForRuns
  <1>2. ASSUME NEW w \in Workers,
               \/ (PollStep(w) /\ ~LaunchBatch(w)) \/ ClaimFails(w) \/ Heartbeat(w)
               \/ HeartbeatLapses(w) \/ ReceiveSigterm(w)
        PROVE  QuietForRuns
    <2>1. UNCHANGED <<runPc, seen, exec, launches>>
      BY <1>2
      DEF PollStep, StartPoller, FetchQueues, CountInFlight, StopCycle, SelectClaimable,
          UpdateClaimed, DropBatch, ClaimFails, Heartbeat, HeartbeatLapses, ReceiveSigterm,
          tables, executorVars, pollerVars
    <2> QED BY <1>1, <2>1
  <1>3. ASSUME NEW w \in Workers, Vanish(w) PROVE QuietForRuns
    BY <1>3 DEF Vanish, InFlightRuns, Live, QuietForRuns
  <1>4. ASSUME NEW w \in Workers, ShutdownStep(w) \/ Crash(w) PROVE QuietForRuns
    BY <1>1, <1>3, <1>4
    DEF ShutdownStep, MarkDraining, WaitForInFlight, MarkSelfDead, Exit, Crash,
        tables, executorVars, pollerVars
  <1>5. ASSUME NEW p \in Reapers, CloseExecutions(p) PROVE QuietForRuns
    BY <1>5
    DEF CloseExecutions, OpenExecutions, QuietForRuns, executorVars, pollerVars, TypeOK,
        StoreTypeOK
  <1>6. ASSUME NEW p \in Reapers, ReapProgress(p) \/ ReapFault(p) PROVE QuietForRuns
    BY <1>1, <1>5, <1>6
    DEF ReapProgress, FindStaleWorkers, MarkDead, FindOrphans, FindClaimed, RequeueJob,
        ReapFault, CycleFails, RequeueFails, CloseFails, tables, executorVars, pollerVars
  <1>7. CASE Client
    BY <1>1, <1>7
    DEF Client, SubmitJob, ReadForCancel, ReadForRetry, RetryConflict, WriteCancelled,
        CommitRetry, tables, executorVars, pollerVars
  <1>8. ASSUME NEW j \in Jobs, TimeProgress(j) PROVE QuietForRuns
    BY <1>1, <1>8 DEF TimeProgress, RunAtPasses, OfRuns, executorVars, pollerVars
  <1>9. CASE UNCHANGED vars
    BY <1>1, <1>9 DEF vars, tables, executorVars, pollerVars
  <1> QED BY <1>2, <1>4, <1>6, <1>7, <1>8, <1>9 DEF OtherStep, PollProgress

LEMMA StepOfRuns ==
  ASSUME [Next]_vars
  PROVE  \/ \E r \in Runs :
              /\ OfRuns
              /\ \/ RunStep(r) \/ SuccessRollsBack(r) \/ RunAborts(r)
                 \/ SuccessAckLost(r) /\ JobOf(r) \in disturbed'
         \/ \E w \in Workers : LaunchBatch(w) /\ PollProgress(w)
         \/ OtherStep
  BY DEF Next, Fail, RunProgress, HeartbeatProgress, ShutdownProgress, DisturbIf, OtherStep

LEMMA FreshStep == TypeOK /\ FreshRuns /\ [Next]_vars => FreshRuns'
  <1> SUFFICES ASSUME TypeOK, FreshRuns, [Next]_vars PROVE FreshRuns'
    OBVIOUS
  <1>1. ASSUME NEW r \in Runs, RunStep(r) \/ RunFault(r), OfRuns PROVE FreshRuns'
    BY <1>1, RunEffect DEF FreshRuns, OfRuns, pollerVars, Live
  <1>2. CASE OtherStep
    BY <1>2, OthersAreQuiet, FreshFrame DEF QuietForRuns
  <1> QED BY <1>1, <1>2, FreshLaunch, StepOfRuns DEF RunFault

LEMMA OrphanAtCloseStep == TypeOK /\ OrphanAtClose /\ [Next]_vars => OrphanAtClose'
  <1> SUFFICES ASSUME TypeOK, OrphanAtClose, [Next]_vars PROVE OrphanAtClose'
    OBVIOUS
  <1>1. CASE UNCHANGED <<reapPc, orphan>>
    BY <1>1 DEF OrphanAtClose
  <1>2. ASSUME NEW p \in Reapers, ReapProgress(p) \/ ReapFault(p) PROVE OrphanAtClose'
    BY <1>2
    DEF ReapProgress, FindStaleWorkers, MarkDead, FindOrphans, FindClaimed, RequeueJob,
        CloseExecutions, NextOrphan, NextSuspect, ReapFault, CycleFails, RequeueFails,
        CloseFails, ReapAt, ReapGoto, OrphanAtClose, TypeOK, ReaperTypeOK
  <1>3. ASSUME NEW w \in Workers, ShutdownStep(w) \/ Crash(w) PROVE OrphanAtClose'
    BY <1>1, <1>3
    DEF ShutdownStep, MarkDraining, WaitForInFlight, MarkSelfDead, Exit, Crash, Vanish,
        reaperVars, OrphanAtClose
  <1>4. ASSUME NEW w \in Workers,
               PollProgress(w) \/ HeartbeatProgress(w) \/ (ClaimFails(w) /\ OfPoller)
               \/ HeartbeatLapses(w) \/ ReceiveSigterm(w)
        PROVE  UNCHANGED <<reapPc, orphan>>
    BY <1>4
    DEF PollProgress, HeartbeatProgress, Heartbeat, HeartbeatLapses, ReceiveSigterm, OfPoller,
        reaperVars
  <1>5. CASE Client
    BY <1>1, <1>5
    DEF Client, SubmitJob, ReadForCancel, ReadForRetry, RetryConflict, WriteCancelled,
        CommitRetry, reaperVars
  <1>6. ASSUME NEW r \in Runs, OfRuns PROVE UNCHANGED <<reapPc, orphan>>
    BY <1>6 DEF OfRuns, reaperVars
  <1>7. CASE Fail
    BY <1>1, <1>2, <1>3, <1>4, <1>6, <1>7 DEF Fail
  <1>8. CASE UNCHANGED vars
    BY <1>1, <1>8 DEF vars, reaperVars
  <1> QED
    BY <1>1, <1>2, <1>3, <1>4, <1>5, <1>6, <1>7, <1>8
    DEF Next, RunProgress, ShutdownProgress, TimeProgress, OfRuns, reaperVars

\* Nobody writes what a run that goes on relies on, short of a blind write.
LEMMA RunsAreLeftAlone ==
  ASSUME TypeOK, Ownership, NEW r \in Runs, Live(r), JobOf(r) \notin disturbed',
         disturbed \subseteq disturbed', OtherStep
  PROVE  exec'[r] = exec[r] /\ attempts'[JobOf(r)] = attempts[JobOf(r)]
  <1>1. CASE UNCHANGED <<attempts, exec>>
    BY <1>1
  <1>2. JobOf(r) \in Jobs /\ status[JobOf(r)] \in InFlight /\ Held(JobOf(r))
    BY JobOfRun DEF Ownership, RowTracksHolder, LiveRuns, InFlight, Held
  <1>3. ASSUME NEW w \in Workers,
               \/ PollStep(w) \/ ClaimFails(w) \/ Heartbeat(w)
               \/ HeartbeatLapses(w) \/ ShutdownStep(w) \/ Crash(w) \/ ReceiveSigterm(w)
        PROVE  UNCHANGED <<attempts, exec>>
    BY <1>3
    DEF PollStep, StartPoller, FetchQueues, CountInFlight, StopCycle, SelectClaimable,
        UpdateClaimed, LaunchBatch, DropBatch, ClaimFails, Heartbeat, HeartbeatLapses,
        ReceiveSigterm, ShutdownStep, MarkDraining, WaitForInFlight, MarkSelfDead, Exit,
        Crash, Vanish, tables
  <1>4. ASSUME NEW p \in Reapers, CloseExecutions(p), DisturbIf(ClosesLiveRun(p), orphan[p])
        PROVE  exec'[r] = exec[r] /\ attempts'[JobOf(r)] = attempts[JobOf(r)]
    <2>1. r \notin OpenExecutions(orphan[p])
      BY <1>4 DEF DisturbIf, ClosesLiveRun, OpenExecutions
    <2> QED BY <1>4, <2>1 DEF CloseExecutions
  <1>5. ASSUME NEW p \in Reapers, NEW j \in Jobs, RequeueJob(p, j),
               DisturbIf(RequeueIsStale(p, j), j)
        PROVE  exec'[r] = exec[r] /\ attempts'[JobOf(r)] = attempts[JobOf(r)]
    <2>1. j # JobOf(r)
      BY <1>2, <1>5 DEF DisturbIf, RequeueIsStale
    <2> QED BY <1>5, <2>1 DEF RequeueJob, SetJob, TypeOK, StoreTypeOK
  <1>6. ASSUME NEW p \in Reapers, ReapProgress(p) \/ ReapFault(p)
        PROVE  exec'[r] = exec[r] /\ attempts'[JobOf(r)] = attempts[JobOf(r)]
    BY <1>1, <1>4, <1>5, <1>6
    DEF ReapProgress, FindStaleWorkers, MarkDead, FindOrphans, FindClaimed, ReapFault,
        CycleFails, RequeueFails, CloseFails, tables
  <1>7. ASSUME NEW c \in Requests, CommitRetry(c), DisturbIf(RetryIsStale(c), reqJob[c])
        PROVE  exec'[r] = exec[r] /\ attempts'[JobOf(r)] = attempts[JobOf(r)]
    <2>1. reqJob[c] # JobOf(r)
      BY <1>2, <1>7 DEF DisturbIf, RetryIsStale, InFlight, Retryable
    <2> QED BY <1>7, <2>1 DEF CommitRetry, SetJob, TypeOK, StoreTypeOK
  <1>8. ASSUME NEW c \in Requests, WriteCancelled(c)
        PROVE  UNCHANGED exec /\ attempts'[JobOf(r)] = attempts[JobOf(r)]
    BY <1>8 DEF WriteCancelled, SetJob, TypeOK, StoreTypeOK
  <1>9. CASE Client
    BY <1>1, <1>7, <1>8, <1>9
    DEF Client, SubmitJob, ReadForCancel, ReadForRetry, RetryConflict, tables
  <1>10. ASSUME NEW j \in Jobs, TimeProgress(j) PROVE UNCHANGED <<attempts, exec>>
    BY <1>10 DEF TimeProgress, RunAtPasses
  <1>11. CASE UNCHANGED vars
    BY <1>1, <1>11 DEF vars, tables
  <1> QED BY <1>1, <1>3, <1>6, <1>9, <1>10, <1>11 DEF OtherStep, PollProgress

LEMMA AgreeOfRun ==
  ASSUME TypeOK, Ownership, RunsAgree, disturbed \subseteq disturbed', NEW r \in Runs,
         \/ RunStep(r) \/ SuccessRollsBack(r) \/ RunAborts(r)
         \/ SuccessAckLost(r) /\ JobOf(r) \in disturbed'
  PROVE  RunsAgree'
  <1>1. /\ Live(r)
        /\ \A q \in Runs : q # r =>
             runPc'[q] = runPc[q] /\ exec'[q] = exec[q] /\ seen'[q] = seen[q]
        /\ \A j \in Jobs : j # JobOf(r) => attempts'[j] = attempts[j]
    BY RunEffect DEF RunFault
  <1>2. ASSUME NEW q \in Runs, q # r, Live(q)', JobOf(q) \notin disturbed' PROVE RunAgrees(q)'
    <2>1. Live(q) /\ JobOf(q) \in Jobs
      BY <1>1, <1>2, JobOfRun DEF Live
    <2>2. JobOf(q) # JobOf(r)
      BY <1>1, <1>2, <2>1 DEF Ownership, SoleHolder, LiveRuns
    <2> QED BY <1>1, <1>2, <2>1, <2>2 DEF RunsAgree, RunAgrees
  <1>3. ASSUME Live(r)', JobOf(r) \notin disturbed' PROVE RunAgrees(r)'
    <2>1. RunAgrees(r) /\ JobOf(r) \in Jobs
      BY <1>1, <1>3, JobOfRun DEF RunsAgree
    <2>2. CASE FetchJob(r)
      BY <2>1, <2>2 DEF FetchJob, At, Goto, tables, RunAgrees, TypeOK, ExecutorTypeOK
    <2>3. CASE MarkRunning(r)
      BY <2>1, <2>3
      DEF MarkRunning, SetJob, At, Goto, RunAgrees, TypeOK, ExecutorTypeOK, StoreTypeOK
    <2>4. CASE CreateExecution(r)
      BY <2>1, <2>4
      DEF CreateExecution, At, Goto, RunAgrees, TypeOK, ExecutorTypeOK, StoreTypeOK
    <2>5. CASE HandlerThrows(r) \/ SuccessRollsBack(r)
      BY <2>1, <2>5
      DEF HandlerThrows, SuccessRollsBack, At, Goto, tables, RunAgrees, TypeOK, ExecutorTypeOK
    <2>6. CASE \/ CommitSuccess(r) \/ RetryLater(r) \/ MoveToDeadLetter(r)
               \/ DeadLetterConflict(r) \/ RunAborts(r)
      BY <1>3, <2>6
      DEF CommitSuccess, RetryLater, MoveToDeadLetter, DeadLetterConflict, RunAborts, Finish,
          Live, TypeOK, ExecutorTypeOK
    <2> QED BY <1>3, <2>2, <2>3, <2>4, <2>5, <2>6 DEF RunStep
  <1> QED BY <1>2, <1>3 DEF RunsAgree

LEMMA AgreeOfLaunch ==
  ASSUME TypeOK, FreshRuns, RunsAgree, disturbed \subseteq disturbed',
         NEW w \in Workers, LaunchBatch(w)
  PROVE  RunsAgree'
  <1>1. UNCHANGED <<exec, seen, attempts>>
    BY DEF LaunchBatch
  <1>2. ASSUME NEW r \in Runs, Live(r)', JobOf(r) \notin disturbed' PROVE RunAgrees(r)'
    <2>1. CASE \E j \in batch[w] : r = NewRun(j)
      <3>1. PICK j \in batch[w] : r = NewRun(j)
        BY <2>1
      <3>2. j \in Jobs /\ launches[j] < MaxLaunches
        BY DEF LaunchBatch, TypeOK, PollerTypeOK
      <3>3. exec[r] = "none"
        BY <3>1, <3>2, NewRunIsFresh
      <3>4. runPc'[r] = "fetch"
        BY <3>1 DEF LaunchBatch
      <3> QED BY <1>1, <3>3, <3>4 DEF RunAgrees
    <2>2. CASE ~\E j \in batch[w] : r = NewRun(j)
      <3>1. runPc'[r] = runPc[r]
        BY <2>2 DEF LaunchBatch
      <3> QED BY <1>1, <1>2, <3>1 DEF RunsAgree, RunAgrees, Live
    <2> QED BY <2>1, <2>2
  <1> QED BY <1>2 DEF RunsAgree

LEMMA AgreeStep == TypeOK /\ Ownership /\ FreshRuns /\ RunsAgree /\ [Next]_vars => RunsAgree'
  <1> SUFFICES ASSUME TypeOK, Ownership, FreshRuns, RunsAgree, [Next]_vars PROVE RunsAgree'
    OBVIOUS
  <1>0. disturbed \subseteq disturbed'
    BY DisturbedGrows
  <1>1. CASE OtherStep
    <2>1. QuietForRuns
      BY <1>1, OthersAreQuiet
    <2>2. ASSUME NEW r \in Runs, Live(r)', JobOf(r) \notin disturbed' PROVE RunAgrees(r)'
      <3>1. Live(r) /\ runPc'[r] = runPc[r] /\ seen'[r] = seen[r]
        BY <2>1, <2>2 DEF QuietForRuns, Live
      <3>2. exec'[r] = exec[r] /\ attempts'[JobOf(r)] = attempts[JobOf(r)]
        BY <1>0, <1>1, <2>2, <3>1, RunsAreLeftAlone
      <3> QED BY <1>0, <2>2, <3>1, <3>2 DEF RunsAgree, RunAgrees
    <2> QED BY <2>2 DEF RunsAgree
  <1> QED BY <1>0, <1>1, AgreeOfRun, AgreeOfLaunch, StepOfRuns

-----------------------------------------------------------------------------

\* The executions a crash has left running.
LeftOpen(j) == {r \in Runs : JobOf(r) = j /\ exec[r] = "running" /\ ~Live(r)}
Charged(j) == Cardinality(FailedRuns(j)) + Cardinality(BeingClosed(j))

\* One crash leaves one execution open, and while a reap loop closes it, after
\* it has put the job back, the job is in flight only when somebody holds it:
\* no second loop can requeue it without a blind write.
ChargeOK(j) ==
  /\ \A r1, r2 \in LeftOpen(j) : r1 = r2
  /\ LeftOpen(j) # {} => crashes = 1
  /\ \A p1, p2 \in BeingClosed(j) : p1 = p2
  /\ BeingClosed(j) # {} => LeftOpen(j) # {} /\ (status[j] \in InFlight => Held(j))
  /\ attempts[j] <= Charged(j)
  /\ Requests = {} => attempts[j] = Charged(j)

OneCrash == faults = 0 /\ stops = 0 /\ crashes <= 1

ChargeInv ==
  OneCrash =>
    /\ \A w \in Workers : proc[w] # "stopping" /\ downPc[w] = "none"
    /\ \A j \in Jobs \ disturbed : ChargeOK(j)

LEMMA RunsAreFinite == IsFiniteSet(Runs) /\ \A S : S \subseteq Runs => IsFiniteSet(S)
  <1>1. IsFiniteSet(1..MaxLaunches)
    BY FS_Interval, LaunchesAssumption
  <1>2. IsFiniteSet(Runs)
    BY <1>1, JobsAssumption, FS_Product DEF Runs
  <1> QED BY <1>2, FS_Subset

LEMMA FailedCount == ASSUME NEW j PROVE Cardinality(FailedRuns(j)) \in Nat
  BY RunsAreFinite, FS_CardinalityType DEF FailedRuns

\* One more execution of a job has failed.
LEMMA OneMoreFailed ==
  ASSUME TypeOK, NEW r \in Runs, exec[r] # "failed", exec'[r] = "failed",
         \A q \in Runs : q # r /\ JobOf(q) = JobOf(r) => exec'[q] = exec[q]
  PROVE  Cardinality(FailedRuns(JobOf(r)))' = Cardinality(FailedRuns(JobOf(r))) + 1
  <1>1. FailedRuns(JobOf(r))' = FailedRuns(JobOf(r)) \cup {r} /\ r \notin FailedRuns(JobOf(r))
    BY DEF FailedRuns
  <1>2. IsFiniteSet(FailedRuns(JobOf(r)))
    BY RunsAreFinite DEF FailedRuns
  <1> QED BY <1>1, <1>2, FS_AddElement

\* The guard holds after a step only if it held before.
LEMMA GuardBefore ==
  ASSUME TypeOK, [Next]_vars, OneCrash'
  PROVE  /\ OneCrash /\ faults' = faults /\ stops' = stops
         /\ crashes' = crashes \/ (crashes = 0 /\ crashes' = 1)
  <1>0. faults \in Nat /\ stops \in Nat /\ crashes \in Nat
    BY FaultsAssumption, ExitsAssumption DEF TypeOK, ExecutorTypeOK, ProcessTypeOK
  <1>1. faults' = faults \/ faults' = faults + 1
    <2>1. ASSUME NEW r \in Runs, RunStep(r) \/ RunFault(r)
          PROVE  faults' = faults \/ faults' = faults + 1
      BY <2>1
      DEF RunStep, RunFault, FetchJob, MarkRunning, CreateExecution, CommitSuccess,
          HandlerThrows, RetryLater, MoveToDeadLetter, DeadLetterConflict,
          SuccessRollsBack, SuccessAckLost, RunAborts, Fault
    <2>2. ASSUME NEW w \in Workers,
                 \/ PollStep(w) \/ ClaimFails(w) \/ Heartbeat(w) \/ HeartbeatLapses(w)
                 \/ ShutdownStep(w) \/ Crash(w) \/ ReceiveSigterm(w)
          PROVE  faults' = faults \/ faults' = faults + 1
      BY <2>2
      DEF PollStep, StartPoller, FetchQueues, CountInFlight, StopCycle, SelectClaimable,
          UpdateClaimed, LaunchBatch, DropBatch, ClaimFails, Heartbeat, HeartbeatLapses,
          ShutdownStep, MarkDraining, WaitForInFlight, MarkSelfDead, Exit, Crash, Vanish,
          ReceiveSigterm, Fault, executorVars
    <2>3. ASSUME NEW p \in Reapers, ReapProgress(p) \/ ReapFault(p)
          PROVE  faults' = faults \/ faults' = faults + 1
      BY <2>3
      DEF ReapProgress, FindStaleWorkers, MarkDead, FindOrphans, FindClaimed, RequeueJob,
          CloseExecutions, ReapFault, CycleFails, RequeueFails, CloseFails, Fault, executorVars
    <2>4. CASE Client
      BY <2>4
      DEF Client, SubmitJob, ReadForCancel, ReadForRetry, RetryConflict, WriteCancelled,
          CommitRetry, executorVars
    <2> QED
      BY <2>1, <2>2, <2>3, <2>4
      DEF Next, Fail, RunProgress, RunFault, PollProgress, HeartbeatProgress,
          ShutdownProgress, TimeProgress, vars, executorVars
  <1>2. \/ UNCHANGED <<crashes, stops>>
        \/ crashes' = crashes + 1 /\ stops' = stops
        \/ crashes' = crashes /\ stops' = stops + 1
    BY DEF Next, Fail, Client, RunProgress, PollProgress, ReapProgress, HeartbeatProgress,
           ShutdownProgress, TimeProgress, ShutdownStep, MarkDraining, WaitForInFlight,
           MarkSelfDead, Exit, Crash, ReceiveSigterm, OfRuns, OfPoller, OfReaper,
           processVars, vars
  <1> QED BY <1>0, <1>1, <1>2 DEF OneCrash

LEMMA ChargedIsNat ==
  ASSUME NEW j, ChargeOK(j)
  PROVE  Charged(j) \in Nat /\ Cardinality(BeingClosed(j)) = (IF BeingClosed(j) = {} THEN 0 ELSE 1)
  <1>1. CASE BeingClosed(j) = {}
    BY <1>1, FS_EmptySet, FailedCount DEF Charged
  <1>2. CASE BeingClosed(j) # {}
    <2>1. PICK p : BeingClosed(j) = {p}
      BY <1>2 DEF ChargeOK
    <2>2. Cardinality({p}) = 1
      BY FS_Singleton
    <2> QED BY <1>2, <2>1, <2>2, FailedCount DEF Charged
  <1> QED BY <1>1, <1>2

\* Nothing is charged or closed, though a client may forgive.
LEMMA ChargeFrame ==
  ASSUME TypeOK, TypeOK', NEW j \in Jobs, ChargeOK(j), Keeps(j), crashes' = crashes,
         LeftOpen(j)' = LeftOpen(j), FailedRuns(j)' = FailedRuns(j),
         BeingClosed(j)' = BeingClosed(j),
         attempts'[j] = attempts[j] \/ (attempts'[j] <= attempts[j] /\ Requests # {})
  PROVE  ChargeOK(j)'
  <1>1. Charged(j)' = Charged(j) /\ Charged(j) \in Nat
    BY ChargedIsNat DEF Charged
  <1>2. attempts[j] \in Nat /\ attempts'[j] \in Nat
    BY DEF TypeOK, StoreTypeOK
  <1>3. /\ attempts'[j] <= Charged(j)'
        /\ Requests = {} => attempts'[j] = Charged(j)'
    BY <1>1, <1>2 DEF ChargeOK
  <1>4. BeingClosed(j)' # {} => LeftOpen(j)' # {} /\ (status'[j] \in InFlight => Held(j)')
    BY DEF ChargeOK, Keeps
  <1> QED BY <1>3, <1>4 DEF ChargeOK

\* A run moves on: the executions left open are not its own.
LEMMA ChargeOfRuns ==
  ASSUME TypeOK, TypeOK', Ownership, DeadLetterConsistent, RunsAgree,
         NEW r \in Runs, RunStep(r), OfRuns, disturbed \subseteq disturbed',
         NEW j \in Jobs \ disturbed', ChargeOK(j)
  PROVE  ChargeOK(j)'
  <1>1. /\ Live(r)
        /\ \A q \in Runs : q # r => runPc'[q] = runPc[q] /\ exec'[q] = exec[q]
        /\ \A k \in Jobs : k # JobOf(r) => attempts'[k] = attempts[k]
    BY RunEffect
  <1>2. Keeps(j)
    BY KeepsOfRuns
  <1>3. crashes' = crashes /\ BeingClosed(j)' = BeingClosed(j)
    BY DEF OfRuns, processVars, reaperVars, BeingClosed
  <1>4. CASE j # JobOf(r)
    <2>1. LeftOpen(j)' = LeftOpen(j) /\ FailedRuns(j)' = FailedRuns(j)
      BY <1>1, <1>4 DEF LeftOpen, FailedRuns, Live
    <2> QED BY <1>1, <1>2, <1>3, <1>4, <2>1, ChargeFrame
  <1>5. CASE j = JobOf(r)
    <2>1. RunAgrees(r) /\ r \in LiveRuns(j)
      BY <1>1, <1>5 DEF RunsAgree, LiveRuns
    <2>2. CASE FetchJob(r) \/ MarkRunning(r) \/ CreateExecution(r) \/ HandlerThrows(r)
      <3>1. Live(r)' /\ attempts'[j] = attempts[j]
        BY <2>2 DEF FetchJob, MarkRunning, CreateExecution, HandlerThrows, Goto, SetJob, Live,
                 tables, TypeOK, StoreTypeOK, ExecutorTypeOK
      <3>2. exec[r] # "failed" /\ exec'[r] # "failed"
        BY <2>1, <2>2 DEF FetchJob, MarkRunning, CreateExecution, HandlerThrows, tables,
                 RunAgrees, TypeOK, StoreTypeOK
      <3>3. LeftOpen(j)' = LeftOpen(j) /\ FailedRuns(j)' = FailedRuns(j)
        BY <1>1, <3>1, <3>2 DEF LeftOpen, FailedRuns, Live
      <3> QED BY <1>2, <1>3, <3>1, <3>3, ChargeFrame
    <2>3. CASE CommitSuccess(r)
      <3>1. exec[r] = "running" /\ exec'[r] = "completed" /\ attempts'[j] = attempts[j]
        BY <1>5, <2>1, <2>3 DEF CommitSuccess, Completed, SetJob, At, RunAgrees, TypeOK, StoreTypeOK
      <3>2. LeftOpen(j)' = LeftOpen(j) /\ FailedRuns(j)' = FailedRuns(j)
        BY <1>1, <3>1 DEF LeftOpen, FailedRuns, Live
      <3> QED BY <1>2, <1>3, <3>1, <3>2, ChargeFrame
    <2>4. CASE RetryLater(r) \/ MoveToDeadLetter(r)
      <3>1. /\ exec[r] = "running" /\ exec'[r] = "failed"
            /\ attempts'[j] = attempts[j] + 1
            /\ status'[j] \notin InFlight
        BY <1>5, <2>1, <2>4 DEF RetryLater, MoveToDeadLetter, NewAttemptCount, SetJob, At,
                 RunAgrees, InFlight, TypeOK, StoreTypeOK
      <3>2. LeftOpen(j)' = LeftOpen(j)
        BY <1>1, <3>1 DEF LeftOpen, Live
      <3>3. Charged(j)' = Charged(j) + 1
        <4>1. Cardinality(FailedRuns(j))' = Cardinality(FailedRuns(j)) + 1
          BY <1>1, <1>5, <3>1, OneMoreFailed
        <4> QED BY <1>3, <4>1, FailedCount, ChargedIsNat DEF Charged
      <3>4. attempts[j] \in Nat /\ Charged(j) \in Nat
        BY ChargedIsNat DEF TypeOK, StoreTypeOK
      <3>5. /\ attempts'[j] <= Charged(j)'
            /\ Requests = {} => attempts'[j] = Charged(j)'
        BY <3>1, <3>3, <3>4 DEF ChargeOK
      <3> QED BY <1>3, <3>1, <3>2, <3>5 DEF ChargeOK
    <2>5. CASE DeadLetterConflict(r)
      <3>1. status[j] = "dead_letter"
        BY <1>5, <2>5 DEF DeadLetterConflict, DeadLetterConsistent
      <3> QED BY <2>1, <3>1 DEF Ownership, RowTracksHolder
    <2> QED BY <2>2, <2>3, <2>4, <2>5 DEF RunStep
  <1> QED BY <1>4, <1>5

\* A launch opens nothing: the runs it starts have no execution yet.
LEMMA ChargeOfPoller ==
  ASSUME TypeOK, TypeOK', FreshRuns, HandsOK, NEW w \in Workers, PollStep(w), ~DropBatch(w),
         OfPoller, NEW j \in Jobs, ChargeOK(j)
  PROVE  ChargeOK(j)'
  <1>1. Keeps(j)
    BY KeepsOfPoller
  <1>2. UNCHANGED <<exec, attempts, crashes, orphan>>
    BY DEF PollStep, StartPoller, FetchQueues, CountInFlight, StopCycle, SelectClaimable,
           UpdateClaimed, LaunchBatch, DropBatch, OfPoller, processVars, reaperVars, tables
  <1>3. ASSUME NEW r \in Runs, exec[r] = "running" PROVE runPc'[r] = runPc[r]
    <2>1. CASE LaunchBatch(w)
      <3>1. ASSUME NEW k \in batch[w] PROVE exec[NewRun(k)] = "none"
        <4>1. k \in Jobs /\ launches[k] < MaxLaunches
          BY <2>1, <3>1 DEF LaunchBatch, TypeOK, PollerTypeOK
        <4> QED BY <4>1, NewRunIsFresh
      <3> QED BY <1>3, <2>1, <3>1 DEF LaunchBatch
    <2>2. CASE ~LaunchBatch(w)
      BY <2>2 DEF PollStep, StartPoller, FetchQueues, CountInFlight, StopCycle,
               SelectClaimable, UpdateClaimed, DropBatch, executorVars
    <2> QED BY <2>1, <2>2
  <1>4. LeftOpen(j)' = LeftOpen(j)
    BY <1>2, <1>3 DEF LeftOpen, Live
  <1>5. FailedRuns(j)' = FailedRuns(j) /\ BeingClosed(j)' = BeingClosed(j)
    BY <1>2 DEF FailedRuns, BeingClosed
  <1> QED BY <1>1, <1>2, <1>4, <1>5, ChargeFrame

\* Putting an orphan back charges the attempt whose execution is closed next.
LEMMA ChargeOfRequeue ==
  ASSUME TypeOK, TypeOK', OrphanAtClose, NEW p \in Reapers, NEW k \in Jobs, RequeueJob(p, k),
         DisturbIf(RequeueIsStale(p, k), k), OfReaper,
         NEW j \in Jobs \ disturbed', ChargeOK(j)
  PROVE  ChargeOK(j)'
  <1>1. /\ UNCHANGED <<exec, runPc, lockedBy, batch, crashes>>
        /\ orphan' = [orphan EXCEPT ![p] = k] /\ orphan[p] = NoJob
    BY DEF RequeueJob, ReapAt, OrphanAtClose, OfReaper, processVars, executorVars, pollerVars
  <1>2. LeftOpen(j)' = LeftOpen(j) /\ FailedRuns(j)' = FailedRuns(j) /\ Held(j)' = Held(j)
    BY <1>1 DEF LeftOpen, FailedRuns, Held, LiveRuns, Live, InHand
  <1>3. CASE j # k
    <2>1. BeingClosed(j)' = BeingClosed(j)
      BY <1>1, <1>3, NullAssumption DEF BeingClosed, TypeOK, ReaperTypeOK
    <2>2. attempts'[j] = attempts[j] /\ status'[j] = status[j]
      BY <1>3 DEF RequeueJob, SetJob, TypeOK, StoreTypeOK
    <2> QED BY <1>1, <1>2, <2>1, <2>2, ChargeFrame DEF Keeps
  <1>4. CASE j = k
    <2>1. ~RequeueIsStale(p, j)
      BY <1>4 DEF DisturbIf
    <2>2. PICK r \in Runs : JobOf(r) = j /\ exec[r] = "running"
      BY <2>1 DEF RequeueIsStale, OrphanedJobs, RunningOf
    <2>3. r \in LeftOpen(j)
      BY <2>1, <2>2 DEF RequeueIsStale, Held, LiveRuns, LeftOpen
    <2>4. BeingClosed(j) = {}
      BY <2>1 DEF RequeueIsStale, ChargeOK
    <2>5. BeingClosed(j)' = {p}
      BY <1>1, <1>4, <2>4 DEF BeingClosed, TypeOK, ReaperTypeOK
    <2>6. attempts'[j] = attempts[j] + 1 /\ status'[j] = "queued"
      BY <1>4 DEF RequeueJob, SetJob, TypeOK, StoreTypeOK
    <2>7. Charged(j)' = Charged(j) + 1
      <3>1. Cardinality(BeingClosed(j)) = 0 /\ Cardinality(BeingClosed(j))' = 1
        BY <2>4, <2>5, FS_EmptySet, FS_Singleton
      <3> QED BY <1>2, <3>1, FailedCount DEF Charged
    <2>8. attempts[j] \in Nat /\ Charged(j) \in Nat
      BY ChargedIsNat DEF TypeOK, StoreTypeOK
    <2>9. /\ attempts'[j] <= Charged(j)'
          /\ Requests = {} => attempts'[j] = Charged(j)'
      BY <2>6, <2>7, <2>8 DEF ChargeOK
    <2> QED BY <1>1, <1>2, <2>3, <2>5, <2>6, <2>9 DEF ChargeOK, InFlight
  <1> QED BY <1>3, <1>4

\* What is closed then is the one execution that was left open.
LEMMA ChargeOfClose ==
  ASSUME TypeOK, TypeOK', NEW p \in Reapers, CloseExecutions(p),
         DisturbIf(ClosesLiveRun(p), orphan[p]), OfReaper,
         NEW j \in Jobs \ disturbed', ChargeOK(j)
  PROVE  ChargeOK(j)'
  <1>1. /\ UNCHANGED <<status, attempts, runPc, lockedBy, batch, crashes>>
        /\ orphan' = [orphan EXCEPT ![p] = NoJob]
    BY DEF CloseExecutions, NextOrphan, OfReaper, processVars, executorVars, pollerVars
  <1>2. \A r \in Runs :
          exec'[r] = IF JobOf(r) = orphan[p] /\ exec[r] = "running" THEN "failed" ELSE exec[r]
    BY DEF CloseExecutions, OpenExecutions
  <1>3. BeingClosed(j)' = BeingClosed(j) \ {p}
    BY <1>1, NullAssumption DEF BeingClosed, TypeOK, ReaperTypeOK
  <1>4. CASE j # orphan[p]
    <2>1. LeftOpen(j)' = LeftOpen(j) /\ FailedRuns(j)' = FailedRuns(j)
      BY <1>1, <1>2, <1>4 DEF LeftOpen, FailedRuns, Live
    <2>2. BeingClosed(j)' = BeingClosed(j) /\ Keeps(j)
      BY <1>1, <1>3, <1>4 DEF BeingClosed, Keeps, Held, LiveRuns, Live, InHand
    <2> QED BY <1>1, <2>1, <2>2, ChargeFrame
  <1>5. CASE j = orphan[p]
    <2>1. BeingClosed(j) = {p} /\ LeftOpen(j) # {}
      BY <1>5 DEF BeingClosed, ChargeOK
    <2>2. PICK r : LeftOpen(j) = {r}
      BY <2>1 DEF ChargeOK
    <2>3. r \in Runs /\ JobOf(r) = j /\ exec[r] = "running"
      BY <2>2 DEF LeftOpen
    <2>4. ~ClosesLiveRun(p)
      BY <1>5 DEF DisturbIf
    <2>5. ASSUME NEW q \in Runs, JobOf(q) = j, exec[q] = "running" PROVE q = r
      BY <1>5, <2>2, <2>4, <2>5 DEF ClosesLiveRun, OpenExecutions, LeftOpen
    <2>6. exec'[r] = "failed" /\ \A q \in Runs : q # r /\ JobOf(q) = j => exec'[q] = exec[q]
      BY <1>2, <1>5, <2>3, <2>5
    <2>7. BeingClosed(j)' = {} /\ LeftOpen(j)' = {}
      BY <1>2, <1>3, <1>5, <2>1 DEF LeftOpen
    <2>8. Cardinality(FailedRuns(j))' = Cardinality(FailedRuns(j)) + 1
      BY <2>3, <2>6, OneMoreFailed
    <2>9. Charged(j)' = Charged(j)
      <3>1. Cardinality(BeingClosed(j)) = 1 /\ Cardinality(BeingClosed(j))' = 0
        BY <2>1, <2>7, FS_EmptySet, FS_Singleton
      <3> QED BY <2>8, <3>1, FailedCount DEF Charged
    <2> QED BY <1>1, <2>7, <2>9 DEF ChargeOK
  <1> QED BY <1>4, <1>5

\* The first crash leaves at most the execution of the one run of a job open.
LEMMA ChargeOfCrash ==
  ASSUME TypeOK, TypeOK', Ownership, NEW w \in Workers, Crash(w),
         crashes = 0, NEW j \in Jobs \ disturbed, ChargeOK(j)
  PROVE  ChargeOK(j)'
  <1>1. UNCHANGED <<status, attempts, exec>> /\ crashes' = 1
    BY DEF Crash, Vanish
  <1>2. LeftOpen(j) = {} /\ BeingClosed(j) = {}
    BY DEF ChargeOK
  <1>3. LeftOpen(j)' \subseteq LiveRuns(j)
    BY <1>1, <1>2 DEF LeftOpen, LiveRuns
  <1>4. BeingClosed(j)' = {}
    BY <1>2, NullAssumption DEF Crash, Vanish, BeingClosed
  <1>5. Charged(j)' = Charged(j)
    BY <1>1, <1>2, <1>4 DEF Charged, FailedRuns
  <1> QED BY <1>1, <1>3, <1>4, <1>5 DEF ChargeOK, Ownership, SoleHolder

\* The steps of the reaper, the clients and time that charge and close nothing.
LEMMA ChargeOfOthers ==
  ASSUME TypeOK, TypeOK', NEW j \in Jobs, ChargeOK(j),
         UNCHANGED <<exec, runPc, lockedBy, batch, orphan, crashes>>,
         attempts'[j] = attempts[j] \/ (attempts'[j] <= attempts[j] /\ Requests # {}),
         status'[j] \in InFlight => status[j] \in InFlight
  PROVE  ChargeOK(j)'
  <1>1. LeftOpen(j)' = LeftOpen(j) /\ FailedRuns(j)' = FailedRuns(j)
    BY DEF LeftOpen, FailedRuns, Live
  <1>2. BeingClosed(j)' = BeingClosed(j) /\ Keeps(j)
    BY DEF BeingClosed, Keeps, Held, LiveRuns, Live, InHand
  <1> QED BY <1>1, <1>2, ChargeFrame

LEMMA ChargeOfClient ==
  ASSUME TypeOK, TypeOK', Client, NEW j \in Jobs, ChargeOK(j)
  PROVE  ChargeOK(j)'
  <1>1. UNCHANGED <<exec, runPc, lockedBy, batch, orphan, crashes>>
    BY DEF Client, SubmitJob, ReadForCancel, ReadForRetry, RetryConflict, WriteCancelled,
           CommitRetry, tables, executorVars, pollerVars, reaperVars, processVars
  <1>2. status'[j] \in InFlight => status[j] \in InFlight
    BY DEF Client, SubmitJob, ReadForCancel, ReadForRetry, RetryConflict, WriteCancelled,
           CommitRetry, SetJob, InFlight, tables, TypeOK, StoreTypeOK
  <1>3. attempts'[j] = attempts[j] \/ (attempts'[j] <= attempts[j] /\ Requests # {})
    <2>1. attempts[j] \in Nat
      BY DEF TypeOK, StoreTypeOK
    <2>2. ASSUME NEW c \in Requests, CommitRetry(c)
          PROVE  attempts'[j] \in {attempts[j], 0}
      BY <2>2 DEF CommitRetry, SetJob, TypeOK, StoreTypeOK
    <2>3. ASSUME NEW c \in Requests, WriteCancelled(c)
          PROVE  attempts'[j] = attempts[j]
      BY <2>3 DEF WriteCancelled, SetJob, TypeOK, StoreTypeOK
    <2> QED
      BY <2>1, <2>2, <2>3 DEF Client, SubmitJob, ReadForCancel, ReadForRetry, RetryConflict, tables
  <1> QED BY <1>1, <1>2, <1>3, ChargeOfOthers

LEMMA ChargeOfReaper ==
  ASSUME TypeOK, TypeOK', OrphanAtClose, NEW p \in Reapers, ReapProgress(p),
         NEW j \in Jobs \ disturbed', ChargeOK(j)
  PROVE  ChargeOK(j)'
  <1>1. CASE FindStaleWorkers(p) \/ MarkDead(p) \/ FindOrphans(p) \/ FindClaimed(p)
    <2>1. UNCHANGED <<status, attempts, exec, runPc, lockedBy, batch, orphan>>
      BY <1>1 DEF FindStaleWorkers, MarkDead, FindOrphans, FindClaimed, tables, executorVars,
               pollerVars
    <2>2. crashes' = crashes
      BY DEF ReapProgress, OfReaper, processVars
    <2> QED BY <2>1, <2>2, ChargeOfOthers
  <1> QED BY <1>1, ChargeOfRequeue, ChargeOfClose DEF ReapProgress

LEMMA ChargeStep ==
  /\ TypeOK /\ Ownership /\ DeadLetterConsistent /\ HandsOK /\ FreshRuns /\ OrphanAtClose
  /\ RunsAgree /\ ChargeInv /\ [Next]_vars
  => ChargeInv'
  <1> SUFFICES ASSUME TypeOK, Ownership, DeadLetterConsistent, HandsOK, FreshRuns, OrphanAtClose,
                      RunsAgree, ChargeInv, [Next]_vars, OneCrash'
               PROVE  /\ \A w \in Workers : proc'[w] # "stopping" /\ downPc'[w] = "none"
                      /\ \A j \in Jobs \ disturbed' : ChargeOK(j)'
    BY DEF ChargeInv
  <1>1. TypeOK' /\ disturbed \subseteq disturbed'
    BY TypeOKStep, DisturbedGrows
  <1>2. /\ OneCrash /\ faults' = faults /\ stops' = stops
        /\ crashes' = crashes \/ (crashes = 0 /\ crashes' = 1)
    BY GuardBefore
  <1>3. /\ \A w \in Workers : proc[w] # "stopping" /\ downPc[w] = "none"
        /\ \A j \in Jobs \ disturbed' : ChargeOK(j)
    BY <1>1, <1>2 DEF ChargeInv
  <1>4. \A w \in Workers : ~DropBatch(w) /\ ~ShutdownStep(w) /\ ~ReceiveSigterm(w)
    BY <1>2, <1>3 DEF DropBatch, ShutdownStep, MarkDraining, WaitForInFlight, MarkSelfDead, Exit,
             ReceiveSigterm, TypeOK, ProcessTypeOK
  <1>5. ASSUME NEW r \in Runs, RunStep(r) \/ RunFault(r), OfRuns
        PROVE  UNCHANGED <<proc, downPc>> /\ \A j \in Jobs \ disturbed' : ChargeOK(j)'
    <2>1. RunStep(r)
      BY <1>2, <1>5, RunWithoutFault DEF OneCrash
    <2> QED BY <1>1, <1>3, <1>5, <2>1, ChargeOfRuns DEF OfRuns, processVars
  <1>6. ASSUME NEW w \in Workers, PollStep(w) \/ ClaimFails(w), OfPoller, Calm
        PROVE  /\ \A v \in Workers : proc'[v] # "stopping" /\ downPc'[v] = "none"
               /\ \A j \in Jobs \ disturbed' : ChargeOK(j)'
    <2>1. PollStep(w) /\ ~DropBatch(w)
      BY <1>2, <1>4, <1>6, PollWithoutFault DEF OneCrash
    <2>2. proc' = proc \/ proc' = [proc EXCEPT ![w] = "up"]
      BY <2>1 DEF PollStep, StartPoller, FetchQueues, CountInFlight, StopCycle, SelectClaimable,
               UpdateClaimed, LaunchBatch, DropBatch
    <2>3. downPc' = downPc
      BY <1>6 DEF OfPoller, processVars
    <2>4. \A v \in Workers : proc'[v] # "stopping" /\ downPc'[v] = "none"
      BY <1>3, <2>2, <2>3 DEF TypeOK, PollerTypeOK
    <2> QED BY <1>1, <1>3, <1>6, <2>1, <2>4, ChargeOfPoller
  <1>7. ASSUME NEW p \in Reapers, ReapProgress(p) \/ (ReapFault(p) /\ OfReaper)
        PROVE  UNCHANGED <<proc, downPc>> /\ \A j \in Jobs \ disturbed' : ChargeOK(j)'
    <2>1. ~ReapFault(p)
      BY <1>2 DEF ReapFault, CycleFails, RequeueFails, CloseFails, Fault, TypeOK, ExecutorTypeOK
    <2>2. UNCHANGED <<proc, downPc>>
      BY <1>7, <2>1 DEF ReapProgress, FindStaleWorkers, MarkDead, FindOrphans, FindClaimed,
               RequeueJob, CloseExecutions, OfReaper, processVars
    <2> QED BY <1>1, <1>3, <1>7, <2>1, <2>2, ChargeOfReaper
  <1>8. ASSUME NEW w \in Workers, Crash(w), Calm
        PROVE  /\ \A v \in Workers : proc'[v] # "stopping" /\ downPc'[v] = "none"
               /\ \A j \in Jobs \ disturbed' : ChargeOK(j)'
    <2>1. crashes = 0
      BY <1>2, <1>8 DEF Crash, TypeOK, ProcessTypeOK
    <2>2. \A v \in Workers : proc'[v] # "stopping" /\ downPc'[v] = "none"
      BY <1>3, <1>8 DEF Crash, Vanish, TypeOK, PollerTypeOK, ProcessTypeOK
    <2> QED BY <1>1, <1>3, <1>8, <2>1, <2>2, ChargeOfCrash
  <1>9. CASE Client
    <2>1. UNCHANGED <<proc, downPc>>
      BY <1>9 DEF Client, SubmitJob, ReadForCancel, ReadForRetry, RetryConflict, WriteCancelled,
               CommitRetry, processVars
    <2> QED BY <1>1, <1>3, <1>9, <2>1, ChargeOfClient
  <1>10. CASE UNCHANGED <<status, attempts, exec, runPc, lockedBy, batch, orphan, crashes, proc,
                          downPc>>
    BY <1>1, <1>3, <1>10, ChargeOfOthers
  <1>11. CASE \/ \E w \in Workers : (Heartbeat(w) \/ HeartbeatLapses(w)) /\ OfReaper
              \/ \E j \in Jobs : TimeProgress(j)
              \/ UNCHANGED vars
    <2>1. UNCHANGED <<status, attempts, exec, runPc, lockedBy, batch, orphan, crashes, proc,
                      downPc>>
      BY <1>11 DEF Heartbeat, HeartbeatLapses, TimeProgress, RunAtPasses, OfReaper, OfRuns, vars,
               tables, executorVars, pollerVars, reaperVars, processVars
    <2> QED BY <1>10, <2>1
  <1>12. CASE \E r \in Runs : RunProgress(r)
    BY <1>3, <1>5, <1>12 DEF RunProgress
  <1>13. CASE \E w \in Workers : PollProgress(w) \/ HeartbeatProgress(w) \/ ShutdownProgress(w)
    BY <1>4, <1>6, <1>11, <1>13 DEF PollProgress, HeartbeatProgress, ShutdownProgress
  <1>14. CASE \E p \in Reapers : ReapProgress(p)
    BY <1>3, <1>7, <1>14
  <1>15. CASE Fail
    BY <1>3, <1>4, <1>5, <1>6, <1>7, <1>8, <1>11, <1>15 DEF Fail, RunFault
  <1> QED BY <1>9, <1>11, <1>12, <1>13, <1>14, <1>15 DEF Next

LEMMA InitCharge == Init => FreshRuns /\ OrphanAtClose /\ RunsAgree /\ ChargeInv
  <1> SUFFICES ASSUME Init PROVE FreshRuns /\ OrphanAtClose /\ RunsAgree /\ ChargeInv
    OBVIOUS
  <1>1. FreshRuns /\ OrphanAtClose /\ RunsAgree
    BY DEF Init, StoreInit, ExecutorInit, ReaperInit, FreshRuns, OrphanAtClose, RunsAgree, Live
  <1>2. ASSUME NEW j \in Jobs PROVE ChargeOK(j)
    <2>1. LeftOpen(j) = {} /\ FailedRuns(j) = {} /\ BeingClosed(j) = {} /\ attempts[j] = 0
      BY <1>2, NullAssumption
      DEF Init, StoreInit, ReaperInit, LeftOpen, FailedRuns, BeingClosed
    <2>2. Charged(j) = 0
      BY <2>1, FS_EmptySet DEF Charged
    <2> QED BY <2>1, <2>2 DEF ChargeOK
  <1> QED BY <1>1, <1>2 DEF Init, PollerInit, ProcessInit, ChargeInv

\* With at most one crash, and as long as no query fails and no worker is told to
\* stop, the attempts of a job are its failed executions, for any number of
\* workers, reap loops, jobs and suspicions (executor.ts, heartbeat.ts).
THEOREM AttemptsAreCharged == Spec => []AttemptsAreExecutions
  <1>1. ChargeInv => AttemptsAreExecutions
    BY DEF ChargeInv, OneCrash, ChargeOK, Charged, AttemptsAreExecutions
  <1> QED
    BY <1>1, InitTypeOK, TypeOKStep, InitOwnership, OwnershipStep, InitDeadLetter,
       DeadLetterStep, InitHandsOK, HandsOKStep, InitCharge, FreshStep, OrphanAtCloseStep,
       AgreeStep, ChargeStep, PTL
    DEF Spec

=============================================================================

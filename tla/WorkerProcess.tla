--------------------------- MODULE WorkerProcess ----------------------------
(***************************************************************************)
(* The life of a worker process: worker/src/index.ts and the operating      *)
(* system.  A process starts with its row registered as active and its      *)
(* timers running; its poll loop starts when the scheduler has (StartPoller *)
(* of Poller), so a worker that starts late stands for a restarted one.  It *)
(* ends by a crash or by the graceful shutdown, which is a process beside   *)
(* the poll loop and the runs: downPc[w] is its next await.                 *)
(***************************************************************************)
EXTENDS JobsApi

CONSTANTS
  MaxCrashes,  \* bound on processes killed without notice
  MaxStops,    \* bound on SIGTERM signals
  MaxTimeouts  \* bound on shutdown waits that run into their 30 s timeout

ASSUME ExitsAssumption == MaxCrashes \in Nat /\ MaxStops \in Nat /\ MaxTimeouts \in Nat

VARIABLES
  downPc,    \* control point of the shutdown of each worker
  awaited,   \* the runs a shutdown waits for
  crashes,   \* processes killed so far
  stops,     \* signals so far
  timeouts   \* shutdown waits given up so far

processVars == <<downPc, awaited, crashes, stops, timeouts>>

DownPcs == {"none", "drain", "wait", "dead", "exit"}

ProcessInit ==
  /\ downPc = [w \in Workers |-> "none"]
  /\ awaited = [w \in Workers |-> {}]
  /\ crashes = 0
  /\ stops = 0
  /\ timeouts = 0

ProcessTypeOK ==
  /\ downPc \in [Workers -> DownPcs]
  /\ awaited \in [Workers -> SUBSET Runs]
  /\ crashes \in 0..MaxCrashes
  /\ stops \in 0..MaxStops
  /\ timeouts \in 0..MaxTimeouts

InFlightRuns(w) == {r \in Runs : owner[r] = w /\ Live(r)}
LoopsOf(w) == {p \in Reapers : HostOf[p] = w}

\* The process is gone: its runs, loops and transactions vanish with it, and
\* the database releases their locks.  No table is changed.
Vanish(w) ==
  /\ proc' = [proc EXCEPT ![w] = "down"]
  /\ runPc' = [r \in Runs |-> IF r \in InFlightRuns(w) THEN "done" ELSE runPc[r]]
  /\ seen' = [r \in Runs |-> IF r \in InFlightRuns(w) THEN 0 ELSE seen[r]]
  /\ lockedBy' = [lockedBy EXCEPT ![w] = {}]
  /\ batch' = [batch EXCEPT ![w] = {}]
  /\ todo' = [todo EXCEPT ![w] = {}]
  /\ queue' = [queue EXCEPT ![w] = NoQueue]
  /\ available' = [available EXCEPT ![w] = 0]
  /\ pollPc' = [pollPc EXCEPT ![w] = "idle"]
  /\ reapPc' = [p \in Reapers |-> IF p \in LoopsOf(w) THEN "idle" ELSE reapPc[p]]
  /\ suspects' = [p \in Reapers |-> IF p \in LoopsOf(w) THEN {} ELSE suspects[p]]
  /\ victim' = [p \in Reapers |-> IF p \in LoopsOf(w) THEN NoWorker ELSE victim[p]]
  /\ orphans' = [p \in Reapers |-> IF p \in LoopsOf(w) THEN {} ELSE orphans[p]]
  /\ orphan' = [p \in Reapers |-> IF p \in LoopsOf(w) THEN NoJob ELSE orphan[p]]
  /\ downPc' = [downPc EXCEPT ![w] = "none"]
  /\ awaited' = [awaited EXCEPT ![w] = {}]
  /\ UNCHANGED <<status, attempts, due, dlq, exec, owner, workerRow, stale,
                 faults, launches, stalls, apiVars>>

Crash(w) ==
  /\ Alive(w)
  /\ crashes < MaxCrashes
  /\ crashes' = crashes + 1
  /\ Vanish(w)
  /\ UNCHANGED <<stops, timeouts>>

\* SIGTERM: stopPoller() sets the flag that every later check of the poll
\* loop sees.  A second signal is ignored.
ReceiveSigterm(w) ==
  /\ proc[w] = "up"
  /\ downPc[w] = "none"
  /\ stops < MaxStops
  /\ stops' = stops + 1
  /\ proc' = [proc EXCEPT ![w] = "stopping"]
  /\ downPc' = [downPc EXCEPT ![w] = "drain"]
  /\ UNCHANGED <<tables, executorVars, pollerVars, reaperVars, apiVars,
                 awaited, crashes, timeouts>>

SetWorkerRow(w, s) == workerRow' = [workerRow EXCEPT ![w] = s]

\* An error of either update of the worker row is caught and logged.  Then
\* the runs that are under way are collected.
MarkDraining(w) ==
  /\ downPc[w] = "drain"
  /\ \/ SetWorkerRow(w, "draining") /\ UNCHANGED faults
     \/ Fault /\ UNCHANGED workerRow
  /\ downPc' = [downPc EXCEPT ![w] = "wait"]
  /\ awaited' = [awaited EXCEPT ![w] = InFlightRuns(w)]
  /\ UNCHANGED <<status, attempts, due, dlq, exec, owner, stale, lockedBy,
                 runPc, seen, proc, pollerVars, reaperVars, apiVars,
                 crashes, stops, timeouts>>

\* Mutant: the wait is over when one of the runs has settled.
WaitForAny(w) ==
  /\ downPc[w] = "wait"
  /\ awaited[w] \subseteq InFlightRuns(w) => awaited[w] = {}
  /\ downPc' = [downPc EXCEPT ![w] = "dead"]
  /\ awaited' = [awaited EXCEPT ![w] = {}]
  /\ UNCHANGED <<tables, executorVars, proc, pollerVars, reaperVars, apiVars,
                 crashes, stops, timeouts>>

\* waitForInFlight: every run that was collected has settled, or the timeout
\* fires.  A claim that is still under way is no run and is not waited for,
\* nor is a run that starts after, when startPoller has undone the signal.
WaitForInFlight(w) ==
  LET open == awaited[w] \cap InFlightRuns(w)
  IN /\ downPc[w] = "wait"
     /\ \/ open = {} /\ UNCHANGED timeouts
        \/ open # {} /\ timeouts < MaxTimeouts /\ timeouts' = timeouts + 1
     /\ downPc' = [downPc EXCEPT ![w] = "dead"]
     /\ awaited' = [awaited EXCEPT ![w] = {}]
     /\ UNCHANGED <<tables, executorVars, proc, pollerVars, reaperVars, apiVars,
                    crashes, stops>>

MarkSelfDead(w) ==
  /\ downPc[w] = "dead"
  /\ \/ SetWorkerRow(w, "dead") /\ UNCHANGED faults
     \/ Fault /\ UNCHANGED workerRow
  /\ downPc' = [downPc EXCEPT ![w] = "exit"]
  /\ UNCHANGED <<status, attempts, due, dlq, exec, owner, stale, lockedBy,
                 runPc, seen, proc, pollerVars, reaperVars, apiVars,
                 awaited, crashes, stops, timeouts>>

Exit(w) ==
  /\ downPc[w] = "exit"
  /\ Vanish(w)
  /\ UNCHANGED <<crashes, stops, timeouts>>

ShutdownStep(w) ==
  MarkDraining(w) \/ WaitForInFlight(w) \/ MarkSelfDead(w) \/ Exit(w)
=============================================================================

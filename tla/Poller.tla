------------------------------- MODULE Poller -------------------------------
(***************************************************************************)
(* The poll loop of worker/src/poller.ts and claimJobs of                   *)
(* worker/src/claimer.ts.  A worker has one loop; pollPc[w] names its next  *)
(* await:                                                                   *)
(*   "off"    the start-up of the process, before startPoller                *)
(*   "idle"   the sleep between cycles, then findMany of the queues         *)
(*   "count"  the count of jobs in flight in the next queue                 *)
(*   "select" SELECT .. FOR UPDATE SKIP LOCKED                              *)
(*   "update" UPDATE .. SET status = 'claimed', commit                      *)
(*   "launch" claimJobs has returned the ids to the cycle                   *)
(* No route can change is_paused or concurrency_limit of a queue, so both   *)
(* are constant and every queue is polled.                                  *)
(***************************************************************************)
EXTENDS Executor

VARIABLES
  proc,      \* the worker process: "up", "stopping" (SIGTERM seen) or "down"
  pollPc,    \* control point of the poll loop
  todo,      \* queues the cycle has still to visit
  queue,     \* the queue being claimed from, while there is one
  available, \* free slots computed from the count
  batch,     \* ids returned by claimJobs, not launched yet
  launches   \* number of runs started for each job

pollerVars == <<pollPc, todo, queue, available, batch, launches>>

PollPcs == {"off", "idle", "count", "select", "update", "launch"}

PollerInit ==
  /\ proc = [w \in Workers |-> "up"]
  /\ pollPc = [w \in Workers |-> "off"]
  /\ todo = [w \in Workers |-> {}]
  /\ queue = [w \in Workers |-> NoQueue]
  /\ available = [w \in Workers |-> 0]
  /\ batch = [w \in Workers |-> {}]
  /\ launches = [j \in Jobs |-> 0]

PollerTypeOK ==
  /\ proc \in [Workers -> {"up", "stopping", "down"}]
  /\ pollPc \in [Workers -> PollPcs]
  /\ todo \in [Workers -> SUBSET Queues]
  /\ queue \in [Workers -> Queues \cup {NoQueue}]
  /\ available \in [Workers -> Nat]
  /\ batch \in [Workers -> SUBSET Jobs]
  /\ launches \in [Jobs -> 0..MaxLaunches]

Alive(w) == proc[w] # "down"
PollAt(w, here) == pollPc[w] = here /\ Alive(w)

\* The cycle goes on with another queue, or ends.
NextQueue(w) ==
  /\ pollPc' = [pollPc EXCEPT ![w] = IF todo[w] = {} THEN "idle" ELSE "count"]
  /\ queue' = [queue EXCEPT ![w] = NoQueue]
  /\ available' = [available EXCEPT ![w] = 0]

\* Mutant: the count leaves out claimed jobs that do not run yet.
InFlightOfCountsRunning(q) == {j \in Jobs : QueueOf[j] = q /\ status[j] = "running"}

InFlightOf(q) == {j \in Jobs : QueueOf[j] = q /\ status[j] \in InFlight}

\* Mutant: startPoller leaves the stop flag alone.
StartPollerKeepsFlag(w) ==
  /\ PollAt(w, "off")
  /\ pollPc' = [pollPc EXCEPT ![w] = "idle"]
  /\ UNCHANGED <<tables, executorVars, proc, todo, queue, available, batch, launches>>

\* startPoller clears the stop flag, also one that a signal has set while the
\* process was still starting.
StartPoller(w) ==
  /\ PollAt(w, "off")
  /\ proc' = [proc EXCEPT ![w] = "up"]
  /\ pollPc' = [pollPc EXCEPT ![w] = "idle"]
  /\ UNCHANGED <<tables, executorVars, todo, queue, available, batch, launches>>

FetchQueues(w) ==
  /\ PollAt(w, "idle")
  /\ proc[w] = "up"
  /\ Queues # {}
  /\ todo' = [todo EXCEPT ![w] = Queues]
  /\ pollPc' = [pollPc EXCEPT ![w] = "count"]
  /\ UNCHANGED <<tables, executorVars, proc, queue, available, batch, launches>>

\* Mutant: the difference is not clamped to zero, only compared with it.
CountInFlightUnclamped(w) ==
  /\ PollAt(w, "count")
  /\ proc[w] = "up"
  /\ \E q \in todo[w] :
       LET free == Limit[q] - Cardinality(InFlightOf(q))
       IN /\ free # 0
          /\ todo' = [todo EXCEPT ![w] = @ \ {q}]
          /\ queue' = [queue EXCEPT ![w] = q]
          /\ available' = [available EXCEPT ![w] = free]
          /\ pollPc' = [pollPc EXCEPT ![w] = "select"]
  /\ UNCHANGED <<tables, executorVars, proc, batch, launches>>

\* The count is a query of its own, before the claim transaction.
CountInFlight(w) ==
  /\ PollAt(w, "count")
  /\ proc[w] = "up"
  /\ \E q \in todo[w] :
       LET free == Limit[q] - Cardinality(InFlightOf(q))
       IN /\ todo' = [todo EXCEPT ![w] = @ \ {q}]
          /\ IF free > 0
               THEN /\ queue' = [queue EXCEPT ![w] = q]
                    /\ available' = [available EXCEPT ![w] = free]
                    /\ pollPc' = [pollPc EXCEPT ![w] = "select"]
               ELSE /\ pollPc' = [pollPc EXCEPT ![w] =
                                    IF todo[w] = {q} THEN "idle" ELSE "count"]
                    /\ UNCHANGED <<queue, available>>
  /\ UNCHANGED <<tables, executorVars, proc, batch, launches>>

\* SIGTERM was seen: the cycle breaks at the next queue.
StopCycle(w) ==
  /\ PollAt(w, "count")
  /\ proc[w] = "stopping"
  /\ todo' = [todo EXCEPT ![w] = {}]
  /\ pollPc' = [pollPc EXCEPT ![w] = "idle"]
  /\ UNCHANGED <<tables, executorVars, proc, queue, available, batch, launches>>

\* Mutant: a plain SELECT that neither takes nor respects row locks.
ClaimableIgnoringLocks(q) ==
  {j \in Jobs : /\ QueueOf[j] = q
                /\ status[j] = "queued"
                /\ due[j]
                /\ launches[j] < MaxLaunches}

\* MaxLaunches is a bound of the model, not of the code.
Claimable(q) ==
  {j \in Jobs : /\ QueueOf[j] = q
                /\ status[j] = "queued"
                /\ due[j]
                /\ ~Locked(j)
                /\ launches[j] < MaxLaunches}

\* The answers of ORDER BY priority DESC .. LIMIT n; run_at breaks ties.
TopOf(S, n) ==
  {T \in SUBSET S :
     /\ Cardinality(T) = IF n < Cardinality(S) THEN n ELSE Cardinality(S)
     /\ \A j \in T, k \in S \ T : Priority[j] >= Priority[k]}

SelectClaimable(w) ==
  /\ PollAt(w, "select")
  /\ \E S \in TopOf(Claimable(queue[w]), available[w]) :
       \/ S = {} /\ NextQueue(w) /\ UNCHANGED lockedBy
       \/ /\ S # {}
          /\ lockedBy' = [lockedBy EXCEPT ![w] = S]
          /\ pollPc' = [pollPc EXCEPT ![w] = "update"]
          /\ UNCHANGED <<queue, available>>
  /\ UNCHANGED <<status, attempts, due, dlq, exec, owner, workerRow, stale,
                 executorVars, proc, todo, batch, launches>>

\* The UPDATE of the locked rows, and the commit that unlocks them.
Claim(w) ==
  /\ status' = [j \in Jobs |-> IF j \in lockedBy[w] THEN "claimed" ELSE status[j]]
  /\ lockedBy' = [lockedBy EXCEPT ![w] = {}]

UpdateClaimed(w) ==
  /\ PollAt(w, "update")
  /\ Claim(w)
  /\ batch' = [batch EXCEPT ![w] = lockedBy[w]]
  /\ pollPc' = [pollPc EXCEPT ![w] = "launch"]
  /\ UNCHANGED <<attempts, due, dlq, exec, owner, workerRow, stale,
                 executorVars, proc, todo, queue, available, launches>>

\* claimJobs catches every error of the transaction and returns no ids,
\* whether the transaction was rolled back or its acknowledgement was lost.
ClaimFails(w) ==
  /\ PollAt(w, "select") \/ PollAt(w, "update")
  /\ Fault
  /\ \/ lockedBy' = [lockedBy EXCEPT ![w] = {}] /\ UNCHANGED status
     \/ PollAt(w, "update") /\ Claim(w)
  /\ NextQueue(w)
  /\ UNCHANGED <<attempts, due, dlq, exec, owner, workerRow, stale,
                 runPc, seen, proc, todo, batch, launches>>

NewRun(j) == <<j, launches[j] + 1>>

\* Mutant: the loop ends after the first of the claimed ids.
LaunchOne(w) ==
  /\ PollAt(w, "launch")
  /\ proc[w] = "up"
  /\ \E j \in batch[w] :
       /\ launches[j] < MaxLaunches
       /\ runPc' = [runPc EXCEPT ![NewRun(j)] = "fetch"]
       /\ owner' = [owner EXCEPT ![NewRun(j)] = w]
       /\ launches' = [launches EXCEPT ![j] = @ + 1]
  /\ batch' = [batch EXCEPT ![w] = {}]
  /\ NextQueue(w)
  /\ UNCHANGED <<status, attempts, due, dlq, exec, workerRow, stale, lockedBy,
                 seen, faults, proc, todo>>

\* Mutant: the flag is not looked at between claim and launch.
LaunchWhileStopping(w) ==
  LET started == {NewRun(j) : j \in batch[w]}
  IN /\ PollAt(w, "launch")
     /\ \A j \in batch[w] : launches[j] < MaxLaunches
     /\ runPc' = [r \in Runs |-> IF r \in started THEN "fetch" ELSE runPc[r]]
     /\ owner' = [r \in Runs |-> IF r \in started THEN w ELSE owner[r]]
     /\ launches' = [j \in Jobs |-> IF j \in batch[w] THEN launches[j] + 1 ELSE launches[j]]
     /\ batch' = [batch EXCEPT ![w] = {}]
     /\ NextQueue(w)
     /\ UNCHANGED <<status, attempts, due, dlq, exec, workerRow, stale, lockedBy,
                    seen, faults, proc, todo>>

\* The loop over claimedIds has no await: it starts every run, or none when
\* SIGTERM was seen while claimJobs was under way.
LaunchBatch(w) ==
  LET started == {NewRun(j) : j \in batch[w]}
  IN /\ PollAt(w, "launch")
     /\ proc[w] = "up"
     /\ \A j \in batch[w] : launches[j] < MaxLaunches
     /\ runPc' = [r \in Runs |-> IF r \in started THEN "fetch" ELSE runPc[r]]
     /\ owner' = [r \in Runs |-> IF r \in started THEN w ELSE owner[r]]
     /\ launches' = [j \in Jobs |-> IF j \in batch[w] THEN launches[j] + 1 ELSE launches[j]]
     /\ batch' = [batch EXCEPT ![w] = {}]
     /\ NextQueue(w)
     /\ UNCHANGED <<status, attempts, due, dlq, exec, workerRow, stale, lockedBy,
                    seen, faults, proc, todo>>

DropBatch(w) ==
  /\ PollAt(w, "launch")
  /\ proc[w] = "stopping"
  /\ batch' = [batch EXCEPT ![w] = {}]
  /\ NextQueue(w)
  /\ UNCHANGED <<tables, executorVars, proc, todo, launches>>

PollStep(w) ==
  \/ StartPoller(w)
  \/ FetchQueues(w) \/ CountInFlight(w) \/ StopCycle(w)
  \/ SelectClaimable(w) \/ UpdateClaimed(w)
  \/ LaunchBatch(w) \/ DropBatch(w)
=============================================================================

----------------------------- MODULE Submission -----------------------------
(***************************************************************************)
(* The submit routes of api/src/routes/jobs.ts: POST /queues/:id/jobs, one  *)
(* shot or cron, and POST /queues/:id/jobs/batch.  A route looks its keys   *)
(* up, inserts in a transaction of its own, publishes and answers.  One     *)
(* job is a batch of one.  Requests of one body are a client that sends     *)
(* again, before or after it has an answer.                                *)
(*                                                                         *)
(* An insert of a key that an open transaction has inserted waits for it;   *)
(* PostgreSQL breaks a cycle of waits by ending one of them.               *)
(*                                                                         *)
(* Stages of a request: "unsent", "check", "insert", "publish", and as its  *)
(* answer "created" (201), "conflict" (409), "error" (500), or "lost" when  *)
(* the API process ends first.                                             *)
(***************************************************************************)
EXTENDS Scheduler

CONSTANTS
  Requests, \* submissions of one queue; the cron ones are named in Definitions
  Keys,     \* idempotency keys
  NoKey,    \* a job without one
  Body,     \* Body[r]: the keys of the jobs of r, in order
  Bursts    \* the sets of requests of which clients may send one

ASSUME DefinitionsAssumption == Definitions \subseteq Requests
ASSUME KeysAssumption == NoKey \notin Keys
ASSUME BodyAssumption == Body \in [Requests -> Seq(Keys \cup {NoKey})]

ASSUME BurstsAssumption == Bursts \subseteq SUBSET Requests

VARIABLES
  stage,    \* stage[r]
  inserted, \* inserted[r]: jobs in r's open transaction
  jobs      \* committed rows: <<r, i>> is the i-th job of r

submissionVars == <<stage, inserted, jobs>>

SubmissionInit ==
  /\ \E sent \in Bursts :
       stage = [r \in Requests |-> IF r \in sent THEN "check" ELSE "unsent"]
  /\ inserted = [r \in Requests |-> 0]
  /\ jobs = {}

SubmissionTypeOK ==
  /\ stage \in [Requests -> {"unsent", "check", "insert", "publish",
                            "created", "conflict", "error", "lost"}]
  /\ inserted \in [Requests -> Nat]
  /\ jobs \subseteq Requests \X Nat

Open(r) == stage[r] \in {"check", "insert", "publish"}
IsCron(r) == r \in Definitions

KeysOf(r) == {Body[r][i] : i \in 1..Len(Body[r])} \ {NoKey}
PendingKeys(r) == {Body[r][i] : i \in 1..inserted[r]} \ {NoKey}
StoredKeys == {Body[row[1]][row[2]] : row \in jobs} \ {NoKey}

Finish(r, answer) ==
  /\ stage' = [stage EXCEPT ![r] = answer]
  /\ inserted' = [inserted EXCEPT ![r] = 0]

\* The look-up: findFirst or findMany by key, in the jobs table only.
CheckPasses(r) ==
  /\ stage[r] = "check"
  /\ KeysOf(r) \cap StoredKeys = {}
  /\ stage' = [stage EXCEPT ![r] = "insert"]
  /\ UNCHANGED <<inserted, jobs, schedulerVars, faults>>

CheckFindsKey(r) ==
  /\ stage[r] = "check"
  /\ KeysOf(r) \cap StoredKeys # {}
  /\ Finish(r, "conflict")
  /\ UNCHANGED <<jobs, schedulerVars, faults>>

Inserting(r) == stage[r] = "insert" /\ ~IsCron(r) /\ inserted[r] < Len(Body[r])
NextKey(r) == Body[r][inserted[r] + 1]
Taken(k) == k \in StoredKeys \/ \E s \in Requests : k \in PendingKeys(s)

\* Mutant: no unique index; the check alone guards the key.
InsertUnindexed(r) ==
  /\ Inserting(r)
  /\ inserted' = [inserted EXCEPT ![r] = @ + 1]
  /\ UNCHANGED <<stage, jobs, schedulerVars, faults>>

\* Mutant: the creates of a batch commit one by one.
InsertCommits(r) ==
  /\ Inserting(r)
  /\ ~Taken(NextKey(r))
  /\ inserted' = [inserted EXCEPT ![r] = @ + 1]
  /\ jobs' = jobs \cup {<<r, inserted[r] + 1>>}
  /\ UNCHANGED <<stage, schedulerVars, faults>>

Insert(r) ==
  /\ Inserting(r)
  /\ ~Taken(NextKey(r))
  /\ inserted' = [inserted EXCEPT ![r] = @ + 1]
  /\ UNCHANGED <<stage, jobs, schedulerVars, faults>>

\* Mutant: the transaction is tried again from the look-up.
ConflictTriesAgain(r) ==
  /\ Inserting(r)
  /\ NextKey(r) \in StoredKeys \cup PendingKeys(r)
  /\ Finish(r, "check")
  /\ UNCHANGED <<jobs, schedulerVars, faults>>

\* P2002 rolls the transaction back; the error handler answers 409.
InsertConflict(r) ==
  /\ Inserting(r)
  /\ NextKey(r) \in StoredKeys \cup PendingKeys(r)
  /\ Finish(r, "conflict")
  /\ UNCHANGED <<jobs, schedulerVars, faults>>

Waits(r, s) == Inserting(r) /\ NextKey(r) \in PendingKeys(s)

Waiting == {s \in Requests : \E u \in Requests \ {s} : Waits(s, u)}

\* A transaction waits for at most one other, so a set in which each waits for
\* one and is waited for by one is made of cycles.
InCycle(r) ==
  \E C \in SUBSET Waiting :
    /\ r \in C
    /\ \A s \in C : (\E u \in C \ {s} : Waits(s, u)) /\ (\E u \in C \ {s} : Waits(u, s))

DeadlockVictim(r) ==
  /\ Inserting(r)
  /\ InCycle(r)
  /\ Finish(r, "error")
  /\ UNCHANGED <<jobs, schedulerVars, faults>>

RowsOf(r) == {<<r, i>> : i \in 1..Len(Body[r])}
AllInserted(r) == stage[r] = "insert" /\ ~IsCron(r) /\ inserted[r] = Len(Body[r])

Commit(r) ==
  /\ AllInserted(r)
  /\ jobs' = jobs \cup RowsOf(r)
  /\ Finish(r, "publish")
  /\ UNCHANGED <<schedulerVars, faults>>

\* computeNextRunAt: the next minute, whatever the expression.
StoreDefinition(r) ==
  /\ stage[r] = "insert"
  /\ IsCron(r)
  /\ defined' = defined \cup {r}
  /\ isActive' = isActive \cup {r}
  /\ nextRunAt' = [nextRunAt EXCEPT ![r] = minute + 1]
  /\ UNCHANGED <<minute, rows, advancing, made, contested, jobs>>

CreateDefinition(r) ==
  /\ StoreDefinition(r)
  /\ Finish(r, "publish")
  /\ UNCHANGED faults

Publish(r) ==
  /\ stage[r] = "publish"
  /\ Finish(r, "created")
  /\ UNCHANGED <<jobs, schedulerVars, faults>>

RequestStep(r) ==
  \/ CheckPasses(r) \/ CheckFindsKey(r)
  \/ Insert(r) \/ InsertConflict(r) \/ DeadlockVictim(r) \/ Commit(r)
  \/ CreateDefinition(r)
  \/ Publish(r)

-----------------------------------------------------------------------------
\* A query or the publish is refused, or a commit is not heard of; an open
\* transaction rolls back.
Unheard(r) ==
  \/ /\ AllInserted(r)
     /\ jobs' = jobs \cup RowsOf(r)
     /\ UNCHANGED schedulerVars
  \/ StoreDefinition(r)

RequestFault(r) ==
  /\ faults < MaxFaults
  /\ faults' = faults + 1
  /\ Open(r)
  /\ \E answer \in {"error", "lost"} : Finish(r, answer)
  /\ Unheard(r) \/ UNCHANGED <<jobs, schedulerVars>>
=============================================================================

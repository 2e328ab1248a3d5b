------------------------------- MODULE Intake -------------------------------
(***************************************************************************)
(* How jobs come into being: the submit routes of the API and the cron      *)
(* ticks of the workers over jobs and scheduled_jobs.                       *)
(***************************************************************************)
EXTENDS Submission

intakeVars == <<schedulerVars, submissionVars, faults>>

IntakeInit == SchedulerInit /\ SubmissionInit /\ faults = 0

IntakeNext ==
  \/ \E r \in Requests : RequestStep(r) \/ RequestFault(r)
  \/ \E t \in Ticks : (TickStep(t) \/ TickFault(t)) /\ UNCHANGED submissionVars
  \/ MinutePasses /\ UNCHANGED submissionVars

\* Started queries return, PostgreSQL ends a cycle of waits, interval timers
\* fire and time passes.
IntakeFairness ==
  /\ WF_intakeVars(\E r \in Requests : RequestStep(r))
  /\ \A t \in Ticks : WF_intakeVars(TickStep(t) /\ UNCHANGED submissionVars)
  /\ WF_intakeVars(MinutePasses /\ UNCHANGED submissionVars)

IntakeSpec == IntakeInit /\ [][IntakeNext]_intakeVars /\ IntakeFairness

IntakeTypeOK == SchedulerTypeOK /\ SubmissionTypeOK /\ faults \in Nat

-----------------------------------------------------------------------------
\* At most one job of a queue has a given idempotency key, although requests
\* look the key up before any of them has inserted it (jobs.ts).
OneRowPerKey ==
  \A a, b \in jobs :
    Body[a[1]][a[2]] = Body[b[1]][b[2]] /\ Body[a[1]][a[2]] # NoKey => a = b

RepeatsKey(r) ==
  \E i, j \in 1..Len(Body[r]) : i # j /\ Body[r][i] = Body[r][j] /\ Body[r][i] # NoKey

\* A 201 says that every job of the request is stored; a 409 that none is, and
\* that one of its keys really is another's or named twice (jobs.ts, index.ts).
AnswersAreTrue ==
  \A r \in Requests :
    /\ stage[r] = "created" => IF IsCron(r) THEN r \in defined ELSE RowsOf(r) \subseteq jobs
    /\ stage[r] = "conflict" => /\ RowsOf(r) \cap jobs = {}
                                /\ KeysOf(r) \cap StoredKeys # {} \/ RepeatsKey(r)

\* Unless two ticks had it in hand at once, or one left it between create and
\* advance, a definition gets one job for each of its run times, in their
\* order (scheduler.ts).
OneJobPerRunTime ==
  \A d \in defined \ contested :
    \A i, j \in 1..Len(made[d]) : i < j => made[d][i] < made[d][j]

\* Every request is answered or lost, also when batches name the same keys in
\* opposite orders and wait for each other (jobs.ts).
EveryRequestEnds == <>(\A r \in Requests : ~Open(r))

\* A recurring definition that is due gets its job and is advanced, although
\* other rows of the tick fail and a malformed one is due for ever
\* (scheduler.ts).
DueDefinitionsRun ==
  \A d \in Definitions :
    (Recurs(d) /\ Due(d)) ~> (~Due(d) /\ made[d] # <<>>)
=============================================================================

----------------------------- MODULE Scheduler -----------------------------
(***************************************************************************)
(* worker/src/scheduler.ts: tick() reads the definitions that are due, and  *)
(* for each one creates a job and then advances next_run_at, by id and      *)
(* without looking again.  Every worker has its own interval timer, and a   *)
(* tick that outlasts the interval overlaps its successor.                  *)
(*                                                                         *)
(* A tick that holds no rows is between two intervals.  Between the create  *)
(* and the advance of a definition, advancing[t] is the next run computed   *)
(* before the create.                                                      *)
(***************************************************************************)
EXTENDS Integers, Sequences, FiniteSets

CONSTANTS
  Definitions, \* rows of scheduled_jobs that may come to exist
  Ticks,       \* the tick() calls that may overlap
  Period,      \* Period[d]: minutes between the times d's expression names; 0: it names none
  Malformed,   \* definitions whose five fields croner does not accept
  MaxMinute,   \* bound on the clock
  MaxFaults    \* bound on errors and crashes

ASSUME PeriodAssumption == Period \in [Definitions -> Nat]
ASSUME MalformedAssumption == Malformed \subseteq Definitions
ASSUME IntakeBoundAssumption == MaxMinute \in Nat /\ MaxFaults \in Nat

VARIABLES
  minute,     \* the clock
  defined,    \* definitions that have a row
  isActive,   \* those with is_active
  nextRunAt,  \* next_run_at
  rows,       \* rows[t]: due rows of tick t's query that it has not finished
  advancing,  \* advancing[t]: set of at most one <<definition, next run>>
  made,       \* made[d]: for which next_run_at each job of d was created, in order
  contested,  \* definitions that two ticks had in hand at once, or one left half done
  faults      \* errors and crashes so far

schedulerVars == <<minute, defined, isActive, nextRunAt, rows, advancing, made, contested>>

Row == [def : Definitions, at : Nat]

SchedulerInit ==
  /\ minute = 0
  /\ defined = {}
  /\ isActive = {}
  /\ nextRunAt = [d \in Definitions |-> 0]
  /\ rows = [t \in Ticks |-> {}]
  /\ advancing = [t \in Ticks |-> {}]
  /\ made = [d \in Definitions |-> <<>>]
  /\ contested = {}

SchedulerTypeOK ==
  /\ minute \in Nat
  /\ defined \subseteq Definitions
  /\ isActive \subseteq defined
  /\ nextRunAt \in [Definitions -> Nat]
  /\ rows \in [Ticks -> SUBSET Row]
  /\ advancing \in [Ticks -> SUBSET (Row \X Nat)]
  /\ made \in [Definitions -> Seq(Nat)]
  /\ contested \subseteq Definitions

Due(d) == d \in isActive /\ nextRunAt[d] <= minute

InHand(d) == \E t \in Ticks : \E r \in rows[t] : r.def = d

\* Mutant: previousRun().
PreviousRun(d) == ((minute \div Period[d]) - 1) * Period[d]

\* Cron(..).nextRun(): the first time after the present that the expression names.
NextRun(d) == ((minute \div Period[d]) + 1) * Period[d]

DueRows == {r \in {[def |-> d, at |-> nextRunAt[d]] : d \in Definitions} : Due(r.def)}

FindDue(t) ==
  /\ rows[t] = {}
  /\ DueRows # {}
  /\ rows' = [rows EXCEPT ![t] = DueRows]
  /\ contested' = contested \cup {d \in Definitions : Due(d) /\ InHand(d)}
  /\ UNCHANGED <<minute, defined, isActive, nextRunAt, advancing, made, faults>>

\* The loop goes on to the next row.
Drop(t, r) ==
  /\ rows' = [rows EXCEPT ![t] = @ \ {r}]
  /\ advancing' = [advancing EXCEPT ![t] = {}]

\* Mutant: the exception leaves the loop.
MalformedEndsTick(t, r) ==
  /\ advancing[t] = {}
  /\ r.def \in Malformed
  /\ rows' = [rows EXCEPT ![t] = {}]
  /\ UNCHANGED <<minute, defined, isActive, nextRunAt, advancing, made, contested, faults>>

\* new Cron throws: the row is logged and stays due.
SkipMalformed(t, r) ==
  /\ advancing[t] = {}
  /\ r.def \in Malformed
  /\ Drop(t, r)
  /\ UNCHANGED <<minute, defined, isActive, nextRunAt, made, contested, faults>>

Deactivate(t, r) ==
  /\ advancing[t] = {}
  /\ r.def \notin Malformed
  /\ Period[r.def] = 0
  /\ Drop(t, r)
  /\ isActive' = isActive \ {r.def}
  /\ UNCHANGED <<minute, defined, nextRunAt, made, contested, faults>>

Recurs(d) == d \notin Malformed /\ Period[d] > 0

Materialize(r) == made' = [made EXCEPT ![r.def] = Append(@, r.at)]

CreateJob(t, r) ==
  /\ advancing[t] = {}
  /\ Recurs(r.def)
  /\ Materialize(r)
  /\ advancing' = [advancing EXCEPT ![t] = {<<r, NextRun(r.def)>>}]
  /\ UNCHANGED <<minute, defined, isActive, nextRunAt, rows, contested, faults>>

\* Mutant: next_run_at stays as it was.
AdvanceNothing(t) ==
  \E a \in advancing[t] :
    /\ Drop(t, a[1])
    /\ UNCHANGED <<minute, defined, isActive, nextRunAt, made, contested, faults>>

\* The update, and the publish after it, whose failure changes nothing.
Advance(t) ==
  \E a \in advancing[t] :
    /\ nextRunAt' = [nextRunAt EXCEPT ![a[1].def] = a[2]]
    /\ Drop(t, a[1])
    /\ UNCHANGED <<minute, defined, isActive, made, contested, faults>>

TickStep(t) ==
  \/ FindDue(t)
  \/ \E r \in rows[t] : SkipMalformed(t, r) \/ Deactivate(t, r) \/ CreateJob(t, r)
  \/ Advance(t)

-----------------------------------------------------------------------------
\* The create is refused, or committed without an answer; a failed
\* deactivation changes nothing either.  The loop goes on.
RowFails(t, r) ==
  /\ advancing[t] = {}
  /\ r.def \notin Malformed
  /\ Drop(t, r)
  /\ \/ UNCHANGED <<made, contested>>
     \/ /\ Recurs(r.def)
        /\ Materialize(r)
        /\ contested' = contested \cup {r.def}
  /\ UNCHANGED <<minute, defined, isActive, nextRunAt>>

AdvanceFails(t) ==
  \E a \in advancing[t] :
    /\ Drop(t, a[1])
    /\ contested' = contested \cup {a[1].def}
    /\ UNCHANGED <<minute, defined, isActive, nextRunAt, made>>

\* The worker ends in the middle of a tick; the next start ticks at once.
TickDies(t) ==
  /\ rows[t] # {}
  /\ rows' = [rows EXCEPT ![t] = {}]
  /\ advancing' = [advancing EXCEPT ![t] = {}]
  /\ contested' = contested \cup {a[1].def : a \in advancing[t]}
  /\ UNCHANGED <<minute, defined, isActive, nextRunAt, made>>

TickFault(t) ==
  /\ faults < MaxFaults
  /\ faults' = faults + 1
  /\ \/ \E r \in rows[t] : RowFails(t, r)
     \/ AdvanceFails(t)
     \/ TickDies(t)

MinutePasses ==
  /\ minute < MaxMinute
  /\ minute' = minute + 1
  /\ UNCHANGED <<defined, isActive, nextRunAt, rows, advancing, made, contested, faults>>
=============================================================================

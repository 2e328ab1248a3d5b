---------------------------- MODULE IntakeProofs ----------------------------
(***************************************************************************)
(* Proofs that a key is stored once, that answers are true, and that a      *)
(* definition gets one job per run time, for all requests, batches, ticks   *)
(* and expressions.                                                        *)
(***************************************************************************)
EXTENDS Intake, TLAPS

\* The next multiple of p after m.
LEMMA QuotientIsBelow ==
  ASSUME NEW m \in Nat, NEW p \in Nat \ {0}
  PROVE  m \div p \in Nat /\ m < ((m \div p) + 1) * p
<1>1. m \div p \in Nat
  OBVIOUS
<1>2. p * (m \div p) > m - p
  OBVIOUS
<1>3. ASSUME NEW k \in Nat PROVE (k + 1) * p = p * k + p /\ p * k \in Nat
  OBVIOUS
<1> QED
  BY <1>1, <1>2, <1>3

USE PeriodAssumption, MalformedAssumption, IntakeBoundAssumption,
    DefinitionsAssumption, KeysAssumption, BodyAssumption, BurstsAssumption

-----------------------------------------------------------------------------
(* The routes. *)

\* Inserted rows, committed or not.
Live == jobs \cup {a \in Requests \X Nat : a[2] \in 1..inserted[a[1]]}

KeyOf(a) == Body[a[1]][a[2]]

\* The unique index covers the rows of open transactions too.
LiveKeysUnique ==
  \A a, b \in Live : KeyOf(a) = KeyOf(b) /\ KeyOf(a) # NoKey => a = b

\* A transaction is open only in its stage.
TransactionsOpen ==
  \A r \in Requests :
    /\ inserted[r] <= Len(Body[r])
    /\ stage[r] # "insert" => inserted[r] = 0

\* What a request has left behind by its stage.
Told(r) ==
  /\ stage[r] \in {"unsent", "check", "insert", "conflict"} =>
       RowsOf(r) \cap jobs = {} /\ r \notin defined
  /\ stage[r] \in {"publish", "created"} =>
       IF IsCron(r) THEN r \in defined ELSE RowsOf(r) \subseteq jobs
  /\ stage[r] = "conflict" => KeysOf(r) \cap StoredKeys # {} \/ RepeatsKey(r)

RoutesInv ==
  /\ SubmissionTypeOK
  /\ TransactionsOpen
  /\ LiveKeysUnique
  /\ \A r \in Requests : Told(r)

Stages == {"unsent", "check", "insert", "publish", "created", "conflict", "error", "lost"}

LEMMA RoutesInitially == SubmissionInit /\ defined = {} => RoutesInv
  BY DEF SubmissionInit, RoutesInv, SubmissionTypeOK, TransactionsOpen, LiveKeysUnique,
         Live, Told, RowsOf

\* A step that ends a transaction without storing anything, or goes on to
\* another stage.
LEMMA StageStep ==
  ASSUME RoutesInv, NEW r \in Requests, NEW s \in Stages,
         stage' = [stage EXCEPT ![r] = s],
         inserted' = [inserted EXCEPT ![r] = 0], jobs' = jobs,
         defined \subseteq defined', defined' \subseteq defined \cup {r}, Told(r)'
  PROVE  RoutesInv'
<1>1. SubmissionTypeOK' /\ TransactionsOpen'
  BY DEF RoutesInv, SubmissionTypeOK, TransactionsOpen, Stages
<1>2. LiveKeysUnique'
  <2>1. Live' \subseteq Live
    BY DEF RoutesInv, SubmissionTypeOK, Live
  <2> QED
    BY <2>1 DEF RoutesInv, LiveKeysUnique, KeyOf
<1>3. ASSUME NEW q \in Requests, q # r PROVE Told(q)'
  <2>1. stage'[q] = stage[q] /\ StoredKeys' = StoredKeys
    BY <1>3 DEF RoutesInv, SubmissionTypeOK, StoredKeys
  <2> QED
    BY <1>3, <2>1 DEF RoutesInv, Told, RowsOf, IsCron, KeysOf, RepeatsKey
<1> QED
  BY <1>1, <1>2, <1>3 DEF RoutesInv

\* An insert that the unique index lets through.
LEMMA InsertStep ==
  ASSUME RoutesInv, NEW r \in Requests, Insert(r) PROVE RoutesInv'
<1> DEFINE n == <<r, inserted[r] + 1>>
<1>1. /\ stage' = stage /\ jobs' = jobs /\ defined' = defined
      /\ inserted' = [inserted EXCEPT ![r] = @ + 1]
      /\ stage[r] = "insert" /\ inserted[r] < Len(Body[r]) /\ ~Taken(KeyOf(n))
      /\ inserted \in [Requests -> Nat] /\ jobs \subseteq Requests \X Nat
      /\ Len(Body[r]) \in Nat
  BY DEF Insert, Inserting, schedulerVars, NextKey, KeyOf, RoutesInv, SubmissionTypeOK
<1>2. SubmissionTypeOK' /\ TransactionsOpen'
  BY <1>1 DEF RoutesInv, SubmissionTypeOK, TransactionsOpen
<1>3. LiveKeysUnique'
  <2>1. Live' \subseteq Live \cup {n}
    <3> SUFFICES ASSUME NEW a \in Requests \X Nat, a[2] \in 1..inserted'[a[1]]
                 PROVE  a \in Live \/ a = n
      BY <1>1 DEF Live
    <3>1. CASE a[1] = r
      BY <1>1, <3>1 DEF Live
    <3>2. CASE a[1] # r
      BY <1>1, <3>2 DEF Live
    <3> QED
      BY <3>1, <3>2
  <2>2. ASSUME NEW a \in Live, KeyOf(a) = KeyOf(n), KeyOf(n) # NoKey PROVE FALSE
    <3>1. CASE a \in jobs
      BY <1>1, <2>2, <3>1 DEF Taken, StoredKeys, KeyOf
    <3>2. CASE a \in Requests \X Nat /\ a[2] \in 1..inserted[a[1]]
      BY <1>1, <2>2, <3>2 DEF Taken, PendingKeys, KeyOf
    <3> QED
      BY <3>1, <3>2 DEF Live
  <2> QED
    BY <2>1, <2>2 DEF RoutesInv, LiveKeysUnique, KeyOf
<1>4. ASSUME NEW q \in Requests PROVE Told(q)'
  BY <1>1 DEF RoutesInv, Told, RowsOf, IsCron, KeysOf, RepeatsKey, StoredKeys
<1> QED
  BY <1>2, <1>3, <1>4 DEF RoutesInv

\* A commit, heard of or not.
LEMMA CommitStep ==
  ASSUME RoutesInv, NEW r \in Requests, NEW s \in {"publish", "error", "lost"},
         AllInserted(r), Finish(r, s), jobs' = jobs \cup RowsOf(r), defined' = defined
  PROVE  RoutesInv'
<1>1. /\ stage' = [stage EXCEPT ![r] = s] /\ inserted' = [inserted EXCEPT ![r] = 0]
      /\ stage[r] = "insert" /\ ~IsCron(r) /\ inserted[r] = Len(Body[r])
      /\ inserted \in [Requests -> Nat] /\ jobs \subseteq Requests \X Nat
      /\ Len(Body[r]) \in Nat
  BY DEF AllInserted, Finish, RoutesInv, SubmissionTypeOK
<1>2. RowsOf(r) \subseteq Requests \X Nat
  BY <1>1 DEF RowsOf
<1>3. SubmissionTypeOK' /\ TransactionsOpen'
  BY <1>1, <1>2 DEF RoutesInv, SubmissionTypeOK, TransactionsOpen
<1>4. LiveKeysUnique'
  <2>1. RowsOf(r) \subseteq Live
    BY <1>1 DEF RowsOf, Live
  <2>2. Live' \subseteq Live
    BY <1>1, <2>1 DEF Live
  <2> QED
    BY <2>2 DEF RoutesInv, LiveKeysUnique, KeyOf
<1>5. ASSUME NEW q \in Requests, q # r PROVE Told(q)'
  <2>1. stage'[q] = stage[q] /\ RowsOf(q) \cap RowsOf(r) = {} /\ StoredKeys \subseteq StoredKeys'
    BY <1>1, <1>5 DEF RoutesInv, SubmissionTypeOK, RowsOf, StoredKeys
  <2>2. RowsOf(q)' = RowsOf(q) /\ KeysOf(q)' = KeysOf(q) /\ RepeatsKey(q)' = RepeatsKey(q)
    BY DEF RowsOf, KeysOf, RepeatsKey
  <2> QED
    BY <2>1, <2>2 DEF RoutesInv, Told, IsCron
<1>6. Told(r)'
  BY <1>1 DEF Told, IsCron, RowsOf, RoutesInv, SubmissionTypeOK
<1> QED
  BY <1>3, <1>4, <1>5, <1>6 DEF RoutesInv

\* A 409 by the unique index names a stored key or one the batch repeats.
LEMMA ConflictIsReal ==
  ASSUME RoutesInv, NEW r \in Requests, InsertConflict(r)
  PROVE  KeysOf(r) \cap StoredKeys # {} \/ RepeatsKey(r)
<1> DEFINE i == inserted[r] + 1
<1>1. /\ i \in 1..Len(Body[r]) /\ inserted[r] \in Nat /\ NextKey(r) = Body[r][i]
      /\ NextKey(r) \in StoredKeys \cup PendingKeys(r)
  BY DEF InsertConflict, Inserting, NextKey, RoutesInv, SubmissionTypeOK
<1>2. NextKey(r) # NoKey
  BY <1>1 DEF StoredKeys, PendingKeys
<1>3. NextKey(r) \in KeysOf(r)
  BY <1>1, <1>2 DEF KeysOf
<1>4. CASE NextKey(r) \in StoredKeys
  BY <1>3, <1>4
<1>5. CASE NextKey(r) \in PendingKeys(r)
  <2>1. PICK j \in 1..inserted[r] : NextKey(r) = Body[r][j]
    BY <1>5 DEF PendingKeys
  <2>2. j \in 1..Len(Body[r]) /\ j # i
    BY <1>1
  <2> QED
    BY <1>1, <1>2, <2>1, <2>2 DEF RepeatsKey
<1> QED
  BY <1>1, <1>4, <1>5

\* A cron submission adds its definition, heard of or not.
LEMMA DefinitionStep ==
  ASSUME RoutesInv, NEW r \in Requests, NEW s \in {"publish", "error", "lost"},
         StoreDefinition(r), Finish(r, s)
  PROVE  RoutesInv'
<1>1. /\ stage' = [stage EXCEPT ![r] = s] /\ inserted' = [inserted EXCEPT ![r] = 0]
      /\ jobs' = jobs /\ defined' = defined \cup {r} /\ IsCron(r) /\ stage'[r] = s
  BY DEF StoreDefinition, Finish, RoutesInv, SubmissionTypeOK
<1>2. Told(r)'
  BY <1>1 DEF Told, IsCron
<1> QED
  BY <1>1, <1>2, StageStep DEF Stages

LEMMA RequestStepKeepsRoutes ==
  ASSUME RoutesInv, NEW r \in Requests, RequestStep(r) PROVE RoutesInv'
<1>1. stage \in [Requests -> Stages] /\ inserted \in [Requests -> Nat] /\ Told(r)
  BY DEF RoutesInv, SubmissionTypeOK, Stages
<1> USE DEF schedulerVars, Finish
<1>2. CASE CheckPasses(r)
  <2>1. inserted' = [inserted EXCEPT ![r] = 0]
    BY <1>1, <1>2 DEF CheckPasses, RoutesInv, TransactionsOpen
  <2>2. Told(r)'
    BY <1>1, <1>2 DEF CheckPasses, Told, RowsOf
  <2> QED
    BY <1>2, <2>1, <2>2, StageStep DEF CheckPasses, Stages
<1>3. CASE CheckFindsKey(r)
  <2>1. Told(r)'
    BY <1>1, <1>3 DEF CheckFindsKey, Told, RowsOf, KeysOf, StoredKeys
  <2> QED
    BY <1>3, <2>1, StageStep DEF CheckFindsKey, Stages
<1>4. CASE Insert(r)
  BY <1>4, InsertStep
<1>5. CASE InsertConflict(r)
  <2>1. Told(r)'
    BY <1>1, <1>5, ConflictIsReal
       DEF InsertConflict, Inserting, Told, RowsOf, KeysOf, StoredKeys, RepeatsKey
  <2> QED
    BY <1>5, <2>1, StageStep DEF InsertConflict, Stages
<1>6. CASE DeadlockVictim(r)
  <2>1. Told(r)'
    BY <1>1, <1>6 DEF DeadlockVictim, Told
  <2> QED
    BY <1>6, <2>1, StageStep DEF DeadlockVictim, Stages
<1>7. CASE Commit(r)
  BY <1>7, CommitStep DEF Commit
<1>8. CASE CreateDefinition(r)
  BY <1>8, DefinitionStep DEF CreateDefinition
<1>9. CASE Publish(r)
  <2>1. Told(r)'
    BY <1>1, <1>9 DEF Publish, Told, RowsOf, IsCron
  <2> QED
    BY <1>9, <2>1, StageStep DEF Publish, Stages
<1> QED
  BY <1>2, <1>3, <1>4, <1>5, <1>6, <1>7, <1>8, <1>9 DEF RequestStep

LEMMA RequestFaultKeepsRoutes ==
  ASSUME RoutesInv, NEW r \in Requests, RequestFault(r) PROVE RoutesInv'
<1>1. PICK s \in {"error", "lost"} : Finish(r, s)
  BY DEF RequestFault
<1>2. CASE Unheard(r)
  <2>1. CASE AllInserted(r) /\ jobs' = jobs \cup RowsOf(r) /\ UNCHANGED schedulerVars
    BY <1>1, <2>1, CommitStep DEF schedulerVars
  <2>2. CASE StoreDefinition(r)
    BY <1>1, <2>2, DefinitionStep
  <2> QED
    BY <1>2, <2>1, <2>2 DEF Unheard
<1>3. CASE UNCHANGED <<jobs, schedulerVars>>
  <2>1. Told(r)'
    BY <1>1 DEF RoutesInv, SubmissionTypeOK, Finish, Told
  <2> QED
    BY <1>1, <1>3, <2>1, StageStep DEF Finish, schedulerVars, Stages
<1> QED
  BY <1>2, <1>3 DEF RequestFault

\* A tick and the clock leave the routes and the set of definitions alone.
LEMMA RoutesFrame ==
  ASSUME RoutesInv, UNCHANGED <<submissionVars, defined>> PROVE RoutesInv'
<1> USE DEF submissionVars
<1>1. SubmissionTypeOK' /\ TransactionsOpen' /\ LiveKeysUnique'
  BY DEF RoutesInv, SubmissionTypeOK, TransactionsOpen, LiveKeysUnique, Live, KeyOf
<1>2. ASSUME NEW r \in Requests PROVE Told(r)'
  BY DEF RoutesInv, Told, RowsOf, IsCron, KeysOf, StoredKeys, RepeatsKey
<1> QED
  BY <1>1, <1>2 DEF RoutesInv

LEMMA TicksKeepDefined ==
  ASSUME NEW t \in Ticks, TickStep(t) \/ TickFault(t) PROVE defined' = defined
  BY DEF TickStep, TickFault, FindDue, SkipMalformed, Deactivate, CreateJob, Advance,
         RowFails, AdvanceFails, TickDies

LEMMA RoutesNext == RoutesInv /\ [IntakeNext]_intakeVars => RoutesInv'
<1> SUFFICES ASSUME RoutesInv, [IntakeNext]_intakeVars PROVE RoutesInv'
  OBVIOUS
<1>1. ASSUME NEW r \in Requests, RequestStep(r) \/ RequestFault(r) PROVE RoutesInv'
  BY <1>1, RequestStepKeepsRoutes, RequestFaultKeepsRoutes
<1>2. ASSUME NEW t \in Ticks, TickStep(t) \/ TickFault(t), UNCHANGED submissionVars
      PROVE  RoutesInv'
  BY <1>2, TicksKeepDefined, RoutesFrame
<1>3. CASE MinutePasses /\ UNCHANGED submissionVars
  BY <1>3, RoutesFrame DEF MinutePasses
<1>4. CASE UNCHANGED intakeVars
  BY <1>4, RoutesFrame DEF intakeVars, schedulerVars
<1> QED
  BY <1>1, <1>2, <1>3, <1>4 DEF IntakeNext

LEMMA RoutesInvariant == IntakeSpec => []RoutesInv
<1>1. IntakeInit => RoutesInv
  BY RoutesInitially DEF IntakeInit, SchedulerInit
<1> QED
  BY <1>1, RoutesNext, PTL DEF IntakeSpec

\* Whatever clients send at once and again, whatever fails, a key belongs to at
\* most one stored job (jobs.ts, the unique index of the migration).
THEOREM KeysAreUnique == IntakeSpec => []OneRowPerKey
<1>1. RoutesInv => OneRowPerKey
  BY DEF RoutesInv, LiveKeysUnique, Live, KeyOf, OneRowPerKey
<1> QED
  BY <1>1, RoutesInvariant, PTL

\* No failure, lost answer or deadlock makes a 201 or a 409 untrue (jobs.ts,
\* index.ts).
THEOREM AnswersHold == IntakeSpec => []AnswersAreTrue
<1>1. RoutesInv => AnswersAreTrue
  BY DEF RoutesInv, Told, AnswersAreTrue
<1> QED
  BY <1>1, RoutesInvariant, PTL

-----------------------------------------------------------------------------
(* The ticks. *)

Advancing(d) == \E t \in Ticks : \E a \in advancing[t] : a[1].def = d

\* A row in hand was due; the next run of the one that is being advanced is
\* later.
RowsInHand ==
  \A t \in Ticks :
    /\ \A r \in rows[t] : r.at <= minute /\ r.def \in defined
    /\ \A a, b \in advancing[t] : a = b
    /\ \A a \in advancing[t] : a[1] \in rows[t] /\ a[2] > a[1].at

\* Nobody else has the row of an uncontested definition, and it is current.
HeldAlone(d) ==
  \A t, u \in Ticks : \A r \in rows[t], q \in rows[u] :
    r.def = d /\ q.def = d => t = u /\ r = q /\ r.at = nextRunAt[d]

\* Its jobs were for earlier run times, or for the one being advanced.
MadeInOrder(d) ==
  /\ \A i, j \in 1..Len(made[d]) : i < j => made[d][i] < made[d][j]
  /\ \A i \in 1..Len(made[d]) :
       made[d][i] < nextRunAt[d] \/ (made[d][i] = nextRunAt[d] /\ Advancing(d))

Orderly(d) == HeldAlone(d) /\ MadeInOrder(d)

TicksInv ==
  /\ SchedulerTypeOK
  /\ RowsInHand
  /\ \A d \in Definitions \ defined : made[d] = <<>>
  /\ \A d \in Definitions \ contested : Orderly(d)

LEMMA TicksInitially == SchedulerInit => TicksInv
<1> SUFFICES ASSUME SchedulerInit PROVE TicksInv
  OBVIOUS
<1>1. SchedulerTypeOK /\ RowsInHand
  BY DEF SchedulerInit, SchedulerTypeOK, RowsInHand
<1>2. ASSUME NEW d \in Definitions PROVE made[d] = <<>> /\ HeldAlone(d) /\ MadeInOrder(d)
  BY DEF SchedulerInit, HeldAlone, MadeInOrder
<1> QED
  BY <1>1, <1>2 DEF TicksInv, Orderly

\* The next run is ahead: a period of at least one minute.
LEMMA NextRunIsAhead ==
  ASSUME minute \in Nat, NEW d \in Definitions, Period[d] > 0
  PROVE  NextRun(d) \in Nat /\ NextRun(d) > minute
<1>1. Period[d] \in Nat \ {0}
  OBVIOUS
<1>2. minute \div Period[d] \in Nat /\ minute < ((minute \div Period[d]) + 1) * Period[d]
  BY <1>1, QuotientIsBelow
<1> QED
  BY <1>1, <1>2 DEF NextRun

\* A row is dropped with nothing done to its definition, or one that leaves it
\* contested.
LEMMA DropStep ==
  ASSUME TicksInv, NEW t \in Ticks, NEW r \in rows[t], Drop(t, r),
         \A a \in advancing[t] : a[1] = r /\ r.def \in contested',
         contested \subseteq contested', contested' \subseteq Definitions,
         isActive' \subseteq isActive, UNCHANGED <<minute, defined, nextRunAt>>,
         made' = made \/ (Materialize(r) /\ r.def \in contested')
  PROVE  TicksInv'
<1>1. /\ rows \in [Ticks -> SUBSET Row] /\ advancing \in [Ticks -> SUBSET (Row \X Nat)]
      /\ made \in [Definitions -> Seq(Nat)] /\ r \in Row
      /\ rows' = [rows EXCEPT ![t] = @ \ {r}] /\ advancing' = [advancing EXCEPT ![t] = {}]
  BY DEF TicksInv, SchedulerTypeOK, Drop
<1>2. r.def \in Definitions /\ r.at \in Nat /\ r.def \in defined
  BY <1>1 DEF Row, TicksInv, RowsInHand
<1>3. made' \in [Definitions -> Seq(Nat)] /\ \A d \in Definitions \ contested' : made'[d] = made[d]
  <2>1. CASE made' = made
    BY <1>1, <2>1
  <2>2. CASE Materialize(r) /\ r.def \in contested'
    <3>1. Append(made[r.def], r.at) \in Seq(Nat)
      BY <1>1, <1>2
    <3> QED
      BY <1>1, <1>2, <2>2, <3>1 DEF Materialize
  <2> QED
    BY <2>1, <2>2
<1>4. SchedulerTypeOK'
  BY <1>1, <1>3 DEF TicksInv, SchedulerTypeOK
<1>5. RowsInHand'
  BY <1>1 DEF TicksInv, RowsInHand
<1>6. \A d \in Definitions \ defined' : made'[d] = <<>>
  BY <1>1, <1>2 DEF TicksInv, Materialize
<1>7. ASSUME NEW d \in Definitions \ contested' PROVE Orderly(d)'
  <2>1. Orderly(d) /\ made'[d] = made[d]
    BY <1>3, <1>7 DEF TicksInv
  <2>2. HeldAlone(d)'
    BY <1>1, <2>1 DEF Orderly, HeldAlone
  <2>3. Advancing(d) => Advancing(d)'
    BY <1>1, <1>7 DEF Advancing
  <2>4. MadeInOrder(d)'
    BY <2>1, <2>3 DEF Orderly, MadeInOrder
  <2> QED
    BY <2>2, <2>4 DEF Orderly
<1> QED
  BY <1>4, <1>5, <1>6, <1>7 DEF TicksInv

LEMMA FindDueStep == ASSUME TicksInv, NEW t \in Ticks, FindDue(t) PROVE TicksInv'
<1>1. /\ rows \in [Ticks -> SUBSET Row] /\ advancing \in [Ticks -> SUBSET (Row \X Nat)]
      /\ nextRunAt \in [Definitions -> Nat] /\ isActive \subseteq defined
      /\ rows[t] = {} /\ rows' = [rows EXCEPT ![t] = DueRows]
      /\ UNCHANGED <<minute, defined, isActive, nextRunAt, advancing, made>>
      /\ contested' = contested \cup {d \in Definitions : Due(d) /\ InHand(d)}
  BY DEF TicksInv, SchedulerTypeOK, FindDue
<1>2. /\ DueRows \subseteq Row
      /\ \A r \in DueRows : r.at <= minute /\ r.def \in defined
                            /\ r.at = nextRunAt[r.def] /\ Due(r.def)
  BY <1>1 DEF DueRows, Due, Row
<1>3. advancing[t] = {}
  BY <1>1 DEF TicksInv, RowsInHand
<1>4. SchedulerTypeOK'
  BY <1>1, <1>2 DEF TicksInv, SchedulerTypeOK
<1>5. RowsInHand'
  BY <1>1, <1>2, <1>3 DEF TicksInv, RowsInHand
<1>6. ASSUME NEW d \in Definitions \ contested' PROVE Orderly(d)'
  <2>1. Orderly(d) /\ ~(Due(d) /\ InHand(d))
    BY <1>1, <1>6 DEF TicksInv
  <2>2. HeldAlone(d)'
    <3> SUFFICES ASSUME NEW u \in Ticks, NEW v \in Ticks, NEW r \in rows'[u], NEW q \in rows'[v],
                        r.def = d, q.def = d
                 PROVE  u = v /\ r = q /\ r.at = nextRunAt'[d]
      BY DEF HeldAlone
    <3>1. CASE u = t /\ v = t
      BY <1>1, <1>2, <3>1 DEF DueRows
    <3>2. CASE u # t /\ v # t
      BY <1>1, <2>1, <3>2 DEF Orderly, HeldAlone
    <3>3. CASE u = t /\ v # t
      BY <1>1, <1>2, <2>1, <3>3 DEF InHand
    <3>4. CASE u # t /\ v = t
      BY <1>1, <1>2, <2>1, <3>4 DEF InHand
    <3> QED
      BY <3>1, <3>2, <3>3, <3>4
  <2>3. MadeInOrder(d)'
    BY <1>1, <2>1 DEF Orderly, MadeInOrder, Advancing
  <2> QED
    BY <2>2, <2>3 DEF Orderly
<1> QED
  BY <1>1, <1>4, <1>5, <1>6 DEF TicksInv

LEMMA CreateJobStep ==
  ASSUME TicksInv, NEW t \in Ticks, NEW r \in rows[t], CreateJob(t, r) PROVE TicksInv'
<1> DEFINE c == r.def
           n == NextRun(c)
<1>1. /\ rows \in [Ticks -> SUBSET Row] /\ advancing \in [Ticks -> SUBSET (Row \X Nat)]
      /\ made \in [Definitions -> Seq(Nat)] /\ r \in Row /\ minute \in Nat
      /\ advancing[t] = {} /\ advancing' = [advancing EXCEPT ![t] = {<<r, n>>}]
      /\ made' = [made EXCEPT ![c] = Append(@, r.at)]
      /\ UNCHANGED <<minute, defined, isActive, nextRunAt, rows, contested>>
      /\ Period[c] > 0
  BY DEF TicksInv, SchedulerTypeOK, CreateJob, Materialize, Recurs
<1>2. c \in Definitions /\ r.at \in Nat /\ c \in defined /\ r.at <= minute
  BY <1>1 DEF Row, TicksInv, RowsInHand
<1>3. n \in Nat /\ n > r.at
  BY <1>1, <1>2, NextRunIsAhead
<1> HIDE DEF c, n
<1>4. Append(made[c], r.at) \in Seq(Nat)
  BY <1>1, <1>2
<1>5. SchedulerTypeOK'
  BY <1>1, <1>2, <1>3, <1>4 DEF TicksInv, SchedulerTypeOK
<1>6. RowsInHand'
  BY <1>1, <1>3 DEF TicksInv, RowsInHand
<1>7. \A d \in Definitions \ defined' : made'[d] = <<>>
  BY <1>1, <1>2 DEF TicksInv
<1>8. ASSUME NEW d \in Definitions \ contested' PROVE Orderly(d)'
  <2>1. Orderly(d) /\ HeldAlone(d)'
    BY <1>1, <1>8 DEF TicksInv, Orderly, HeldAlone
  <2>2. CASE d # c
    <3>1. Advancing(d) => Advancing(d)'
      BY <1>1 DEF Advancing
    <3> QED
      BY <1>1, <2>1, <2>2, <3>1 DEF Orderly, MadeInOrder
  <2>3. CASE d = c
    <3>1. ~Advancing(d) /\ r.at = nextRunAt[d]
      BY <1>1, <2>1, <2>3 DEF Orderly, HeldAlone, Advancing, TicksInv, RowsInHand, c
    <3>2. \A i \in 1..Len(made[d]) : made[d][i] < r.at
      BY <2>1, <3>1 DEF Orderly, MadeInOrder
    <3>3. /\ made'[d] = Append(made[d], r.at) /\ Len(made'[d]) = Len(made[d]) + 1
          /\ \A i \in 1..Len(made[d]) : made'[d][i] = made[d][i]
          /\ made'[d][Len(made[d]) + 1] = r.at
      BY <1>1, <1>2, <2>3
    <3>4. Advancing(d)'
      BY <1>1, <2>3 DEF Advancing, c
    <3>5. \A i, j \in 1..Len(made'[d]) : i < j => made'[d][i] < made'[d][j]
      <4> SUFFICES ASSUME NEW i \in 1..Len(made'[d]), NEW j \in 1..Len(made'[d]), i < j
                   PROVE  made'[d][i] < made'[d][j]
        OBVIOUS
      <4>1. Len(made[d]) \in Nat /\ i \in 1..Len(made[d])
        BY <1>1, <1>2, <2>3, <3>3
      <4>2. CASE j \in 1..Len(made[d])
        BY <2>1, <3>3, <4>1, <4>2 DEF Orderly, MadeInOrder
      <4>3. CASE j = Len(made[d]) + 1
        BY <3>2, <3>3, <4>1, <4>3
      <4> QED
        BY <3>3, <4>1, <4>2, <4>3
    <3>6. ASSUME NEW i \in 1..Len(made'[d])
          PROVE  made'[d][i] < nextRunAt'[d] \/ made'[d][i] = nextRunAt'[d]
      <4>1. nextRunAt'[d] = r.at /\ Len(made[d]) \in Nat
        BY <1>1, <1>2, <2>3, <3>1
      <4>2. i \in 1..Len(made[d]) \/ i = Len(made[d]) + 1
        BY <3>3, <4>1
      <4> QED
        BY <3>2, <3>3, <4>1, <4>2
    <3>7. MadeInOrder(d)'
      BY <3>4, <3>5, <3>6 DEF MadeInOrder
    <3> QED
      BY <2>1, <3>7 DEF Orderly
  <2> QED
    BY <2>2, <2>3
<1> QED
  BY <1>5, <1>6, <1>7, <1>8 DEF TicksInv

LEMMA AdvanceStep == ASSUME TicksInv, NEW t \in Ticks, Advance(t) PROVE TicksInv'
<1>1. PICK a \in advancing[t] :
        /\ nextRunAt' = [nextRunAt EXCEPT ![a[1].def] = a[2]]
        /\ rows' = [rows EXCEPT ![t] = @ \ {a[1]}]
        /\ advancing' = [advancing EXCEPT ![t] = {}]
        /\ UNCHANGED <<minute, defined, isActive, made, contested>>
  BY DEF Advance, Drop
<1> DEFINE r == a[1]
<1>2. /\ rows \in [Ticks -> SUBSET Row] /\ advancing \in [Ticks -> SUBSET (Row \X Nat)]
      /\ nextRunAt \in [Definitions -> Nat] /\ made \in [Definitions -> Seq(Nat)]
      /\ a \in Row \X Nat /\ r \in rows[t] /\ a[2] > r.at /\ advancing[t] = {a}
  BY DEF TicksInv, SchedulerTypeOK, RowsInHand
<1>3. r \in Row /\ r.def \in Definitions /\ r.at \in Nat /\ a[2] \in Nat
  BY <1>2 DEF Row
<1>4. SchedulerTypeOK'
  BY <1>1, <1>2, <1>3 DEF TicksInv, SchedulerTypeOK
<1>5. RowsInHand'
  BY <1>1, <1>2 DEF TicksInv, RowsInHand
<1>6. \A d \in Definitions \ defined' : made'[d] = <<>>
  BY <1>1 DEF TicksInv
<1>7. ASSUME NEW d \in Definitions \ contested' PROVE Orderly(d)'
  <2>1. Orderly(d)
    BY <1>1, <1>7 DEF TicksInv
  <2>2. CASE d = r.def
    <3>1. nextRunAt[d] = r.at /\ nextRunAt'[d] = a[2]
      BY <1>1, <1>2, <1>3, <2>1, <2>2 DEF Orderly, HeldAlone
    <3>2. HeldAlone(d)'
      BY <1>1, <1>2, <2>1, <2>2 DEF Orderly, HeldAlone
    <3>3. ASSUME NEW i \in 1..Len(made[d]) PROVE made[d][i] < a[2]
      <4>1. made[d] \in Seq(Nat)
        BY <1>2
      <4>2. made[d][i] \in Nat
        BY <4>1
      <4>3. made[d][i] < nextRunAt[d] \/ made[d][i] = nextRunAt[d]
        BY <2>1 DEF Orderly, MadeInOrder
      <4>4. nextRunAt[d] \in Nat /\ nextRunAt[d] < a[2] /\ a[2] \in Nat
        BY <1>2, <1>3, <3>1
      <4> QED
        BY <4>2, <4>3, <4>4
    <3>4. MadeInOrder(d)'
      BY <1>1, <2>1, <3>1, <3>3 DEF Orderly, MadeInOrder
    <3> QED
      BY <3>2, <3>4 DEF Orderly
  <2>3. CASE d # r.def
    <3>1. nextRunAt'[d] = nextRunAt[d] /\ HeldAlone(d)'
      BY <1>1, <1>2, <2>1, <2>3 DEF Orderly, HeldAlone
    <3>2. Advancing(d) => Advancing(d)'
      BY <1>1, <1>2, <2>3 DEF Advancing
    <3> QED
      BY <1>1, <2>1, <3>1, <3>2 DEF Orderly, MadeInOrder
  <2> QED
    BY <2>2, <2>3
<1> QED
  BY <1>4, <1>5, <1>6, <1>7 DEF TicksInv

LEMMA TickDiesStep == ASSUME TicksInv, NEW t \in Ticks, TickDies(t) PROVE TicksInv'
<1>1. /\ rows \in [Ticks -> SUBSET Row] /\ advancing \in [Ticks -> SUBSET (Row \X Nat)]
      /\ rows' = [rows EXCEPT ![t] = {}] /\ advancing' = [advancing EXCEPT ![t] = {}]
      /\ contested' = contested \cup {a[1].def : a \in advancing[t]}
      /\ UNCHANGED <<minute, defined, isActive, nextRunAt, made>>
  BY DEF TicksInv, SchedulerTypeOK, TickDies
<1>2. \A a \in advancing[t] : a[1].def \in Definitions
  BY <1>1 DEF Row
<1>3. SchedulerTypeOK' /\ RowsInHand'
  BY <1>1, <1>2 DEF TicksInv, SchedulerTypeOK, RowsInHand
<1>4. ASSUME NEW d \in Definitions \ contested' PROVE Orderly(d)'
  <2>1. Orderly(d) /\ (Advancing(d) => Advancing(d)')
    BY <1>1, <1>4 DEF TicksInv, Advancing
  <2>2. HeldAlone(d)'
    BY <1>1, <2>1 DEF Orderly, HeldAlone
  <2> QED
    BY <1>1, <2>1, <2>2 DEF Orderly, MadeInOrder
<1> QED
  BY <1>1, <1>3, <1>4 DEF TicksInv

\* A new definition is nobody's yet.
LEMMA NewDefinitionStep ==
  ASSUME TicksInv, NEW c \in Definitions \ defined, StoreDefinition(c) PROVE TicksInv'
<1>1. /\ defined' = defined \cup {c} /\ isActive' = isActive \cup {c}
      /\ nextRunAt' = [nextRunAt EXCEPT ![c] = minute + 1]
      /\ UNCHANGED <<minute, rows, advancing, made, contested>>
  BY DEF StoreDefinition
<1>2. SchedulerTypeOK' /\ RowsInHand'
  BY <1>1 DEF TicksInv, SchedulerTypeOK, RowsInHand
<1>3. made[c] = <<>> /\ \A t \in Ticks : \A r \in rows[t] : r.def # c
  BY DEF TicksInv, RowsInHand
<1>4. ASSUME NEW d \in Definitions \ contested' PROVE Orderly(d)'
  <2>1. Orderly(d)
    BY <1>1, <1>4 DEF TicksInv
  <2>2. CASE d = c
    BY <1>1, <1>3, <2>2 DEF Orderly, HeldAlone, MadeInOrder
  <2>3. CASE d # c
    BY <1>1, <2>1, <2>3 DEF Orderly, HeldAlone, MadeInOrder, Advancing, TicksInv, SchedulerTypeOK
  <2> QED
    BY <2>2, <2>3
<1> QED
  BY <1>1, <1>2, <1>4 DEF TicksInv

\* The clock and the other steps of the routes.
LEMMA TicksFrame ==
  ASSUME TicksInv, minute' \in Nat, minute' >= minute,
         UNCHANGED <<defined, isActive, nextRunAt, rows, advancing, made, contested>>
  PROVE  TicksInv'
<1>1. SchedulerTypeOK'
  BY DEF TicksInv, SchedulerTypeOK
<1>2. RowsInHand'
  <2>1. \A t \in Ticks : \A r \in rows[t] : r.at \in Nat
    BY DEF TicksInv, SchedulerTypeOK, Row
  <2> QED
    BY <2>1 DEF TicksInv, SchedulerTypeOK, RowsInHand
<1>3. ASSUME NEW d \in Definitions \ contested' PROVE Orderly(d)'
  BY <1>3 DEF TicksInv, Orderly, HeldAlone, MadeInOrder, Advancing
<1> QED
  BY <1>1, <1>2, <1>3 DEF TicksInv

LEMMA TickStepKeepsTicks ==
  ASSUME TicksInv, NEW t \in Ticks, TickStep(t) PROVE TicksInv'
<1>1. CASE FindDue(t)
  BY <1>1, FindDueStep
<1>2. ASSUME NEW r \in rows[t], SkipMalformed(t, r) PROVE TicksInv'
  BY <1>2, DropStep DEF SkipMalformed, TicksInv, SchedulerTypeOK
<1>3. ASSUME NEW r \in rows[t], Deactivate(t, r) PROVE TicksInv'
  BY <1>3, DropStep DEF Deactivate, TicksInv, SchedulerTypeOK
<1>4. ASSUME NEW r \in rows[t], CreateJob(t, r) PROVE TicksInv'
  BY <1>4, CreateJobStep
<1>5. CASE Advance(t)
  BY <1>5, AdvanceStep
<1> QED
  BY <1>1, <1>2, <1>3, <1>4, <1>5 DEF TickStep

LEMMA TickFaultKeepsTicks ==
  ASSUME TicksInv, NEW t \in Ticks, TickFault(t) PROVE TicksInv'
<1>1. contested \subseteq Definitions /\ rows \in [Ticks -> SUBSET Row]
  BY DEF TicksInv, SchedulerTypeOK
<1>2. ASSUME NEW r \in rows[t], RowFails(t, r) PROVE TicksInv'
  <2>1. r.def \in Definitions
    BY <1>1 DEF Row
  <2> QED
    BY <1>1, <1>2, <2>1, DropStep DEF RowFails
<1>3. CASE AdvanceFails(t)
  <2>1. PICK a \in advancing[t] :
          /\ Drop(t, a[1]) /\ contested' = contested \cup {a[1].def}
          /\ UNCHANGED <<minute, defined, isActive, nextRunAt, made>>
    BY <1>3 DEF AdvanceFails
  <2>2. a[1] \in rows[t] /\ \A b \in advancing[t] : b = a
    BY DEF TicksInv, RowsInHand
  <2>3. a[1].def \in Definitions
    BY <1>1, <2>2 DEF Row
  <2> QED
    BY <1>1, <2>1, <2>2, <2>3, DropStep
<1>4. CASE TickDies(t)
  BY <1>4, TickDiesStep
<1> QED
  BY <1>2, <1>3, <1>4 DEF TickFault

\* The only step of a route that the ticks notice is a new definition.
LEMMA RoutesKeepTicks ==
  ASSUME RoutesInv, TicksInv, NEW r \in Requests, RequestStep(r) \/ RequestFault(r)
  PROVE  TicksInv'
<1>1. CASE StoreDefinition(r)
  <2>1. r \in Definitions \ defined
    BY <1>1 DEF StoreDefinition, IsCron, RoutesInv, Told
  <2> QED
    BY <1>1, <2>1, NewDefinitionStep
<1>2. CASE UNCHANGED schedulerVars
  <2>1. minute \in Nat /\ minute' = minute
    BY <1>2 DEF schedulerVars, TicksInv, SchedulerTypeOK
  <2> QED
    BY <1>2, <2>1, TicksFrame DEF schedulerVars
<1>3. StoreDefinition(r) \/ UNCHANGED schedulerVars
  BY DEF RequestStep, RequestFault, Unheard, CheckPasses, CheckFindsKey, Insert,
         InsertConflict, DeadlockVictim, Commit, CreateDefinition, Publish
<1> QED
  BY <1>1, <1>2, <1>3

LEMMA TicksNext == RoutesInv /\ TicksInv /\ [IntakeNext]_intakeVars => TicksInv'
<1> SUFFICES ASSUME RoutesInv, TicksInv, [IntakeNext]_intakeVars PROVE TicksInv'
  OBVIOUS
<1>1. ASSUME NEW r \in Requests, RequestStep(r) \/ RequestFault(r) PROVE TicksInv'
  BY <1>1, RoutesKeepTicks
<1>2. ASSUME NEW t \in Ticks, TickStep(t) \/ TickFault(t) PROVE TicksInv'
  BY <1>2, TickStepKeepsTicks, TickFaultKeepsTicks
<1>3. minute \in Nat
  BY DEF TicksInv, SchedulerTypeOK
<1>4. CASE MinutePasses
  BY <1>3, <1>4, TicksFrame DEF MinutePasses
<1>5. CASE UNCHANGED intakeVars
  BY <1>3, <1>5, TicksFrame DEF intakeVars, schedulerVars
<1> QED
  BY <1>1, <1>2, <1>4, <1>5 DEF IntakeNext

\* However many workers tick, and whatever fails, only a definition that two
\* ticks had in hand at once, or that one left half done, ever gets a second
\* job for a run time (scheduler.ts).
THEOREM RunTimesAreOnce == IntakeSpec => []OneJobPerRunTime
<1>1. IntakeInit => RoutesInv /\ TicksInv
  BY RoutesInitially, TicksInitially DEF IntakeInit, SchedulerInit
<1>2. RoutesInv /\ TicksInv /\ [IntakeNext]_intakeVars => RoutesInv' /\ TicksInv'
  BY RoutesNext, TicksNext
<1>3. TicksInv => OneJobPerRunTime
  BY DEF TicksInv, SchedulerTypeOK, Orderly, MadeInOrder, OneJobPerRunTime
<1> QED
  BY <1>1, <1>2, <1>3, PTL DEF IntakeSpec

\* Every variable of the routes and the ticks keeps its type.
THEOREM IntakeTypeCorrect == IntakeSpec => []IntakeTypeOK
<1> DEFINE Typed == RoutesInv /\ TicksInv /\ faults \in Nat
<1>1. IntakeInit => Typed
  BY RoutesInitially, TicksInitially DEF IntakeInit, SchedulerInit
<1>2. Typed /\ [IntakeNext]_intakeVars => Typed'
  <2>1. faults \in Nat /\ [IntakeNext]_intakeVars => faults' \in Nat
    BY DEF IntakeNext, intakeVars, RequestStep, RequestFault, TickStep, TickFault,
           MinutePasses, CheckPasses, CheckFindsKey, Insert, InsertConflict, DeadlockVictim,
           Commit, CreateDefinition, Publish, FindDue, SkipMalformed, Deactivate, CreateJob,
           Advance
  <2> QED
    BY <2>1, RoutesNext, TicksNext
<1>3. Typed => IntakeTypeOK
  BY DEF RoutesInv, TicksInv, IntakeTypeOK
<1> QED
  BY <1>1, <1>2, <1>3, PTL DEF IntakeSpec
=============================================================================

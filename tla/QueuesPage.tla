----------------------------- MODULE QueuesPage -----------------------------
(***************************************************************************)
(* The dashboard's page of queues (web/app/queues/page.tsx) over the routes *)
(* of Projects.  It picks the first project, loads the queues of the        *)
(* project whenever the user picks another one, and again after it made a   *)
(* queue, with the loadQueues of the render where the form was sent.       *)
(*                                                                         *)
(* Stages of a call: "idle", "creating", "patching", "asked" (GET           *)
(* /projects/:id/queues) and "done".                                       *)
(***************************************************************************)
EXTENDS Projects, FiniteSets

CONSTANTS
  Me,       \* the user of the page
  Fetches,  \* calls under way at once, a bound
  MaxClicks \* bound on what the user does

ASSUME MeAssumption == Me \in People
ASSUME ClicksAssumption == MaxClicks \in Nat

VARIABLES
  known,  \* projects in the select
  asked,  \* GET /projects under way
  chosen, \* selectedProject
  table,  \* the queues on the screen, their settings and the project they are of
  fetch,  \* fetch[c]
  clicks, \* what the user did so far
  mixed,  \* calls were under way at once since an answer for chosen came last
  missed  \* a call failed since then

queuesPageVars == <<known, asked, chosen, table, fetch, clicks, mixed, missed>>

NoTable == [of |-> None, queues |-> {}, paused |-> {}]
Still == [stage |-> "idle", of |-> None, id |-> None, queues |-> {}, paused |-> {}]

QueuesPageInit ==
  /\ known = {} /\ asked = 1 /\ chosen = None
  /\ table = NoTable
  /\ fetch = [c \in Fetches |-> Still]
  /\ clicks = 0
  /\ mixed = FALSE /\ missed = FALSE

QueuesPageTypeOK ==
  /\ known \subseteq ProjectIds /\ chosen \in known \cup {None}
  /\ asked \in Nat
  /\ table.of \in known \cup {None}
  /\ \A q \in table.queues : queue[q].project = table.of
  /\ \A c \in Fetches : fetch[c].stage \in {"idle", "creating", "patching", "asked", "done"}
  /\ clicks \in 0..MaxClicks

NoFetch == \A c \in Fetches : fetch[c].stage = "idle"
Start(c, stage, of, id) ==
  /\ fetch[c].stage = "idle"
  /\ fetch' = [fetch EXCEPT ![c] = [Still EXCEPT !.stage = stage, !.of = of, !.id = id]]
Release(c) == fetch' = [fetch EXCEPT ![c] = Still]
UserClicks == clicks < MaxClicks /\ clicks' = clicks + 1

\* A choice runs the effects: loadProjects (the first one's answer is here
\* already) and loadQueues.
Choose(p) ==
  /\ chosen' = p
  /\ asked' = IF chosen = None THEN asked ELSE asked + 1
  /\ \E c \in Fetches : Start(c, "asked", p, None)
  /\ mixed' = (mixed \/ ~NoFetch)

\* loadProjects: the projects of the user's organizations; with none chosen yet,
\* the first is.
ProjectsCome ==
  /\ asked > 0
  /\ LET mine == {p \in ProjectIds : project[p] # None /\ Role[project[p]][Me] # NoRole}
     IN /\ known' = mine
        /\ IF chosen = None /\ mine # {}
           THEN \E first \in mine : Choose(first)
           ELSE asked' = asked - 1 /\ UNCHANGED <<chosen, fetch, mixed>>
  /\ UNCHANGED <<table, clicks, missed, projectVars>>

ProjectsFail ==
  /\ asked > 0
  /\ asked' = asked - 1
  /\ UNCHANGED <<known, chosen, table, fetch, clicks, mixed, missed, projectVars>>

\* Mutant: the effect of the choice is not run.
ChooseProjectOnly(p) ==
  /\ UserClicks
  /\ p \in known \ {chosen}
  /\ chosen' = p
  /\ UNCHANGED <<known, asked, table, fetch, mixed, missed, projectVars>>

\* The project select.
ChooseProject(p) ==
  /\ UserClicks
  /\ p \in known \ {chosen}
  /\ Choose(p)
  /\ UNCHANGED <<known, table, missed, projectVars>>

\* createQueue, togglePause and saveConcurrency: the request.
SendForm ==
  /\ UserClicks
  /\ chosen # None
  /\ \E c \in Fetches :
       \/ \E q \in QueueIds : Start(c, "creating", chosen, q)
       \/ \E q \in table.queues : Start(c, "patching", chosen, q)
  /\ mixed' = (mixed \/ ~NoFetch)
  /\ UNCHANGED <<known, asked, chosen, table, missed, projectVars>>

\* The queue is made, and the list loaded again; or the route refuses, or the
\* name is taken.
CreatesQueue(c) ==
  /\ fetch[c].stage = "creating"
  /\ \/ CreateQueue(Me, fetch[c].of, fetch[c].id)
          /\ fetch' = [fetch EXCEPT ![c].stage = "asked"]
     \/ Release(c) /\ UNCHANGED projectVars
  /\ UNCHANGED <<known, asked, chosen, table, clicks, mixed, missed>>

\* The PATCH of a queue, by the settings on the screen; it is always refused.
PatchesQueue(c) ==
  /\ fetch[c].stage = "patching"
  /\ PatchQueue(Me, fetch[c].id, fetch[c].id \notin table.paused)
  /\ Release(c)
  /\ UNCHANGED <<known, asked, chosen, table, clicks, mixed, missed>>

\* Mutant: the query has no where clause.
QueuesAnswerAll(c) ==
  /\ fetch[c].stage = "asked"
  /\ Passes(Me, "member", "projectId", fetch[c].of)
  /\ LET rows == {q \in QueueIds : Exists(q)}
     IN fetch' = [fetch EXCEPT ![c].stage = "done", ![c].queues = rows,
                               ![c].paused = {q \in rows : queue[q].paused}]
  /\ UNCHANGED <<known, asked, chosen, table, clicks, mixed, missed, projectVars>>

QueuesAnswer(c) ==
  /\ fetch[c].stage = "asked"
  /\ Passes(Me, "member", "projectId", fetch[c].of)
  /\ LET rows == {q \in QueueIds : Exists(q) /\ queue[q].project = fetch[c].of}
     IN fetch' = [fetch EXCEPT ![c].stage = "done", ![c].queues = rows,
                               ![c].paused = {q \in rows : queue[q].paused}]
  /\ UNCHANGED <<known, asked, chosen, table, clicks, mixed, missed, projectVars>>

\* The answer is shown, whatever the choice is by now.
QueuesCome(c) ==
  /\ fetch[c].stage = "done"
  /\ table' = [of |-> fetch[c].of, queues |-> fetch[c].queues, paused |-> fetch[c].paused]
  /\ Release(c)
  /\ LET current == fetch[c].of = chosen
         others == \E d \in Fetches \ {c} : fetch[d].stage # "idle"
     IN /\ mixed' = IF current THEN others ELSE mixed
        /\ missed' = (missed /\ ~current)
  /\ UNCHANGED <<known, asked, chosen, clicks, projectVars>>

FetchFails(c) ==
  /\ fetch[c].stage \in {"asked", "done"}
  /\ Release(c)
  /\ missed' = TRUE
  /\ UNCHANGED <<known, asked, chosen, table, clicks, mixed, projectVars>>

\* Other users, through the API.
OthersAct ==
  /\ \/ \E u \in People, o \in Orgs, p \in ProjectIds : CreateProject(u, o, p)
     \/ \E u \in People, p \in ProjectIds, q \in QueueIds : CreateQueue(u, p, q)
     \/ \E u \in People, q \in QueueIds, j \in JobIds : SubmitTo(u, q, j)
  /\ UNCHANGED queuesPageVars

QueuesPageNext ==
  \/ \E c \in Fetches :
       CreatesQueue(c) \/ PatchesQueue(c) \/ QueuesAnswer(c)
         \/ QueuesCome(c) \/ FetchFails(c)
  \/ ProjectsCome \/ ProjectsFail
  \/ \E p \in ProjectIds : ChooseProject(p)
  \/ SendForm
  \/ OthersAct

-----------------------------------------------------------------------------
\* At rest the table shows the queues of the project in the select, unless calls
\* overlapped or the last one failed (page.tsx).
QueuesAreOfProject ==
  NoFetch /\ ~mixed /\ ~missed => table.of = chosen

\* A queue is made by an admin or the owner of the organization whose project it
\* is in (rbac.ts, queues.ts).
QueuesMadeByAdmins ==
  \A q \in QueueIds : Exists(q) => Role[OrgOf(q)][queue[q].by] \in {"admin", "owner"}

\* No request changes the settings of a queue: PATCH /queues/:id asks the guard
\* for a parameter that it takes for a job's (rbac.ts, queues.ts).  The model of
\* the workers relies on it, whose limits and pauses are constants.
QueueSettingsFixed ==
  [][\A q \in QueueIds : Exists(q) => queue'[q] = queue[q]]_<<projectVars, queuesPageVars>>
=============================================================================

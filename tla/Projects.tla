------------------------------ MODULE Projects ------------------------------
(***************************************************************************)
(* Who may do what with projects and queues: api/src/middleware/rbac.ts and *)
(* the routes of api/src/routes/projects.ts and queues.ts that write.  No   *)
(* code deletes a project, queue or membership or changes a role, so a      *)
(* request's reads, guard and write are one step here.                     *)
(***************************************************************************)
EXTENDS Naturals

CONSTANTS
  People,
  Orgs,
  Role,       \* Role[o][u], from org_memberships; NoRole if there is no row
  NoRole,
  ProjectIds, \* bounds on the rows
  QueueIds,
  JobIds,     \* jobs; ids of all tables are cuids, so they differ
  None

ASSUME RoleAssumption == Role \in [Orgs -> [People -> {"member", "admin", "owner", NoRole}]]
ASSUME IdsAssumption ==
  /\ ProjectIds \cap QueueIds = {} /\ ProjectIds \cap JobIds = {} /\ QueueIds \cap JobIds = {}
  /\ None \notin Orgs \cup ProjectIds \cup QueueIds

VARIABLES
  project, \* project[p]: its organization, None before it is created
  queue,   \* queue[q]: its project, settings and who created it
  job      \* job[j]: its queue

projectVars == <<project, queue, job>>

NewQueue(p, u) == [project |-> p, paused |-> FALSE, by |-> u]
NoQueue == NewQueue(None, None)

ProjectsInit ==
  /\ project = [p \in ProjectIds |-> None]
  /\ queue = [q \in QueueIds |-> NoQueue]
  /\ job = [j \in JobIds |-> None]

ProjectsTypeOK ==
  /\ project \in [ProjectIds -> Orgs \cup {None}]
  /\ queue \in [QueueIds -> [project : ProjectIds \cup {None}, paused : BOOLEAN,
                             by : People \cup {None}]]
  /\ job \in [JobIds -> QueueIds \cup {None}]
  /\ \A q \in QueueIds : queue[q].project # None => project[queue[q].project] # None

Exists(q) == queue[q].project # None
OrgOf(q) == project[queue[q].project]

\* ROLE_HIERARCHY.
Rank == [member |-> 1, admin |-> 2, owner |-> 3]

\* Mutant: a parameter called id is looked up among the queues too.
ResolveQueueIds(param, id) ==
  CASE param = "projectId" -> project[id]
    [] param = "queueId" \/ id \in QueueIds -> IF Exists(id) THEN OrgOf(id) ELSE None
    [] OTHER -> IF job[id] # None THEN OrgOf(job[id]) ELSE None

\* requireOrgMember: the organization named by the parameters of the route, in
\* this order; a parameter called id is looked up among the jobs.
Resolve(param, id) ==
  CASE param = "projectId" -> project[id]
    [] param = "queueId" -> IF Exists(id) THEN OrgOf(id) ELSE None
    [] param = "id" -> IF id \in JobIds THEN (IF job[id] # None THEN OrgOf(job[id]) ELSE None)
                       ELSE None

\* Mutant: the roles are compared the wrong way round.
PassesReversed(u, minRole, param, id) ==
  /\ Resolve(param, id) # None
  /\ LET role == Role[Resolve(param, id)][u] IN role # NoRole /\ Rank[role] <= Rank[minRole]

Passes(u, minRole, param, id) ==
  /\ Resolve(param, id) # None
  /\ LET role == Role[Resolve(param, id)][u] IN role # NoRole /\ Rank[role] >= Rank[minRole]

-----------------------------------------------------------------------------
\* POST /projects: any member of the organization.
CreateProject(u, o, p) ==
  /\ project[p] = None
  /\ Role[o][u] # NoRole
  /\ project' = [project EXCEPT ![p] = o]
  /\ UNCHANGED <<queue, job>>

\* Mutant: no guard; the service trusts the page.
CreateQueueUnguarded(u, p, q) ==
  /\ ~Exists(q)
  /\ queue' = [queue EXCEPT ![q] = NewQueue(p, u)]
  /\ UNCHANGED <<project, job>>

\* POST /projects/:projectId/queues.
CreateQueue(u, p, q) ==
  /\ ~Exists(q)
  /\ Passes(u, "admin", "projectId", p)
  /\ queue' = [queue EXCEPT ![q] = NewQueue(p, u)]
  /\ UNCHANGED <<project, job>>

\* PATCH /queues/:id changes what the body names.
Patched(u, q, paused) ==
  IF Passes(u, "admin", "id", q) /\ Exists(q) THEN [queue EXCEPT ![q].paused = paused] ELSE queue
PatchQueue(u, q, paused) ==
  /\ queue' = Patched(u, q, paused)
  /\ UNCHANGED <<project, job>>

\* POST /queues/:queueId/jobs, here only as far as its guard goes.
SubmitTo(u, q, j) ==
  /\ job[j] = None
  /\ Passes(u, "member", "queueId", q)
  /\ job' = [job EXCEPT ![j] = q]
  /\ UNCHANGED <<project, queue>>
=============================================================================

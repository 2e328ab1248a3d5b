------------------------------ MODULE JobsPage ------------------------------
(***************************************************************************)
(* The dashboard's page of jobs (web/app/jobs/page.tsx) over GET /jobs.  A  *)
(* view is a filter and a page number.  React runs loadJobs anew whenever   *)
(* the view changes; the Retry and Cancel buttons run, after their request, *)
(* the loadJobs of the render they were clicked in.  Calls overlap, their   *)
(* answers come back in any order, and each one is shown as it comes.      *)
(*                                                                         *)
(* The jobs are those of one user, in the order of the list.  Stages of a   *)
(* call: "idle", "posting", "asked", "found" or "counted" (one of the two   *)
(* queries is done), "done" and "detail" (of the drawer).                   *)
(***************************************************************************)
EXTENDS Listing, FiniteSets

CONSTANTS
  Jobs,     \* jobs that are ever in the list
  Calls,    \* calls under way at once, a bound
  PageSize, \* LIMIT
  NoJob,
  MaxMoves  \* bound on what the user does

ASSUME PageSizeAssumption == PageSize \in 1..MaxLimit
ASSUME NoJobAssumption == NoJob \notin Jobs
ASSUME MovesAssumption == MaxMoves \in Nat

VARIABLES
  list,     \* the user's jobs
  before,   \* before[j]: those that GET /jobs lists before j
  waiting,  \* those of them that are queued or scheduled
  view,     \* the filters and page
  shown,    \* the answer on the screen: jobs, total and the view it is for
  loading,
  call,     \* call[c]
  selected, \* the job in the drawer
  details,  \* the job whose executions and logs the drawer shows
  moves,    \* what the user did so far
  past      \* what happened, see History

pageVars == <<list, before, waiting, view, shown, loading, call, selected, details,
              moves, past>>

Filters == {"all", "waiting"}
Blank == [filter |-> "all", page |-> 1]
Idle == [stage |-> "idle", view |-> Blank, jobs |-> {}, total |-> 0,
         rest |-> {}, torn |-> FALSE, job |-> NoJob, closes |-> FALSE]

Matches(j, filter) == filter = "all" \/ j \in waiting
RowsFor(filter) == {j \in list : Matches(j, filter)}
\* Rows of the filter before j, in the order by priority, run time and creation.
Place(j, filter) == Cardinality({k \in before[j] : Matches(k, filter)})

\* Mutant: one row too many, to see whether there are more.
FindJobsAndOne(v) ==
  LET skip == Skip(PageNumber(v.page), Limit(PageSize))
  IN {j \in RowsFor(v.filter) : Place(j, v.filter) \in skip..(skip + Limit(PageSize))}

\* findMany of the jobs with skip and take.
FindJobs(v) ==
  LET skip == Skip(PageNumber(v.page), Limit(PageSize))
  IN {j \in RowsFor(v.filter) : Place(j, v.filter) \in skip..(skip + Limit(PageSize) - 1)}

Resting == \A c \in Calls : call[c].stage = "idle"
Pages(answer) == TotalPages(answer.total, PageSize)

\* overlap: calls were under way at once, failed: one failed, since an answer for
\* the view came last.  walked: pages of the filter that were shown, the first
\* one first; missed: jobs in the list since then and not on them.  A walk is
\* over when a job leaves the list or changes its place, and when an answer is
\* shown while another one is on its way.  astray: since the first page was
\* shown with no other call under way, a job left the list, or the user went to
\* a page that another filter's answer offered.  blurred: a drawer was opened
\* while another's answers were on the way.
History ==
  [overlap |-> FALSE, failed |-> FALSE, walked |-> 0, missed |-> {}, astray |-> FALSE,
   blurred |-> FALSE]

PageInit ==
  /\ list = {} /\ before = [j \in Jobs |-> {}] /\ waiting = {}
  /\ view = Blank
  /\ shown = [view |-> Blank, jobs |-> {}, total |-> 0]
  /\ \E first \in Calls :
       call = [c \in Calls |-> IF c = first THEN [Idle EXCEPT !.stage = "asked"] ELSE Idle]
  /\ loading = TRUE
  /\ selected = NoJob /\ details = NoJob
  /\ moves = 0
  /\ past = History

PageTypeOK ==
  /\ list \subseteq Jobs /\ waiting \subseteq list
  /\ \A j \in list : before[j] \subseteq list \ {j}
  /\ view.filter \in Filters /\ view.page \in Nat \ {0}
  /\ shown.jobs \subseteq list
  /\ Cardinality(shown.jobs) <= PageSize
  /\ \A c \in Calls : call[c].stage \in {"idle", "posting", "asked", "found", "counted", "done", "detail"}
  /\ {selected, details} \subseteq Jobs \cup {NoJob}
  /\ moves \in 0..MaxMoves

-----------------------------------------------------------------------------
UserActs == moves < MaxMoves /\ moves' = moves + 1

\* loadJobs of view v on call c.
Begin(c, stage, v, closes) ==
  /\ call[c].stage = "idle"
  /\ call' = [call EXCEPT ![c] =
       [Idle EXCEPT !.stage = stage, !.view = v, !.closes = closes]]

\* Mutant: the effect of loadJobs does not depend on the page.
ShowWithOldPage(v, astray) ==
  /\ UserActs
  /\ v # view
  /\ view' = v
  /\ IF v.filter = view.filter THEN UNCHANGED <<call, loading>>
     ELSE loading' = TRUE /\ \E c \in Calls : Begin(c, "asked", v, FALSE)
  /\ past' = [past EXCEPT !.overlap = @ \/ ~Resting, !.astray = @ \/ astray,
                          !.walked = IF v.filter = view.filter THEN @ ELSE 0]
  /\ UNCHANGED <<list, before, waiting, shown, selected, details>>

\* React renders the new view and runs the effect of loadJobs.
Show(v, astray) ==
  /\ UserActs
  /\ v # view
  /\ view' = v
  /\ loading' = TRUE
  /\ \E c \in Calls : Begin(c, "asked", v, FALSE)
  /\ past' = [past EXCEPT !.overlap = @ \/ ~Resting, !.astray = @ \/ astray,
                          !.walked = IF v.filter = view.filter THEN @ ELSE 0]
  /\ UNCHANGED <<list, before, waiting, shown, selected, details>>

\* Mutant: the page number stays.
SetFilterKeepingPage(f) == Show([view EXCEPT !.filter = f], FALSE)

\* The filter selects and the Clear filters button.
SetFilter(f) == Show([filter |-> f, page |-> 1], FALSE)

TableShown == ~loading /\ shown.jobs # {}
NextPage ==
  /\ TableShown
  /\ view.page < Pages(shown)
  /\ Show([view EXCEPT !.page = AtMost(Pages(shown), @ + 1)],
          shown.view.filter # view.filter)
PrevPage ==
  /\ TableShown
  /\ view.page > 1
  /\ Show([view EXCEPT !.page = AtLeast(1, @ - 1)], FALSE)

\* Retry, Cancel or Submit: the request, and after it the loadJobs, and the
\* drawer, of the render that the user clicked in.
Click(c) ==
  /\ UserActs
  /\ \E closes \in {FALSE, selected # NoJob} : Begin(c, "posting", view, closes)
  /\ past' = [past EXCEPT !.overlap = @ \/ ~Resting]
  /\ UNCHANGED <<list, before, waiting, view, shown, loading, selected, details>>

PostSucceeds(c) ==
  /\ call[c].stage = "posting"
  /\ call' = [call EXCEPT ![c].stage = "asked"]
  /\ loading' = TRUE
  /\ UNCHANGED <<list, before, waiting, view, shown, selected, details, past, moves>>

PostFails(c) ==
  /\ call[c].stage = "posting"
  /\ call' = [call EXCEPT ![c] = Idle]
  /\ UNCHANGED <<list, before, waiting, view, shown, loading, selected, details, past, moves>>

\* The two queries of GET /jobs, in either order.
RunFind(c) ==
  /\ call[c].stage \in {"asked", "counted"}
  /\ LET v == call[c].view
     IN call' = [call EXCEPT
          ![c].stage = IF @ = "asked" THEN "found" ELSE "done",
          ![c].jobs = FindJobs(v),
          ![c].rest = IF v.page = 1 THEN RowsFor(v.filter) \ FindJobs(v) ELSE {}]
  /\ UNCHANGED <<list, before, waiting, view, shown, loading, selected, details, past, moves>>

RunCount(c) ==
  /\ call[c].stage \in {"asked", "found"}
  /\ call' = [call EXCEPT
       ![c].stage = IF @ = "asked" THEN "counted" ELSE "done",
       ![c].total = Cardinality(RowsFor(call[c].view.filter))]
  /\ UNCHANGED <<list, before, waiting, view, shown, loading, selected, details, past, moves>>

\* The walk so far, with the answer of c.
Walked(c) ==
  IF call[c].torn \/ \E d \in Calls \ {c} : call[d].stage = "done"
  THEN [past EXCEPT !.walked = 0, !.missed = {}]
  ELSE IF call[c].view.page = 1
  THEN [past EXCEPT !.walked = 1, !.missed = call[c].rest]
  ELSE IF call[c].view.page = past.walked + 1
  THEN [past EXCEPT !.walked = @ + 1, !.missed = @ \ call[c].jobs]
  ELSE past

CloseWith(c) == IF call[c].closes THEN NoJob ELSE selected

\* The answer is shown, whatever the view is by now.
Deliver(c) ==
  /\ call[c].stage = "done"
  /\ shown' = [view |-> call[c].view, jobs |-> call[c].jobs, total |-> call[c].total]
  /\ loading' = FALSE
  /\ selected' = CloseWith(c)
  /\ call' = [call EXCEPT ![c] = Idle]
  /\ LET others == \E d \in Calls \ {c} : call[d].stage # "idle"
         walked == IF call[c].view.filter = view.filter THEN Walked(c) ELSE past
     IN past' = IF call[c].view = view
                THEN [walked EXCEPT
                       !.overlap = others, !.failed = FALSE,
                       !.astray = @ /\ (others \/ call[c].torn \/ view.page # 1)]
                ELSE walked
  /\ UNCHANGED <<list, before, waiting, view, details, moves>>

LoadFails(c) ==
  /\ call[c].stage \in {"asked", "done"}
  /\ loading' = FALSE
  /\ selected' = CloseWith(c)
  /\ call' = [call EXCEPT ![c] = Idle]
  /\ past' = [past EXCEPT !.failed = TRUE]
  /\ UNCHANGED <<list, before, waiting, view, shown, details, moves>>

-----------------------------------------------------------------------------
Opening == \E c \in Calls : call[c].stage = "detail"
BeginDetail(c, j) ==
  /\ UserActs
  /\ TableShown /\ j \in shown.jobs
  /\ call[c].stage = "idle"
  /\ call' = [call EXCEPT ![c] = [Idle EXCEPT !.stage = "detail", !.job = j]]
  /\ selected' = j
  /\ past' = [past EXCEPT !.blurred = Opening]
  /\ UNCHANGED <<list, before, waiting, view, shown, loading>>

\* Mutant: the drawer keeps the old lists until the new ones come.
OpenDetailKeepingOld(c, j) == BeginDetail(c, j) /\ UNCHANGED details

\* openJobDetail: empty lists, then executions and logs, when both are there.
OpenDetail(c, j) == BeginDetail(c, j) /\ details' = NoJob

DetailComes(c) ==
  /\ call[c].stage = "detail"
  /\ details' \in {call[c].job, details}  \* or one of the requests fails
  /\ call' = [call EXCEPT ![c] = Idle]
  /\ UNCHANGED <<list, before, waiting, view, shown, loading, selected, past, moves>>

CloseDetail ==
  /\ UserActs
  /\ selected # NoJob
  /\ selected' = NoJob
  /\ UNCHANGED <<list, before, waiting, view, shown, loading, call, details, past>>

-----------------------------------------------------------------------------
\* Another job is submitted; its priority decides on its place.
JobArrives(j) ==
  /\ j \notin list
  /\ list' = list \cup {j}
  /\ \E above \in SUBSET list :
       /\ \A k \in above : before[k] \subseteq above
       /\ before' = [k \in Jobs |-> IF k = j THEN above
                                   ELSE IF k \in list \ above THEN before[k] \cup {j}
                                   ELSE before[k]]
  /\ waiting' = waiting \cup {j}
  /\ call' = [c \in Calls |->
       IF call[c].stage \in {"found", "counted"} THEN [call[c] EXCEPT !.torn = TRUE] ELSE call[c]]
  /\ UNCHANGED <<view, shown, loading, selected, details, past, moves>>

\* A worker or another user changes a job's status.
JobLeaves(j) ==
  /\ j \in waiting
  /\ waiting' = waiting \ {j}
  /\ call' = [c \in Calls |->
       IF call[c].stage \in {"found", "counted", "done"} THEN [call[c] EXCEPT !.torn = TRUE] ELSE call[c]]
  /\ past' = [past EXCEPT !.walked = 0, !.missed = {}, !.astray = TRUE]
  /\ UNCHANGED <<list, before, view, shown, loading, selected, details, moves>>

PageNext ==
  \/ \E f \in Filters : SetFilter(f)
  \/ NextPage \/ PrevPage
  \/ \E c \in Calls :
       Click(c) \/ PostSucceeds(c) \/ PostFails(c) \/ RunFind(c) \/ RunCount(c)
         \/ Deliver(c) \/ LoadFails(c) \/ DetailComes(c) \/ \E j \in Jobs : OpenDetail(c, j)
  \/ \E j \in Jobs : JobArrives(j) \/ JobLeaves(j)
  \/ CloseDetail

PageSpec == PageInit /\ [][PageNext]_pageVars

-----------------------------------------------------------------------------
\* At rest the table shows the page and filters that the controls show, unless
\* calls overlapped or the last one failed: then an old answer may have come
\* last (page.tsx).
ShownIsCurrent ==
  Resting /\ ~past.overlap /\ ~past.failed => shown.view = view

\* A user who pages from the first page to the last sees every job that was in
\* the list all along, although new ones push jobs from page to page, unless
\* jobs left the list or came between the two queries of an answer, or an answer
\* was shown while another one was on its way: the two may come in the wrong
\* order (jobs.ts, pagination.ts, page.tsx).
WalkSeesAll ==
  Resting /\ shown.view = view /\ past.walked = view.page /\ view.page >= Pages(shown)
    => past.missed = {}

\* An empty page hides the Prev button.  The page is then the first, unless
\* jobs left the list, or the number of pages was another filter's, since the
\* first page was last shown with no call under way (page.tsx).
NotStranded ==
  Resting /\ shown.view = view /\ shown.jobs = {} /\ ~past.astray => view.page = 1

\* The drawer shows the executions and logs of its own job, unless it was
\* opened while those of another were on the way (page.tsx).
DrawerShowsItsJob ==
  selected # NoJob /\ ~past.blurred => details \in {NoJob, selected}
=============================================================================

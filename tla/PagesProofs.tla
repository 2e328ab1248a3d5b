---------------------------- MODULE PagesProofs -----------------------------
(***************************************************************************)
(* Theorems about the list routes and the pages of the dashboard.           *)
(***************************************************************************)
EXTENDS Dashboard, FiniteSetTheorems, TLAPS

(* Rows and pages. *)

LEMMA Division ==
  ASSUME NEW n \in Nat, NEW d \in Nat \ {0}
  PROVE  /\ n \div d \in Nat
         /\ (n \div d) * d \in Nat
         /\ (n \div d) * d <= n
         /\ n < (n \div d) * d + d
  BY SMT

\* The first rows and the ones after them.
LEMMA Prefixes ==
  ASSUME NEW t \in Nat, NEW a \in Nat, NEW b \in Nat, a <= b, b <= t
  PROVE  [i \in 1..a |-> i] \o SubSeq([i \in 1..t |-> i], a + 1, b) = [i \in 1..b |-> i]
  OBVIOUS

\* A page after the last one is empty.
LEMMA BeyondLast ==
  ASSUME NEW t \in Nat, NEW a \in Nat, t <= a
  PROVE  [i \in 1..t |-> i] \o SubSeq([i \in 1..t |-> i], a + 1, t) = [i \in 1..t |-> i]
  OBVIOUS

\* The pages before the next one have been read.
WalkInv ==
  /\ limit \in Int /\ page \in Int /\ total \in Nat
  /\ got = [i \in 1..AtMost(total, Skip(PageNumber(page), Limit(limit))) |-> i]
  /\ ~more => TotalPages(total, Limit(limit)) <= PageNumber(page) - 1

LEMMA LimitInBounds ==
  ASSUME NEW sent \in Int
  PROVE  Limit(sent) \in Nat \ {0}
  BY LimitAssumption DEF Limit, AtMost, AtLeast

LEMMA WalkStarts == WalkInit => WalkInv
  <1> SUFFICES ASSUME WalkInit PROVE WalkInv
    OBVIOUS
  <1>1. limit \in Int /\ page \in -1..1 /\ total \in Nat /\ got = <<>> /\ more
    BY LimitAssumption, TotalAssumption DEF WalkInit
  <1>2. PageNumber(page) = 1
    BY <1>1 DEF PageNumber, AtLeast
  <1>3. Skip(1, Limit(limit)) = 0
    BY <1>1, LimitInBounds DEF Skip
  <1>4. AtMost(total, 0) = 0
    BY <1>1 DEF AtMost
  <1>5. [i \in 1..0 |-> i] = <<>>
    OBVIOUS
  <1> QED
    BY <1>1, <1>2, <1>3, <1>4, <1>5 DEF WalkInv

LEMMA WalkStep ==
  ASSUME WalkInv, AskPage
  PROVE  WalkInv'
  <1> DEFINE p == PageNumber(page)
             n == Limit(limit)
             a == (p - 1) * n
  <1>1. p \in Nat \ {0} /\ n \in Nat \ {0} /\ total \in Nat
    BY LimitInBounds DEF WalkInv, PageNumber, AtLeast
  <1>2. /\ got = [i \in 1..AtMost(total, a) |-> i]
        /\ got' = got \o SubSeq(Rows, a + 1, AtMost(Len(Rows), a + n))
        /\ page' = p + 1 /\ limit' = limit /\ total' = total
    BY DEF WalkInv, AskPage, FindMany, Skip
  <1>last. ~more' => ~(p < TotalPages(Len(Rows), n))
    BY Zenon DEF AskPage, Count
  <1>3. Len(Rows) = total /\ Rows = [i \in 1..total |-> i]
    BY <1>1 DEF Rows
  <1> HIDE DEF p, n
  <1>4. a \in Nat /\ a + n = p * n /\ a + n \in Nat
    BY <1>1, SMT
  <1> HIDE DEF a
  <1>5. got' = [i \in 1..AtMost(total, p * n) |-> i]
    <2> DEFINE b == AtMost(total, a + n)
    <2>1. CASE a <= total
      <3>1. AtMost(total, a) = a
        BY <1>1, <1>4, <2>1 DEF AtMost
      <3>2. b \in Nat /\ a <= b /\ b <= total
        BY <1>1, <1>4, <2>1 DEF AtMost
      <3>3. got' = [i \in 1..a |-> i] \o SubSeq([i \in 1..total |-> i], a + 1, b)
        BY <1>2, <1>3, <3>1
      <3> HIDE DEF b
      <3>4. [i \in 1..a |-> i] \o SubSeq([i \in 1..total |-> i], a + 1, b) = [i \in 1..b |-> i]
        BY <1>1, <1>4, <3>2, Prefixes
      <3>5. b = AtMost(total, p * n)
        BY <1>4 DEF b
      <3> QED
        BY <3>3, <3>4, <3>5
    <2>2. CASE total <= a
      <3>1. AtMost(total, a) = total /\ AtMost(total, a + n) = total
        BY <1>1, <1>4, <2>2 DEF AtMost
      <3> QED
        BY <1>1, <1>2, <1>3, <1>4, <2>2, <3>1, BeyondLast
    <2> QED
      BY <1>1, <1>4, <2>1, <2>2
  <1>6. PageNumber(page') = p + 1
    BY <1>1, <1>2 DEF PageNumber, AtLeast
  <1>7. Skip(p + 1, n) = p * n
    BY <1>1 DEF Skip
  <1>8. ~more' => TotalPages(total, n) <= p
    <2>1. TotalPages(total, n) \in Nat
      BY <1>1, Division DEF TotalPages
    <2> QED
      BY <1>1, <1>3, <1>last, <2>1
  <1>9. /\ Limit(limit') = n /\ page' \in Int /\ limit' \in Int /\ total' = total
        /\ Skip(PageNumber(page'), Limit(limit')) = p * n
    BY <1>1, <1>2, <1>6, <1>7 DEF WalkInv, n
  <1>10. ~more' => TotalPages(total', Limit(limit')) <= PageNumber(page') - 1
    BY <1>1, <1>6, <1>8, <1>9
  <1> QED
    BY <1>1, <1>5, <1>9, <1>10 DEF WalkInv

\* Whatever limit and first page a program sends, the pages of a list up to the
\* last one counted are all of its rows, in order (lib/pagination.ts).
THEOREM WalkIsWhole == DashboardSpec => []EveryRowOnce
  <1>1. DashboardInit => WalkInv
    BY WalkStarts DEF DashboardInit
  <1>2. WalkInv /\ [DashboardNext]_dashboardVars => WalkInv'
    <2>1. WalkInv /\ UNCHANGED walkVars => WalkInv'
      BY DEF WalkInv, walkVars
    <2> QED
      BY <2>1, WalkStep DEF DashboardNext, OnJobsPage, OnQueuesPage, OnList, dashboardVars
  <1>3. WalkInv => EveryRowOnce
    <2> SUFFICES ASSUME WalkInv, ~more PROVE got = Rows
      BY DEF EveryRowOnce
    <2> DEFINE p == PageNumber(page) - 1
               n == Limit(limit)
               t == TotalPages(total, n)
    <2>1. p \in Nat /\ n \in Nat \ {0} /\ total \in Nat /\ t <= p
      BY LimitInBounds DEF WalkInv, PageNumber, AtLeast
    <2>2. got = [i \in 1..AtMost(total, p * n) |-> i]
      BY DEF WalkInv, Skip
    <2> HIDE DEF p, n
    <2>3. total + n - 1 \in Nat
      BY <2>1
    <2>4. t \in Nat /\ total + n - 1 < t * n + n
      BY <2>1, <2>3, Division DEF TotalPages
    <2> HIDE DEF t
    <2>5. t * n <= p * n /\ t * n \in Nat /\ p * n \in Nat
      BY <2>1, <2>4, SMT
    <2>6. AtMost(total, p * n) = total
      BY <2>1, <2>4, <2>5 DEF AtMost
    <2> QED
      BY <2>2, <2>6 DEF Rows
  <1> QED
    BY <1>1, <1>2, <1>3, PTL DEF DashboardSpec

-----------------------------------------------------------------------------
(* The page of jobs. *)

CallFields == {"stage", "view", "jobs", "total", "rest", "torn", "job", "closes"}
PastFields == {"overlap", "failed", "walked", "missed", "astray", "blurred"}
LoadStages == {"asked", "found", "counted", "done"}

CallsAreRecords ==
  /\ DOMAIN call = Calls
  /\ \A c \in Calls : DOMAIN call[c] = CallFields
  /\ DOMAIN past = PastFields

\* Call c will load, or is loading, the table.
Loading(c) == call[c].stage \in LoadStages \cup {"posting"}

\* Calls that do not overlap are for the view that the controls show, and where
\* the table is not for that view, one of them is under way to load it.
LoadsAreCurrent ==
  ~past.overlap =>
    /\ \A c \in Calls : Loading(c) => call[c].view = view
    /\ \A c, d \in Calls : Loading(c) /\ Loading(d) => c = d
    /\ \/ past.failed
       \/ shown.view = view
       \/ \E c \in Calls : call[c].stage \in LoadStages

\* The answers under way for the drawer are for its job.
DetailsAreOfSelected ==
  ~past.blurred =>
    /\ selected # NoJob => details \in {NoJob, selected}
    /\ \A c \in Calls :
         call[c].stage = "detail" => selected = NoJob \/ call[c].job = selected

PageInv == CallsAreRecords /\ LoadsAreCurrent /\ DetailsAreOfSelected

\* A step of one call: what the step does to the records.
LEMMA OneCall ==
  ASSUME CallsAreRecords, NEW c \in Calls, NEW e, DOMAIN e = CallFields,
         call' = [call EXCEPT ![c] = e], DOMAIN past' = PastFields
  PROVE  /\ CallsAreRecords'
         /\ call'[c] = e
         /\ \A d \in Calls : d # c => call'[d] = call[d]
  BY DEF CallsAreRecords

LEMMA IdleFields ==
  /\ DOMAIN Idle = CallFields
  /\ Idle.stage = "idle"
  /\ \A s, v, b : LET e == [Idle EXCEPT !.stage = s, !.view = v, !.closes = b]
                  IN DOMAIN e = CallFields /\ e.stage = s /\ e.view = v
  /\ \A s, j : LET e == [Idle EXCEPT !.stage = s, !.job = j]
               IN DOMAIN e = CallFields /\ e.stage = s /\ e.job = j
  BY DEF Idle, CallFields

\* A call that moves on keeps its view and job.
LEMMA NextStage ==
  ASSUME CallsAreRecords, NEW c \in Calls, NEW s, NEW js, NEW t, NEW rs
  PROVE  /\ LET e == [call[c] EXCEPT !.stage = s]
            IN DOMAIN e = CallFields /\ e.stage = s /\ e.view = call[c].view
         /\ LET e == [call[c] EXCEPT !.stage = s, !.jobs = js, !.rest = rs]
            IN DOMAIN e = CallFields /\ e.stage = s /\ e.view = call[c].view
         /\ LET e == [call[c] EXCEPT !.stage = s, !.total = t]
            IN DOMAIN e = CallFields /\ e.stage = s /\ e.view = call[c].view
         /\ LET e == [call[c] EXCEPT !.torn = TRUE]
            IN /\ DOMAIN e = CallFields /\ e.stage = call[c].stage
               /\ e.view = call[c].view /\ e.job = call[c].job
  BY DEF CallsAreRecords, CallFields

\* What is remembered of a walk leaves the rest of the past alone.
LEMMA WalkedKeeps ==
  ASSUME CallsAreRecords, NEW c \in Calls
  PROVE  /\ DOMAIN Walked(c) = PastFields
         /\ Walked(c).overlap = past.overlap
         /\ Walked(c).failed = past.failed
         /\ Walked(c).blurred = past.blurred
  BY DEF CallsAreRecords, PastFields, Walked

LEMMA PageStarts == PageInit => PageInv
  <1> SUFFICES ASSUME PageInit PROVE PageInv
    OBVIOUS
  <1>1. PICK first \in Calls :
          call = [c \in Calls |-> IF c = first THEN [Idle EXCEPT !.stage = "asked"] ELSE Idle]
    BY DEF PageInit
  <1>2. \A c \in Calls : call[c] = IF c = first THEN [Idle EXCEPT !.stage = "asked"] ELSE Idle
    BY <1>1
  <1>3. LET e == [Idle EXCEPT !.stage = "asked"]
        IN DOMAIN e = CallFields /\ e.stage = "asked" /\ e.view = Blank
    BY DEF Idle, CallFields
  <1>4. CallsAreRecords
    BY <1>1, <1>2, <1>3, IdleFields DEF CallsAreRecords, PageInit, History, PastFields
  <1>5. \A c \in Calls : Loading(c) => c = first
    BY <1>2, IdleFields DEF Loading, LoadStages
  <1>6. view = Blank /\ shown.view = Blank /\ selected = NoJob
    BY DEF PageInit
  <1>7. LoadsAreCurrent
    BY <1>2, <1>3, <1>5, <1>6 DEF LoadsAreCurrent
  <1>8. DetailsAreOfSelected
    BY <1>2, <1>3, <1>6, IdleFields DEF DetailsAreOfSelected
  <1> QED
    BY <1>4, <1>7, <1>8 DEF PageInv

\* A new view: the controls move, and one call more is under way.
LEMMA ShowKeeps ==
  ASSUME PageInv, NEW v, NEW astray, Show(v, astray)
  PROVE  PageInv'
  <1>1. PICK c \in Calls : Begin(c, "asked", v, FALSE)
    BY DEF Show
  <1> DEFINE e == [Idle EXCEPT !.stage = "asked", !.view = v, !.closes = FALSE]
  <1>2. DOMAIN e = CallFields /\ e.stage = "asked" /\ e.view = v
    BY IdleFields
  <1>3. call[c].stage = "idle" /\ call' = [call EXCEPT ![c] = e]
    BY <1>1 DEF Begin
  <1> HIDE DEF e
  <1>4. /\ DOMAIN past' = PastFields
        /\ past'.overlap = (past.overlap \/ ~Resting)
        /\ past'.blurred = past.blurred
    BY DEF Show, PageInv, CallsAreRecords, PastFields
  <1>5. /\ CallsAreRecords'
        /\ call'[c] = e
        /\ \A d \in Calls : d # c => call'[d] = call[d]
    BY <1>2, <1>3, <1>4, OneCall DEF PageInv
  <1>6. LoadsAreCurrent'
    <2> SUFFICES ASSUME Resting
                 PROVE  LoadsAreCurrent'
      BY <1>4 DEF LoadsAreCurrent
    <2>1. \A d \in Calls : Loading(d)' => d = c
      BY <1>5 DEF Resting, Loading, LoadStages
    <2> QED
      BY <1>2, <1>5, <2>1 DEF LoadsAreCurrent, LoadStages, Show
  <1>7. DetailsAreOfSelected'
    BY <1>2, <1>4, <1>5 DEF DetailsAreOfSelected, PageInv, Show
  <1> QED
    BY <1>5, <1>6, <1>7 DEF PageInv

\* A button's request goes out.
LEMMA ClickKeeps ==
  ASSUME PageInv, NEW c \in Calls, Click(c)
  PROVE  PageInv'
  <1>1. PICK b : Begin(c, "posting", view, b)
    BY DEF Click
  <1> DEFINE e == [Idle EXCEPT !.stage = "posting", !.view = view, !.closes = b]
  <1>2. DOMAIN e = CallFields /\ e.stage = "posting" /\ e.view = view
    BY IdleFields
  <1>3. call' = [call EXCEPT ![c] = e]
    BY <1>1 DEF Begin
  <1> HIDE DEF e
  <1>4. /\ DOMAIN past' = PastFields
        /\ past'.overlap = (past.overlap \/ ~Resting)
        /\ past'.blurred = past.blurred /\ past'.failed = past.failed
    BY DEF Click, PageInv, CallsAreRecords, PastFields
  <1>5. /\ CallsAreRecords'
        /\ call'[c] = e
        /\ \A d \in Calls : d # c => call'[d] = call[d]
    BY <1>2, <1>3, <1>4, OneCall DEF PageInv
  <1>6. LoadsAreCurrent'
    <2> SUFFICES ASSUME Resting, ~past.overlap
                 PROVE  LoadsAreCurrent'
      BY <1>4 DEF LoadsAreCurrent
    <2>1. \A d \in Calls : Loading(d)' => d = c
      BY <1>5 DEF Resting, Loading, LoadStages
    <2>2. past.failed \/ shown.view = view
      BY DEF PageInv, LoadsAreCurrent, Resting, LoadStages
    <2> QED
      BY <1>2, <1>4, <1>5, <2>1, <2>2 DEF LoadsAreCurrent, Click
  <1>7. DetailsAreOfSelected'
    BY <1>2, <1>4, <1>5 DEF DetailsAreOfSelected, PageInv, Click
  <1> QED
    BY <1>5, <1>6, <1>7 DEF PageInv

\* A loading call goes on to load.
LEMMA LoadGoesOn ==
  ASSUME PageInv, NEW c \in Calls, NEW e, Loading(c),
         DOMAIN e = CallFields, e.stage \in LoadStages, e.view = call[c].view,
         call' = [call EXCEPT ![c] = e],
         UNCHANGED <<view, shown, selected, details, past>>
  PROVE  PageInv'
  <1>1. /\ CallsAreRecords'
        /\ call'[c] = e
        /\ \A d \in Calls : d # c => call'[d] = call[d]
    BY OneCall DEF PageInv, CallsAreRecords
  <1>2. \A d \in Calls : Loading(d)' => Loading(d) /\ call'[d].view = call[d].view
    BY <1>1 DEF Loading
  <1>3. LoadsAreCurrent'
    BY <1>1, <1>2 DEF LoadsAreCurrent, PageInv
  <1>4. DetailsAreOfSelected'
    BY <1>1 DEF DetailsAreOfSelected, PageInv, LoadStages
  <1> QED
    BY <1>1, <1>3, <1>4 DEF PageInv

LEMMA LoadStepsKeep ==
  ASSUME PageInv, NEW c \in Calls, PostSucceeds(c) \/ RunFind(c) \/ RunCount(c)
  PROVE  PageInv'
  <1> USE DEF Loading, LoadStages
  <1>1. CASE PostSucceeds(c)
    <2>1. call' = [call EXCEPT ![c] = [call[c] EXCEPT !.stage = "asked"]]
      BY <1>1 DEF PostSucceeds, PageInv, CallsAreRecords
    <2>2. LET e == [call[c] EXCEPT !.stage = "asked"]
          IN DOMAIN e = CallFields /\ e.stage = "asked" /\ e.view = call[c].view
      BY NextStage DEF PageInv
    <2> QED
      BY <1>1, <2>1, <2>2, LoadGoesOn DEF PostSucceeds
  <1>2. CASE RunFind(c)
    <2> DEFINE s == IF call[c].stage = "asked" THEN "found" ELSE "done"
               v == call[c].view
               js == FindJobs(v)
               rs == IF v.page = 1 THEN RowsFor(v.filter) \ FindJobs(v) ELSE {}
    <2>1. /\ s \in LoadStages
          /\ call' = [call EXCEPT ![c] = [call[c] EXCEPT !.stage = s, !.jobs = js, !.rest = rs]]
      <3>1. call' = [call EXCEPT ![c].stage = s, ![c].jobs = js, ![c].rest = rs]
        BY <1>2 DEF RunFind
      <3>2. s \in LoadStages
        OBVIOUS
      <3> HIDE DEF s, js, rs
      <3> QED
        BY <3>1, <3>2 DEF PageInv, CallsAreRecords, CallFields
    <2> HIDE DEF s, js, rs
    <2> DEFINE e == [call[c] EXCEPT !.stage = s, !.jobs = js, !.rest = rs]
    <2>2. DOMAIN e = CallFields /\ e.stage = s /\ e.view = call[c].view
      BY NextStage DEF PageInv
    <2>3. UNCHANGED <<view, shown, selected, details, past>> /\ Loading(c)
      BY <1>2 DEF RunFind
    <2> QED
      BY <2>1, <2>2, <2>3, LoadGoesOn
  <1>3. CASE RunCount(c)
    <2> DEFINE s == IF call[c].stage = "asked" THEN "counted" ELSE "done"
               t == Cardinality(RowsFor(call[c].view.filter))
    <2>1. /\ s \in LoadStages
          /\ call' = [call EXCEPT ![c] = [call[c] EXCEPT !.stage = s, !.total = t]]
      <3>1. call' = [call EXCEPT ![c].stage = s, ![c].total = t]
        BY <1>3 DEF RunCount
      <3>2. s \in LoadStages
        OBVIOUS
      <3> HIDE DEF s, t
      <3> QED
        BY <3>1, <3>2 DEF PageInv, CallsAreRecords, CallFields
    <2> HIDE DEF s, t
    <2> DEFINE e == [call[c] EXCEPT !.stage = s, !.total = t]
    <2>2. DOMAIN e = CallFields /\ e.stage = s /\ e.view = call[c].view
      BY NextStage DEF PageInv
    <2>3. UNCHANGED <<view, shown, selected, details, past>> /\ Loading(c)
      BY <1>3 DEF RunCount
    <2> QED
      BY <2>1, <2>2, <2>3, LoadGoesOn
  <1> QED
    BY <1>1, <1>2, <1>3

\* A call is over.
LEMMA CallEnds ==
  ASSUME CallsAreRecords, NEW c \in Calls,
         call' = [call EXCEPT ![c] = Idle], DOMAIN past' = PastFields
  PROVE  /\ CallsAreRecords'
         /\ call'[c] = Idle /\ ~Loading(c)' /\ call'[c].stage = "idle"
         /\ \A d \in Calls : d # c => call'[d] = call[d] /\ (Loading(d)' <=> Loading(d))
  BY OneCall, IdleFields DEF Loading, LoadStages

LEMMA PostFailsKeeps ==
  ASSUME PageInv, NEW c \in Calls, PostFails(c)
  PROVE  PageInv'
  <1>1. /\ CallsAreRecords'
        /\ call'[c] = Idle /\ ~Loading(c)' /\ call'[c].stage = "idle"
        /\ \A d \in Calls : d # c => call'[d] = call[d] /\ (Loading(d)' <=> Loading(d))
    BY CallEnds DEF PostFails, PageInv, CallsAreRecords
  <1>2. Loading(c) /\ call[c].stage \notin LoadStages
    BY DEF PostFails, Loading, LoadStages
  <1>3. LoadsAreCurrent'
    BY <1>1, <1>2 DEF PostFails, LoadsAreCurrent, PageInv, LoadStages
  <1>4. DetailsAreOfSelected'
    BY <1>1 DEF PostFails, DetailsAreOfSelected, PageInv
  <1> QED
    BY <1>1, <1>3, <1>4 DEF PageInv

\* The answer of a call that is for the controls' view is the table's.
LEMMA DeliverKeeps ==
  ASSUME PageInv, NEW c \in Calls, Deliver(c)
  PROVE  PageInv'
  <1> DEFINE others == \E d \in Calls \ {c} : call[d].stage # "idle"
  <1>1. \E walked :
          /\ DOMAIN walked = PastFields
          /\ walked.overlap = past.overlap /\ walked.failed = past.failed
          /\ walked.blurred = past.blurred
          /\ past' = IF call[c].view = view
                     THEN [walked EXCEPT
                            !.overlap = others, !.failed = FALSE,
                            !.astray = @ /\ (others \/ call[c].torn \/ view.page # 1)]
                     ELSE walked
    <2>1. CASE call[c].view.filter = view.filter
      BY <2>1, WalkedKeeps DEF Deliver, PageInv
    <2>2. CASE call[c].view.filter # view.filter
      BY <2>2 DEF Deliver, PageInv, CallsAreRecords
    <2> QED
      BY <2>1, <2>2
  <1>2. PICK walked :
          /\ DOMAIN walked = PastFields
          /\ walked.overlap = past.overlap /\ walked.failed = past.failed
          /\ walked.blurred = past.blurred
          /\ past' = IF call[c].view = view
                     THEN [walked EXCEPT
                            !.overlap = others, !.failed = FALSE,
                            !.astray = @ /\ (others \/ call[c].torn \/ view.page # 1)]
                     ELSE walked
    BY <1>1
  <1>3. /\ DOMAIN past' = PastFields
        /\ past'.blurred = past.blurred
        /\ call[c].view = view => past'.overlap = others
        /\ call[c].view # view => past'.overlap = past.overlap
    BY <1>2 DEF PastFields
  <1>4. /\ CallsAreRecords'
        /\ call'[c] = Idle /\ ~Loading(c)' /\ call'[c].stage = "idle"
        /\ \A d \in Calls : d # c => call'[d] = call[d] /\ (Loading(d)' <=> Loading(d))
    BY <1>3, CallEnds DEF Deliver, PageInv
  <1>5. shown'.view = call[c].view /\ view' = view /\ Loading(c)
    BY DEF Deliver, Loading, LoadStages
  <1>6. LoadsAreCurrent'
    <2>1. CASE call[c].view = view
      <3> SUFFICES ASSUME ~others PROVE LoadsAreCurrent'
        BY <1>3, <2>1 DEF LoadsAreCurrent
      <3> QED
        BY <1>4, <1>5, <2>1 DEF LoadsAreCurrent, Loading, LoadStages
    <2>2. CASE call[c].view # view
      BY <1>3, <1>5, <2>2 DEF LoadsAreCurrent, PageInv
    <2> QED
      BY <2>1, <2>2
  <1>7. DetailsAreOfSelected'
    <2>1. selected' \in {NoJob, selected} /\ details' = details
      BY DEF Deliver, CloseWith
    <2> QED
      BY <1>3, <1>4, <2>1 DEF DetailsAreOfSelected, PageInv
  <1> QED
    BY <1>4, <1>6, <1>7 DEF PageInv

LEMMA LoadFailsKeeps ==
  ASSUME PageInv, NEW c \in Calls, LoadFails(c)
  PROVE  PageInv'
  <1>1. /\ DOMAIN past' = PastFields /\ past'.failed
        /\ past'.overlap = past.overlap /\ past'.blurred = past.blurred
    BY DEF LoadFails, PageInv, CallsAreRecords, PastFields
  <1>2. /\ CallsAreRecords'
        /\ call'[c] = Idle /\ ~Loading(c)' /\ call'[c].stage = "idle"
        /\ \A d \in Calls : d # c => call'[d] = call[d] /\ (Loading(d)' <=> Loading(d))
    BY <1>1, CallEnds DEF LoadFails, PageInv
  <1>3. LoadsAreCurrent'
    BY <1>1, <1>2 DEF LoadFails, LoadsAreCurrent, PageInv
  <1>4. DetailsAreOfSelected'
    <2>1. selected' \in {NoJob, selected} /\ details' = details
      BY DEF LoadFails, CloseWith
    <2> QED
      BY <1>1, <1>2, <2>1 DEF DetailsAreOfSelected, PageInv
  <1> QED
    BY <1>2, <1>3, <1>4 DEF PageInv

\* The drawer opens empty; nothing else is under way for it unless it is blurred.
LEMMA OpenDetailKeeps ==
  ASSUME PageInv, NEW c \in Calls, NEW j \in Jobs, OpenDetail(c, j)
  PROVE  PageInv'
  <1> DEFINE e == [Idle EXCEPT !.stage = "detail", !.job = j]
  <1>1. DOMAIN e = CallFields /\ e.stage = "detail" /\ e.job = j
    BY IdleFields
  <1>2. call[c].stage = "idle" /\ call' = [call EXCEPT ![c] = e]
    BY DEF OpenDetail, BeginDetail
  <1> HIDE DEF e
  <1>3. /\ DOMAIN past' = PastFields
        /\ past'.overlap = past.overlap /\ past'.failed = past.failed
        /\ past'.blurred = Opening
    BY DEF OpenDetail, BeginDetail, PageInv, CallsAreRecords, PastFields
  <1>4. /\ CallsAreRecords'
        /\ call'[c] = e
        /\ \A d \in Calls : d # c => call'[d] = call[d]
    BY <1>1, <1>2, <1>3, OneCall DEF PageInv
  <1>5. \A d \in Calls : Loading(d)' => Loading(d) /\ d # c
    BY <1>1, <1>4 DEF Loading, LoadStages
  <1>6. LoadsAreCurrent'
    BY <1>1, <1>2, <1>3, <1>4, <1>5
      DEF LoadsAreCurrent, PageInv, OpenDetail, BeginDetail, LoadStages
  <1>7. DetailsAreOfSelected'
    BY <1>1, <1>3, <1>4 DEF DetailsAreOfSelected, OpenDetail, BeginDetail, Opening
  <1> QED
    BY <1>4, <1>6, <1>7 DEF PageInv

LEMMA DetailComesKeeps ==
  ASSUME PageInv, NEW c \in Calls, DetailComes(c)
  PROVE  PageInv'
  <1>1. /\ CallsAreRecords'
        /\ call'[c] = Idle /\ ~Loading(c)' /\ call'[c].stage = "idle"
        /\ \A d \in Calls : d # c => call'[d] = call[d] /\ (Loading(d)' <=> Loading(d))
    BY CallEnds DEF DetailComes, PageInv, CallsAreRecords
  <1>2. ~Loading(c)
    BY DEF DetailComes, Loading, LoadStages
  <1>3. LoadsAreCurrent'
    BY <1>1, <1>2 DEF DetailComes, LoadsAreCurrent, PageInv, Loading
  <1>4. DetailsAreOfSelected'
    BY <1>1 DEF DetailComes, DetailsAreOfSelected, PageInv
  <1> QED
    BY <1>1, <1>3, <1>4 DEF PageInv

\* A change of the rows touches no call but to say that its answer is torn.
LEMMA RowsChange ==
  ASSUME PageInv, NEW S,
         call' = [c \in Calls |->
           IF call[c].stage \in S THEN [call[c] EXCEPT !.torn = TRUE] ELSE call[c]],
         DOMAIN past' = PastFields, past'.overlap = past.overlap,
         past'.failed = past.failed, past'.blurred = past.blurred,
         UNCHANGED <<view, shown, selected, details>>
  PROVE  PageInv'
  <1>1. \A c \in Calls :
          /\ DOMAIN call'[c] = CallFields
          /\ call'[c].stage = call[c].stage /\ call'[c].view = call[c].view
          /\ call'[c].job = call[c].job
    BY NextStage DEF PageInv, CallsAreRecords
  <1>2. CallsAreRecords'
    BY <1>1 DEF CallsAreRecords
  <1>3. LoadsAreCurrent'
    BY <1>1 DEF LoadsAreCurrent, PageInv, Loading
  <1>4. DetailsAreOfSelected'
    BY <1>1 DEF DetailsAreOfSelected, PageInv
  <1> QED
    BY <1>2, <1>3, <1>4 DEF PageInv

LEMMA RowStepsKeep ==
  ASSUME PageInv, NEW j \in Jobs, JobArrives(j) \/ JobLeaves(j)
  PROVE  PageInv'
  <1>1. CASE JobArrives(j)
    <2>1. /\ DOMAIN past' = PastFields /\ past'.overlap = past.overlap
          /\ past'.failed = past.failed /\ past'.blurred = past.blurred
      BY <1>1 DEF JobArrives, PageInv, CallsAreRecords
    <2> QED
      BY <1>1, <2>1, RowsChange DEF JobArrives
  <1>2. CASE JobLeaves(j)
    <2>1. /\ DOMAIN past' = PastFields /\ past'.overlap = past.overlap
          /\ past'.failed = past.failed /\ past'.blurred = past.blurred
      BY <1>2 DEF JobLeaves, PageInv, CallsAreRecords, PastFields
    <2> QED
      BY <1>2, <2>1, RowsChange DEF JobLeaves
  <1> QED
    BY <1>1, <1>2

LEMMA PageStutters ==
  ASSUME PageInv,
         \/ UNCHANGED pageVars
         \/ CloseDetail
  PROVE  PageInv'
  <1>1. UNCHANGED <<view, shown, call, details, past>> /\ selected' \in {selected, NoJob}
    BY DEF pageVars, CloseDetail
  <1>2. CallsAreRecords' /\ LoadsAreCurrent'
    BY <1>1 DEF PageInv, CallsAreRecords, LoadsAreCurrent, Loading
  <1>3. DetailsAreOfSelected'
    BY <1>1 DEF PageInv, DetailsAreOfSelected
  <1> QED
    BY <1>2, <1>3 DEF PageInv

LEMMA PageStep ==
  ASSUME PageInv, PageNext
  PROVE  PageInv'
  <1>1. CASE \E f \in Filters : SetFilter(f)
    BY <1>1, ShowKeeps DEF SetFilter
  <1>2. CASE NextPage
    BY <1>2, ShowKeeps DEF NextPage
  <1>3. CASE PrevPage
    BY <1>3, ShowKeeps DEF PrevPage
  <1>4. ASSUME NEW c \in Calls, Click(c)
        PROVE  PageInv'
    BY <1>4, ClickKeeps
  <1>5. ASSUME NEW c \in Calls, PostSucceeds(c) \/ RunFind(c) \/ RunCount(c)
        PROVE  PageInv'
    BY <1>5, LoadStepsKeep
  <1>6. ASSUME NEW c \in Calls, PostFails(c) \/ Deliver(c) \/ LoadFails(c) \/ DetailComes(c)
        PROVE  PageInv'
    BY <1>6, PostFailsKeeps, DeliverKeeps, LoadFailsKeeps, DetailComesKeeps
  <1>7. ASSUME NEW c \in Calls, NEW j \in Jobs, OpenDetail(c, j)
        PROVE  PageInv'
    BY <1>7, OpenDetailKeeps
  <1>8. ASSUME NEW j \in Jobs, JobArrives(j) \/ JobLeaves(j)
        PROVE  PageInv'
    BY <1>8, RowStepsKeep
  <1>9. CASE CloseDetail
    BY <1>9, PageStutters
  <1> QED
    BY <1>1, <1>2, <1>3, <1>4, <1>5, <1>6, <1>7, <1>8, <1>9 DEF PageNext

LEMMA PageInvariant == DashboardSpec => []PageInv
  <1>1. DashboardInit => PageInv
    BY PageStarts DEF DashboardInit
  <1>2. PageInv /\ [DashboardNext]_dashboardVars => PageInv'
    BY PageStep, PageStutters
      DEF DashboardNext, OnJobsPage, OnQueuesPage, OnList, dashboardVars, pageVars
  <1> QED
    BY <1>1, <1>2, PTL DEF DashboardSpec

\* At rest the table is for the filters and the page that the controls show,
\* unless loads overlapped or the last one failed (page.tsx of the jobs).
THEOREM TableIsCurrent == DashboardSpec => []ShownIsCurrent
  <1>1. PageInv => ShownIsCurrent
    BY DEF PageInv, LoadsAreCurrent, ShownIsCurrent, Resting, LoadStages
  <1> QED
    BY <1>1, PageInvariant, PTL

\* An open drawer shows its own job's executions and logs or none, unless it was
\* opened while another's were on the way (openJobDetail of page.tsx).
THEOREM DrawerIsOfItsJob == DashboardSpec => []DrawerShowsItsJob
  <1>1. PageInv => DrawerShowsItsJob
    BY DEF PageInv, DetailsAreOfSelected, DrawerShowsItsJob
  <1> QED
    BY <1>1, PageInvariant, PTL
-----------------------------------------------------------------------------
(* The order of the list, and the rows of a page. *)

\* The jobs of the list are finitely many, and in one order.
Ordered ==
  /\ IsFiniteSet(list) /\ list \subseteq Jobs
  /\ before \in [Jobs -> SUBSET list]
  /\ \A j \in list : j \notin before[j]
  /\ \A j, k \in list : j = k \/ j \in before[k] \/ k \in before[j]
  /\ \A j \in list : \A k \in before[j] : before[k] \subseteq before[j]

Total(f) == Cardinality(RowsFor(f))
Above(j, f) == {k \in before[j] : Matches(k, f)}

LEMMA RowsAreFinite ==
  ASSUME Ordered, NEW f
  PROVE  /\ RowsFor(f) \subseteq list
         /\ IsFiniteSet(RowsFor(f))
         /\ Total(f) \in Nat
  BY FS_Subset, FS_CardinalityType DEF Ordered, RowsFor, Total

\* A row further down has more rows before it.
LEMMA PlacesGrow ==
  ASSUME Ordered, NEW f, NEW j \in RowsFor(f), NEW S, IsFiniteSet(S),
         Above(j, f) \subseteq S, j \in S
  PROVE  /\ Place(j, f) \in Nat
         /\ Place(j, f) + 1 <= Cardinality(S)
  <1>1. j \notin Above(j, f) /\ IsFiniteSet(Above(j, f))
    BY FS_Subset DEF Ordered, Above, RowsFor
  <1>2. Cardinality(Above(j, f) \cup {j}) = Place(j, f) + 1 /\ IsFiniteSet(Above(j, f) \cup {j})
    BY <1>1, FS_AddElement DEF Above, Place
  <1>3. Place(j, f) \in Nat
    BY <1>1, FS_CardinalityType DEF Above, Place
  <1>4. Above(j, f) \cup {j} \in SUBSET S
    OBVIOUS
  <1> QED
    BY <1>2, <1>3, <1>4, FS_Subset

\* The rows of a filter have the places from 0 on, each one its own.
LEMMA PlacesAreRows ==
  ASSUME Ordered, NEW f
  PROVE  /\ \A j \in RowsFor(f) : Place(j, f) \in 0..(Total(f) - 1)
         /\ \A j, k \in RowsFor(f) : Place(j, f) = Place(k, f) => j = k
         /\ \A n \in 0..(Total(f) - 1) : \E j \in RowsFor(f) : Place(j, f) = n
  <1>1. ASSUME NEW j \in RowsFor(f)
        PROVE  Place(j, f) \in 0..(Total(f) - 1)
    <2>1. Above(j, f) \subseteq RowsFor(f)
      BY DEF Above, RowsFor, Ordered
    <2> QED
      BY <2>1, PlacesGrow, RowsAreFinite DEF Total
  <1>2. ASSUME NEW j \in RowsFor(f), NEW k \in RowsFor(f), j \in before[k]
        PROVE  Place(j, f) < Place(k, f)
    <2>1. IsFiniteSet(Above(k, f))
      BY FS_Subset DEF Ordered, Above, RowsFor
    <2>2. Above(j, f) \subseteq Above(k, f) /\ j \in Above(k, f)
      BY <1>2 DEF Ordered, Above, RowsFor
    <2>3. Cardinality(Above(k, f)) = Place(k, f)
      BY DEF Above, Place
    <2> QED
      BY <1>1, <2>1, <2>2, <2>3, PlacesGrow
  <1>3. \A j, k \in RowsFor(f) : Place(j, f) = Place(k, f) => j = k
    BY <1>1, <1>2 DEF Ordered, RowsFor
  <1>4. \A n \in 0..(Total(f) - 1) : \E j \in RowsFor(f) : Place(j, f) = n
    <2> DEFINE R == RowsFor(f)
               T == 0..(Total(f) - 1)
               g == [j \in R |-> Place(j, f)]
    <2>1. g \in Injection(R, T)
      BY <1>1, <1>3 DEF Injection, IsInjective
    <2>2. IsFiniteSet(T) /\ Cardinality(T) = Cardinality(R)
      BY RowsAreFinite, FS_Interval DEF Total
    <2>3. g \in Surjection(R, T)
      <3> HIDE DEF g, R, T
      <3> QED
        BY <2>1, <2>2, FS_Injection
    <2> QED
      BY <2>3 DEF Surjection
  <1> QED
    BY <1>1, <1>3, <1>4

PageViews == [filter : Filters, page : Nat \ {0}]

\* The rows of a page.
LEMMA PageOfRows ==
  ASSUME Ordered, NEW v \in PageViews
  PROVE  /\ FindJobs(v) \subseteq RowsFor(v.filter)
         /\ \A j \in RowsFor(v.filter) :
              j \in FindJobs(v) <=> /\ Place(j, v.filter) >= (v.page - 1) * PageSize
                                    /\ Place(j, v.filter) < v.page * PageSize
  <1> DEFINE a == (v.page - 1) * PageSize
  <1>1. v.page \in Nat \ {0} /\ PageSize \in Nat \ {0}
    BY PageSizeAssumption, LimitAssumption DEF PageViews
  <1>2. PageNumber(v.page) = v.page /\ Limit(PageSize) = PageSize
    BY <1>1, PageSizeAssumption, LimitAssumption DEF PageNumber, Limit, AtLeast, AtMost
  <1>3. a \in Nat /\ v.page * PageSize = a + PageSize
    BY <1>1, SMT
  <1>4. FindJobs(v) = {j \in RowsFor(v.filter) : Place(j, v.filter) \in a..(a + PageSize - 1)}
    BY <1>2 DEF FindJobs, Skip
  <1>5. \A j \in RowsFor(v.filter) : Place(j, v.filter) \in Nat
    BY PlacesAreRows, RowsAreFinite
  <1> HIDE DEF a
  <1>6. \A n \in Nat : n \in a..(a + PageSize - 1) <=> n >= a /\ n < a + PageSize
    BY <1>1, <1>3
  <1>7. \A j \in RowsFor(v.filter) :
          j \in FindJobs(v) <=> Place(j, v.filter) >= a /\ Place(j, v.filter) < v.page * PageSize
    BY <1>3, <1>4, <1>5, <1>6
  <1> QED
    BY <1>4, <1>7 DEF a

\* A page has at most PageSize rows, and one at least if there are that many.
LEMMA PageSizes ==
  ASSUME Ordered, NEW v \in PageViews
  PROVE  /\ Cardinality(FindJobs(v)) <= PageSize
         /\ Total(v.filter) > (v.page - 1) * PageSize => FindJobs(v) # {}
  <1> DEFINE a == (v.page - 1) * PageSize
             R == FindJobs(v)
             f == v.filter
             T == a..(a + PageSize - 1)
             g == [j \in R |-> Place(j, f)]
  <1>1. v.page \in Nat \ {0} /\ PageSize \in Nat \ {0}
    BY PageSizeAssumption, LimitAssumption DEF PageViews
  <1>2. a \in Nat /\ v.page * PageSize = a + PageSize
    BY <1>1, SMT
  <1>3. \A j \in RowsFor(f) : j \in R <=> Place(j, f) >= a /\ Place(j, f) < a + PageSize
    BY <1>2, PageOfRows
  <1>4. R \subseteq RowsFor(f)
    BY PageOfRows
  <1>5. \A j \in RowsFor(f) : Place(j, f) \in Nat
    BY PlacesAreRows, RowsAreFinite
  <1>6. Cardinality(R) <= PageSize
    <2> HIDE DEF a, R
    <2>1. \A j \in R : Place(j, f) \in T
      BY <1>1, <1>2, <1>3, <1>4, <1>5
    <2>2. \A j, k \in R : Place(j, f) = Place(k, f) => j = k
      BY <1>4, PlacesAreRows
    <2>3. g \in Injection(R, T)
      BY <2>1, <2>2 DEF Injection, IsInjective
    <2>4. IsFiniteSet(T) /\ Cardinality(T) = PageSize
      <3>1. a \in Int /\ a + PageSize - 1 \in Int /\ ~(a > a + PageSize - 1)
            /\ (a + PageSize - 1) - a + 1 = PageSize
        BY <1>1, <1>2
      <3> QED
        BY <3>1, FS_Interval
    <2> HIDE DEF T, g
    <2> QED
      BY <2>3, <2>4, FS_Injection
  <1>7. ASSUME Total(f) > a
        PROVE  R # {}
    <2> HIDE DEF a, R, f
    <2>1. Total(f) \in Nat
      BY RowsAreFinite
    <2>2. PICK j \in RowsFor(f) : Place(j, f) = a
      BY <1>2, <1>7, <2>1, PlacesAreRows
    <2> QED
      BY <1>1, <1>2, <1>3, <2>2
  <1> QED
    BY <1>6, <1>7

-----------------------------------------------------------------------------
(* What each step does to the calls. *)

LEMMA BeginShape ==
  ASSUME CallsAreRecords, NEW c \in Calls, NEW s, NEW v, NEW b, Begin(c, s, v, b)
  PROVE  /\ call[c].stage = "idle"
         /\ call'[c].stage = s /\ call'[c].view = v /\ call'[c].jobs = {}
         /\ call'[c].total = 0 /\ ~call'[c].torn /\ call'[c].job = NoJob
         /\ \A d \in Calls : d # c => call'[d] = call[d]
  <1> DEFINE e == [Idle EXCEPT !.stage = s, !.view = v, !.closes = b]
  <1>1. /\ e.stage = s /\ e.view = v /\ e.jobs = {}
        /\ e.total = 0 /\ ~e.torn /\ e.job = NoJob
    BY DEF Idle
  <1>2. call[c].stage = "idle" /\ call' = [call EXCEPT ![c] = e]
    BY DEF Begin
  <1> HIDE DEF e
  <1> QED
    BY <1>1, <1>2 DEF CallsAreRecords

LEMMA PostShape ==
  ASSUME CallsAreRecords, NEW c \in Calls, PostSucceeds(c)
  PROVE  /\ call[c].stage = "posting" /\ call'[c].stage = "asked"
         /\ call'[c].view = call[c].view /\ call'[c].jobs = call[c].jobs
         /\ call'[c].total = call[c].total /\ call'[c].torn = call[c].torn
         /\ call'[c].job = call[c].job
         /\ \A d \in Calls : d # c => call'[d] = call[d]
  BY DEF PostSucceeds, CallsAreRecords, CallFields

LEMMA FindShape ==
  ASSUME CallsAreRecords, NEW c \in Calls, RunFind(c)
  PROVE  /\ call[c].stage \in {"asked", "counted"}
         /\ call'[c].stage = IF call[c].stage = "asked" THEN "found" ELSE "done"
         /\ call'[c].jobs = FindJobs(call[c].view)
         /\ call'[c].rest = IF call[c].view.page = 1
                            THEN RowsFor(call[c].view.filter) \ FindJobs(call[c].view) ELSE {}
         /\ call'[c].view = call[c].view /\ call'[c].total = call[c].total
         /\ call'[c].torn = call[c].torn /\ call'[c].job = call[c].job
         /\ \A d \in Calls : d # c => call'[d] = call[d]
  <1> DEFINE s == IF call[c].stage = "asked" THEN "found" ELSE "done"
             v == call[c].view
             js == FindJobs(v)
             rs == IF v.page = 1 THEN RowsFor(v.filter) \ FindJobs(v) ELSE {}
  <1>1. call' = [call EXCEPT ![c].stage = s, ![c].jobs = js, ![c].rest = rs]
    BY DEF RunFind
  <1>2. call[c].stage \in {"asked", "counted"}
    BY DEF RunFind
  <1> SUFFICES
        /\ call'[c].stage = s /\ call'[c].jobs = js /\ call'[c].rest = rs
        /\ call'[c].view = call[c].view /\ call'[c].total = call[c].total
        /\ call'[c].torn = call[c].torn /\ call'[c].job = call[c].job
        /\ \A d \in Calls : d # c => call'[d] = call[d]
    BY <1>2
  <1> HIDE DEF s, js, rs
  <1> QED
    BY <1>1 DEF CallsAreRecords, CallFields

LEMMA CountShape ==
  ASSUME CallsAreRecords, NEW c \in Calls, RunCount(c)
  PROVE  /\ call[c].stage \in {"asked", "found"}
         /\ call'[c].stage = IF call[c].stage = "asked" THEN "counted" ELSE "done"
         /\ call'[c].total = Total(call[c].view.filter)
         /\ call'[c].view = call[c].view /\ call'[c].jobs = call[c].jobs
         /\ call'[c].rest = call[c].rest
         /\ call'[c].torn = call[c].torn /\ call'[c].job = call[c].job
         /\ \A d \in Calls : d # c => call'[d] = call[d]
  <1> DEFINE s == IF call[c].stage = "asked" THEN "counted" ELSE "done"
             t == Total(call[c].view.filter)
  <1>1. call' = [call EXCEPT ![c].stage = s, ![c].total = t]
    BY DEF RunCount, Total
  <1>2. call[c].stage \in {"asked", "found"}
    BY DEF RunCount
  <1> SUFFICES
        /\ call'[c].stage = s /\ call'[c].total = t
        /\ call'[c].view = call[c].view /\ call'[c].jobs = call[c].jobs
        /\ call'[c].rest = call[c].rest
        /\ call'[c].torn = call[c].torn /\ call'[c].job = call[c].job
        /\ \A d \in Calls : d # c => call'[d] = call[d]
    BY <1>2
  <1> HIDE DEF s, t
  <1> QED
    BY <1>1 DEF CallsAreRecords, CallFields

LEMMA EndShape ==
  ASSUME CallsAreRecords, NEW c \in Calls, call' = [call EXCEPT ![c] = Idle]
  PROVE  /\ call'[c] = Idle
         /\ \A d \in Calls : d # c => call'[d] = call[d]
  BY DEF CallsAreRecords

LEMMA DetailShape ==
  ASSUME CallsAreRecords, NEW c \in Calls, NEW j, OpenDetail(c, j)
  PROVE  /\ call'[c].stage = "detail" /\ call'[c].job = j
         /\ call'[c].view = Blank /\ call'[c].jobs = {}
         /\ call'[c].total = 0 /\ ~call'[c].torn
         /\ \A d \in Calls : d # c => call'[d] = call[d]
  <1> DEFINE e == [Idle EXCEPT !.stage = "detail", !.job = j]
  <1>1. /\ e.stage = "detail" /\ e.job = j /\ e.view = Blank /\ e.jobs = {}
        /\ e.total = 0 /\ ~e.torn
    BY DEF Idle
  <1>2. call' = [call EXCEPT ![c] = e]
    BY DEF OpenDetail, BeginDetail
  <1> HIDE DEF e
  <1> QED
    BY <1>1, <1>2 DEF CallsAreRecords

\* A call between its two queries, or with its answer on the way, is torn.
LEMMA TearShape ==
  ASSUME CallsAreRecords, NEW S,
         call' = [c \in Calls |->
           IF call[c].stage \in S THEN [call[c] EXCEPT !.torn = TRUE] ELSE call[c]],
         NEW c \in Calls
  PROVE  /\ call'[c].stage = call[c].stage /\ call'[c].view = call[c].view
         /\ call'[c].jobs = call[c].jobs /\ call'[c].total = call[c].total
         /\ call'[c].rest = call[c].rest /\ call'[c].job = call[c].job
         /\ call'[c].torn <=> call[c].stage \in S \/ call[c].torn
  BY DEF CallsAreRecords, CallFields

-----------------------------------------------------------------------------
(* The types of the page of jobs. *)

CallTyped(e) ==
  /\ e.stage \in {"idle", "posting", "asked", "found", "counted", "done", "detail"}
  /\ e.view \in PageViews
  /\ e.jobs \subseteq list /\ Cardinality(e.jobs) <= PageSize
  /\ e.total \in Nat
  /\ e.job \in Jobs \cup {NoJob}

PageTyped ==
  /\ Ordered
  /\ waiting \subseteq list
  /\ view \in PageViews
  /\ shown.view \in PageViews /\ shown.total \in Nat
  /\ shown.jobs \subseteq list /\ Cardinality(shown.jobs) <= PageSize
  /\ \A c \in Calls : CallTyped(call[c])
  /\ {selected, details} \subseteq Jobs \cup {NoJob}
  /\ moves \in 0..MaxMoves
  /\ past.walked \in Nat

ListStays == UNCHANGED <<list, before, waiting>>

LEMMA SameRows ==
  ASSUME ListStays
  PROVE  /\ Ordered => Ordered'
         /\ \A f : RowsFor(f)' = RowsFor(f) /\ Total(f)' = Total(f)
         /\ \A j, f : Place(j, f)' = Place(j, f)
         /\ \A v : FindJobs(v)' = FindJobs(v)
  <1>1. \A j, f : Matches(j, f)' <=> Matches(j, f)
    BY DEF ListStays, Matches
  <1>2. \A f : RowsFor(f)' = RowsFor(f)
    BY <1>1 DEF ListStays, RowsFor
  <1>3. \A j, f : Place(j, f)' = Place(j, f)
    BY <1>1 DEF ListStays, Place
  <1>4. \A v : FindJobs(v)' = FindJobs(v)
    BY <1>2, <1>3 DEF FindJobs
  <1> QED
    BY <1>2, <1>3, <1>4 DEF ListStays, Total, Ordered

\* A job that comes pushes the ones after its place down.
LEMMA RowsArrive ==
  ASSUME Ordered, waiting \subseteq list, NEW j \in Jobs, JobArrives(j)
  PROVE  /\ Ordered'
         /\ list' = list \cup {j} /\ waiting' = waiting \cup {j}
         /\ \A f : RowsFor(f) \subseteq RowsFor(f)' /\ Total(f) <= Total(f)'
         /\ \A f : \A k \in RowsFor(f) : Place(k, f) <= Place(k, f)'
  <1>1. j \notin list /\ list' = list \cup {j} /\ waiting' = waiting \cup {j}
    BY DEF JobArrives
  <1>2. PICK above \in SUBSET list :
          /\ \A k \in above : before[k] \subseteq above
          /\ before' = [k \in Jobs |-> IF k = j THEN above
                                   ELSE IF k \in list \ above THEN before[k] \cup {j}
                                   ELSE before[k]]
    BY DEF JobArrives
  <1>3. /\ before'[j] = above
        /\ \A k \in above : before'[k] = before[k]
        /\ \A k \in list \ above : before'[k] = before[k] \cup {j}
    BY <1>1, <1>2 DEF Ordered
  <1>4. \A k \in list : before[k] \subseteq list
    BY DEF Ordered
  <1>5. Ordered'
    <2>1. IsFiniteSet(list') /\ list' \subseteq Jobs
      BY <1>1, FS_AddElement DEF Ordered
    <2>2. before' \in [Jobs -> SUBSET list']
      BY <1>1, <1>2 DEF Ordered
    <2>3. \A k \in list' : k \notin before'[k]
      BY <1>1, <1>3 DEF Ordered
    <2>4. \A k, m \in list' : k = m \/ k \in before'[m] \/ m \in before'[k]
      BY <1>1, <1>3 DEF Ordered
    <2>5. ASSUME NEW k \in list', NEW m \in before'[k]
          PROVE  before'[m] \subseteq before'[k]
      <3>1. CASE k = j
        BY <1>2, <1>3, <2>5, <3>1
      <3>2. CASE k \in above
        <4>1. m \in above /\ before[m] \subseteq before[k]
          BY <1>2, <1>3, <2>5, <3>2 DEF Ordered
        <4> QED
          BY <1>3, <3>2, <4>1
      <3>3. CASE k \in list \ above
        <4>1. CASE m = j
          <5>1. \A x \in above : x \in before[k]
            BY <1>2, <3>3 DEF Ordered
          <5> QED
            BY <1>3, <3>3, <4>1, <5>1
        <4>2. CASE m # j
          <5>1. m \in before[k] /\ m \in list /\ before[m] \subseteq before[k]
            BY <1>3, <1>4, <2>5, <3>3, <4>2 DEF Ordered
          <5> QED
            BY <1>3, <3>3, <5>1
        <4> QED
          BY <4>1, <4>2
      <3> QED
        BY <1>1, <3>1, <3>2, <3>3
    <2> QED
      BY <2>1, <2>2, <2>3, <2>4, <2>5 DEF Ordered
  <1>6. \A k, f : Matches(k, f) => Matches(k, f)'
    BY <1>1 DEF Matches
  <1>7. ASSUME NEW f
        PROVE  RowsFor(f) \subseteq RowsFor(f)' /\ Total(f) <= Total(f)'
    <2>1. RowsFor(f) \subseteq RowsFor(f)'
      BY <1>1, <1>6 DEF RowsFor
    <2>2. IsFiniteSet(RowsFor(f)')
      BY <1>5, FS_Subset DEF Ordered, RowsFor
    <2> QED
      BY <2>1, <2>2, FS_Subset DEF Total
  <1>8. ASSUME NEW f, NEW k \in RowsFor(f)
        PROVE  Place(k, f) <= Place(k, f)'
    <2>1. k \in list
      BY DEF RowsFor
    <2>2. before[k] \subseteq before'[k] /\ before'[k] \subseteq list'
      BY <1>1, <1>3, <1>4, <2>1
    <2>3. IsFiniteSet({m \in before'[k] : Matches(m, f)'})
      BY <1>5, <2>2, FS_Subset DEF Ordered
    <2>4. {m \in before[k] : Matches(m, f)} \in SUBSET {m \in before'[k] : Matches(m, f)'}
      BY <1>6, <2>2
    <2>5. Cardinality({m \in before[k] : Matches(m, f)})
            <= Cardinality({m \in before'[k] : Matches(m, f)'})
      BY <2>3, <2>4, FS_Subset
    <2> QED
      BY <2>5 DEF Place
  <1> QED
    BY <1>1, <1>5, <1>7, <1>8

LEMMA EmptyIsTyped ==
  /\ Blank \in PageViews
  /\ PageSize \in Nat \ {0}
  /\ \A S : S = {} => Cardinality(S) <= PageSize
  <1>1. Blank \in PageViews /\ PageSize \in Nat \ {0}
    BY PageSizeAssumption, LimitAssumption DEF Blank, PageViews, Filters
  <1>2. \A S : S = {} => Cardinality(S) = 0
    BY FS_EmptySet, Zenon
  <1> QED
    BY <1>1, <1>2

\* There are pages after p where there are rows after its last one.
LEMMA MorePages ==
  ASSUME NEW t \in Nat, NEW p \in Nat
  PROVE  /\ TotalPages(t, PageSize) \in Nat
         /\ p < TotalPages(t, PageSize) <=> t > p * PageSize
  <1> DEFINE d == PageSize
             n == t + d - 1
             q == n \div d
  <1>1. d \in Nat \ {0}
    BY EmptyIsTyped
  <1> HIDE DEF d
  <1>2. n \in Nat
    BY <1>1
  <1>3. q \in Nat /\ q * d <= n /\ n < q * d + d
    BY <1>1, <1>2, Division
  <1>4. TotalPages(t, PageSize) = q
    BY DEF TotalPages, d
  <1> HIDE DEF q
  <1>5. p < q => p * d + d <= q * d
    BY <1>1, <1>3, SMT
  <1>6. q <= p => q * d <= p * d
    BY <1>1, <1>3, SMT
  <1>7. p * d \in Nat /\ q * d \in Nat
    BY <1>1, <1>3, SMT
  <1>8. p < q <=> t > p * d
    BY <1>1, <1>3, <1>5, <1>6, <1>7
  <1> QED
    BY <1>3, <1>4, <1>8 DEF d

LEMMA IdleIsTyped == CallTyped(Idle)
  <1>1. /\ Idle.stage = "idle" /\ Idle.view = Blank /\ Idle.jobs = {}
        /\ Idle.total = 0 /\ ~Idle.torn /\ Idle.job = NoJob
    BY DEF Idle
  <1> HIDE DEF Idle
  <1> QED
    BY <1>1, EmptyIsTyped DEF CallTyped

\* Calls that a step leaves alone stay typed, for no job leaves the list.
LEMMA CallsStayTyped ==
  ASSUME PageTyped, list \subseteq list', NEW c,
         \A d \in Calls : d # c => call'[d] = call[d],
         CallTyped(call[c])'
  PROVE  (\A d \in Calls : CallTyped(call[d]))'
  BY DEF PageTyped, CallTyped

LEMMA WalkedIsTyped ==
  ASSUME CallsAreRecords, past.walked \in Nat, NEW c \in Calls
  PROVE  Walked(c).walked \in Nat
  BY DEF CallsAreRecords, PastFields, Walked

LEMMA PageStartsTyped == PageInit => PageTyped
  <1> SUFFICES ASSUME PageInit PROVE PageTyped
    OBVIOUS
  <1>1. PICK first \in Calls :
          call = [c \in Calls |-> IF c = first THEN [Idle EXCEPT !.stage = "asked"] ELSE Idle]
    BY DEF PageInit
  <1>2. CallTyped([Idle EXCEPT !.stage = "asked"])
    <2> DEFINE e == [Idle EXCEPT !.stage = "asked"]
    <2>1. /\ e.stage = "asked" /\ e.view = Blank /\ e.jobs = {}
          /\ e.total = 0 /\ ~e.torn /\ e.job = NoJob
      BY DEF Idle
    <2> HIDE DEF e
    <2>2. CallTyped(e)
      BY <2>1, EmptyIsTyped DEF CallTyped
    <2> QED
      BY <2>2 DEF e
  <1>3. \A c \in Calls : CallTyped(call[c])
    BY <1>1, <1>2, IdleIsTyped
  <1>4. Ordered
    BY FS_EmptySet DEF PageInit, Ordered
  <1>5. past.walked = 0
    BY DEF PageInit, History
  <1> QED
    BY <1>3, <1>4, <1>5, EmptyIsTyped, MovesAssumption DEF PageInit, PageTyped

LEMMA ShowKeepsTypes ==
  ASSUME PageInv, PageTyped, NEW v \in PageViews, NEW astray, Show(v, astray)
  PROVE  PageTyped'
  <1>1. PICK c \in Calls : Begin(c, "asked", v, FALSE)
    BY DEF Show
  <1>2. /\ call'[c].stage = "asked" /\ call'[c].view = v /\ call'[c].jobs = {}
        /\ call'[c].total = 0 /\ ~call'[c].torn /\ call'[c].job = NoJob
        /\ \A d \in Calls : d # c => call'[d] = call[d]
    BY <1>1, BeginShape DEF PageInv
  <1>3. CallTyped(call[c])'
    BY <1>2, EmptyIsTyped DEF CallTyped
  <1>4. (\A d \in Calls : CallTyped(call[d]))'
    BY <1>2, <1>3, CallsStayTyped DEF Show
  <1>5. Ordered' /\ waiting' = waiting /\ list' = list
    BY SameRows DEF Show, ListStays, PageTyped
  <1>6. past'.walked \in Nat
    BY DEF Show, PageInv, CallsAreRecords, PastFields, PageTyped
  <1>7. moves' \in 0..MaxMoves
    BY MovesAssumption DEF Show, UserActs, PageTyped
  <1> QED
    BY <1>4, <1>5, <1>6, <1>7 DEF Show, PageTyped

LEMMA ViewsAreTyped ==
  ASSUME PageTyped
  PROVE  /\ \A f \in Filters : [filter |-> f, page |-> 1] \in PageViews
         /\ NextPage => \E v \in PageViews :
              /\ v.filter = view.filter /\ v.page = view.page + 1
              /\ Show(v, shown.view.filter # view.filter)
         /\ PrevPage => \E v \in PageViews :
              /\ v.filter = view.filter /\ v.page = view.page - 1
              /\ Show(v, FALSE)
  <1>1. \A f \in Filters : [filter |-> f, page |-> 1] \in PageViews
    BY DEF PageViews
  <1>2. view.page \in Nat \ {0} /\ view \in PageViews
    BY DEF PageTyped, PageViews
  <1>3. Pages(shown) \in Nat
    BY Division, EmptyIsTyped DEF Pages, TotalPages, PageTyped
  <1>4. ASSUME NextPage
        PROVE  \E v \in PageViews :
                 /\ v.filter = view.filter /\ v.page = view.page + 1
                 /\ Show(v, shown.view.filter # view.filter)
    <2>1. AtMost(Pages(shown), view.page + 1) = view.page + 1
      BY <1>2, <1>3, <1>4 DEF NextPage, AtMost
    <2>2. Show([view EXCEPT !.page = view.page + 1], shown.view.filter # view.filter)
      BY <1>4, <2>1 DEF NextPage
    <2>3. LET v == [view EXCEPT !.page = view.page + 1]
          IN v \in PageViews /\ v.filter = view.filter /\ v.page = view.page + 1
      BY <1>2 DEF PageViews
    <2> QED
      BY <2>2, <2>3
  <1>5. ASSUME PrevPage
        PROVE  \E v \in PageViews :
                 /\ v.filter = view.filter /\ v.page = view.page - 1
                 /\ Show(v, FALSE)
    <2>1. AtLeast(1, view.page - 1) = view.page - 1
      BY <1>2, <1>5 DEF PrevPage, AtLeast
    <2>2. Show([view EXCEPT !.page = view.page - 1], FALSE)
      BY <1>5, <2>1 DEF PrevPage
    <2>3. LET v == [view EXCEPT !.page = view.page - 1]
          IN v \in PageViews /\ v.filter = view.filter /\ v.page = view.page - 1
      BY <1>2, <1>5 DEF PageViews, PrevPage
    <2> QED
      BY <2>2, <2>3
  <1> QED
    BY <1>1, <1>4, <1>5

\* Steps of one call that change neither the list nor what is shown.
QuietPage ==
  /\ ListStays
  /\ UNCHANGED <<view, shown, past.walked, past.missed, past.astray>>

LEMMA QuietIsTyped ==
  ASSUME PageTyped, QuietPage, NEW c,
         \A d \in Calls : d # c => call'[d] = call[d],
         CallTyped(call[c])', moves' \in 0..MaxMoves,
         {selected', details'} \subseteq Jobs \cup {NoJob}
  PROVE  PageTyped'
  <1>1. (\A d \in Calls : CallTyped(call[d]))'
    BY CallsStayTyped DEF QuietPage, ListStays
  <1>2. Ordered'
    BY SameRows DEF QuietPage, PageTyped
  <1> QED
    BY <1>1, <1>2 DEF PageTyped, QuietPage, ListStays

LEMMA UserActsBounded ==
  ASSUME PageTyped, UserActs
  PROVE  moves' \in 0..MaxMoves
  BY MovesAssumption DEF UserActs, PageTyped

\* The steps of calls are quiet but for the answer that is shown.
LEMMA QuietSteps ==
  ASSUME CallsAreRecords, NEW c \in Calls,
         \/ Click(c) \/ PostSucceeds(c) \/ PostFails(c) \/ RunFind(c) \/ RunCount(c)
         \/ LoadFails(c) \/ DetailComes(c) \/ \E j \in Jobs : OpenDetail(c, j)
  PROVE  QuietPage
  <1>1. CASE Click(c)
    BY <1>1 DEF Click, QuietPage, ListStays, CallsAreRecords, PastFields
  <1>2. CASE PostSucceeds(c) \/ PostFails(c) \/ RunFind(c) \/ RunCount(c) \/ DetailComes(c)
    BY <1>2 DEF PostSucceeds, PostFails, RunFind, RunCount, DetailComes, QuietPage, ListStays
  <1>3. CASE LoadFails(c)
    BY <1>3 DEF LoadFails, QuietPage, ListStays, CallsAreRecords, PastFields
  <1>4. CASE \E j \in Jobs : OpenDetail(c, j)
    BY <1>4 DEF OpenDetail, BeginDetail, QuietPage, ListStays, CallsAreRecords, PastFields
  <1> QED
    BY <1>1, <1>2, <1>3, <1>4

LEMMA QuietStepsKeepTypes ==
  ASSUME PageInv, PageTyped, NEW c \in Calls,
         \/ Click(c) \/ PostSucceeds(c) \/ PostFails(c) \/ RunFind(c) \/ RunCount(c)
         \/ LoadFails(c) \/ DetailComes(c) \/ \E j \in Jobs : OpenDetail(c, j)
  PROVE  PageTyped'
  <1>q. QuietPage /\ CallsAreRecords /\ CallTyped(call[c]) /\ list' = list
    BY QuietSteps DEF PageInv, PageTyped, QuietPage, ListStays
  <1>1. CASE Click(c)
    <2>1. PICK b : Begin(c, "posting", view, b)
      BY <1>1 DEF Click
    <2>2. CallTyped(call[c])' /\ \A d \in Calls : d # c => call'[d] = call[d]
      BY <1>q, <2>1, BeginShape, EmptyIsTyped DEF CallTyped, PageTyped
    <2>3. moves' \in 0..MaxMoves /\ {selected', details'} \subseteq Jobs \cup {NoJob}
      BY <1>1, MovesAssumption DEF Click, UserActs, PageTyped
    <2> QED
      BY <1>q, <2>2, <2>3, QuietIsTyped
  <1>2. CASE PostSucceeds(c)
    <2>1. CallTyped(call[c])' /\ \A d \in Calls : d # c => call'[d] = call[d]
      BY <1>q, <1>2, PostShape DEF CallTyped
    <2>2. moves' \in 0..MaxMoves /\ {selected', details'} \subseteq Jobs \cup {NoJob}
      BY <1>2 DEF PostSucceeds, PageTyped
    <2> QED
      BY <1>q, <2>1, <2>2, QuietIsTyped
  <1>3. CASE PostFails(c) \/ LoadFails(c) \/ DetailComes(c)
    <2>1. call' = [call EXCEPT ![c] = Idle]
      BY <1>3 DEF PostFails, LoadFails, DetailComes
    <2>2. call'[c] = Idle /\ \A d \in Calls : d # c => call'[d] = call[d]
      BY <1>q, <2>1, EndShape
    <2>3. CallTyped(call[c])'
      BY <1>q, <2>2, IdleIsTyped DEF CallTyped
    <2>4. moves' \in 0..MaxMoves /\ {selected', details'} \subseteq Jobs \cup {NoJob}
      BY <1>3, <1>q DEF PostFails, LoadFails, DetailComes, CloseWith, PageTyped, CallTyped
    <2> QED
      BY <1>q, <2>2, <2>3, <2>4, QuietIsTyped
  <1>4. CASE RunFind(c)
    <2>1. FindJobs(call[c].view) \subseteq list /\ Cardinality(FindJobs(call[c].view)) <= PageSize
      BY <1>q, PageOfRows, PageSizes DEF PageTyped, CallTyped, RowsFor
    <2>2. CallTyped(call[c])' /\ \A d \in Calls : d # c => call'[d] = call[d]
      BY <1>q, <1>4, <2>1, FindShape DEF CallTyped
    <2>3. moves' \in 0..MaxMoves /\ {selected', details'} \subseteq Jobs \cup {NoJob}
      BY <1>4 DEF RunFind, PageTyped
    <2> QED
      BY <1>q, <2>2, <2>3, QuietIsTyped
  <1>5. CASE RunCount(c)
    <2>1. Total(call[c].view.filter) \in Nat
      BY RowsAreFinite DEF PageTyped
    <2>2. CallTyped(call[c])' /\ \A d \in Calls : d # c => call'[d] = call[d]
      BY <1>q, <1>5, <2>1, CountShape DEF CallTyped
    <2>3. moves' \in 0..MaxMoves /\ {selected', details'} \subseteq Jobs \cup {NoJob}
      BY <1>5 DEF RunCount, PageTyped
    <2> QED
      BY <1>q, <2>2, <2>3, QuietIsTyped
  <1>6. ASSUME NEW j \in Jobs, OpenDetail(c, j)
        PROVE  PageTyped'
    <2>1. CallTyped(call[c])' /\ \A d \in Calls : d # c => call'[d] = call[d]
      BY <1>q, <1>6, DetailShape, EmptyIsTyped DEF CallTyped
    <2>2. moves' \in 0..MaxMoves
      BY <1>6, UserActsBounded DEF OpenDetail, BeginDetail
    <2>3. {selected', details'} \subseteq Jobs \cup {NoJob}
      BY <1>6 DEF OpenDetail, BeginDetail
    <2> QED
      BY <1>q, <2>1, <2>2, <2>3, QuietIsTyped
  <1> QED
    BY <1>1, <1>2, <1>3, <1>4, <1>5, <1>6

\* What is remembered when an answer is shown.
LEMMA DeliverPast ==
  ASSUME CallsAreRecords, NEW c \in Calls, Deliver(c)
  PROVE  /\ call[c].view.filter = view.filter =>
              past'.walked = Walked(c).walked /\ past'.missed = Walked(c).missed
         /\ call[c].view.filter # view.filter =>
              past'.walked = past.walked /\ past'.missed = past.missed
         /\ past.astray /\ ~past'.astray =>
              /\ call[c].view = view /\ view.page = 1 /\ ~call[c].torn
              /\ \A d \in Calls \ {c} : call[d].stage = "idle"
         /\ ~past.astray => ~past'.astray
  <1> DEFINE others == \E d \in Calls \ {c} : call[d].stage # "idle"
             w == IF call[c].view.filter = view.filter THEN Walked(c) ELSE past
             b == others \/ call[c].torn \/ view.page # 1
  <1>1. DOMAIN w = PastFields /\ w.astray = past.astray
    BY WalkedKeeps DEF CallsAreRecords, PastFields, Walked
  <1>2. past' = IF call[c].view = view
                THEN [w EXCEPT !.overlap = others, !.failed = FALSE, !.astray = @ /\ b]
                ELSE w
    BY DEF Deliver
  <1>3. \A x : DOMAIN w = PastFields =>
          LET p == [w EXCEPT !.overlap = others, !.failed = FALSE, !.astray = x]
          IN p.walked = w.walked /\ p.missed = w.missed /\ p.astray = x
    <2> HIDE DEF w, others
    <2> QED
      BY DEF PastFields
  <1> HIDE DEF w, others, b
  <1>4. /\ past'.walked = w.walked /\ past'.missed = w.missed
        /\ call[c].view = view => past'.astray = (w.astray /\ b)
        /\ call[c].view # view => past'.astray = w.astray
    BY <1>1, <1>2, <1>3
  <1> QED
    BY <1>1, <1>4 DEF w, b, others

LEMMA DeliverKeepsTypes ==
  ASSUME PageInv, PageTyped, NEW c \in Calls, Deliver(c)
  PROVE  PageTyped'
  <1>1. CallsAreRecords /\ CallTyped(call[c])
    BY DEF PageInv, PageTyped
  <1>2. ListStays /\ call' = [call EXCEPT ![c] = Idle]
    BY DEF Deliver, ListStays
  <1>3. call'[c] = Idle /\ \A d \in Calls : d # c => call'[d] = call[d]
    BY <1>1, <1>2, EndShape
  <1>4. CallTyped(call[c])'
    BY <1>2, <1>3, IdleIsTyped DEF CallTyped, ListStays
  <1>5. (\A d \in Calls : CallTyped(call[d]))'
    BY <1>2, <1>3, <1>4, CallsStayTyped DEF ListStays
  <1>6. Ordered' /\ waiting' = waiting /\ list' = list
    BY <1>2, SameRows DEF ListStays, PageTyped
  <1>7. past'.walked \in Nat
    BY <1>1, DeliverPast, WalkedIsTyped DEF PageTyped
  <1>8. /\ shown'.view = call[c].view /\ shown'.jobs = call[c].jobs
        /\ shown'.total = call[c].total
        /\ view' = view /\ moves' = moves /\ details' = details
        /\ selected' \in {NoJob, selected}
    BY DEF Deliver, CloseWith
  <1> QED
    BY <1>1, <1>5, <1>6, <1>7, <1>8 DEF PageTyped, CallTyped

\* A change of the rows leaves the types of the calls.
LEMMA TearKeepsTypes ==
  ASSUME PageInv, PageTyped, list \subseteq list', NEW S,
         call' = [c \in Calls |->
           IF call[c].stage \in S THEN [call[c] EXCEPT !.torn = TRUE] ELSE call[c]]
  PROVE  (\A d \in Calls : CallTyped(call[d]))'
  <1> SUFFICES ASSUME NEW d \in Calls PROVE CallTyped(call[d])'
    OBVIOUS
  <1>1. /\ call'[d].stage = call[d].stage /\ call'[d].view = call[d].view
        /\ call'[d].jobs = call[d].jobs /\ call'[d].total = call[d].total
        /\ call'[d].job = call[d].job
    BY TearShape DEF PageInv
  <1> QED
    BY <1>1 DEF PageTyped, CallTyped

LEMMA RowStepsKeepTypes ==
  ASSUME PageInv, PageTyped, NEW j \in Jobs, JobArrives(j) \/ JobLeaves(j)
  PROVE  PageTyped'
  <1>1. CASE JobArrives(j)
    <2>1. Ordered' /\ list' = list \cup {j} /\ waiting' = waiting \cup {j}
      BY <1>1, RowsArrive DEF PageTyped
    <2>2. (\A d \in Calls : CallTyped(call[d]))'
      BY <1>1, <2>1, TearKeepsTypes DEF JobArrives
    <2> QED
      BY <1>1, <2>1, <2>2 DEF JobArrives, PageTyped
  <1>2. CASE JobLeaves(j)
    <2>1. Ordered' /\ list' = list /\ waiting' \subseteq waiting
      BY <1>2 DEF JobLeaves, PageTyped, Ordered
    <2>2. (\A d \in Calls : CallTyped(call[d]))'
      BY <1>2, <2>1, TearKeepsTypes DEF JobLeaves
    <2>3. past'.walked = 0
      BY <1>2 DEF JobLeaves, PageInv, CallsAreRecords, PastFields
    <2> QED
      BY <1>2, <2>1, <2>2, <2>3 DEF JobLeaves, PageTyped
  <1> QED
    BY <1>1, <1>2

\* Steps of another page, and the drawer's close button.
LEMMA StuttersAreQuiet ==
  ASSUME UNCHANGED pageVars \/ CloseDetail
  PROVE  QuietPage /\ UNCHANGED <<call, past>>
  BY DEF pageVars, CloseDetail, QuietPage, ListStays

LEMMA StuttersKeepTypes ==
  ASSUME PageTyped, UNCHANGED pageVars \/ CloseDetail
  PROVE  PageTyped'
  <1>1. QuietPage /\ UNCHANGED <<call, past>> /\ Ordered'
    BY StuttersAreQuiet, SameRows DEF QuietPage, PageTyped
  <1>2. moves' \in 0..MaxMoves /\ {selected', details'} \subseteq Jobs \cup {NoJob}
    BY UserActsBounded DEF pageVars, CloseDetail, PageTyped
  <1>3. (\A d \in Calls : CallTyped(call[d]))'
    BY <1>1 DEF QuietPage, ListStays, CallTyped, PageTyped
  <1> QED
    BY <1>1, <1>2, <1>3 DEF PageTyped, QuietPage, ListStays

LEMMA PageStepKeepsTypes ==
  ASSUME PageInv, PageTyped, PageNext
  PROVE  PageTyped'
  <1>1. CASE \E f \in Filters : SetFilter(f)
    BY <1>1, ViewsAreTyped, ShowKeepsTypes DEF SetFilter
  <1>2. CASE NextPage \/ PrevPage
    BY <1>2, ViewsAreTyped, ShowKeepsTypes
  <1>3. CASE \E c \in Calls :
               \/ Click(c) \/ PostSucceeds(c) \/ PostFails(c) \/ RunFind(c) \/ RunCount(c)
               \/ LoadFails(c) \/ DetailComes(c) \/ \E j \in Jobs : OpenDetail(c, j)
    BY <1>3, QuietStepsKeepTypes
  <1>4. CASE \E c \in Calls : Deliver(c)
    BY <1>4, DeliverKeepsTypes
  <1>5. CASE \E j \in Jobs : JobArrives(j) \/ JobLeaves(j)
    BY <1>5, RowStepsKeepTypes
  <1>6. CASE CloseDetail
    BY <1>6, StuttersKeepTypes
  <1> QED
    BY <1>1, <1>2, <1>3, <1>4, <1>5, <1>6 DEF PageNext

LEMMA TypedInvariant == DashboardSpec => [](PageInv /\ PageTyped)
  <1>1. DashboardInit => PageInv /\ PageTyped
    BY PageStarts, PageStartsTyped DEF DashboardInit
  <1>2. PageInv /\ PageTyped /\ [DashboardNext]_dashboardVars => (PageInv /\ PageTyped)'
    BY PageStep, PageStutters, PageStepKeepsTypes, StuttersKeepTypes
      DEF DashboardNext, OnJobsPage, OnQueuesPage, OnList, dashboardVars, pageVars
  <1> QED
    BY <1>1, <1>2, PTL DEF DashboardSpec

\* The rows on the screen are jobs of the list, as many as a page has at most,
\* and every call, filter and page number is one that the page knows (page.tsx,
\* pagination.ts).
THEOREM PageIsTyped == DashboardSpec => []PageTypeOK
  <1>1. PageTyped => PageTypeOK
    BY DEF PageTyped, Ordered, CallTyped, PageViews, PageTypeOK
  <1> QED
    BY <1>1, TypedInvariant, PTL

-----------------------------------------------------------------------------
(* A walk through the pages. *)

\* The jobs of S are rows of the filter, n or more down the list.
Beyond(S, f, n) == S \subseteq RowsFor(f) /\ \A j \in S : Place(j, f) >= n

\* What a call read in the first of its two queries is as it was.
HalfRead(e) ==
  /\ e.stage = "found" /\ ~e.torn =>
       /\ e.jobs = FindJobs(e.view)
       /\ e.view.page = 1 => e.rest = RowsFor(e.view.filter) \ FindJobs(e.view)
  /\ e.stage = "counted" /\ ~e.torn => e.total = Total(e.view.filter)

\* What an answer with the first page leaves out is on later pages, and it tells
\* that there are some.
Starts(e) ==
  e.stage = "done" /\ ~e.torn /\ e.view.page = 1 =>
    /\ Beyond(e.rest, e.view.filter, PageSize)
    /\ e.rest # {} => e.total > PageSize

\* So does an answer with the next page of the walk; one with any other page
\* tells that there are pages after those of the walk, as long as jobs are missed.
GoesOn(e) ==
  e.stage = "done" /\ ~e.torn /\ e.view.filter = view.filter /\ past.walked > 0 =>
    /\ past.missed # {} => e.total > past.walked * PageSize
    /\ e.view.page = past.walked + 1 =>
         /\ Beyond(past.missed \ e.jobs, view.filter, (past.walked + 1) * PageSize)
         /\ past.missed \ e.jobs # {} => e.total > (past.walked + 1) * PageSize

\* What the pages of the walk did not show is on later pages, and the answer on
\* the screen tells that there are some.
WalkGoesOn ==
  /\ \A c \in Calls : HalfRead(call[c]) /\ Starts(call[c]) /\ GoesOn(call[c])
  /\ past.walked > 0 =>
       /\ Beyond(past.missed, view.filter, past.walked * PageSize)
       /\ shown.view.filter = view.filter /\ past.missed # {} =>
            shown.total > past.walked * PageSize

LEMMA SameBeyond ==
  ASSUME ListStays
  PROVE  \A S, f, n : Beyond(S, f, n)' <=> Beyond(S, f, n)
  BY SameRows DEF Beyond

LEMMA SameCall ==
  ASSUME ListStays, NEW c, call'[c] = call[c]
  PROVE  /\ HalfRead(call[c]) => HalfRead(call[c])'
         /\ Starts(call[c]) => Starts(call[c])'
         /\ UNCHANGED <<view.filter, past.walked, past.missed>> =>
              (GoesOn(call[c]) => GoesOn(call[c])')
  <1>1. HalfRead(call[c]) => HalfRead(call[c])'
    BY SameRows DEF HalfRead
  <1>2. Starts(call[c]) => Starts(call[c])'
    BY SameBeyond DEF Starts
  <1>3. UNCHANGED <<view.filter, past.walked, past.missed>> =>
          (GoesOn(call[c]) => GoesOn(call[c])')
    BY SameBeyond DEF GoesOn
  <1> QED
    BY <1>1, <1>2, <1>3

\* What is on no later page than the one read, and not before it, is on it.
LEMMA FreshAnswer ==
  ASSUME PageTyped, WalkGoesOn, NEW v \in PageViews
  PROVE  LET f == v.filter
             rest == RowsFor(f) \ FindJobs(v)
             left == past.missed \ FindJobs(v)
         IN /\ v.page = 1 => Beyond(rest, f, PageSize) /\ (rest # {} => Total(f) > PageSize)
            /\ f = view.filter /\ past.walked > 0 =>
                 /\ past.missed # {} => Total(f) > past.walked * PageSize
                 /\ v.page = past.walked + 1 =>
                      /\ Beyond(left, f, (past.walked + 1) * PageSize)
                      /\ left # {} => Total(f) > (past.walked + 1) * PageSize
  <1> DEFINE f == v.filter
             rest == RowsFor(f) \ FindJobs(v)
             left == past.missed \ FindJobs(v)
             w == past.walked * PageSize
             n == (past.walked + 1) * PageSize
  <1>1. Ordered /\ past.walked \in Nat /\ PageSize \in Nat \ {0} /\ v.page \in Nat \ {0}
    BY EmptyIsTyped DEF PageTyped, PageViews
  <1>2. w \in Nat /\ n \in Nat
    BY <1>1, SMT
  <1>3. \A S, m : m \in Nat /\ Beyond(S, f, m) /\ S # {} => Total(f) > m
    <2> SUFFICES ASSUME NEW S, NEW m \in Nat, Beyond(S, f, m), S # {}
                 PROVE  Total(f) > m
      OBVIOUS
    <2>1. PICK j : j \in S
      OBVIOUS
    <2>2. j \in RowsFor(f) /\ Place(j, f) >= m
      BY <2>1 DEF Beyond
    <2>3. Place(j, f) \in 0..(Total(f) - 1) /\ Total(f) \in Nat
      BY <1>1, <2>2, PlacesAreRows, RowsAreFinite
    <2> QED
      BY <2>2, <2>3
  <1>4. \A j \in RowsFor(f) : Place(j, f) \in Nat
    BY <1>1, PlacesAreRows, RowsAreFinite
  <1>5. ASSUME v.page = 1
        PROVE  Beyond(rest, f, PageSize) /\ (rest # {} => Total(f) > PageSize)
    <2>1. \A j \in RowsFor(f) : j \in FindJobs(v) <=> Place(j, f) >= 0 /\ Place(j, f) < PageSize
      <3>1. (v.page - 1) * PageSize = 0 /\ v.page * PageSize = PageSize
        BY <1>1, <1>5
      <3> QED
        BY <1>1, <3>1, PageOfRows
    <2>2. Beyond(rest, f, PageSize)
      BY <1>1, <1>4, <2>1 DEF Beyond
    <2> QED
      BY <1>1, <1>3, <2>2
  <1>6. ASSUME f = view.filter, past.walked > 0
        PROVE  past.missed # {} => Total(f) > w
    <2>1. Beyond(past.missed, f, w)
      BY <1>6 DEF WalkGoesOn
    <2> HIDE DEF w, f
    <2> QED
      BY <1>2, <1>3, <2>1
  <1>7. ASSUME f = view.filter, past.walked > 0, v.page = past.walked + 1
        PROVE  Beyond(left, f, n) /\ (left # {} => Total(f) > n)
    <2>1. \A j \in RowsFor(f) : j \in FindJobs(v) <=> Place(j, f) >= w /\ Place(j, f) < n
      <3>1. (v.page - 1) * PageSize = w /\ v.page * PageSize = n
        BY <1>1, <1>7
      <3> HIDE DEF w, n
      <3> QED
        BY <1>1, <3>1, PageOfRows
    <2>2. Beyond(past.missed, f, w)
      BY <1>7 DEF WalkGoesOn
    <2>3. Beyond(left, f, n)
      <3> HIDE DEF w, n
      <3> QED
        BY <1>2, <1>4, <2>1, <2>2 DEF Beyond
    <2> HIDE DEF n, f, left
    <2> QED
      BY <1>2, <1>3, <2>3
  <1> QED
    BY <1>5, <1>6, <1>7

LEMMA WalkStartsGood == PageInit => WalkGoesOn
  <1> SUFFICES ASSUME PageInit PROVE WalkGoesOn
    OBVIOUS
  <1>1. PICK first \in Calls :
          call = [c \in Calls |-> IF c = first THEN [Idle EXCEPT !.stage = "asked"] ELSE Idle]
    BY DEF PageInit
  <1>2. Idle.stage = "idle" /\ [Idle EXCEPT !.stage = "asked"].stage = "asked"
    BY DEF Idle
  <1>3. \A c \in Calls : call[c].stage \in {"idle", "asked"}
    BY <1>1, <1>2
  <1>4. past.walked = 0
    BY DEF PageInit, History
  <1> QED
    BY <1>3, <1>4 DEF WalkGoesOn, HalfRead, Starts, GoesOn

\* A quiet step: the walk goes on if the step's own call does.
LEMMA QuietWalks ==
  ASSUME WalkGoesOn, QuietPage, NEW c,
         \A d \in Calls : d # c => call'[d] = call[d],
         HalfRead(call[c])', Starts(call[c])', GoesOn(call[c])'
  PROVE  WalkGoesOn'
  <1>1. ASSUME NEW d \in Calls
        PROVE  HalfRead(call[d])' /\ Starts(call[d])' /\ GoesOn(call[d])'
    <2>1. CASE d = c
      BY <2>1
    <2>2. CASE d # c
      BY <2>2, SameCall DEF WalkGoesOn, QuietPage
    <2> QED
      BY <2>1, <2>2
  <1>2. past'.walked > 0 =>
          /\ Beyond(past.missed, view.filter, past.walked * PageSize)'
          /\ shown'.view.filter = view'.filter /\ past'.missed # {} =>
               shown'.total > past'.walked * PageSize
    BY SameBeyond DEF WalkGoesOn, QuietPage
  <1> QED
    BY <1>1, <1>2 DEF WalkGoesOn

LEMMA QuietStepsWalk ==
  ASSUME PageInv, PageTyped, WalkGoesOn, NEW c \in Calls,
         \/ Click(c) \/ PostSucceeds(c) \/ PostFails(c) \/ RunFind(c) \/ RunCount(c)
         \/ LoadFails(c) \/ DetailComes(c) \/ \E j \in Jobs : OpenDetail(c, j)
  PROVE  WalkGoesOn'
  <1>q. QuietPage /\ CallsAreRecords /\ call[c].view \in PageViews
    BY QuietSteps DEF PageInv, PageTyped, CallTyped
  <1>1. ASSUME call'[c].stage \in {"idle", "posting", "asked", "detail"},
               \A d \in Calls : d # c => call'[d] = call[d]
        PROVE  WalkGoesOn'
    <2>1. HalfRead(call[c])' /\ Starts(call[c])' /\ GoesOn(call[c])'
      BY <1>1 DEF HalfRead, Starts, GoesOn
    <2> QED
      BY <1>1, <1>q, <2>1, QuietWalks
  <1>2. CASE Click(c)
    <2>1. PICK b : Begin(c, "posting", view, b)
      BY <1>2 DEF Click
    <2> QED
      BY <1>1, <1>q, <2>1, BeginShape
  <1>3. CASE PostSucceeds(c)
    BY <1>1, <1>3, <1>q, PostShape
  <1>4. CASE PostFails(c) \/ LoadFails(c) \/ DetailComes(c)
    <2>1. call' = [call EXCEPT ![c] = Idle]
      BY <1>4 DEF PostFails, LoadFails, DetailComes
    <2>2. call'[c] = Idle /\ \A d \in Calls : d # c => call'[d] = call[d]
      BY <1>q, <2>1, EndShape
    <2> QED
      BY <1>1, <2>2, IdleFields
  <1>5. CASE \E j \in Jobs : OpenDetail(c, j)
    <2>1. call'[c].stage = "detail" /\ \A d \in Calls : d # c => call'[d] = call[d]
      BY <1>5, <1>q, DetailShape
    <2> QED
      BY <1>1, <2>1
  <1>6. CASE RunFind(c) \/ RunCount(c)
    <2> DEFINE v == call[c].view
               f == v.filter
    <2>1. /\ call'[c].view = v
          /\ \A d \in Calls : d # c => call'[d] = call[d]
          /\ call'[c].stage \in {"found", "counted", "done"}
          /\ (call'[c].torn <=> call[c].torn)
      BY <1>6, <1>q, FindShape, CountShape
    <2>2. call'[c].stage \in {"found", "done"} /\ ~call[c].torn =>
            /\ call'[c].jobs = FindJobs(v)
            /\ v.page = 1 => call'[c].rest = RowsFor(f) \ FindJobs(v)
      BY <1>6, <1>q, FindShape, CountShape DEF WalkGoesOn, HalfRead
    <2>3. call'[c].stage \in {"counted", "done"} /\ ~call[c].torn => call'[c].total = Total(f)
      BY <1>6, <1>q, FindShape, CountShape DEF WalkGoesOn, HalfRead
    <2> HIDE DEF v
    <2>4. HalfRead(call[c])'
      BY <1>q, <2>1, <2>2, <2>3, SameRows DEF HalfRead, QuietPage
    <2>5. v \in PageViews
      BY <1>q DEF v
    <2>6. Starts(call[c])'
      BY <1>q, <2>1, <2>2, <2>3, <2>5, FreshAnswer, SameBeyond DEF Starts, QuietPage
    <2>7. GoesOn(call[c])'
      BY <1>q, <2>1, <2>2, <2>3, <2>5, FreshAnswer, SameBeyond DEF GoesOn, QuietPage
    <2> QED
      BY <1>q, <2>1, <2>4, <2>6, <2>7, QuietWalks
  <1> QED
    BY <1>2, <1>3, <1>4, <1>5, <1>6

LEMMA ShowWalks ==
  ASSUME PageInv, PageTyped, WalkGoesOn, NEW v, NEW astray, Show(v, astray)
  PROVE  WalkGoesOn'
  <1>1. PICK c \in Calls : Begin(c, "asked", v, FALSE)
    BY DEF Show
  <1>2. call'[c].stage = "asked" /\ \A d \in Calls : d # c => call'[d] = call[d]
    BY <1>1, BeginShape DEF PageInv
  <1>3. ListStays /\ view' = v /\ shown' = shown
    BY DEF Show, ListStays
  <1>4. /\ past'.missed = past.missed
        /\ past'.walked = IF v.filter = view.filter THEN past.walked ELSE 0
    BY DEF Show, PageInv, CallsAreRecords, PastFields
  <1>5. ASSUME NEW d \in Calls
        PROVE  HalfRead(call[d])' /\ Starts(call[d])' /\ GoesOn(call[d])'
    <2>1. CASE d = c
      BY <1>2, <2>1 DEF HalfRead, Starts, GoesOn
    <2>2. CASE d # c
      <3>1. HalfRead(call[d])' /\ Starts(call[d])'
        BY <1>2, <1>3, <2>2, SameCall DEF WalkGoesOn
      <3>2. CASE v.filter = view.filter
        BY <1>2, <1>3, <1>4, <2>2, <3>1, <3>2, SameCall DEF WalkGoesOn
      <3>3. CASE v.filter # view.filter
        BY <1>4, <3>1, <3>3 DEF GoesOn
      <3> QED
        BY <3>2, <3>3
    <2> QED
      BY <2>1, <2>2
  <1>6. past'.walked > 0 =>
          /\ Beyond(past.missed, view.filter, past.walked * PageSize)'
          /\ shown'.view.filter = view'.filter /\ past'.missed # {} =>
               shown'.total > past'.walked * PageSize
    BY <1>3, <1>4, SameBeyond DEF WalkGoesOn
  <1> QED
    BY <1>5, <1>6 DEF WalkGoesOn

\* The four cases of an answer for the filters of the view.
LEMMA WalkedCases ==
  ASSUME CallsAreRecords, NEW c \in Calls
  PROVE  LET over == call[c].torn \/ \E d \in Calls \ {c} : call[d].stage = "done"
         IN /\ over => Walked(c).walked = 0
            /\ ~over /\ call[c].view.page = 1 =>
                 Walked(c).walked = 1 /\ Walked(c).missed = call[c].rest
            /\ ~over /\ call[c].view.page # 1 /\ call[c].view.page = past.walked + 1 =>
                 /\ Walked(c).walked = past.walked + 1
                 /\ Walked(c).missed = past.missed \ call[c].jobs
            /\ ~over /\ call[c].view.page # 1 /\ call[c].view.page # past.walked + 1 =>
                 Walked(c).walked = past.walked /\ Walked(c).missed = past.missed
  BY DEF CallsAreRecords, PastFields, Walked

LEMMA DeliverWalks ==
  ASSUME PageInv, PageTyped, WalkGoesOn, NEW c \in Calls, Deliver(c)
  PROVE  WalkGoesOn'
  <1> DEFINE over == call[c].torn \/ \E d \in Calls \ {c} : call[d].stage = "done"
             f == call[c].view.filter
  <1>1. CallsAreRecords /\ past.walked \in Nat /\ PageSize \in Nat \ {0}
        /\ call[c].view.page \in Nat \ {0}
    BY EmptyIsTyped DEF PageInv, PageTyped, CallTyped, PageViews
  <1>2. ListStays /\ view' = view /\ call[c].stage = "done"
        /\ shown'.view = call[c].view /\ shown'.total = call[c].total
    BY DEF Deliver, ListStays
  <1>3. call'[c] = Idle /\ \A d \in Calls : d # c => call'[d] = call[d]
    BY <1>1, EndShape DEF Deliver
  <1>4. call'[c].stage = "idle"
    BY <1>3, IdleFields
  <1>5. \A d \in Calls : HalfRead(call[d])' /\ Starts(call[d])'
    <2> SUFFICES ASSUME NEW d \in Calls PROVE HalfRead(call[d])' /\ Starts(call[d])'
      OBVIOUS
    <2>1. CASE d = c
      BY <1>4, <2>1 DEF HalfRead, Starts
    <2>2. CASE d # c
      BY <1>2, <1>3, <2>2, SameCall DEF WalkGoesOn
    <2> QED
      BY <2>1, <2>2
  <1>6. CASE f # view.filter
    <2>1. past'.walked = past.walked /\ past'.missed = past.missed
      BY <1>1, <1>6, DeliverPast
    <2>2. ASSUME NEW d \in Calls PROVE GoesOn(call[d])'
      <3>1. CASE d = c
        BY <1>4, <3>1 DEF GoesOn
      <3>2. CASE d # c
        BY <1>2, <1>3, <2>1, <3>2, SameCall DEF WalkGoesOn
      <3> QED
        BY <3>1, <3>2
    <2>3. past'.walked > 0 => Beyond(past.missed, view.filter, past.walked * PageSize)'
      BY <1>2, <2>1, SameBeyond DEF WalkGoesOn
    <2> QED
      BY <1>2, <1>5, <1>6, <2>2, <2>3 DEF WalkGoesOn
  <1>7. CASE f = view.filter /\ over
    <2>1. past'.walked = 0
      BY <1>1, <1>7, DeliverPast, WalkedCases
    <2> QED
      BY <1>5, <2>1 DEF WalkGoesOn, GoesOn
  <1>8. CASE f = view.filter /\ ~over
    <2>1. \A d \in Calls : call'[d].stage # "done"
      BY <1>3, <1>4, <1>8
    <2>2. \A d \in Calls : GoesOn(call[d])'
      BY <2>1 DEF GoesOn
    <2>3. Starts(call[c]) /\ GoesOn(call[c]) /\ ~call[c].torn
      BY <1>8 DEF WalkGoesOn
    <2>4. past'.walked > 0 =>
            /\ Beyond(past'.missed, view.filter, past'.walked * PageSize)
            /\ past'.missed # {} => call[c].total > past'.walked * PageSize
      <3>1. CASE call[c].view.page = 1
        <4>1. past'.walked = 1 /\ past'.missed = call[c].rest /\ 1 * PageSize = PageSize
          BY <1>1, <1>8, <3>1, DeliverPast, WalkedCases
        <4> QED
          BY <1>2, <1>8, <2>3, <3>1, <4>1 DEF Starts
      <3>2. CASE call[c].view.page # 1 /\ call[c].view.page = past.walked + 1
        <4>1. past'.walked = past.walked + 1 /\ past'.missed = past.missed \ call[c].jobs
          BY <1>1, <1>8, <3>2, DeliverPast, WalkedCases
        <4>2. past.walked > 0
          BY <1>1, <3>2
        <4> QED
          BY <1>2, <1>8, <2>3, <3>2, <4>1, <4>2 DEF GoesOn
      <3>3. CASE call[c].view.page # 1 /\ call[c].view.page # past.walked + 1
        <4>1. past'.walked = past.walked /\ past'.missed = past.missed
          BY <1>1, <1>8, <3>3, DeliverPast, WalkedCases
        <4> QED
          BY <1>2, <1>8, <2>3, <4>1 DEF GoesOn, WalkGoesOn
      <3> QED
        BY <3>1, <3>2, <3>3
    <2>5. past'.walked > 0 => Beyond(past.missed, view.filter, past.walked * PageSize)'
      <3>1. \A S, n : Beyond(S, view.filter, n) => Beyond(S, view.filter, n)'
        BY <1>2, SameBeyond
      <3> QED
        BY <1>2, <2>4, <3>1
    <2> QED
      BY <1>2, <1>5, <2>2, <2>4, <2>5 DEF WalkGoesOn
  <1> QED
    BY <1>6, <1>7, <1>8

LEMMA RowStepsWalk ==
  ASSUME PageInv, PageTyped, WalkGoesOn, NEW j \in Jobs, JobArrives(j) \/ JobLeaves(j)
  PROVE  WalkGoesOn'
  <1>1. CASE JobArrives(j)
    <2>1. \A S, f, n : n \in Int /\ Beyond(S, f, n) => Beyond(S, f, n)'
      <3>1. Ordered /\ waiting \subseteq list /\ Ordered'
        BY <1>1, RowsArrive DEF PageTyped
      <3>2. ASSUME NEW f, NEW k \in RowsFor(f)
            PROVE  /\ k \in RowsFor(f)' /\ Place(k, f) <= Place(k, f)'
                   /\ Place(k, f) \in Int /\ Place(k, f)' \in Int
        <4>1. k \in RowsFor(f)' /\ Place(k, f) <= Place(k, f)'
          BY <1>1, <3>1, RowsArrive
        <4>2. Place(k, f) \in Int
          BY <3>1, PlacesAreRows, RowsAreFinite
        <4>3. IsFiniteSet({m \in before[k] : Matches(m, f)})'
          BY <3>1, <4>1, FS_Subset DEF Ordered, RowsFor
        <4>4. Place(k, f)' \in Int
          BY <4>3, FS_CardinalityType DEF Place
        <4> QED
          BY <4>1, <4>2, <4>4
      <3> QED
        BY <3>2 DEF Beyond
    <2>2. \A d \in Calls :
            /\ call'[d].stage = call[d].stage /\ call'[d].view = call[d].view
            /\ call'[d].jobs = call[d].jobs /\ call'[d].total = call[d].total
            /\ call'[d].rest = call[d].rest
            /\ call'[d].torn <=> call[d].stage \in {"found", "counted"} \/ call[d].torn
      BY <1>1, TearShape DEF JobArrives, PageInv
    <2>3. UNCHANGED <<view, shown, past>> /\ past.walked * PageSize \in Int
          /\ (past.walked + 1) * PageSize \in Int /\ PageSize \in Int
      <3>1. past.walked \in Nat /\ PageSize \in Nat
        BY EmptyIsTyped DEF PageTyped
      <3> QED
        BY <1>1, <3>1, SMT DEF JobArrives
    <2>4. ASSUME NEW d \in Calls
          PROVE  HalfRead(call[d])' /\ Starts(call[d])' /\ GoesOn(call[d])'
      <3>1. HalfRead(call[d])'
        BY <2>2 DEF HalfRead
      <3>2. Starts(call[d])'
        BY <2>1, <2>2, <2>3 DEF Starts, WalkGoesOn
      <3>3. GoesOn(call[d])'
        BY <2>1, <2>2, <2>3 DEF GoesOn, WalkGoesOn
      <3> QED
        BY <3>1, <3>2, <3>3
    <2>5. past.walked > 0 => Beyond(past.missed, view.filter, past.walked * PageSize)'
      BY <2>1, <2>3 DEF WalkGoesOn
    <2> QED
      BY <2>3, <2>4, <2>5 DEF WalkGoesOn
  <1>2. CASE JobLeaves(j)
    <2>1. \A d \in Calls :
            /\ call'[d].stage = call[d].stage
            /\ call'[d].torn <=> call[d].stage \in {"found", "counted", "done"} \/ call[d].torn
      BY <1>2, TearShape DEF JobLeaves, PageInv
    <2>2. past'.walked = 0
      BY <1>2 DEF JobLeaves, PageInv, CallsAreRecords, PastFields
    <2> QED
      BY <2>1, <2>2 DEF WalkGoesOn, HalfRead, Starts, GoesOn
  <1> QED
    BY <1>1, <1>2

LEMMA StuttersWalk ==
  ASSUME WalkGoesOn, UNCHANGED pageVars \/ CloseDetail
  PROVE  WalkGoesOn'
  <1>1. QuietPage /\ UNCHANGED <<call, past>>
    BY StuttersAreQuiet
  <1>2. \A d \in Calls : HalfRead(call[d])' /\ Starts(call[d])' /\ GoesOn(call[d])'
    BY <1>1, SameCall DEF WalkGoesOn, QuietPage
  <1> QED
    BY <1>1, <1>2, SameBeyond DEF WalkGoesOn, QuietPage

LEMMA PageStepWalks ==
  ASSUME PageInv, PageTyped, WalkGoesOn, PageNext
  PROVE  WalkGoesOn'
  <1>1. CASE (\E f \in Filters : SetFilter(f)) \/ NextPage \/ PrevPage
    BY <1>1, ShowWalks DEF SetFilter, NextPage, PrevPage
  <1>2. CASE \E c \in Calls :
               \/ Click(c) \/ PostSucceeds(c) \/ PostFails(c) \/ RunFind(c) \/ RunCount(c)
               \/ LoadFails(c) \/ DetailComes(c) \/ \E j \in Jobs : OpenDetail(c, j)
    BY <1>2, QuietStepsWalk
  <1>3. CASE \E c \in Calls : Deliver(c)
    BY <1>3, DeliverWalks
  <1>4. CASE \E j \in Jobs : JobArrives(j) \/ JobLeaves(j)
    BY <1>4, RowStepsWalk
  <1>5. CASE CloseDetail
    BY <1>5, StuttersWalk
  <1> QED
    BY <1>1, <1>2, <1>3, <1>4, <1>5 DEF PageNext

\* Who pages from the first page to the last sees every job that was in the list
\* all along, however many come meanwhile, unless one leaves the list or comes
\* between the two queries of an answer, or two answers may come in the wrong
\* order (loadJobs of page.tsx over GET /jobs).
THEOREM WalkIsSeenWhole == DashboardSpec => []WalkSeesAll
  <1>1. DashboardInit => WalkGoesOn
    BY WalkStartsGood DEF DashboardInit
  <1>2. PageInv /\ PageTyped /\ WalkGoesOn /\ [DashboardNext]_dashboardVars => WalkGoesOn'
    BY PageStepWalks, StuttersWalk
      DEF DashboardNext, OnJobsPage, OnQueuesPage, OnList, dashboardVars
  <1>3. PageTyped /\ WalkGoesOn => WalkSeesAll
    <2>1. PageTyped =>
            (view.page < Pages(shown) <=> shown.total > view.page * PageSize)
            /\ view.page \in Nat \ {0} /\ Pages(shown) \in Nat
      BY MorePages DEF Pages, PageTyped, PageViews
    <2> QED
      BY <2>1 DEF WalkSeesAll, WalkGoesOn
  <1> QED
    BY <1>1, <1>2, <1>3, TypedInvariant, PTL DEF DashboardSpec

-----------------------------------------------------------------------------
(* The pages that a user goes to. *)

\* The page of the view is the first or has rows.
PageIsThere(v) == v.page = 1 \/ Total(v.filter) > (v.page - 1) * PageSize

\* What an answer counts is there, and so is the page that is asked for, until a
\* job leaves the list.
CountIsThere(e) ==
  e.stage \in {"counted", "done"} /\ (~e.torn \/ ~past.astray) => e.total <= Total(e.view.filter)
AskedIsThere(e) ==
  ~past.astray =>
    /\ e.stage \in {"posting", "asked", "counted"} => PageIsThere(e.view)
    /\ e.stage \in {"found", "done"} => e.view.page = 1 \/ e.jobs # {}

PagesAreThere ==
  /\ \A c \in Calls : CountIsThere(call[c]) /\ AskedIsThere(call[c])
  /\ ~past.astray =>
       /\ PageIsThere(view)
       /\ shown.total <= Total(shown.view.filter)
       /\ shown.view.page = 1 \/ shown.jobs # {}

LEMMA SamePages ==
  ASSUME ListStays
  PROVE  \A v : PageIsThere(v)' <=> PageIsThere(v)
  BY SameRows DEF PageIsThere

LEMMA SameCallThere ==
  ASSUME ListStays, NEW c, call'[c] = call[c]
  PROVE  /\ past'.astray = past.astray => (CountIsThere(call[c]) => CountIsThere(call[c])')
         /\ ~past.astray \/ past'.astray => (CountIsThere(call[c]) => CountIsThere(call[c])')
         /\ ~past.astray \/ past'.astray => (AskedIsThere(call[c]) => AskedIsThere(call[c])')
  BY SameRows, SamePages DEF CountIsThere, AskedIsThere

LEMMA PagesStart == PageInit => PagesAreThere
  <1> SUFFICES ASSUME PageInit PROVE PagesAreThere
    OBVIOUS
  <1>1. PICK first \in Calls :
          call = [c \in Calls |-> IF c = first THEN [Idle EXCEPT !.stage = "asked"] ELSE Idle]
    BY DEF PageInit
  <1>2. /\ Idle.stage = "idle" /\ [Idle EXCEPT !.stage = "asked"].stage = "asked"
        /\ [Idle EXCEPT !.stage = "asked"].view = Blank /\ Blank.page = 1
    BY DEF Idle, Blank
  <1>3. \A c \in Calls : call[c].stage \in {"idle", "asked"}
                         /\ (call[c].stage = "asked" => call[c].view.page = 1)
    BY <1>1, <1>2
  <1>4. \A c \in Calls : CountIsThere(call[c]) /\ AskedIsThere(call[c])
    BY <1>3 DEF CountIsThere, AskedIsThere, PageIsThere
  <1>5. view = Blank /\ shown.view = Blank /\ shown.total = 0
    BY DEF PageInit
  <1>6. Total(shown.view.filter) \in Nat
    <2>1. Ordered
      BY PageStartsTyped DEF PageTyped
    <2> QED
      BY <2>1, RowsAreFinite
  <1> QED
    BY <1>2, <1>4, <1>5, <1>6 DEF PagesAreThere, PageIsThere

LEMMA QuietIsThere ==
  ASSUME PagesAreThere, QuietPage, NEW c,
         \A d \in Calls : d # c => call'[d] = call[d],
         CountIsThere(call[c])', AskedIsThere(call[c])'
  PROVE  PagesAreThere'
  <1>1. ASSUME NEW d \in Calls
        PROVE  CountIsThere(call[d])' /\ AskedIsThere(call[d])'
    <2>1. CASE d = c
      BY <2>1
    <2>2. CASE d # c
      <3>1. ListStays /\ past'.astray = past.astray /\ call'[d] = call[d]
        BY <2>2 DEF QuietPage
      <3> QED
        BY <3>1, SameCallThere DEF PagesAreThere
    <2> QED
      BY <2>1, <2>2
  <1> QED
    BY <1>1, SameRows, SamePages DEF PagesAreThere, QuietPage

LEMMA QuietStepsAreThere ==
  ASSUME PageInv, PageTyped, PagesAreThere, NEW c \in Calls,
         \/ Click(c) \/ PostSucceeds(c) \/ PostFails(c) \/ RunFind(c) \/ RunCount(c)
         \/ LoadFails(c) \/ DetailComes(c) \/ \E j \in Jobs : OpenDetail(c, j)
  PROVE  PagesAreThere'
  <1>q. /\ QuietPage /\ CallsAreRecords /\ Ordered /\ ListStays /\ past'.astray = past.astray
        /\ call[c].view \in PageViews
    BY QuietSteps DEF PageInv, PageTyped, QuietPage, CallTyped
  <1>c. CountIsThere(call[c]) /\ AskedIsThere(call[c])
    BY DEF PagesAreThere
  <1>1. ASSUME call'[c].stage \in {"idle", "detail"}, \A d \in Calls : d # c => call'[d] = call[d]
        PROVE  PagesAreThere'
    <2>1. CountIsThere(call[c])' /\ AskedIsThere(call[c])'
      BY <1>1 DEF CountIsThere, AskedIsThere
    <2> QED
      BY <1>1, <1>q, <2>1, QuietIsThere
  <1>2. CASE Click(c)
    <2>1. PICK b : Begin(c, "posting", view, b)
      BY <1>2 DEF Click
    <2>2. /\ call'[c].stage = "posting" /\ call'[c].view = view
          /\ \A d \in Calls : d # c => call'[d] = call[d]
      BY <1>q, <2>1, BeginShape
    <2>3. CountIsThere(call[c])' /\ AskedIsThere(call[c])'
      BY <1>q, <2>2, SamePages DEF CountIsThere, AskedIsThere, PagesAreThere
    <2> QED
      BY <1>q, <2>2, <2>3, QuietIsThere
  <1>3. CASE PostSucceeds(c)
    <2>1. /\ call[c].stage = "posting" /\ call'[c].stage = "asked"
          /\ call'[c].view = call[c].view
          /\ \A d \in Calls : d # c => call'[d] = call[d]
      BY <1>3, <1>q, PostShape
    <2>2. CountIsThere(call[c])' /\ AskedIsThere(call[c])'
      BY <1>c, <1>q, <2>1, SamePages DEF CountIsThere, AskedIsThere
    <2> QED
      BY <1>q, <2>1, <2>2, QuietIsThere
  <1>4. CASE PostFails(c) \/ LoadFails(c) \/ DetailComes(c)
    <2>1. call' = [call EXCEPT ![c] = Idle]
      BY <1>4 DEF PostFails, LoadFails, DetailComes
    <2>2. call'[c] = Idle /\ \A d \in Calls : d # c => call'[d] = call[d]
      BY <1>q, <2>1, EndShape
    <2> QED
      BY <1>1, <2>2, IdleFields
  <1>5. CASE \E j \in Jobs : OpenDetail(c, j)
    <2>1. call'[c].stage = "detail" /\ \A d \in Calls : d # c => call'[d] = call[d]
      BY <1>5, <1>q, DetailShape
    <2> QED
      BY <1>1, <2>1
  <1>6. CASE RunFind(c)
    <2> DEFINE v == call[c].view
    <2>1. /\ call[c].stage \in {"asked", "counted"}
          /\ call'[c].stage = IF call[c].stage = "asked" THEN "found" ELSE "done"
          /\ call'[c].view = v /\ call'[c].jobs = FindJobs(v) /\ call'[c].total = call[c].total
          /\ (call'[c].torn <=> call[c].torn)
          /\ \A d \in Calls : d # c => call'[d] = call[d]
      BY <1>6, <1>q, FindShape
    <2>2. CountIsThere(call[c])'
      BY <1>c, <1>q, <2>1, SameRows DEF CountIsThere
    <2>3. ~past.astray => v.page = 1 \/ FindJobs(v) # {}
      BY <1>c, <1>q, <2>1, PageSizes DEF AskedIsThere, PageIsThere
    <2>4. AskedIsThere(call[c])'
      BY <1>q, <2>1, <2>3 DEF AskedIsThere
    <2> QED
      BY <1>q, <2>1, <2>2, <2>4, QuietIsThere
  <1>7. CASE RunCount(c)
    <2> DEFINE v == call[c].view
    <2>1. /\ call[c].stage \in {"asked", "found"}
          /\ call'[c].stage = IF call[c].stage = "asked" THEN "counted" ELSE "done"
          /\ call'[c].view = v /\ call'[c].total = Total(v.filter)
          /\ call'[c].jobs = call[c].jobs
          /\ \A d \in Calls : d # c => call'[d] = call[d]
      BY <1>7, <1>q, CountShape
    <2>2. Total(v.filter) \in Nat
      BY <1>q, RowsAreFinite
    <2>3. CountIsThere(call[c])'
      BY <1>q, <2>1, <2>2, SameRows DEF CountIsThere
    <2>4. AskedIsThere(call[c])'
      BY <1>c, <1>q, <2>1, SamePages DEF AskedIsThere
    <2> QED
      BY <1>q, <2>1, <2>3, <2>4, QuietIsThere
  <1> QED
    BY <1>2, <1>3, <1>4, <1>5, <1>6, <1>7

\* The controls go to a view whose page is there, unless the user is astray.
LEMMA ShowIsThere ==
  ASSUME PageInv, PagesAreThere, NEW v, NEW astray, Show(v, astray),
         ~past.astray /\ ~astray => PageIsThere(v)
  PROVE  PagesAreThere'
  <1>1. PICK c \in Calls : Begin(c, "asked", v, FALSE)
    BY DEF Show
  <1>2. /\ call'[c].stage = "asked" /\ call'[c].view = v
        /\ \A d \in Calls : d # c => call'[d] = call[d]
    BY <1>1, BeginShape DEF PageInv
  <1>3. ListStays /\ view' = v /\ shown' = shown
    BY DEF Show, ListStays
  <1>4. past'.astray <=> past.astray \/ astray
    BY DEF Show, PageInv, CallsAreRecords, PastFields
  <1>5. ASSUME NEW d \in Calls
        PROVE  CountIsThere(call[d])' /\ AskedIsThere(call[d])'
    <2>1. CASE d = c
      BY <1>2, <1>3, <1>4, <2>1, SamePages DEF CountIsThere, AskedIsThere
    <2>2. CASE d # c
      BY <1>2, <1>3, <1>4, <2>2, SameCallThere DEF PagesAreThere
    <2> QED
      BY <2>1, <2>2
  <1> QED
    BY <1>3, <1>4, <1>5, SameRows, SamePages DEF PagesAreThere

\* NextPage goes on where the answer on the screen counts more rows.
LEMMA NextPageIsThere ==
  ASSUME PageTyped, PagesAreThere, NextPage, ~past.astray, shown.view.filter = view.filter,
         NEW v \in PageViews, v.filter = view.filter, v.page = view.page + 1
  PROVE  PageIsThere(v)
  <1>1. view.page \in Nat /\ shown.total \in Nat /\ Total(view.filter) \in Nat
        /\ PageSize \in Nat \ {0}
    BY EmptyIsTyped, RowsAreFinite DEF PageTyped, PageViews
  <1>2. shown.total > view.page * PageSize
    BY <1>1, MorePages DEF NextPage, Pages
  <1>3. shown.total <= Total(view.filter)
    BY DEF PagesAreThere
  <1>4. (v.page - 1) * PageSize = view.page * PageSize /\ view.page * PageSize \in Nat
    BY <1>1, SMT
  <1> QED
    BY <1>1, <1>2, <1>3, <1>4 DEF PageIsThere

LEMMA PrevPageIsThere ==
  ASSUME PageTyped, PagesAreThere, ~past.astray,
         NEW v \in PageViews, v.filter = view.filter, v.page = view.page - 1
  PROVE  PageIsThere(v)
  <1>1. /\ view.page \in Nat \ {0} /\ v.page \in Nat \ {0} /\ Total(view.filter) \in Nat
        /\ PageSize \in Nat \ {0}
    BY EmptyIsTyped, RowsAreFinite DEF PageTyped, PageViews
  <1>2. Total(view.filter) > (view.page - 1) * PageSize
    BY <1>1 DEF PagesAreThere, PageIsThere
  <1>3. /\ (view.page - 1) * PageSize = (v.page - 1) * PageSize + PageSize
        /\ (v.page - 1) * PageSize \in Nat
    BY <1>1, SMT
  <1> QED
    BY <1>1, <1>2, <1>3 DEF PageIsThere

LEMMA DeliverIsThere ==
  ASSUME PageInv, PageTyped, PagesAreThere, NEW c \in Calls, Deliver(c)
  PROVE  PagesAreThere'
  <1>1. CallsAreRecords /\ CountIsThere(call[c]) /\ AskedIsThere(call[c])
    BY DEF PageInv, PagesAreThere
  <1>2. /\ ListStays /\ view' = view /\ call[c].stage = "done"
        /\ shown'.view = call[c].view /\ shown'.total = call[c].total
        /\ shown'.jobs = call[c].jobs
    BY DEF Deliver, ListStays
  <1>3. call'[c].stage = "idle" /\ \A d \in Calls : d # c => call'[d] = call[d]
    BY <1>1, EndShape, IdleFields DEF Deliver
  <1>4. ~past.astray => ~past'.astray
    BY <1>1, DeliverPast
  <1>5. past.astray /\ ~past'.astray =>
          /\ call[c].view = view /\ view.page = 1 /\ ~call[c].torn
          /\ \A d \in Calls \ {c} : call[d].stage = "idle"
    BY <1>1, DeliverPast
  <1>6. ASSUME NEW d \in Calls
        PROVE  CountIsThere(call[d])' /\ AskedIsThere(call[d])'
    <2>1. CASE d = c
      BY <1>3, <2>1 DEF CountIsThere, AskedIsThere
    <2>2. CASE d # c /\ (~past.astray \/ past'.astray)
      BY <1>2, <1>3, <2>2, SameCallThere DEF PagesAreThere
    <2>3. CASE d # c /\ past.astray /\ ~past'.astray
      <3>1. call'[d].stage = "idle"
        BY <1>3, <1>5, <2>3
      <3> QED
        BY <3>1 DEF CountIsThere, AskedIsThere
    <2> QED
      BY <2>1, <2>2, <2>3
  <1>7. ~past'.astray => PageIsThere(view)
    BY <1>5 DEF PagesAreThere, PageIsThere
  <1>8. ~past'.astray => call[c].total <= Total(call[c].view.filter)
    BY <1>1, <1>2, <1>5 DEF CountIsThere
  <1>9. ~past'.astray => call[c].view.page = 1 \/ call[c].jobs # {}
    BY <1>1, <1>2, <1>5 DEF AskedIsThere
  <1> QED
    BY <1>2, <1>6, <1>7, <1>8, <1>9, SameRows, SamePages DEF PagesAreThere

LEMMA RowStepsAreThere ==
  ASSUME PageInv, PageTyped, PagesAreThere, NEW j \in Jobs, JobArrives(j) \/ JobLeaves(j)
  PROVE  PagesAreThere'
  <1>1. CASE JobArrives(j)
    <2>1. Ordered /\ Ordered' /\ \A f : Total(f) <= Total(f)'
      BY <1>1, RowsArrive DEF PageTyped
    <2>2. \A f : Total(f) \in Nat /\ Total(f)' \in Nat
      <3>1. \A f : Total(f) \in Nat
        BY <2>1, RowsAreFinite
      <3>2. ASSUME NEW f PROVE Total(f)' \in Nat
        BY <2>1, FS_Subset, FS_CardinalityType DEF Ordered, RowsFor, Total
      <3> QED
        BY <3>1, <3>2
    <2>3. \A d \in Calls :
            /\ call'[d].stage = call[d].stage /\ call'[d].view = call[d].view
            /\ call'[d].jobs = call[d].jobs /\ call'[d].total = call[d].total
            /\ call'[d].torn <=> call[d].stage \in {"found", "counted"} \/ call[d].torn
      BY <1>1, TearShape DEF JobArrives, PageInv
    <2>4. UNCHANGED <<view, shown, past>> /\ PageSize \in Nat /\ view \in PageViews
          /\ shown.total \in Nat
          /\ \A d \in Calls : call[d].total \in Nat /\ call[d].view \in PageViews
      BY <1>1, EmptyIsTyped DEF JobArrives, PageTyped, CallTyped
    <2>5. ASSUME NEW v \in PageViews, PageIsThere(v)
          PROVE  PageIsThere(v)'
      <3>1. (v.page - 1) * PageSize \in Int
        BY <2>4, SMT DEF PageViews
      <3> QED
        BY <2>1, <2>2, <2>5, <3>1 DEF PageIsThere
    <2>6. ASSUME NEW d \in Calls
          PROVE  CountIsThere(call[d])' /\ AskedIsThere(call[d])'
      <3>1. CountIsThere(call[d]) /\ AskedIsThere(call[d])
        BY DEF PagesAreThere
      <3>2. CountIsThere(call[d])'
        BY <2>1, <2>2, <2>3, <2>4, <3>1 DEF CountIsThere
      <3>3. AskedIsThere(call[d])'
        BY <2>3, <2>4, <2>5, <3>1 DEF AskedIsThere
      <3> QED
        BY <3>2, <3>3
    <2>7. ~past.astray => PageIsThere(view)' /\ shown.total <= Total(shown.view.filter)'
      BY <2>1, <2>2, <2>4, <2>5 DEF PagesAreThere
    <2> QED
      BY <2>4, <2>6, <2>7 DEF PagesAreThere
  <1>2. CASE JobLeaves(j)
    <2>1. \A d \in Calls :
            /\ call'[d].stage = call[d].stage
            /\ call'[d].torn <=> call[d].stage \in {"found", "counted", "done"} \/ call[d].torn
      BY <1>2, TearShape DEF JobLeaves, PageInv
    <2>2. past'.astray
      BY <1>2 DEF JobLeaves, PageInv, CallsAreRecords, PastFields
    <2> QED
      BY <2>1, <2>2 DEF PagesAreThere, CountIsThere, AskedIsThere
  <1> QED
    BY <1>1, <1>2

LEMMA StuttersAreThere ==
  ASSUME PagesAreThere, UNCHANGED pageVars \/ CloseDetail
  PROVE  PagesAreThere'
  <1>1. QuietPage /\ ListStays /\ UNCHANGED <<call, past>>
    BY StuttersAreQuiet DEF QuietPage
  <1>2. \A d \in Calls : CountIsThere(call[d])' /\ AskedIsThere(call[d])'
    BY <1>1, SameCallThere DEF PagesAreThere
  <1> QED
    BY <1>1, <1>2, SameRows, SamePages DEF PagesAreThere, QuietPage

LEMMA PageStepIsThere ==
  ASSUME PageInv, PageTyped, PagesAreThere, PageNext
  PROVE  PagesAreThere'
  <1>1. ASSUME NEW f \in Filters, SetFilter(f)
        PROVE  PagesAreThere'
    <2>1. PageIsThere([filter |-> f, page |-> 1])
      BY DEF PageIsThere
    <2> QED
      BY <1>1, <2>1, ShowIsThere DEF SetFilter
  <1>2. CASE NextPage
    <2>1. PICK v \in PageViews :
            /\ v.filter = view.filter /\ v.page = view.page + 1
            /\ Show(v, shown.view.filter # view.filter)
      BY <1>2, ViewsAreTyped
    <2>2. ~past.astray /\ ~(shown.view.filter # view.filter) => PageIsThere(v)
      BY <1>2, <2>1, NextPageIsThere
    <2> QED
      BY <2>1, <2>2, ShowIsThere
  <1>3. CASE PrevPage
    <2>1. PICK v \in PageViews :
            /\ v.filter = view.filter /\ v.page = view.page - 1
            /\ Show(v, FALSE)
      BY <1>3, ViewsAreTyped
    <2>2. ~past.astray => PageIsThere(v)
      BY <2>1, PrevPageIsThere
    <2> QED
      BY <2>1, <2>2, ShowIsThere
  <1>4. CASE \E c \in Calls :
               \/ Click(c) \/ PostSucceeds(c) \/ PostFails(c) \/ RunFind(c) \/ RunCount(c)
               \/ LoadFails(c) \/ DetailComes(c) \/ \E j \in Jobs : OpenDetail(c, j)
    BY <1>4, QuietStepsAreThere
  <1>5. CASE \E c \in Calls : Deliver(c)
    BY <1>5, DeliverIsThere
  <1>6. CASE \E j \in Jobs : JobArrives(j) \/ JobLeaves(j)
    BY <1>6, RowStepsAreThere
  <1>7. CASE CloseDetail
    BY <1>7, StuttersAreThere
  <1> QED
    BY <1>1, <1>2, <1>3, <1>4, <1>5, <1>6, <1>7 DEF PageNext

\* An empty page, which hides the Prev button, is the first one, unless since the
\* first page was last shown with no call under way a job left the list or the
\* user took the number of pages from another filter's answer (page.tsx).
THEOREM NobodyIsStranded == DashboardSpec => []NotStranded
  <1>1. DashboardInit => PagesAreThere
    BY PagesStart DEF DashboardInit
  <1>2. PageInv /\ PageTyped /\ PagesAreThere /\ [DashboardNext]_dashboardVars => PagesAreThere'
    BY PageStepIsThere, StuttersAreThere
      DEF DashboardNext, OnJobsPage, OnQueuesPage, OnList, dashboardVars
  <1>3. PagesAreThere => NotStranded
    BY DEF PagesAreThere, NotStranded
  <1> QED
    BY <1>1, <1>2, <1>3, TypedInvariant, PTL DEF DashboardSpec

-----------------------------------------------------------------------------
(* Projects and queues: who may make and change them. *)

LEMMA ProjectResolved ==
  ASSUME NEW p \in ProjectIds
  PROVE  Resolve("projectId", p) = project[p]
  BY DEF Resolve

\* The guard takes the id of a queue for a job's, and finds no organization.
LEMMA QueueIdIsNoJob ==
  ASSUME NEW u, NEW minRole, NEW q \in QueueIds
  PROVE  ~Passes(u, minRole, "id", q)
  <1>1. q \notin JobIds
    BY IdsAssumption
  <1>2. Resolve("id", q) = None
    BY <1>1 DEF Resolve
  <1> QED
    BY <1>2 DEF Passes

\* Who passes as admin is admin or owner of the project's organization.
LEMMA AdminsPass ==
  ASSUME ProjectsTypeOK, NEW u \in People, NEW p \in ProjectIds,
         Passes(u, "admin", "projectId", p)
  PROVE  project[p] \in Orgs /\ Role[project[p]][u] \in {"admin", "owner"}
  <1>1. Resolve("projectId", p) = project[p]
    BY ProjectResolved
  <1>2. project[p] # None /\ Role[project[p]][u] # NoRole
        /\ Rank[Role[project[p]][u]] >= Rank["admin"]
    BY <1>1 DEF Passes
  <1>3. project[p] \in Orgs
    BY <1>2 DEF ProjectsTypeOK
  <1>4. Role[project[p]][u] \in {"member", "admin", "owner"}
    BY <1>2, <1>3, RoleAssumption
  <1>5. ~(Rank["member"] >= Rank["admin"])
    BY DEF Rank
  <1> QED
    BY <1>2, <1>3, <1>4, <1>5

OwnedInv == ProjectsTypeOK /\ QueuesMadeByAdmins

LEMMA CreateProjectKeeps ==
  ASSUME OwnedInv, NEW u \in People, NEW o \in Orgs, NEW p \in ProjectIds, CreateProject(u, o, p)
  PROVE  OwnedInv'
  <1>1. project[p] = None /\ project' = [project EXCEPT ![p] = o] /\ queue' = queue /\ job' = job
    BY DEF CreateProject
  <1>2. o # None
    BY IdsAssumption
  <1>3. \A x \in ProjectIds : project[x] # None => project'[x] = project[x]
    BY <1>1 DEF OwnedInv, ProjectsTypeOK
  <1>4. \A q \in QueueIds : Exists(q) => queue[q].project \in ProjectIds /\ OrgOf(q) # None
    BY DEF OwnedInv, ProjectsTypeOK, Exists, OrgOf
  <1>5. ProjectsTypeOK'
    BY <1>1, <1>2, <1>3, <1>4 DEF OwnedInv, ProjectsTypeOK, Exists
  <1>6. \A q \in QueueIds : Exists(q)' => Exists(q) /\ OrgOf(q)' = OrgOf(q)
    BY <1>1, <1>3, <1>4 DEF Exists, OrgOf
  <1>7. QueuesMadeByAdmins'
    BY <1>1, <1>6 DEF OwnedInv, QueuesMadeByAdmins
  <1> QED
    BY <1>5, <1>7 DEF OwnedInv

LEMMA CreateQueueKeeps ==
  ASSUME OwnedInv, NEW u \in People, NEW p \in ProjectIds, NEW q \in QueueIds, CreateQueue(u, p, q)
  PROVE  OwnedInv' /\ \A x \in QueueIds : Exists(x) => queue'[x] = queue[x]
  <1>1. ~Exists(q) /\ queue' = [queue EXCEPT ![q] = NewQueue(p, u)] /\ project' = project
        /\ job' = job
    BY DEF CreateQueue
  <1>2. project[p] \in Orgs /\ Role[project[p]][u] \in {"admin", "owner"}
    BY AdminsPass DEF OwnedInv, CreateQueue
  <1>3. project[p] # None /\ p # None
    BY <1>2, IdsAssumption
  <1>4. NewQueue(p, u) \in [project : ProjectIds \cup {None}, paused : BOOLEAN,
                            by : People \cup {None}]
        /\ NewQueue(p, u).project = p /\ NewQueue(p, u).by = u
    BY DEF NewQueue
  <1>5. /\ queue'[q] = NewQueue(p, u)
        /\ \A x \in QueueIds : x # q => queue'[x] = queue[x]
    BY <1>1 DEF OwnedInv, ProjectsTypeOK
  <1>6. ProjectsTypeOK'
    BY <1>1, <1>3, <1>4, <1>5 DEF OwnedInv, ProjectsTypeOK
  <1>7. QueuesMadeByAdmins'
    <2> SUFFICES ASSUME NEW x \in QueueIds, Exists(x)'
                 PROVE  Role[OrgOf(x)'][queue'[x].by] \in {"admin", "owner"}
      BY DEF QueuesMadeByAdmins
    <2>1. CASE x = q
      BY <1>1, <1>2, <1>4, <1>5, <2>1 DEF OrgOf
    <2>2. CASE x # q
      BY <1>1, <1>5, <2>2 DEF OwnedInv, QueuesMadeByAdmins, OrgOf, Exists
    <2> QED
      BY <2>1, <2>2
  <1> QED
    BY <1>1, <1>5, <1>6, <1>7 DEF OwnedInv

LEMMA SubmitToKeeps ==
  ASSUME OwnedInv, NEW u \in People, NEW q \in QueueIds, NEW j \in JobIds, SubmitTo(u, q, j)
  PROVE  OwnedInv'
  BY DEF OwnedInv, ProjectsTypeOK, QueuesMadeByAdmins, SubmitTo, OrgOf, Exists

LEMMA ProjectsStutter ==
  ASSUME OwnedInv, UNCHANGED projectVars
  PROVE  OwnedInv'
  BY DEF OwnedInv, ProjectsTypeOK, QueuesMadeByAdmins, projectVars, OrgOf, Exists
-----------------------------------------------------------------------------
(* The page of queues. *)

FetchFields == {"stage", "of", "id", "queues", "paused"}

\* A call names a project and a queue that may exist; so do the buttons, which
\* are those of the queues on the screen.
FetchesAreRecords ==
  /\ DOMAIN fetch = Fetches
  /\ \A c \in Fetches :
       /\ DOMAIN fetch[c] = FetchFields
       /\ fetch[c].stage # "idle" => fetch[c].of \in ProjectIds
       /\ fetch[c].stage \in {"creating", "patching"} => fetch[c].id \in QueueIds
       /\ fetch[c].queues \subseteq QueueIds
  /\ table.queues \subseteq QueueIds
  /\ known \subseteq ProjectIds /\ chosen \in ProjectIds \cup {None}

\* As LoadsAreCurrent of the page of jobs.
FetchesAreCurrent ==
  ~mixed =>
    /\ \A c \in Fetches : fetch[c].stage # "idle" => fetch[c].of = chosen
    /\ \A c, d \in Fetches : fetch[c].stage # "idle" /\ fetch[d].stage # "idle" => c = d
    /\ \/ missed
       \/ table.of = chosen
       \/ \E c \in Fetches : fetch[c].stage \in {"asked", "done"}

QueuesInv == OwnedInv /\ FetchesAreRecords /\ FetchesAreCurrent

LEMMA StillFields ==
  /\ DOMAIN Still = FetchFields
  /\ Still.stage = "idle" /\ Still.queues = {}
  /\ \A s, p, q : LET e == [Still EXCEPT !.stage = s, !.of = p, !.id = q]
                  IN /\ DOMAIN e = FetchFields /\ e.stage = s /\ e.of = p /\ e.id = q
                     /\ e.queues = {}
  BY DEF Still, FetchFields

LEMMA QueuesPageStarts == ProjectsInit /\ QueuesPageInit => QueuesInv
  <1> SUFFICES ASSUME ProjectsInit, QueuesPageInit
               PROVE  QueuesInv
    OBVIOUS
  <1>1. ProjectsTypeOK
    BY DEF ProjectsInit, ProjectsTypeOK, NoQueue, NewQueue
  <1>2. QueuesMadeByAdmins
    BY DEF ProjectsInit, QueuesMadeByAdmins, Exists, NoQueue, NewQueue
  <1>3. /\ DOMAIN fetch = Fetches
        /\ \A c \in Fetches : fetch[c] = Still
    BY DEF QueuesPageInit
  <1>4. FetchesAreRecords
    BY <1>3, StillFields DEF QueuesPageInit, FetchesAreRecords, NoTable
  <1>5. FetchesAreCurrent
    BY <1>3, StillFields DEF QueuesPageInit, FetchesAreCurrent, NoTable
  <1> QED
    BY <1>1, <1>2, <1>4, <1>5 DEF QueuesInv, OwnedInv

\* What a call that starts or moves on, as e, does to the records.
LEMMA OneFetch ==
  ASSUME FetchesAreRecords, NEW c \in Fetches, NEW e,
         DOMAIN e = FetchFields,
         e.stage # "idle" => e.of \in ProjectIds,
         e.stage \in {"creating", "patching"} => e.id \in QueueIds,
         e.queues \subseteq QueueIds,
         fetch' = [fetch EXCEPT ![c] = e],
         UNCHANGED table,
         known' \subseteq ProjectIds, chosen' \in ProjectIds \cup {None}
  PROVE  /\ FetchesAreRecords'
         /\ fetch'[c] = e
         /\ \A d \in Fetches : d # c => fetch'[d] = fetch[d]
  BY DEF FetchesAreRecords

\* A choice loads the queues of the project chosen.
LEMMA ChooseKeeps ==
  ASSUME QueuesInv, NEW p \in ProjectIds, Choose(p),
         known' \subseteq ProjectIds, UNCHANGED <<table, projectVars>>
  PROVE  QueuesInv'
  <1>1. PICK c \in Fetches : Start(c, "asked", p, None)
    BY DEF Choose
  <1> DEFINE e == [Still EXCEPT !.stage = "asked", !.of = p, !.id = None]
  <1>2. DOMAIN e = FetchFields /\ e.stage = "asked" /\ e.of = p /\ e.queues = {}
    BY StillFields
  <1>3. fetch' = [fetch EXCEPT ![c] = e]
    BY <1>1 DEF Start
  <1> HIDE DEF e
  <1>4. /\ FetchesAreRecords'
        /\ fetch'[c] = e
        /\ \A d \in Fetches : d # c => fetch'[d] = fetch[d]
    BY <1>2, <1>3, OneFetch DEF QueuesInv, Choose
  <1>5. FetchesAreCurrent'
    <2> SUFFICES ASSUME NoFetch
                 PROVE  FetchesAreCurrent'
      BY DEF FetchesAreCurrent, Choose
    <2>1. \A d \in Fetches : fetch'[d].stage # "idle" => d = c
      BY <1>4 DEF NoFetch
    <2> QED
      BY <1>2, <1>4, <2>1 DEF FetchesAreCurrent, Choose
  <1> QED
    BY <1>4, <1>5, ProjectsStutter DEF QueuesInv

\* A button's request goes out.
LEMMA SendFormKeeps ==
  ASSUME QueuesInv, SendForm
  PROVE  QueuesInv'
  <1>1. PICK c \in Fetches, s \in {"creating", "patching"}, q \in QueueIds :
          Start(c, s, chosen, q)
    BY DEF SendForm, QueuesInv, FetchesAreRecords
  <1>2. chosen \in ProjectIds /\ known \subseteq ProjectIds
    BY DEF SendForm, QueuesInv, FetchesAreRecords
  <1> DEFINE e == [Still EXCEPT !.stage = s, !.of = chosen, !.id = q]
  <1>3. DOMAIN e = FetchFields /\ e.stage = s /\ e.of = chosen /\ e.id = q /\ e.queues = {}
    BY StillFields
  <1>4. fetch' = [fetch EXCEPT ![c] = e]
    BY <1>1 DEF Start
  <1> HIDE DEF e
  <1>5. /\ FetchesAreRecords'
        /\ fetch'[c] = e
        /\ \A d \in Fetches : d # c => fetch'[d] = fetch[d]
    BY <1>2, <1>3, <1>4, OneFetch DEF QueuesInv, SendForm
  <1>6. FetchesAreCurrent'
    <2> SUFFICES ASSUME NoFetch, ~mixed
                 PROVE  FetchesAreCurrent'
      BY DEF FetchesAreCurrent, SendForm
    <2>1. \A d \in Fetches : fetch'[d].stage # "idle" => d = c
      BY <1>5 DEF NoFetch
    <2>2. missed \/ table.of = chosen
      BY DEF QueuesInv, FetchesAreCurrent, NoFetch
    <2> QED
      BY <1>3, <1>5, <2>1, <2>2 DEF FetchesAreCurrent, SendForm
  <1> QED
    BY <1>5, <1>6, ProjectsStutter DEF QueuesInv, SendForm

\* A call is over.
LEMMA FetchEnds ==
  ASSUME FetchesAreRecords, NEW c \in Fetches, Release(c), UNCHANGED <<known, chosen, table>>
  PROVE  /\ FetchesAreRecords'
         /\ fetch'[c].stage = "idle"
         /\ \A d \in Fetches : d # c => fetch'[d] = fetch[d]
  BY StillFields, OneFetch DEF Release, FetchesAreRecords

\* A call that moves on, to load the queues.
LEMMA FetchGoesOn ==
  ASSUME QueuesInv, OwnedInv', NEW c \in Fetches, NEW e,
         fetch[c].stage # "idle",
         DOMAIN e = FetchFields, e.stage \in {"asked", "done"}, e.of = fetch[c].of,
         e.queues \subseteq QueueIds,
         fetch' = [fetch EXCEPT ![c] = e],
         UNCHANGED <<known, chosen, table, mixed, missed>>
  PROVE  QueuesInv'
  <1>1. /\ FetchesAreRecords'
        /\ fetch'[c] = e
        /\ \A d \in Fetches : d # c => fetch'[d] = fetch[d]
    BY OneFetch DEF QueuesInv, FetchesAreRecords
  <1>2. \A d \in Fetches :
          fetch'[d].stage # "idle" => fetch[d].stage # "idle" /\ fetch'[d].of = fetch[d].of
    BY <1>1
  <1>3. FetchesAreCurrent'
    BY <1>1, <1>2 DEF FetchesAreCurrent, QueuesInv
  <1> QED
    BY <1>1, <1>3 DEF QueuesInv
LEMMA ProjectsComeKeeps ==
  ASSUME QueuesInv, ProjectsCome
  PROVE  QueuesInv'
  <1> DEFINE mine == {p \in ProjectIds : project[p] # None /\ Role[project[p]][Me] # NoRole}
  <1>1. /\ known' = mine
        /\ UNCHANGED <<table, clicks, missed, projectVars>>
        /\ \/ \E first \in mine : Choose(first)
           \/ UNCHANGED <<chosen, fetch, mixed>>
    BY DEF ProjectsCome
  <1>2. mine \subseteq ProjectIds
    OBVIOUS
  <1> HIDE DEF mine
  <1>3. CASE \E first \in mine : Choose(first)
    BY <1>1, <1>2, <1>3, ChooseKeeps
  <1>4. CASE UNCHANGED <<chosen, fetch, mixed>>
    BY <1>1, <1>2, <1>4, ProjectsStutter
      DEF QueuesInv, FetchesAreRecords, FetchesAreCurrent
  <1> QED
    BY <1>1, <1>3, <1>4

LEMMA CreatesQueueKeeps ==
  ASSUME QueuesInv, NEW c \in Fetches, CreatesQueue(c)
  PROVE  QueuesInv' /\ \A q \in QueueIds : Exists(q) => queue'[q] = queue[q]
  <1>1. fetch[c].stage = "creating" /\ fetch[c].of \in ProjectIds /\ fetch[c].id \in QueueIds
        /\ fetch[c].queues \subseteq QueueIds /\ DOMAIN fetch[c] = FetchFields
    BY DEF CreatesQueue, QueuesInv, FetchesAreRecords
  <1>2. CASE CreateQueue(Me, fetch[c].of, fetch[c].id)
             /\ fetch' = [fetch EXCEPT ![c].stage = "asked"]
    <2> DEFINE e == [fetch[c] EXCEPT !.stage = "asked"]
    <2>1. DOMAIN e = FetchFields /\ e.stage = "asked" /\ e.of = fetch[c].of
          /\ e.queues = fetch[c].queues
      BY <1>1 DEF FetchFields
    <2>2. fetch' = [fetch EXCEPT ![c] = e]
      BY <1>2 DEF QueuesInv, FetchesAreRecords
    <2>3. OwnedInv' /\ \A q \in QueueIds : Exists(q) => queue'[q] = queue[q]
      BY <1>1, <1>2, MeAssumption, CreateQueueKeeps DEF QueuesInv
    <2> HIDE DEF e
    <2> QED
      BY <1>1, <2>1, <2>2, <2>3, FetchGoesOn DEF CreatesQueue
  <1>3. CASE Release(c) /\ UNCHANGED projectVars
    <2>1. /\ FetchesAreRecords'
          /\ fetch'[c].stage = "idle"
          /\ \A d \in Fetches : d # c => fetch'[d] = fetch[d]
      BY <1>3, FetchEnds DEF QueuesInv, CreatesQueue
    <2>2. FetchesAreCurrent'
      BY <1>1, <2>1 DEF QueuesInv, CreatesQueue, FetchesAreCurrent
    <2> QED
      BY <1>3, <2>1, <2>2, ProjectsStutter DEF QueuesInv, projectVars
  <1> QED
    BY <1>2, <1>3 DEF CreatesQueue

\* The guard refuses the PATCH of every queue.
LEMMA PatchesQueueKeeps ==
  ASSUME QueuesInv, NEW c \in Fetches, PatchesQueue(c)
  PROVE  QueuesInv' /\ queue' = queue
  <1>1. fetch[c].stage = "patching" /\ fetch[c].id \in QueueIds
    BY DEF PatchesQueue, QueuesInv, FetchesAreRecords
  <1>2. UNCHANGED projectVars
    BY <1>1, QueueIdIsNoJob DEF PatchesQueue, PatchQueue, Patched, projectVars
  <1>3. /\ FetchesAreRecords'
        /\ fetch'[c].stage = "idle"
        /\ \A d \in Fetches : d # c => fetch'[d] = fetch[d]
    BY FetchEnds DEF QueuesInv, PatchesQueue
  <1>4. FetchesAreCurrent'
    BY <1>1, <1>3 DEF QueuesInv, PatchesQueue, FetchesAreCurrent
  <1> QED
    BY <1>2, <1>3, <1>4, ProjectsStutter DEF QueuesInv, projectVars

LEMMA QueuesAnswerKeeps ==
  ASSUME QueuesInv, NEW c \in Fetches, QueuesAnswer(c)
  PROVE  QueuesInv'
  <1> DEFINE rows == {q \in QueueIds : Exists(q) /\ queue[q].project = fetch[c].of}
             off == {q \in rows : queue[q].paused}
             e == [fetch[c] EXCEPT !.stage = "done", !.queues = rows, !.paused = off]
  <1>1. fetch' = [fetch EXCEPT ![c].stage = "done", ![c].queues = rows, ![c].paused = off]
    BY DEF QueuesAnswer
  <1>2. rows \subseteq QueueIds
    OBVIOUS
  <1> HIDE DEF rows, off
  <1>3. DOMAIN fetch = Fetches /\ DOMAIN fetch[c] = FetchFields
    BY DEF QueuesInv, FetchesAreRecords
  <1>4. fetch' = [fetch EXCEPT ![c] = e]
    BY <1>1, <1>3 DEF FetchFields
  <1>5. DOMAIN e = FetchFields /\ e.stage = "done" /\ e.of = fetch[c].of /\ e.queues = rows
    BY <1>3 DEF FetchFields
  <1> HIDE DEF e
  <1>6. OwnedInv'
    BY ProjectsStutter DEF QueuesInv, QueuesAnswer
  <1> QED
    BY <1>2, <1>4, <1>5, <1>6, FetchGoesOn DEF QueuesAnswer

LEMMA QueuesComeKeeps ==
  ASSUME QueuesInv, NEW c \in Fetches, QueuesCome(c)
  PROVE  QueuesInv'
  <1>1. /\ fetch' = [fetch EXCEPT ![c] = Still]
        /\ table'.of = fetch[c].of /\ table'.queues = fetch[c].queues
        /\ UNCHANGED <<known, chosen, projectVars>>
    BY DEF QueuesCome, Release
  <1>2. /\ FetchesAreRecords'
        /\ fetch'[c].stage = "idle"
        /\ \A d \in Fetches : d # c => fetch'[d] = fetch[d]
    BY <1>1, StillFields DEF QueuesInv, FetchesAreRecords
  <1> DEFINE others == \E d \in Fetches \ {c} : fetch[d].stage # "idle"
  <1>3. CASE fetch[c].of = chosen
    <2> SUFFICES ASSUME ~others PROVE QueuesInv'
      <3>1. mixed' = others
        BY <1>3 DEF QueuesCome
      <3>2. others => FetchesAreCurrent'
        BY <3>1 DEF FetchesAreCurrent
      <3> QED
        BY <1>1, <1>2, <3>2, ProjectsStutter DEF QueuesInv
    <2>1. \A d \in Fetches : fetch'[d].stage = "idle"
      BY <1>2
    <2>2. FetchesAreCurrent'
      BY <1>1, <1>3, <2>1 DEF FetchesAreCurrent
    <2> QED
      BY <1>1, <1>2, <2>2, ProjectsStutter DEF QueuesInv
  <1>4. CASE fetch[c].of # chosen
    <2>1. mixed
      BY <1>4 DEF QueuesInv, FetchesAreCurrent, QueuesCome
    <2>2. mixed'
      BY <1>4, <2>1 DEF QueuesCome
    <2> QED
      BY <1>1, <1>2, <2>2, ProjectsStutter DEF QueuesInv, FetchesAreCurrent
  <1> QED
    BY <1>3, <1>4
LEMMA FetchFailsKeeps ==
  ASSUME QueuesInv, NEW c \in Fetches, FetchFails(c)
  PROVE  QueuesInv'
  <1>1. /\ FetchesAreRecords'
        /\ fetch'[c].stage = "idle"
        /\ \A d \in Fetches : d # c => fetch'[d] = fetch[d]
    BY FetchEnds DEF QueuesInv, FetchFails
  <1>2. FetchesAreCurrent'
    BY <1>1 DEF QueuesInv, FetchFails, FetchesAreCurrent
  <1> QED
    BY <1>1, <1>2, ProjectsStutter DEF QueuesInv, FetchFails

LEMMA OthersActKeeps ==
  ASSUME QueuesInv, OthersAct
  PROVE  QueuesInv' /\ \A q \in QueueIds : Exists(q) => queue'[q] = queue[q]
  <1>1. OwnedInv' /\ \A q \in QueueIds : Exists(q) => queue'[q] = queue[q]
    <2>1. ASSUME NEW u \in People, NEW o \in Orgs, NEW p \in ProjectIds, CreateProject(u, o, p)
          PROVE  OwnedInv' /\ queue' = queue
      BY <2>1, CreateProjectKeeps DEF QueuesInv, CreateProject
    <2>2. ASSUME NEW u \in People, NEW p \in ProjectIds, NEW q \in QueueIds, CreateQueue(u, p, q)
          PROVE  OwnedInv' /\ \A x \in QueueIds : Exists(x) => queue'[x] = queue[x]
      BY <2>2, CreateQueueKeeps DEF QueuesInv
    <2>3. ASSUME NEW u \in People, NEW q \in QueueIds, NEW j \in JobIds, SubmitTo(u, q, j)
          PROVE  OwnedInv' /\ queue' = queue
      BY <2>3, SubmitToKeeps DEF QueuesInv, SubmitTo
    <2> QED
      BY <2>1, <2>2, <2>3 DEF OthersAct
  <1>2. UNCHANGED queuesPageVars
    BY DEF OthersAct
  <1>3. FetchesAreRecords' /\ FetchesAreCurrent'
    BY <1>2 DEF queuesPageVars, QueuesInv, FetchesAreRecords, FetchesAreCurrent
  <1> QED
    BY <1>1, <1>3 DEF QueuesInv

LEMMA QueuesStutter ==
  ASSUME QueuesInv, UNCHANGED <<projectVars, queuesPageVars>>
  PROVE  QueuesInv' /\ queue' = queue
  <1>1. UNCHANGED queuesPageVars /\ UNCHANGED projectVars
    OBVIOUS
  <1>2. FetchesAreRecords' /\ FetchesAreCurrent'
    BY <1>1 DEF queuesPageVars, QueuesInv, FetchesAreRecords, FetchesAreCurrent
  <1> QED
    BY <1>1, <1>2, ProjectsStutter DEF QueuesInv, projectVars

\* A request that writes no queue.
LEMMA ClicksKeep ==
  ASSUME QueuesInv,
         \/ ProjectsCome \/ ProjectsFail \/ SendForm
         \/ \E p \in ProjectIds : ChooseProject(p)
  PROVE  QueuesInv' /\ queue' = queue
  <1>1. CASE ProjectsCome
    BY <1>1, ProjectsComeKeeps DEF ProjectsCome, projectVars
  <1>2. CASE ProjectsFail
    <2>1. UNCHANGED <<known, chosen, table, fetch, mixed, missed, projectVars>>
      BY <1>2 DEF ProjectsFail
    <2> QED
      BY <2>1, ProjectsStutter
        DEF QueuesInv, FetchesAreRecords, FetchesAreCurrent, projectVars
  <1>3. CASE SendForm
    BY <1>3, SendFormKeeps DEF SendForm, projectVars
  <1>4. ASSUME NEW p \in ProjectIds, ChooseProject(p)
        PROVE  QueuesInv' /\ queue' = queue
    BY <1>4, ChooseKeeps DEF ChooseProject, projectVars, QueuesInv, FetchesAreRecords
  <1> QED
    BY <1>1, <1>2, <1>3, <1>4

LEMMA QueuesPageStep ==
  ASSUME QueuesInv, QueuesPageNext
  PROVE  QueuesInv' /\ \A q \in QueueIds : Exists(q) => queue'[q] = queue[q]
  <1>1. ASSUME NEW c \in Fetches, CreatesQueue(c)
        PROVE  QueuesInv' /\ \A q \in QueueIds : Exists(q) => queue'[q] = queue[q]
    BY <1>1, CreatesQueueKeeps
  <1>2. ASSUME NEW c \in Fetches, PatchesQueue(c)
        PROVE  QueuesInv' /\ queue' = queue
    BY <1>2, PatchesQueueKeeps
  <1>3. ASSUME NEW c \in Fetches, QueuesAnswer(c) \/ QueuesCome(c) \/ FetchFails(c)
        PROVE  QueuesInv' /\ queue' = queue
    BY <1>3, QueuesAnswerKeeps, QueuesComeKeeps, FetchFailsKeeps
      DEF QueuesAnswer, QueuesCome, FetchFails, projectVars
  <1>4. ASSUME \/ ProjectsCome \/ ProjectsFail \/ SendForm
               \/ \E p \in ProjectIds : ChooseProject(p)
        PROVE  QueuesInv' /\ queue' = queue
    BY <1>4, ClicksKeep
  <1>5. CASE OthersAct
    BY <1>5, OthersActKeeps
  <1> QED
    BY <1>1, <1>2, <1>3, <1>4, <1>5 DEF QueuesPageNext

LEMMA QueuesInvariant == DashboardSpec => []QueuesInv
  <1>1. DashboardInit => QueuesInv
    BY QueuesPageStarts DEF DashboardInit
  <1>2. QueuesInv /\ [DashboardNext]_dashboardVars => QueuesInv'
    BY QueuesPageStep, QueuesStutter
      DEF DashboardNext, OnJobsPage, OnQueuesPage, OnList, dashboardVars
  <1> QED
    BY <1>1, <1>2, PTL DEF DashboardSpec

\* The rows of projects and queues keep their types.
THEOREM ProjectsTypeCorrect == DashboardSpec => []ProjectsTypeOK
  <1>1. QueuesInv => ProjectsTypeOK
    BY DEF QueuesInv, OwnedInv
  <1> QED
    BY <1>1, QueuesInvariant, PTL

\* Whatever people create, and in whatever order, a queue is made by an admin or
\* the owner of its organization (requireOrgMember of rbac.ts).
THEOREM AdminsMakeQueues == DashboardSpec => []QueuesMadeByAdmins
  <1>1. QueuesInv => QueuesMadeByAdmins
    BY DEF QueuesInv, OwnedInv
  <1> QED
    BY <1>1, QueuesInvariant, PTL

\* No request changes a queue that is there: the guard of PATCH /queues/:id takes
\* the id of a queue for that of a job (rbac.ts).
THEOREM SettingsStay == DashboardSpec => QueueSettingsFixed
  <1>1. QueuesInv /\ [DashboardNext]_dashboardVars
          => \A q \in QueueIds : Exists(q) => queue'[q] = queue[q]
    BY QueuesPageStep, QueuesStutter
      DEF DashboardNext, OnJobsPage, OnQueuesPage, OnList, dashboardVars
  <1> QED
    BY <1>1, QueuesInvariant, PTL DEF DashboardSpec, QueueSettingsFixed

\* At rest the table is of the project that is chosen, unless calls overlapped or
\* the last one failed (page.tsx of the queues).
THEOREM TableIsOfProject == DashboardSpec => []QueuesAreOfProject
  <1>1. QueuesInv => QueuesAreOfProject
    BY DEF QueuesInv, FetchesAreCurrent, QueuesAreOfProject, NoFetch
  <1> QED
    BY <1>1, QueuesInvariant, PTL

-----------------------------------------------------------------------------
(* The types of the page of queues. *)

\* The queues of an answer, or on the screen, are of one project.
AreOf(queues, p) == \A q \in queues : Exists(q) /\ queue[q].project = p

\* Projects stay known, as nobody leaves an organization.
TableInv ==
  /\ \A p \in known : project[p] # None /\ Role[project[p]][Me] # NoRole
  /\ chosen \in known \cup {None} /\ table.of \in known \cup {None}
  /\ AreOf(table.queues, table.of)
  /\ \A c \in Fetches :
       /\ fetch[c].stage \in {"idle", "creating", "patching", "asked", "done"}
       /\ fetch[c].stage # "idle" => fetch[c].of \in known
       /\ fetch[c].stage = "done" => AreOf(fetch[c].queues, fetch[c].of)
  /\ asked \in Nat /\ clicks \in 0..MaxClicks

\* Rows stay as they are.
LEMMA RowsStay ==
  ASSUME QueuesInv, QueuesPageNext \/ UNCHANGED <<projectVars, queuesPageVars>>
  PROVE  /\ \A q \in QueueIds : Exists(q) => queue'[q] = queue[q]
         /\ \A p \in ProjectIds : project[p] # None => project'[p] = project[p]
  <1>1. \A q \in QueueIds : Exists(q) => queue'[q] = queue[q]
    BY QueuesPageStep, QueuesStutter
  <1>2. project' = project \/ \E o, p : project[p] = None /\ project' = [project EXCEPT ![p] = o]
    <2>1. CASE OthersAct
      BY <2>1 DEF OthersAct, CreateProject, CreateQueue, SubmitTo
    <2>2. ASSUME NEW c \in Fetches, CreatesQueue(c) \/ PatchesQueue(c) PROVE project' = project
      BY <2>2 DEF CreatesQueue, CreateQueue, PatchesQueue, PatchQueue, projectVars
    <2>3. ASSUME NEW c \in Fetches, QueuesAnswer(c) \/ QueuesCome(c) \/ FetchFails(c)
          PROVE  project' = project
      BY <2>3 DEF QueuesAnswer, QueuesCome, FetchFails, projectVars
    <2>4. CASE ProjectsCome \/ ProjectsFail \/ SendForm \/ \E p \in ProjectIds : ChooseProject(p)
      BY <2>4 DEF ProjectsCome, ProjectsFail, ChooseProject, SendForm, projectVars
    <2>5. CASE UNCHANGED <<projectVars, queuesPageVars>>
      BY <2>5 DEF projectVars
    <2> QED BY <2>1, <2>2, <2>3, <2>4, <2>5 DEF QueuesPageNext
  <1>3. DOMAIN project = ProjectIds
    BY DEF QueuesInv, OwnedInv, ProjectsTypeOK
  <1> QED BY <1>1, <1>2, <1>3

\* A step of one call, or none; the table stays.
LEMMA TableFrame ==
  ASSUME QueuesInv, TableInv,
         \A q \in QueueIds : Exists(q) => queue'[q] = queue[q],
         \A p \in ProjectIds : project[p] # None => project'[p] = project[p],
         UNCHANGED <<known, table>>, chosen' \in known \cup {None},
         asked' \in Nat, clicks' \in 0..MaxClicks,
         \A c \in Fetches :
           \/ fetch'[c] = fetch[c]
           \/ fetch'[c].stage = "idle"
           \/ /\ fetch'[c].stage \in {"creating", "patching", "asked"}
              /\ fetch'[c].of \in known
  PROVE  TableInv'
  <1>1. ASSUME NEW queues, queues \subseteq QueueIds, NEW p, AreOf(queues, p)
        PROVE  AreOf(queues, p)'
    BY <1>1 DEF AreOf, Exists
  <1>2. \A p \in known : project'[p] # None /\ Role[project'[p]][Me] # NoRole
    BY DEF TableInv, QueuesInv, FetchesAreRecords
  <1>3. \A q \in table.queues : Exists(q)' /\ queue'[q].project = table.of
    BY DEF TableInv, QueuesInv, FetchesAreRecords, AreOf, Exists
  <1>4. \A c \in Fetches : fetch'[c] = fetch[c] /\ fetch[c].stage = "done" =>
          \A q \in fetch[c].queues : Exists(q)' /\ queue'[q].project = fetch[c].of
    BY DEF TableInv, QueuesInv, FetchesAreRecords, AreOf, Exists
  <1> QED BY <1>2, <1>3, <1>4 DEF TableInv, AreOf

LEMMA TableOfAnswer ==
  ASSUME QueuesInv, TableInv, NEW c \in Fetches, QueuesAnswer(c)
  PROVE  TableInv'
  <1>f. /\ DOMAIN fetch = Fetches
        /\ \A d \in Fetches : DOMAIN fetch[d] = FetchFields
    BY DEF QueuesInv, FetchesAreRecords
  <1> DEFINE rows == {q \in QueueIds : Exists(q) /\ queue[q].project = fetch[c].of}
             off == {q \in rows : queue[q].paused}
  <1>1. fetch' = [fetch EXCEPT ![c].stage = "done", ![c].queues = rows, ![c].paused = off]
    BY DEF QueuesAnswer
  <1>2. \A q \in rows : q \in QueueIds /\ Exists(q) /\ queue[q].project = fetch[c].of
    OBVIOUS
  <1> HIDE DEF rows, off
  <1>3. fetch'[c].stage = "done" /\ fetch'[c].of = fetch[c].of /\ fetch'[c].queues = rows
    BY <1>f, <1>1 DEF FetchFields
  <1>4. \A d \in Fetches : d # c => fetch'[d] = fetch[d]
    BY <1>f, <1>1
  <1>5. UNCHANGED <<known, table, chosen, asked, clicks, projectVars>>
    BY DEF QueuesAnswer
  <1>6. UNCHANGED <<project, queue>> /\ fetch[c].of \in known
    BY <1>5 DEF projectVars, QueuesAnswer, TableInv
  <1>7. AreOf(fetch'[c].queues, fetch'[c].of)
    BY <1>2, <1>3 DEF AreOf
  <1> QED BY <1>3, <1>4, <1>5, <1>6, <1>7 DEF TableInv, AreOf, Exists

LEMMA TableOfCalls ==
  ASSUME QueuesInv, TableInv, NEW c \in Fetches,
         CreatesQueue(c) \/ PatchesQueue(c) \/ QueuesCome(c) \/ FetchFails(c)
  PROVE  TableInv'
  <1>0. /\ \A q \in QueueIds : Exists(q) => queue'[q] = queue[q]
        /\ \A p \in ProjectIds : project[p] # None => project'[p] = project[p]
    BY RowsStay DEF QueuesPageNext
  <1>f. /\ DOMAIN fetch = Fetches
        /\ \A d \in Fetches : DOMAIN fetch[d] = FetchFields
    BY DEF QueuesInv, FetchesAreRecords
  <1>t. asked \in Nat /\ clicks \in 0..MaxClicks /\ chosen \in known \cup {None}
        /\ (fetch[c].stage # "idle" => fetch[c].of \in known)
    BY DEF TableInv
  <1>1. CASE CreatesQueue(c) \/ PatchesQueue(c) \/ FetchFails(c)
    <2>1. \A d \in Fetches :
           \/ fetch'[d] = fetch[d]
           \/ fetch'[d].stage = "idle"
           \/ /\ fetch'[d].stage \in {"creating", "patching", "asked"}
              /\ fetch'[d].of \in known
      <3>1. CASE Release(c)
        BY <1>f, <3>1, StillFields DEF Release
      <3>2. CASE CreatesQueue(c) /\ fetch' = [fetch EXCEPT ![c].stage = "asked"]
        <4>1. fetch'[c].stage = "asked" /\ fetch'[c].of = fetch[c].of
          BY <1>f, <3>2 DEF FetchFields
        <4> QED BY <1>f, <1>t, <3>2, <4>1 DEF CreatesQueue
      <3> QED BY <1>1, <3>1, <3>2 DEF CreatesQueue, PatchesQueue, FetchFails
    <2>2. UNCHANGED <<known, table, chosen, asked, clicks>>
      BY <1>1 DEF CreatesQueue, PatchesQueue, FetchFails
    <2> QED BY <1>0, <1>t, <2>1, <2>2, TableFrame
  <1>2. CASE QueuesCome(c)
    <2>1. /\ table'.of = fetch[c].of /\ table'.queues = fetch[c].queues
          /\ UNCHANGED <<known, chosen, asked, clicks, projectVars>>
          /\ fetch[c].stage = "done"
          /\ fetch' = [fetch EXCEPT ![c] = Still]
      BY <1>2 DEF QueuesCome, Release
    <2>2. UNCHANGED <<project, queue>>
      BY <2>1 DEF projectVars
    <2>3. fetch'[c].stage = "idle" /\ \A d \in Fetches : d # c => fetch'[d] = fetch[d]
      BY <1>f, <2>1, StillFields
    <2>4. AreOf(fetch[c].queues, fetch[c].of) /\ fetch[c].of \in known
      BY <1>t, <2>1 DEF TableInv
    <2> QED BY <2>1, <2>2, <2>3, <2>4 DEF TableInv, AreOf, Exists
  <1> QED BY <1>1, <1>2

\* A new call is for the project chosen.
LEMMA TableOfStart ==
  ASSUME QueuesInv, NEW c \in Fetches, NEW s, NEW p, NEW id, Start(c, s, p, id)
  PROVE  \A d \in Fetches :
           \/ fetch'[d] = fetch[d]
           \/ fetch'[d].stage = s /\ fetch'[d].of = p
  BY StillFields DEF Start, QueuesInv, FetchesAreRecords

LEMMA TableOfClicks ==
  ASSUME QueuesInv, TableInv, QueuesPageNext,
         ProjectsFail \/ SendForm \/ OthersAct \/ \E p \in ProjectIds : ChooseProject(p)
  PROVE  TableInv'
  <1>0. /\ \A q \in QueueIds : Exists(q) => queue'[q] = queue[q]
        /\ \A p \in ProjectIds : project[p] # None => project'[p] = project[p]
    BY RowsStay
  <1>t. asked \in Nat /\ clicks \in 0..MaxClicks /\ chosen \in known \cup {None}
    BY DEF TableInv
  <1>1. CASE ProjectsFail
    <2>1. asked' \in Nat /\ UNCHANGED <<known, table, chosen, fetch, clicks>>
      BY <1>t, <1>1 DEF ProjectsFail
    <2> QED BY <1>0, <1>t, <2>1, TableFrame
  <1>2. CASE OthersAct
    <2>1. UNCHANGED <<known, table, chosen, fetch, clicks, asked>>
      BY <1>2 DEF OthersAct, queuesPageVars
    <2> QED BY <1>0, <1>t, <2>1, TableFrame
  <1>3. CASE SendForm
    <2>1. PICK c \in Fetches, s \in {"creating", "patching"} : \E q : Start(c, s, chosen, q)
      BY <1>3 DEF SendForm
    <2>2. /\ UNCHANGED <<known, table, chosen, asked>>
          /\ clicks' \in 0..MaxClicks /\ chosen \in known
      BY <1>3, <1>t, ClicksAssumption DEF SendForm, UserClicks
    <2> QED BY <1>0, <1>t, <2>1, <2>2, TableOfStart, TableFrame
  <1>4. ASSUME NEW p \in ProjectIds, ChooseProject(p) PROVE TableInv'
    <2>1. PICK c \in Fetches : Start(c, "asked", p, None)
      BY <1>4 DEF ChooseProject, Choose
    <2>2. /\ UNCHANGED <<known, table>> /\ chosen' = p /\ p \in known
          /\ clicks' \in 0..MaxClicks /\ asked' \in Nat
      BY <1>4, <1>t, ClicksAssumption DEF ChooseProject, Choose, UserClicks
    <2> QED BY <1>0, <2>1, <2>2, TableOfStart, TableFrame
  <1> QED BY <1>1, <1>2, <1>3, <1>4

LEMMA TableOfProjects ==
  ASSUME QueuesInv, TableInv, ProjectsCome
  PROVE  TableInv'
  <1> DEFINE mine == {p \in ProjectIds : project[p] # None /\ Role[project[p]][Me] # NoRole}
  <1>1. /\ known' = mine
        /\ UNCHANGED <<table, clicks, projectVars>>
        /\ asked > 0
        /\ \/ \E first \in mine : Choose(first)
           \/ asked' = asked - 1 /\ UNCHANGED <<chosen, fetch>>
    BY DEF ProjectsCome
  <1>2. known \subseteq mine
    BY DEF TableInv, QueuesInv, FetchesAreRecords
  <1>3. \A p \in mine : project[p] # None /\ Role[project[p]][Me] # NoRole
    OBVIOUS
  <1>4. UNCHANGED <<project, queue>>
    BY <1>1 DEF projectVars
  <1> HIDE DEF mine
  <1>5. ASSUME asked' = asked - 1, UNCHANGED <<chosen, fetch>> PROVE TableInv'
    BY <1>1, <1>2, <1>3, <1>4, <1>5 DEF TableInv, AreOf, Exists
  <1>6. ASSUME NEW first \in mine, Choose(first) PROVE TableInv'
    <2>1. PICK c \in Fetches : Start(c, "asked", first, None)
      BY <1>6 DEF Choose
    <2>2. chosen' = first /\ asked' \in Nat
      BY <1>6 DEF Choose, TableInv
    <2>3. \A d \in Fetches :
           \/ fetch'[d] = fetch[d]
           \/ fetch'[d].stage = "asked" /\ fetch'[d].of = first
      BY <2>1, TableOfStart
    <2> QED BY <1>1, <1>2, <1>3, <1>4, <1>6, <2>2, <2>3 DEF TableInv, AreOf, Exists
  <1> QED BY <1>1, <1>5, <1>6

LEMMA TableStep ==
  ASSUME QueuesInv, TableInv, QueuesPageNext \/ UNCHANGED <<projectVars, queuesPageVars>>
  PROVE  TableInv'
  <1>1. CASE UNCHANGED <<projectVars, queuesPageVars>>
    <2>1. UNCHANGED <<known, table, chosen, fetch, clicks, asked, project, queue>>
      BY <1>1 DEF queuesPageVars, projectVars
    <2> QED BY <2>1 DEF TableInv, AreOf, Exists
  <1>2. CASE QueuesPageNext
    BY <1>2, TableOfAnswer, TableOfCalls, TableOfClicks, TableOfProjects DEF QueuesPageNext
  <1> QED BY <1>1, <1>2

\* What the page of queues keeps has its type; the queues on the screen are all of
\* the project that the table is of (page.tsx of the queues).
THEOREM QueuesPageTypeCorrect == DashboardSpec => []QueuesPageTypeOK
  <1>1. DashboardInit => TableInv
    BY StillFields, ClicksAssumption
    DEF DashboardInit, QueuesPageInit, TableInv, AreOf, NoTable
  <1>2. QueuesInv /\ TableInv /\ [DashboardNext]_dashboardVars => TableInv'
    BY TableStep DEF DashboardNext, OnJobsPage, OnQueuesPage, OnList, dashboardVars
  <1>3. QueuesInv /\ TableInv => QueuesPageTypeOK
    BY DEF QueuesInv, FetchesAreRecords, TableInv, AreOf, QueuesPageTypeOK
  <1> QED
    BY <1>1, <1>2, <1>3, QueuesInvariant, PTL DEF DashboardSpec
=============================================================================

------------------------------ MODULE Listing -------------------------------
(***************************************************************************)
(* The list routes of api/src/routes: GET /projects, /projects/:id/queues,  *)
(* /jobs, /jobs/:id/executions, /jobs/:id/logs and /workers.  Each parses   *)
(* page and limit (lib/pagination.ts), then asks the database for the rows  *)
(* of the page and for their number in two queries of no transaction.      *)
(***************************************************************************)
EXTENDS Integers, Sequences

CONSTANTS
  DefaultLimit,    \* DEFAULT_LIMIT
  MaxLimit         \* MAX_LIMIT

ASSUME LimitAssumption == DefaultLimit \in 1..MaxLimit /\ MaxLimit \in Nat

AtLeast(a, b) == IF a >= b THEN a ELSE b
AtMost(a, b) == IF a <= b THEN a ELSE b

\* parseInt(..) || default: a parameter that is missing, no number or zero
\* counts as the default, here 0; then the clamps.
PageNumber(page) == AtLeast(1, IF page = 0 THEN 1 ELSE page)
Limit(limit) == AtMost(MaxLimit, AtLeast(1, IF limit = 0 THEN DefaultLimit ELSE limit))

\* Mutant: pages counted from zero.
SkipWholePages(page, limit) == page * limit
Skip(page, limit) == (page - 1) * limit

\* buildMeta: Math.ceil(total / limit).
TotalPages(total, limit) == (total + limit - 1) \div limit

\* findMany with skip and take, and count, each over the rows of its moment.
FindMany(rows, page, limit) ==
  SubSeq(rows, Skip(page, limit) + 1, AtMost(Len(rows), Skip(page, limit) + limit))
Count(rows) == Len(rows)
=============================================================================

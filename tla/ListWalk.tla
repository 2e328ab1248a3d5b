------------------------------ MODULE ListWalk ------------------------------
(***************************************************************************)
(* A program that reads a list of the API page by page, with a limit of its *)
(* choice, until the meta block of an answer says that there are no more.   *)
(* Nothing changes the rows meanwhile; JobsPage has the changes.            *)
(***************************************************************************)
EXTENDS Listing

CONSTANT MaxTotal  \* bound on the number of rows

ASSUME TotalAssumption == MaxTotal \in Nat

VARIABLES
  limit, \* the limit sent
  page,  \* the page asked for next
  total, \* rows there are
  got,   \* rows received
  more   \* no answer was the last page yet

walkVars == <<limit, page, total, got, more>>

Rows == [i \in 1..total |-> i]

\* Limits and first pages inside the bounds and outside of them.
WalkInit ==
  /\ limit \in -1..MaxLimit + 1
  /\ page \in -1..1
  /\ total \in 0..MaxTotal
  /\ got = <<>>
  /\ more = TRUE

AskPage ==
  /\ more
  /\ got' = got \o FindMany(Rows, PageNumber(page), Limit(limit))
  /\ page' = PageNumber(page) + 1
  /\ more' = (PageNumber(page) < TotalPages(Count(Rows), Limit(limit)))
  /\ UNCHANGED <<limit, total>>

-----------------------------------------------------------------------------
\* Whatever page and limit the program sends first, by the last page it has every
\* row, once, in the order of the list (lib/pagination.ts).
EveryRowOnce == ~more => got = Rows
=============================================================================

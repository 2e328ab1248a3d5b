----------------------------- MODULE AuthRoutes -----------------------------
(***************************************************************************)
(* The routes of api/src/routes/auth.ts.  An access token is signed and     *)
(* kept nowhere; a refresh token names a JTI, a random id that Redis holds  *)
(* for as long as the token may be exchanged.  Every await of a handler     *)
(* ends a step, and requests interleave between them.                      *)
(*                                                                         *)
(* Stages of a request: "idle", "guard" (requireAuth of any other route),   *)
(* "find" (register: is the email taken), "create", "password" (login),     *)
(* "check" (refresh), "revoke", "store", "end" (logout) and "answered", its  *)
(* answer on the way.                                                      *)
(***************************************************************************)
EXTENDS FiniteSets, Naturals

CONSTANTS
  Requests, \* requests under way at once
  Users,    \* email addresses
  Jtis,     \* the JTIs there are, a bound
  NoJti,    \* no refresh token
  MaxFaults \* bound on failures of Redis and lost requests

ASSUME NoJtiAssumption == NoJti \notin Jtis \cup Users
ASSUME AuthFaultsAssumption == MaxFaults \in Nat

VARIABLES
  accounts, \* users rows, with their organization and owner membership
  live,     \* JTIs that Redis holds
  issued,   \* JTIs ever signed into a token
  request,  \* request[r]
  expired,  \* JTIs whose access token, signed with them, is past its 15 minutes
  faults    \* failures so far

authVars == <<accounts, live, issued, request, expired, faults>>

FirstStage == [call |-> "guard", register |-> "find", login |-> "password",
               refresh |-> "check", logout |-> "end"]
Kinds == DOMAIN FirstStage

\* cookie: the refresh token sent; bearer: the access token sent, named by the
\* JTI it was signed with; token: the pair in the answer.
NewRequest(by, kind, user, cookie, bearer) ==
  [by |-> by, kind |-> kind, user |-> user, cookie |-> cookie, bearer |-> bearer,
   stage |-> FirstStage[kind], answer |-> "none", token |-> NoJti]
Idle == [NewRequest(NoJti, "call", NoJti, NoJti, NoJti) EXCEPT !.stage = "idle"]

AuthInit ==
  /\ accounts = {}
  /\ live = {}
  /\ issued = {}
  /\ request = [r \in Requests |-> Idle]
  /\ expired = {}
  /\ faults = 0

Stages == {"idle", "guard", "find", "create", "password", "check", "revoke", "store", "end",
           "answered"}
Answers == {"none", "ok", "bye", "refused", "conflict", "error"}

AuthTypeOK ==
  /\ accounts \subseteq Users
  /\ live \subseteq issued /\ issued \subseteq Jtis
  /\ DOMAIN request = Requests
  /\ \A r \in Requests :
       /\ request[r].stage \in Stages
       /\ request[r].answer \in Answers
       /\ request[r].kind \in Kinds
       /\ {request[r].cookie, request[r].bearer, request[r].token}
            \subseteq issued \cup {NoJti}
  /\ expired \subseteq issued
  /\ issued # {} => accounts # {}
  /\ faults \in 0..MaxFaults

At(r, stage) == request[r].stage = stage
Go(r, stage) == request' = [request EXCEPT ![r].stage = stage]
Answer(r, answer) ==
  request' = [request EXCEPT ![r].stage = "answered", ![r].answer = answer]

Arrive(r, by, kind, user, cookie, bearer) ==
  /\ At(r, "idle")
  /\ request' = [request EXCEPT ![r] = NewRequest(by, kind, user, cookie, bearer)]
  /\ UNCHANGED <<accounts, live, issued, expired, faults>>

\* requireAuth: an access token in the header, signed and not expired.  (Its
\* look into the cookies asks for a name that no route sets.)
RequireAuth(r) ==
  /\ At(r, "guard")
  /\ Answer(r, IF request[r].bearer \in issued \ expired THEN "ok" ELSE "refused")
  /\ UNCHANGED <<accounts, live, issued, expired, faults>>

\* POST /auth/register: the look-up, then the hash of the password.
FindEmail(r) ==
  /\ At(r, "find")
  /\ IF request[r].user \in accounts THEN Answer(r, "conflict") ELSE Go(r, "create")
  /\ UNCHANGED <<accounts, live, issued, expired, faults>>

\* Mutant: no unique index; the look-up alone guards the email.
CreateAccountUnindexed(r) ==
  /\ At(r, "create")
  /\ accounts' = accounts \cup {request[r].user}
  /\ Go(r, "store")
  /\ UNCHANGED <<live, issued, expired, faults>>

\* The transaction: user, organization and owner membership, or, where the
\* email is taken by now, none of them (P2002, a 409 in index.ts).
CreateAccount(r) ==
  /\ At(r, "create")
  /\ IF request[r].user \in accounts
     THEN Answer(r, "conflict") /\ UNCHANGED accounts
     ELSE Go(r, "store") /\ accounts' = accounts \cup {request[r].user}
  /\ UNCHANGED <<live, issued, expired, faults>>

\* Mutant: the user is not looked up.
CheckPasswordOnly(r) ==
  /\ At(r, "password")
  /\ Go(r, "store") \/ Answer(r, "refused")
  /\ UNCHANGED <<accounts, live, issued, expired, faults>>

\* POST /auth/login: look the user up and compare the password.
CheckPassword(r) ==
  /\ At(r, "password")
  /\ \/ request[r].user \in accounts /\ Go(r, "store")
     \/ Answer(r, "refused")
  /\ UNCHANGED <<accounts, live, issued, expired, faults>>

\* POST /auth/refresh: the token's JTI must be in Redis; then the user row is
\* read, which no code deletes.
CheckJti(r) ==
  /\ At(r, "check")
  /\ IF request[r].cookie \in live THEN Go(r, "revoke") ELSE Answer(r, "refused")
  /\ UNCHANGED <<accounts, live, issued, expired, faults>>

\* Mutant: the old JTI stays.
RevokeNothing(r) ==
  /\ At(r, "revoke")
  /\ Go(r, "store")
  /\ UNCHANGED <<accounts, live, issued, expired, faults>>

RevokeOld(r) ==
  /\ At(r, "revoke")
  /\ live' = live \ {request[r].cookie}
  /\ Go(r, "store")
  /\ UNCHANGED <<accounts, issued, expired, faults>>

Issue(r, j) ==
  /\ issued' = issued \cup {j}
  /\ request' = [request EXCEPT ![r].stage = "answered", ![r].answer = "ok", ![r].token = j]

\* Mutant: the JTI of the token that was sent is stored, not the new one.
StoreSentJti(r) ==
  /\ At(r, "store")
  /\ \E j \in Jtis \ issued :
       /\ Issue(r, j)
       /\ live' = live \cup (IF request[r].cookie = NoJti THEN {j} ELSE {request[r].cookie})
  /\ UNCHANGED <<accounts, expired, faults>>

\* Sign a token pair with a JTI that is random, so never used before; store
\* the JTI, set the cookies and answer.
StoreJti(r) ==
  /\ At(r, "store")
  /\ \E j \in Jtis \ issued : Issue(r, j) /\ live' = live \cup {j}
  /\ UNCHANGED <<accounts, expired, faults>>

\* POST /auth/logout revokes the JTI of the cookie, if one was sent, and clears
\* the cookies; it answers 200 in any case.
EndSession(r) ==
  /\ At(r, "end")
  /\ live' = live \ {request[r].cookie}
  /\ Answer(r, "bye")
  /\ UNCHANGED <<accounts, issued, expired, faults>>

AuthStep(r) ==
  RequireAuth(r) \/ FindEmail(r) \/ CreateAccount(r) \/ CheckPassword(r)
    \/ CheckJti(r) \/ RevokeOld(r) \/ StoreJti(r) \/ EndSession(r)

Fault == faults < MaxFaults /\ faults' = faults + 1

\* A command of Redis rejects, before or after Redis carried it out.  Logout's
\* catch takes that for a token with nothing to revoke.
RedisFails(r) ==
  /\ Fault
  /\ \/ At(r, "check") /\ Answer(r, "error") /\ UNCHANGED <<live, issued>>
     \/ At(r, "revoke") /\ Answer(r, "error") /\ UNCHANGED issued
          /\ live' \in {live, live \ {request[r].cookie}}
     \/ At(r, "store") /\ Answer(r, "error")
          /\ \E j \in Jtis \ issued : issued' = issued \cup {j} /\ live' \in {live, live \cup {j}}
     \/ At(r, "end") /\ Answer(r, "bye") /\ UNCHANGED <<live, issued>>
  /\ UNCHANGED <<accounts, expired>>

\* The API process ends, or the connection does: no answer arrives.
LoseRequest(r) ==
  /\ Fault
  /\ ~At(r, "idle")
  /\ request' = [request EXCEPT ![r] = Idle]
  /\ UNCHANGED <<accounts, live, issued, expired>>

\* Redis drops a key 7 days after it was stored, as the token expires.
JtiExpires(j) ==
  /\ j \in live
  /\ live' = live \ {j}
  /\ UNCHANGED <<accounts, issued, request, expired, faults>>

\* An access token is valid for 15 minutes.
AccessExpires(j) ==
  /\ j \in issued \ expired
  /\ expired' = expired \cup {j}
  /\ UNCHANGED <<accounts, live, issued, request, faults>>
=============================================================================

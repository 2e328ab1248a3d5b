------------------------------ MODULE Sessions ------------------------------
(***************************************************************************)
(* Sign-in sessions: the authentication routes with the clients that hold   *)
(* their tokens.                                                           *)
(*                                                                         *)
(* A program that calls the routes at /auth keeps the refresh cookie in a   *)
(* jar and sends it back.  The dashboard (web/lib/api.ts, AppShell.tsx, the *)
(* login and register pages) calls /api/auth, for which a browser does not  *)
(* send a cookie of path /auth: its refresh and logout carry none.  It has  *)
(* the access token in localStorage, which its tabs share.                 *)
(***************************************************************************)
EXTENDS AuthRoutes

CONSTANTS
  Programs, \* API clients with a cookie jar
  Browser,  \* the dashboard's
  MaxEnds   \* bound on tokens that run out

ASSUME BrowserAssumption == Browser \notin Programs
ASSUME EndsAssumption == MaxEnds \in Nat

VARIABLES
  jar,    \* jar[c]: the refresh token in the jar of a program
  token,  \* the access token in localStorage
  holder, \* holder[j]: the client that j was issued to
  busy,   \* programs that had two requests under way at once or signed in again
  failed, \* programs that a failure hit
  lapsed, \* JTIs that ran out
  signups \* signups[u]: registrations of u that a client saw succeed

clientVars == <<jar, token, holder, busy, failed, lapsed, signups>>
sessionVars == <<authVars, clientVars>>

SessionInit ==
  /\ AuthInit
  /\ jar = [c \in Programs |-> NoJti]
  /\ token = NoJti
  /\ holder = [j \in Jtis |-> NoJti]
  /\ busy = {}
  /\ failed = {}
  /\ lapsed = {}
  /\ signups = [u \in Users |-> 0]

SessionTypeOK ==
  /\ AuthTypeOK
  /\ jar \in [Programs -> issued \cup {NoJti}]
  /\ token \in issued \cup {NoJti}
  /\ holder \in [Jtis -> Programs \cup {Browser, NoJti}]
  /\ {j \in Jtis : holder[j] # NoJti} \subseteq issued
  /\ busy \subseteq Programs /\ failed \subseteq Programs
  /\ lapsed \subseteq issued
  /\ signups \in [Users -> Nat]

Quiet(c) == \A r \in Requests : At(r, "idle") \/ request[r].by # c

\* A program sends a request; its jar adds the cookie.
Ask(r, c, kind, user) ==
  /\ Arrive(r, c, kind, user, jar[c], NoJti)
  /\ busy' = IF Quiet(c) /\ (kind \in {"register", "login"} => jar[c] = NoJti)
             THEN busy ELSE busy \cup {c}
  /\ UNCHANGED <<jar, token, holder, failed, lapsed, signups>>

Receive(r) ==
  /\ At(r, "answered")
  /\ request' = [request EXCEPT ![r] = Idle]
  /\ UNCHANGED <<accounts, live, issued, expired, faults>>
SignedUp(r) ==
  signups' = IF request[r].kind = "register" /\ request[r].answer = "ok"
             THEN [signups EXCEPT ![request[r].user] = @ + 1] ELSE signups

\* The answer's Set-Cookie headers change the jar.
Hear(r, c) ==
  /\ request[r].by = c
  /\ Receive(r)
  /\ SignedUp(r)
  /\ jar' = CASE request[r].answer = "ok" -> [jar EXCEPT ![c] = request[r].token]
              [] request[r].answer = "bye" -> [jar EXCEPT ![c] = NoJti]
              [] OTHER -> jar
  /\ UNCHANGED <<token, holder, busy, failed, lapsed>>

-----------------------------------------------------------------------------
\* apiFetch: the request carries the stored access token; a page calls any
\* route, the login and register pages and the Logout button the others.
Fetch(r, kind, user) ==
  /\ Arrive(r, Browser, kind, user, NoJti, token)
  /\ UNCHANGED clientVars

\* A 401: POST /auth/refresh, without the cookie.
Refused(r) ==
  /\ request[r].by = Browser /\ request[r].kind \in {"call", "login"}
  /\ At(r, "answered") /\ request[r].answer = "refused"
  /\ request' = [request EXCEPT ![r] =
       NewRequest(Browser, "refresh", request[r].user, NoJti, request[r].bearer)]
  /\ UNCHANGED <<accounts, live, issued, expired, faults, clientVars>>

\* Mutant: an error of the server signs the user out as well.
SettleClearing(r) ==
  /\ request[r].by = Browser
  /\ ~(request[r].kind \in {"call", "login"} /\ request[r].answer = "refused")
  /\ Receive(r)
  /\ SignedUp(r)
  /\ token' = CASE request[r].answer \in {"refused", "bye", "error"} -> NoJti
                [] request[r].token # NoJti -> request[r].token
                [] OTHER -> token
  /\ UNCHANGED <<jar, holder, busy, failed, lapsed>>

\* Any other answer: the login and register pages store the token of a 2xx;
\* the refused refresh and the logout, whatever its answer, clear it.
Settle(r) ==
  /\ request[r].by = Browser
  /\ ~(request[r].kind \in {"call", "login"} /\ request[r].answer = "refused")
  /\ Receive(r)
  /\ SignedUp(r)
  /\ token' = CASE request[r].kind = "logout" \/ request[r].answer = "refused" -> NoJti
                [] request[r].token # NoJti -> request[r].token
                [] OTHER -> token
  /\ UNCHANGED <<jar, holder, busy, failed, lapsed>>

-----------------------------------------------------------------------------
\* The new JTI is the client's whose request it answers.
Serve(r) ==
  /\ AuthStep(r)
  /\ holder' = [j \in Jtis |-> IF j \in issued' \ issued THEN request[r].by ELSE holder[j]]
  /\ UNCHANGED <<jar, token, busy, failed, lapsed, signups>>

Break(r) ==
  /\ RedisFails(r) \/ LoseRequest(r)
  /\ holder' = [j \in Jtis |-> IF j \in issued' \ issued THEN request[r].by ELSE holder[j]]
  /\ failed' = IF request[r].by \in Programs THEN failed \cup {request[r].by} ELSE failed
  \* The Logout button clears the token also when its request fails.
  /\ token' = IF request[r].by = Browser /\ request[r].kind = "logout" /\ request'[r] = Idle
              THEN NoJti ELSE token
  /\ UNCHANGED <<jar, busy, lapsed, signups>>

MoreEnds == Cardinality(expired) + Cardinality(lapsed) < MaxEnds

Lapse(j) ==
  /\ MoreEnds
  /\ JtiExpires(j)
  /\ lapsed' = lapsed \cup {j}
  /\ UNCHANGED <<jar, token, holder, busy, failed, signups>>

GoStale(j) ==
  /\ MoreEnds
  /\ AccessExpires(j)
  /\ UNCHANGED clientVars

SessionNext ==
  \/ \E r \in Requests :
       \/ \E c \in Programs :
            \/ \E u \in Users : Ask(r, c, "register", u) \/ Ask(r, c, "login", u)
            \/ \E kind \in {"refresh", "logout"} : Ask(r, c, kind, NoJti)
            \/ Hear(r, c)
       \/ \E u \in Users : Fetch(r, "register", u) \/ Fetch(r, "login", u)
       \/ \E kind \in {"call", "logout"} : Fetch(r, kind, NoJti)
       \/ Refused(r) \/ Settle(r)
       \/ Serve(r) \/ Break(r)
  \/ \E j \in Jtis : Lapse(j) \/ GoStale(j)

SessionSpec == SessionInit /\ [][SessionNext]_sessionVars

-----------------------------------------------------------------------------
\* No email is registered twice, although both registrations look it up before
\* either writes: one of two clients is told 409 (auth.ts, index.ts).
OneSignupPerEmail == \A u \in Users : signups[u] <= 1

Handed(c) == {jar[c]} \cup {request[r].token : r \in {s \in Requests : request[s].by = c}}

\* A client that makes one request at a time, signs out before it signs in
\* again and meets no failure leaves no refresh token behind: what Redis holds
\* of it is the token in its jar or on the way there.  Each exchange and each
\* sign-out retires the token before (auth.ts).
NoStrayToken ==
  \A c \in Programs \ (busy \cup failed) :
    {j \in live : holder[j] = c} \subseteq Handed(c)

\* Exchanges, sign-ins and sign-outs that overlap never leave a client with a
\* token that the others revoked: at rest, the token in its jar is good until
\* it runs out, unless a failure came between (auth.ts).
JarIsGood ==
  \A c \in Programs \ failed :
    Quiet(c) /\ jar[c] # NoJti => jar[c] \in live \cup lapsed

\* A dashboard whose access token is still good is signed out by its user, by a
\* wrong password at the login page, or by a call of another tab with an older
\* token, and by nothing else (lib/api.ts).
SignedOutForCause ==
  [][(token \in issued \ expired /\ token' = NoJti) =>
       \E r \in Requests :
         /\ request[r].by = Browser
         /\ \/ request[r].kind = "logout"
            \/ request[r].kind = "refresh" /\ (request[r].user # NoJti \/ request[r].bearer # token)]_sessionVars
=============================================================================

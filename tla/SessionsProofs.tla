--------------------------- MODULE SessionsProofs ---------------------------
(***************************************************************************)
(* Proofs about the sign-in sessions: one account per email, good jars, no  *)
(* stray tokens, and who signs a dashboard out.                            *)
(***************************************************************************)
EXTENDS Sessions, TLAPS

Clients == Programs \cup {Browser}
Tokens == Jtis \cup {NoJti}

Calls ==
  [by : Clients \cup {NoJti}, kind : Kinds, user : Users \cup {NoJti},
   cookie : Tokens, bearer : Tokens, stage : Stages, answer : Answers, token : Tokens]

\* Which stages and answers the requests of a kind come to.
Coherent(q) ==
  /\ q.stage = "guard" => q.kind = "call"
  /\ q.stage \in {"find", "create"} => q.kind = "register"
  /\ q.stage = "password" => q.kind = "login"
  /\ q.stage \in {"check", "revoke"} => q.kind = "refresh"
  /\ q.stage = "end" => q.kind = "logout"
  /\ q.stage = "store" => q.kind \in {"register", "login", "refresh"}
  /\ q.stage # "answered" => q.answer = "none" /\ q.token = NoJti
  /\ q.token # NoJti => q.answer = "ok"
  /\ q.stage # "idle" => q.by \in Clients
  /\ q.kind = "call" => q.user = NoJti
  /\ q.kind \in {"register", "login"} => q.user \in Users
  /\ q.answer = "refused" => q.kind \in {"call", "login", "refresh"}
  /\ q.answer = "bye" => q.kind = "logout"
  /\ q.answer = "ok" => q.kind # "logout"

RequestsOK ==
  /\ request \in [Requests -> Calls]
  /\ \A r \in Requests :
       /\ Coherent(request[r])
       /\ {request[r].cookie, request[r].bearer, request[r].token} \subseteq issued \cup {NoJti}
       /\ request[r].stage \in {"revoke", "store"} => accounts # {}

StoresOK ==
  /\ accounts \subseteq Users
  /\ live \subseteq issued /\ issued \subseteq Jtis /\ expired \subseteq issued
  /\ issued # {} => accounts # {}
  /\ faults \in 0..MaxFaults

ClientsOK ==
  /\ jar \in [Programs -> issued \cup {NoJti}]
  /\ token \in issued \cup {NoJti}
  /\ holder \in [Jtis -> Programs \cup {Browser, NoJti}]
  /\ {j \in Jtis : holder[j] # NoJti} \subseteq issued
  /\ busy \subseteq Programs /\ failed \subseteq Programs
  /\ lapsed \subseteq issued
  /\ signups \in [Users -> Nat]

TypeInv == RequestsOK /\ StoresOK /\ ClientsOK

-----------------------------------------------------------------------------
(* What the steps do to the requests. *)

Untouched(r) == \A s \in Requests \ {r} : request'[s] = request[s]

Proceeds(r, stage, answer, token_) ==
  /\ request' \in [Requests -> Calls]
  /\ Untouched(r)
  /\ request'[r].by = request[r].by
  /\ request'[r].kind = request[r].kind
  /\ request'[r].user = request[r].user
  /\ request'[r].cookie = request[r].cookie
  /\ request'[r].bearer = request[r].bearer
  /\ request'[r].stage = stage
  /\ request'[r].answer = answer
  /\ request'[r].token = token_

Becomes(r, q) ==
  /\ request' \in [Requests -> Calls]
  /\ Untouched(r)
  /\ request'[r] = q

LEMMA KindNames == Kinds = {"call", "register", "login", "refresh", "logout"}
  BY DEF Kinds, FirstStage

LEMMA GoEffect ==
  ASSUME TypeInv, NEW r \in Requests, NEW stage \in Stages, Go(r, stage)
  PROVE  Proceeds(r, stage, request[r].answer, request[r].token)
  BY DEF TypeInv, RequestsOK, Go, Proceeds, Untouched, Calls

LEMMA AnswerEffect ==
  ASSUME TypeInv, NEW r \in Requests, NEW answer \in Answers, Answer(r, answer)
  PROVE  Proceeds(r, "answered", answer, request[r].token)
  BY DEF TypeInv, RequestsOK, Answer, Proceeds, Untouched, Calls, Stages

LEMMA IssueEffect ==
  ASSUME TypeInv, NEW r \in Requests, NEW j \in Jtis, Issue(r, j)
  PROVE  Proceeds(r, "answered", "ok", j)
  BY DEF TypeInv, RequestsOK, Issue, Proceeds, Untouched, Calls, Stages, Answers, Tokens

LEMMA NewEffect ==
  ASSUME TypeInv, NEW r \in Requests, NEW q \in Calls, request' = [request EXCEPT ![r] = q]
  PROVE  Becomes(r, q)
  BY DEF TypeInv, RequestsOK, Becomes, Untouched

LEMMA FirstStages ==
  /\ FirstStage["call"] = "guard" /\ FirstStage["register"] = "find"
  /\ FirstStage["login"] = "password" /\ FirstStage["refresh"] = "check"
  /\ FirstStage["logout"] = "end"
  BY DEF FirstStage

Starts(q) ==
  /\ q.answer = "none" /\ q.token = NoJti
  /\ q.stage \in Stages /\ q.stage # "answered" /\ q.stage # "idle"
  /\ q.stage # "store" /\ q.stage # "revoke"
  /\ q.kind = "call" => q.stage = "guard"
  /\ q.kind = "register" => q.stage = "find"
  /\ q.kind = "login" => q.stage = "password"
  /\ q.kind = "refresh" => q.stage = "check"
  /\ q.kind = "logout" => q.stage = "end"

LEMMA NewIsCall ==
  ASSUME NEW by \in Clients \cup {NoJti}, NEW kind \in Kinds, NEW user \in Users \cup {NoJti},
         NEW cookie \in Tokens, NEW bearer \in Tokens, NEW q,
         q = NewRequest(by, kind, user, cookie, bearer)
  PROVE  /\ q \in Calls
         /\ q.by = by /\ q.kind = kind /\ q.user = user
         /\ q.cookie = cookie /\ q.bearer = bearer
         /\ Starts(q)
  <1>1. /\ FirstStage[kind] \in Stages \ {"answered", "idle", "store", "revoke"}
        /\ kind = "call" => FirstStage[kind] = "guard"
        /\ kind = "register" => FirstStage[kind] = "find"
        /\ kind = "login" => FirstStage[kind] = "password"
        /\ kind = "refresh" => FirstStage[kind] = "check"
        /\ kind = "logout" => FirstStage[kind] = "end"
    BY FirstStages, KindNames DEF Stages
  <1>2. q = [by |-> by, kind |-> kind, user |-> user, cookie |-> cookie, bearer |-> bearer,
             stage |-> FirstStage[kind], answer |-> "none", token |-> NoJti]
    BY DEF NewRequest
  <1>3. q \in Calls
    BY <1>1, <1>2 DEF Calls, Tokens, Answers
  <1> QED
    BY <1>1, <1>2, <1>3 DEF Starts

LEMMA IdleIsCall ==
  /\ Idle \in Calls
  /\ Idle.by = NoJti /\ Idle.kind = "call" /\ Idle.user = NoJti
  /\ Idle.cookie = NoJti /\ Idle.bearer = NoJti /\ Idle.token = NoJti
  /\ Idle.stage = "idle" /\ Idle.answer = "none"
  <1> DEFINE q == NewRequest(NoJti, "call", NoJti, NoJti, NoJti)
  <1>1. /\ q \in Calls
        /\ q.by = NoJti /\ q.kind = "call" /\ q.user = NoJti
        /\ q.cookie = NoJti /\ q.bearer = NoJti /\ Starts(q)
    <2>1. /\ NoJti \in Clients \cup {NoJti} /\ NoJti \in Users \cup {NoJti} /\ NoJti \in Tokens
          /\ "call" \in Kinds
      BY KindNames DEF Tokens
    <2> HIDE DEF q
    <2>2. q = NewRequest(NoJti, "call", NoJti, NoJti, NoJti)
      BY DEF q
    <2> QED
      BY <2>1, <2>2, NewIsCall
  <1>2. Idle = [q EXCEPT !.stage = "idle"]
    BY DEF Idle
  <1> HIDE DEF q
  <1> QED
    BY <1>1, <1>2 DEF Calls, Starts, Stages

-----------------------------------------------------------------------------
LEMMA TypeInvImplies == TypeInv => SessionTypeOK
  BY DEF TypeInv, RequestsOK, StoresOK, ClientsOK, SessionTypeOK, AuthTypeOK, Calls

LEMMA TypeInitial == SessionInit => TypeInv
  BY IdleIsCall, AuthFaultsAssumption
  DEF SessionInit, AuthInit, TypeInv, RequestsOK, StoresOK, ClientsOK, Coherent

\* One request changes, and what is stored only grows.
LEMMA RequestsFrame ==
  ASSUME TypeInv, NEW r \in Requests,
         request' \in [Requests -> Calls], Untouched(r),
         Coherent(request'[r]),
         {request'[r].cookie, request'[r].bearer, request'[r].token} \subseteq issued' \cup {NoJti},
         request'[r].stage \in {"revoke", "store"} => accounts' # {},
         issued \subseteq issued', accounts \subseteq accounts'
  PROVE  RequestsOK'
  BY DEF TypeInv, RequestsOK, Untouched

LEMMA ClientsFrame ==
  ASSUME TypeInv, NEW r \in Requests, request[r].stage # "idle",
         issued \subseteq issued', issued' \subseteq Jtis,
         holder' = [j \in Jtis |-> IF j \in issued' \ issued THEN request[r].by ELSE holder[j]],
         UNCHANGED <<jar, token, busy, lapsed, signups>>,
         failed' \subseteq Programs
  PROVE  ClientsOK'
  <1>1. request[r].by \in Clients
    BY DEF TypeInv, RequestsOK, Coherent
  <1> QED
    BY <1>1 DEF TypeInv, ClientsOK, Clients

\* What each stage of a request does.
ServeStage(r) ==
  LET q == request[r]
  IN \/ /\ q.stage = "guard" /\ UNCHANGED <<accounts, live, issued>>
        /\ Proceeds(r, "answered", IF q.bearer \in issued \ expired THEN "ok" ELSE "refused", NoJti)
     \/ /\ q.stage = "find" /\ UNCHANGED <<accounts, live, issued>>
        /\ Proceeds(r, "answered", "conflict", NoJti) \/ Proceeds(r, "create", "none", NoJti)
     \/ /\ q.stage = "create" /\ UNCHANGED <<accounts, live, issued>>
        /\ Proceeds(r, "answered", "conflict", NoJti)
     \/ /\ q.stage = "create" /\ UNCHANGED <<live, issued>>
        /\ q.user \notin accounts /\ accounts' = accounts \cup {q.user}
        /\ Proceeds(r, "store", "none", NoJti)
     \/ /\ q.stage = "password" /\ UNCHANGED <<accounts, live, issued>>
        /\ \/ Proceeds(r, "answered", "refused", NoJti)
           \/ accounts # {} /\ Proceeds(r, "store", "none", NoJti)
     \/ /\ q.stage = "check" /\ UNCHANGED <<accounts, live, issued>>
        /\ \/ Proceeds(r, "answered", "refused", NoJti)
           \/ issued # {} /\ Proceeds(r, "revoke", "none", NoJti)
     \/ /\ q.stage = "revoke" /\ UNCHANGED <<accounts, issued>>
        /\ live' = live \ {q.cookie}
        /\ Proceeds(r, "store", "none", NoJti)
     \/ /\ q.stage = "store" /\ UNCHANGED accounts
        /\ \E j \in Jtis \ issued :
             /\ issued' = issued \cup {j} /\ live' = live \cup {j}
             /\ Proceeds(r, "answered", "ok", j)
     \/ /\ q.stage = "end" /\ UNCHANGED <<accounts, issued>>
        /\ live' = live \ {q.cookie}
        /\ Proceeds(r, "answered", "bye", NoJti)

LEMMA ServeEffect ==
  ASSUME TypeInv, NEW r \in Requests, Serve(r)
  PROVE  /\ ServeStage(r)
         /\ request[r].stage # "idle"
         /\ UNCHANGED <<expired, faults, jar, token, busy, failed, lapsed, signups>>
         /\ holder' = [j \in Jtis |-> IF j \in issued' \ issued THEN request[r].by ELSE holder[j]]
  <1> USE DEF At
  <1>1. /\ Coherent(request[r])
        /\ request[r].stage # "answered" => request[r].answer = "none" /\ request[r].token = NoJti
    BY DEF TypeInv, RequestsOK, Coherent
  <1>2. CASE RequireAuth(r)
    <2>1. PICK a \in Answers :
            /\ a = IF request[r].bearer \in issued \ expired THEN "ok" ELSE "refused"
            /\ Answer(r, a)
      BY <1>2 DEF RequireAuth, Answers
    <2>2. Proceeds(r, "answered", a, request[r].token)
      BY <2>1, AnswerEffect
    <2> QED
      BY <1>1, <1>2, <2>1, <2>2 DEF RequireAuth, Serve, ServeStage
  <1>3. CASE FindEmail(r)
    <2>1. \/ Proceeds(r, "answered", "conflict", request[r].token)
          \/ Proceeds(r, "create", request[r].answer, request[r].token)
      BY <1>3, AnswerEffect, GoEffect DEF FindEmail, Answers, Stages
    <2> QED
      BY <1>1, <1>3, <2>1 DEF FindEmail, Serve, ServeStage
  <1>4. CASE CreateAccount(r)
    <2>1. \/ Proceeds(r, "answered", "conflict", request[r].token) /\ accounts' = accounts
          \/ /\ Proceeds(r, "store", request[r].answer, request[r].token)
             /\ request[r].user \notin accounts /\ accounts' = accounts \cup {request[r].user}
      BY <1>4, AnswerEffect, GoEffect DEF CreateAccount, Answers, Stages
    <2> QED
      BY <1>1, <1>4, <2>1 DEF CreateAccount, Serve, ServeStage
  <1>5. CASE CheckPassword(r)
    <2>1. \/ Proceeds(r, "answered", "refused", request[r].token)
          \/ Proceeds(r, "store", request[r].answer, request[r].token) /\ accounts # {}
      BY <1>5, AnswerEffect, GoEffect DEF CheckPassword, Answers, Stages
    <2> QED
      BY <1>1, <1>5, <2>1 DEF CheckPassword, Serve, ServeStage
  <1>6. CASE CheckJti(r)
    <2>1. \/ Proceeds(r, "answered", "refused", request[r].token)
          \/ Proceeds(r, "revoke", request[r].answer, request[r].token) /\ issued # {}
      BY <1>6, AnswerEffect, GoEffect DEF CheckJti, Answers, Stages, TypeInv, StoresOK
    <2> QED
      BY <1>1, <1>6, <2>1 DEF CheckJti, Serve, ServeStage
  <1>7. CASE RevokeOld(r)
    <2>1. Proceeds(r, "store", request[r].answer, request[r].token)
      BY <1>7, GoEffect DEF RevokeOld, Stages
    <2> QED
      BY <1>1, <1>7, <2>1 DEF RevokeOld, Serve, ServeStage
  <1>8. CASE StoreJti(r)
    <2>1. \E j \in Jtis \ issued :
            /\ issued' = issued \cup {j} /\ live' = live \cup {j}
            /\ Proceeds(r, "answered", "ok", j)
      BY <1>8, IssueEffect DEF StoreJti, Issue
    <2> QED
      BY <1>8, <2>1 DEF StoreJti, Serve, ServeStage
  <1>9. CASE EndSession(r)
    <2>1. Proceeds(r, "answered", "bye", request[r].token)
      BY <1>9, AnswerEffect DEF EndSession, Answers
    <2> QED
      BY <1>1, <1>9, <2>1 DEF EndSession, Serve, ServeStage
  <1> QED
    BY <1>2, <1>3, <1>4, <1>5, <1>6, <1>7, <1>8, <1>9 DEF Serve, AuthStep

\* The request as a step leaves it.
LEMMA ServedIsCoherent ==
  ASSUME TypeInv, NEW r \in Requests, ServeStage(r)
  PROVE  Coherent(request'[r])
  BY KindNames DEF TypeInv, RequestsOK, Coherent, ServeStage, Proceeds

LEMMA TypeServe ==
  ASSUME TypeInv, NEW r \in Requests, Serve(r)
  PROVE  TypeInv'
  <1>1. request[r] \in Calls /\ Coherent(request[r])
    BY DEF TypeInv, RequestsOK
  <1>2. ServeStage(r)
    BY ServeEffect
  <1>3. StoresOK' /\ issued \subseteq issued' /\ accounts \subseteq accounts'
    BY <1>1, <1>2, ServeEffect DEF ServeStage, Coherent, TypeInv, StoresOK, RequestsOK
  <1>4. request' \in [Requests -> Calls] /\ Untouched(r) /\ Coherent(request'[r])
    BY <1>2, ServedIsCoherent DEF ServeStage, Proceeds
  <1>5. {request'[r].cookie, request'[r].bearer, request'[r].token} \subseteq issued' \cup {NoJti}
    BY <1>2, <1>3 DEF ServeStage, Proceeds, TypeInv, RequestsOK
  <1>6. request'[r].stage \in {"revoke", "store"} => accounts' # {}
    BY <1>2, <1>3 DEF ServeStage, Proceeds, TypeInv, RequestsOK, StoresOK
  <1>7. RequestsOK'
    BY <1>3, <1>4, <1>5, <1>6, RequestsFrame
  <1>8. ClientsOK'
    BY <1>3, ServeEffect, ClientsFrame DEF TypeInv, StoresOK, ClientsOK
  <1> QED
    BY <1>3, <1>7, <1>8 DEF TypeInv

\* What a failure does to the request and to the JTIs.
LEMMA BreakEffect ==
  ASSUME TypeInv, NEW r \in Requests, Break(r)
  PROVE  /\ request[r].stage # "idle"
         /\ \/ /\ Proceeds(r, "answered", "error", NoJti)
               /\ \/ request[r].stage \in {"check", "revoke"} /\ issued' = issued
                  \/ request[r].stage = "store"
                       /\ \E j \in Jtis \ issued :
                            issued' = issued \cup {j} /\ live' \in {live, live \cup {j}}
            \/ /\ request[r].stage = "end" /\ issued' = issued
               /\ Proceeds(r, "answered", "bye", NoJti)
            \/ Becomes(r, Idle) /\ issued' = issued
         /\ issued' = issued => live' \subseteq live
         /\ UNCHANGED <<accounts, expired, jar, busy, lapsed, signups>>
         /\ faults' \in 0..MaxFaults
         /\ failed' = IF request[r].by \in Programs THEN failed \cup {request[r].by} ELSE failed
         /\ holder' = [j \in Jtis |-> IF j \in issued' \ issued THEN request[r].by ELSE holder[j]]
         /\ token' \in {token, NoJti}
         /\ token' # token => request[r].by = Browser /\ request[r].kind = "logout"
  <1>1. request[r] \in Calls /\ Coherent(request[r])
    BY DEF TypeInv, RequestsOK
  <1>2. faults' \in 0..MaxFaults /\ UNCHANGED <<accounts, expired>>
    BY AuthFaultsAssumption DEF Break, RedisFails, LoseRequest, Fault, TypeInv, StoresOK
  <1>3. CASE RedisFails(r)
    <2>1. CASE At(r, "end") /\ Answer(r, "bye") /\ UNCHANGED <<live, issued>>
      <3>1. Proceeds(r, "answered", "bye", NoJti)
        BY <1>1, <2>1, AnswerEffect DEF Answers, At, Coherent
      <3> QED
        BY <1>2, <2>1, <3>1 DEF Break, At
    <2>2. CASE ~(At(r, "end") /\ Answer(r, "bye") /\ UNCHANGED <<live, issued>>)
      <3>1. Answer(r, "error") /\ request[r].stage \in {"check", "revoke", "store"}
        BY <1>3, <2>2 DEF RedisFails, At
      <3>2. Proceeds(r, "answered", "error", NoJti)
        BY <1>1, <3>1, AnswerEffect DEF Answers, Coherent
      <3>3. \/ request[r].stage \in {"check", "revoke"} /\ issued' = issued
            \/ request[r].stage = "store"
                 /\ \E j \in Jtis \ issued :
                      issued' = issued \cup {j} /\ live' \in {live, live \cup {j}}
        BY <1>3, <2>2 DEF RedisFails, At
      <3>4. issued' = issued => live' \subseteq live
        BY <1>3, <2>2 DEF RedisFails, At
      <3> QED
        BY <1>2, <3>1, <3>2, <3>3, <3>4 DEF Break
    <2> QED
      BY <2>1, <2>2
  <1>4. CASE LoseRequest(r)
    <2>1. Becomes(r, Idle)
      BY <1>4, IdleIsCall, NewEffect DEF LoseRequest
    <2> QED
      BY <1>2, <1>4, <2>1 DEF Break, LoseRequest, At
  <1> QED
    BY <1>3, <1>4 DEF Break

LEMMA IdleIsCoherent == Coherent(Idle)
  BY IdleIsCall DEF Coherent

LEMMA TypeBreak ==
  ASSUME TypeInv, NEW r \in Requests, Break(r)
  PROVE  TypeInv'
  <1>1. request[r] \in Calls /\ Coherent(request[r])
    BY DEF TypeInv, RequestsOK
  <1>2. issued \subseteq issued' /\ issued' \subseteq Jtis /\ accounts' = accounts
    BY BreakEffect DEF TypeInv, StoresOK
  <1>3. RequestsOK'
    <2>1. CASE Becomes(r, Idle)
      BY <1>2, <2>1, IdleIsCall, IdleIsCoherent, RequestsFrame DEF Becomes
    <2>2. CASE Proceeds(r, "answered", "error", NoJti)
      <3>1. Coherent(request'[r])
        BY <1>1, <2>2, BreakEffect DEF Proceeds, Coherent
      <3> QED
        BY <1>2, <2>2, <3>1, RequestsFrame DEF Proceeds, TypeInv, RequestsOK
    <2>3. CASE request[r].stage = "end" /\ Proceeds(r, "answered", "bye", NoJti)
      <3>1. Coherent(request'[r])
        BY <1>1, <2>3, BreakEffect DEF Proceeds, Coherent
      <3> QED
        BY <1>2, <2>3, <3>1, RequestsFrame DEF Proceeds, TypeInv, RequestsOK
    <2> QED
      BY <2>1, <2>2, <2>3, BreakEffect
  <1>4. StoresOK'
    BY BreakEffect DEF TypeInv, StoresOK, RequestsOK
  <1>5. request[r].by \in Clients /\ failed' \subseteq Programs
    BY <1>1, BreakEffect DEF Coherent, TypeInv, ClientsOK
  <1>6. ClientsOK'
    BY <1>2, <1>5, BreakEffect DEF TypeInv, ClientsOK, Clients
  <1> QED
    BY <1>3, <1>4, <1>6 DEF TypeInv

\* A request that a program or the dashboard sends.
LEMMA ArriveEffect ==
  ASSUME TypeInv, NEW r \in Requests, NEW by \in Clients, NEW kind \in Kinds,
         NEW user \in Users \cup {NoJti},
         NEW cookie \in issued \cup {NoJti}, NEW bearer \in issued \cup {NoJti},
         kind \in {"register", "login"} => user \in Users,
         kind = "call" => user = NoJti,
         Arrive(r, by, kind, user, cookie, bearer)
  PROVE  \E q \in Calls :
           /\ Becomes(r, q)
           /\ q.by = by /\ q.kind = kind /\ q.user = user
           /\ q.cookie = cookie /\ q.bearer = bearer /\ Starts(q) /\ Coherent(q)
           /\ RequestsOK'
  <1> DEFINE q == NewRequest(by, kind, user, cookie, bearer)
  <1>1. cookie \in Tokens /\ bearer \in Tokens
    BY DEF Tokens, TypeInv, StoresOK
  <1>2. /\ q \in Calls
        /\ q.by = by /\ q.kind = kind /\ q.user = user
        /\ q.cookie = cookie /\ q.bearer = bearer /\ Starts(q)
    BY <1>1, NewIsCall
  <1>3. request' = [request EXCEPT ![r] = q] /\ UNCHANGED <<accounts, live, issued, expired, faults>>
    BY DEF Arrive
  <1> HIDE DEF q
  <1>4. Coherent(q)
    BY <1>2, KindNames DEF Starts, Coherent
  <1>5. Becomes(r, q)
    BY <1>2, <1>3, NewEffect
  <1>6. RequestsOK'
    BY <1>2, <1>3, <1>4, <1>5, RequestsFrame DEF Becomes, Starts
  <1> QED
    BY <1>2, <1>4, <1>5, <1>6

Proper(kind, user) ==
  /\ kind \in {"register", "login"} => user \in Users
  /\ kind \notin {"register", "login"} => user = NoJti

\* The steps, with what an action of a client chooses gathered.
Asks(r, c) ==
  \E kind \in Kinds \ {"call"}, user \in Users \cup {NoJti} : Proper(kind, user) /\ Ask(r, c, kind, user)
Fetches(r) ==
  \E kind \in Kinds \ {"refresh"}, user \in Users \cup {NoJti} : Proper(kind, user) /\ Fetch(r, kind, user)

LEMMA Steps ==
  ASSUME SessionNext
  PROVE  \/ \E r \in Requests :
              \/ \E c \in Programs : Asks(r, c) \/ Hear(r, c)
              \/ Fetches(r) \/ Refused(r) \/ Settle(r) \/ Serve(r) \/ Break(r)
         \/ \E j \in Jtis : Lapse(j) \/ GoStale(j)
  <1>1. ASSUME NEW r \in Requests, NEW c \in Programs, NEW u \in Users, NEW kind \in {"register", "login"}
        PROVE  Ask(r, c, kind, u) => Asks(r, c)
    BY KindNames DEF Asks, Proper
  <1>2. ASSUME NEW r \in Requests, NEW c \in Programs, NEW kind \in {"refresh", "logout"}
        PROVE  Ask(r, c, kind, NoJti) => Asks(r, c)
    BY KindNames DEF Asks, Proper
  <1>3. ASSUME NEW r \in Requests, NEW u \in Users, NEW kind \in {"register", "login"}
        PROVE  Fetch(r, kind, u) => Fetches(r)
    BY KindNames DEF Fetches, Proper
  <1>4. ASSUME NEW r \in Requests, NEW kind \in {"call", "logout"}
        PROVE  Fetch(r, kind, NoJti) => Fetches(r)
    BY KindNames DEF Fetches, Proper
  <1> QED
    BY <1>1, <1>2, <1>3, <1>4 DEF SessionNext

\* A client's request is on its way, with the cookie of its jar or the access
\* token of the dashboard.
LEMMA AsksEffect ==
  ASSUME TypeInv, NEW r \in Requests, NEW c \in Programs, Asks(r, c)
  PROVE  /\ request[r].stage = "idle"
         /\ \E q \in Calls :
              /\ Becomes(r, q)
              /\ q.by = c /\ q.kind # "call" /\ Proper(q.kind, q.user)
              /\ q.cookie = jar[c] /\ q.bearer = NoJti /\ Starts(q) /\ Coherent(q)
              /\ busy' = IF Quiet(c) /\ (q.kind \in {"register", "login"} => jar[c] = NoJti)
                         THEN busy ELSE busy \cup {c}
         /\ RequestsOK'
         /\ UNCHANGED <<accounts, live, issued, expired, faults>>
         /\ UNCHANGED <<jar, token, holder, failed, lapsed, signups>>
  <1>1. PICK kind \in Kinds \ {"call"}, user \in Users \cup {NoJti} :
          Proper(kind, user) /\ Ask(r, c, kind, user)
    BY DEF Asks
  <1>2. jar[c] \in issued \cup {NoJti} /\ NoJti \in issued \cup {NoJti} /\ c \in Clients
    BY DEF TypeInv, ClientsOK, Clients
  <1>3. /\ Arrive(r, c, kind, user, jar[c], NoJti)
        /\ kind \in {"register", "login"} => user \in Users
        /\ kind = "call" => user = NoJti
    BY <1>1 DEF Ask, Proper
  <1>4. PICK q \in Calls :
           /\ Becomes(r, q)
           /\ q.by = c /\ q.kind = kind /\ q.user = user
           /\ q.cookie = jar[c] /\ q.bearer = NoJti /\ Starts(q) /\ Coherent(q)
           /\ RequestsOK'
    BY <1>1, <1>2, <1>3, ArriveEffect
  <1> QED
    BY <1>1, <1>4 DEF Ask, Arrive, At

LEMMA FetchesEffect ==
  ASSUME TypeInv, NEW r \in Requests, Fetches(r)
  PROVE  /\ request[r].stage = "idle"
         /\ \E q \in Calls :
              /\ Becomes(r, q)
              /\ q.by = Browser /\ q.kind # "refresh" /\ Proper(q.kind, q.user)
              /\ q.cookie = NoJti /\ q.bearer = token /\ Starts(q) /\ Coherent(q)
         /\ RequestsOK'
         /\ UNCHANGED <<accounts, live, issued, expired, faults>>
         /\ UNCHANGED clientVars
  <1>1. PICK kind \in Kinds \ {"refresh"}, user \in Users \cup {NoJti} :
          Proper(kind, user) /\ Fetch(r, kind, user)
    BY DEF Fetches
  <1>2. token \in issued \cup {NoJti} /\ NoJti \in issued \cup {NoJti} /\ Browser \in Clients
    BY DEF TypeInv, ClientsOK, Clients
  <1>3. /\ Arrive(r, Browser, kind, user, NoJti, token)
        /\ kind \in {"register", "login"} => user \in Users
        /\ kind = "call" => user = NoJti
    BY <1>1 DEF Fetch, Proper
  <1>4. PICK q \in Calls :
           /\ Becomes(r, q)
           /\ q.by = Browser /\ q.kind = kind /\ q.user = user
           /\ q.cookie = NoJti /\ q.bearer = token /\ Starts(q) /\ Coherent(q)
           /\ RequestsOK'
    BY <1>1, <1>2, <1>3, ArriveEffect
  <1> QED
    BY <1>1, <1>4 DEF Fetch, Arrive, At

LEMMA RefusedEffect ==
  ASSUME TypeInv, NEW r \in Requests, Refused(r)
  PROVE  /\ request[r].by = Browser /\ request[r].kind \in {"call", "login"}
         /\ request[r].stage = "answered" /\ request[r].answer = "refused"
         /\ \E q \in Calls :
              /\ Becomes(r, q)
              /\ q.by = Browser /\ q.kind = "refresh" /\ q.user = request[r].user
              /\ q.cookie = NoJti /\ q.bearer = request[r].bearer /\ Starts(q) /\ Coherent(q)
         /\ RequestsOK'
         /\ UNCHANGED <<accounts, live, issued, expired, faults>>
         /\ UNCHANGED clientVars
  <1> DEFINE q == NewRequest(Browser, "refresh", request[r].user, NoJti, request[r].bearer)
  <1>1. /\ request[r] \in Calls /\ request[r].bearer \in issued \cup {NoJti}
    BY DEF TypeInv, RequestsOK
  <1>2. /\ Browser \in Clients \cup {NoJti} /\ "refresh" \in Kinds /\ NoJti \in Tokens
        /\ request[r].bearer \in Tokens /\ request[r].user \in Users \cup {NoJti}
    BY <1>1, KindNames DEF Clients, Tokens, Calls
  <1> HIDE DEF q
  <1>3. /\ q \in Calls
        /\ q.by = Browser /\ q.kind = "refresh" /\ q.user = request[r].user
        /\ q.cookie = NoJti /\ q.bearer = request[r].bearer /\ Starts(q)
    BY <1>2, NewIsCall DEF q
  <1>4. /\ request' = [request EXCEPT ![r] = q]
        /\ UNCHANGED <<accounts, live, issued, expired, faults, clientVars>>
    BY DEF Refused, q
  <1>5. Becomes(r, q) /\ Coherent(q)
    BY <1>2, <1>3, <1>4, NewEffect DEF Starts, Coherent, Clients
  <1>6. RequestsOK'
    BY <1>1, <1>3, <1>4, <1>5, RequestsFrame DEF Becomes, Starts
  <1> QED
    BY <1>3, <1>4, <1>5, <1>6 DEF Refused, At

\* An answer has been taken.
LEMMA ReceiveEffect ==
  ASSUME TypeInv, NEW r \in Requests, Receive(r), SignedUp(r)
  PROVE  /\ request[r].stage = "answered"
         /\ Becomes(r, Idle)
         /\ RequestsOK' /\ StoresOK'
         /\ UNCHANGED <<accounts, live, issued, expired, faults>>
         /\ signups' \in [Users -> Nat]
  <1>1. request' = [request EXCEPT ![r] = Idle] /\ UNCHANGED <<accounts, live, issued, expired, faults>>
    BY DEF Receive
  <1>2. Becomes(r, Idle)
    BY <1>1, IdleIsCall, NewEffect
  <1>3. RequestsOK'
    BY <1>1, <1>2, IdleIsCall, IdleIsCoherent, RequestsFrame DEF Becomes
  <1>4. signups' \in [Users -> Nat]
    <2>1. signups \in [Users -> Nat]
      BY DEF TypeInv, ClientsOK
    <2>2. CASE request[r].kind = "register" /\ request[r].answer = "ok"
      <3>1. request[r].user \in Users
        BY <2>2 DEF TypeInv, RequestsOK, Coherent
      <3>2. signups' = [signups EXCEPT ![request[r].user] = signups[request[r].user] + 1]
        BY <2>2 DEF SignedUp
      <3>3. signups[request[r].user] + 1 \in Nat
        BY <2>1, <3>1
      <3> QED
        BY <2>1, <3>1, <3>2, <3>3
    <2> QED
      BY <2>1, <2>2 DEF SignedUp
  <1> QED
    BY <1>1, <1>2, <1>3, <1>4 DEF Receive, At, TypeInv, StoresOK

LEMMA TypeStep == TypeInv /\ [SessionNext]_sessionVars => TypeInv'
  <1> SUFFICES ASSUME TypeInv, [SessionNext]_sessionVars PROVE TypeInv'
    OBVIOUS
  <1>1. ASSUME NEW r \in Requests, NEW c \in Programs, Asks(r, c) PROVE TypeInv'
    BY <1>1, AsksEffect DEF TypeInv, StoresOK, ClientsOK
  <1>2. ASSUME NEW r \in Requests, NEW c \in Programs, Hear(r, c) PROVE TypeInv'
    <2>1. jar' \in [Programs -> issued \cup {NoJti}]
      BY <1>2 DEF Hear, TypeInv, ClientsOK, RequestsOK
    <2> QED
      BY <1>2, <2>1, ReceiveEffect DEF Hear, TypeInv, ClientsOK
  <1>3. ASSUME NEW r \in Requests, Fetches(r) \/ Refused(r) PROVE TypeInv'
    BY <1>3, FetchesEffect, RefusedEffect DEF TypeInv, StoresOK, ClientsOK, clientVars
  <1>4. ASSUME NEW r \in Requests, Settle(r) PROVE TypeInv'
    <2>1. token' \in issued \cup {NoJti}
      BY <1>4 DEF Settle, TypeInv, ClientsOK, RequestsOK
    <2> QED
      BY <1>4, <2>1, ReceiveEffect DEF Settle, TypeInv, ClientsOK
  <1>5. ASSUME NEW j \in Jtis, Lapse(j) \/ GoStale(j) PROVE TypeInv'
    <2>1. /\ UNCHANGED <<request, issued, accounts, faults, jar, token, holder, busy, failed, signups>>
          /\ live' \subseteq live
          /\ lapsed' \subseteq lapsed \cup live
          /\ expired' \subseteq issued
      BY <1>5 DEF Lapse, GoStale, JtiExpires, AccessExpires, clientVars, TypeInv, StoresOK
    <2>2. RequestsOK'
      BY <2>1 DEF TypeInv, RequestsOK
    <2> QED
      BY <2>1, <2>2 DEF TypeInv, StoresOK, ClientsOK
  <1>6. CASE UNCHANGED sessionVars
    BY <1>6 DEF sessionVars, authVars, clientVars, TypeInv, RequestsOK, StoresOK, ClientsOK
  <1> QED
    BY <1>1, <1>2, <1>3, <1>4, <1>5, <1>6, TypeServe, TypeBreak, Steps

\* Everything the routes and their clients keep has the type it should
\* (auth.ts, lib/api.ts).
THEOREM SessionTypeCorrect == SessionSpec => []SessionTypeOK
  BY TypeInitial, TypeStep, TypeInvImplies, PTL DEF SessionSpec

-----------------------------------------------------------------------------
(* One registration of an email succeeds. *)

\* A registration whose account is there and whose client has not heard.
Registering(r, u) ==
  /\ request[r].kind = "register" /\ request[r].user = u
  /\ request[r].stage = "store" \/ request[r].answer = "ok"

SignupInv ==
  \A u \in Users :
    /\ signups[u] \in 0..1
    /\ signups[u] = 1 => u \in accounts
    /\ \A r \in Requests : Registering(r, u) => u \in accounts /\ signups[u] = 0
    /\ \A r, s \in Requests : Registering(r, u) /\ Registering(s, u) => r = s

\* The registrations under way stay, or some end; the counts stay.
LEMMA SignupFrame ==
  ASSUME TypeInv, SignupInv, accounts' = accounts, signups' = signups,
         \A u \in Users, r \in Requests : Registering(r, u)' => Registering(r, u)
  PROVE  SignupInv'
  BY DEF SignupInv

LEMMA SignupServe ==
  ASSUME TypeInv, SignupInv, NEW r \in Requests, Serve(r)
  PROVE  SignupInv'
  <1>1. ServeStage(r) /\ signups' = signups /\ Coherent(request[r])
    BY ServeEffect DEF TypeInv, RequestsOK
  <1>2. CASE /\ request[r].stage = "create"
             /\ request[r].user \notin accounts /\ accounts' = accounts \cup {request[r].user}
             /\ Proceeds(r, "store", "none", NoJti)
    <2>0. PICK u \in Users : u = request[r].user
      BY <1>1, <1>2 DEF Coherent
    <2>1. ~Registering(r, u) /\ signups[u] = 0
      BY <1>1, <1>2, <2>0 DEF Coherent, Registering, SignupInv
    <2>2. ASSUME NEW v \in Users, v # u, NEW s \in Requests, Registering(s, v)'
          PROVE  Registering(s, v)
      BY <1>2, <2>0, <2>2 DEF Registering, Proceeds, Untouched
    <2>3. ASSUME NEW s \in Requests, Registering(s, u)' PROVE s = r
      <3>1. ~Registering(s, u)
        BY <1>2, <2>0 DEF SignupInv
      <3> QED
        BY <1>2, <2>3, <3>1 DEF Registering, Proceeds, Untouched
    <2>4. accounts' = accounts \cup {u}
      BY <1>2, <2>0
    <2>5. ASSUME NEW v \in Users, v # u
          PROVE  /\ signups'[v] \in 0..1 /\ (signups'[v] = 1 => v \in accounts')
                 /\ \A s \in Requests : Registering(s, v)' => v \in accounts' /\ signups'[v] = 0
                 /\ \A s, t \in Requests : Registering(s, v)' /\ Registering(t, v)' => s = t
      BY <1>1, <2>2, <2>4, <2>5 DEF SignupInv
    <2>6. /\ signups'[u] = 0 /\ u \in accounts'
          /\ \A s, t \in Requests : Registering(s, u)' /\ Registering(t, u)' => s = t
      BY <1>1, <2>1, <2>3, <2>4
    <2> QED
      BY <2>1, <2>5, <2>6 DEF SignupInv
  <1>3. CASE ~(request[r].stage = "create" /\ Proceeds(r, "store", "none", NoJti))
    <2>1. accounts' = accounts
      BY <1>1, <1>3 DEF ServeStage
    <2>2. ASSUME NEW u \in Users, NEW s \in Requests, Registering(s, u)' PROVE Registering(s, u)
      <3>1. CASE s # r
        BY <1>1, <2>2, <3>1 DEF ServeStage, Proceeds, Untouched, Registering
      <3>2. CASE s = r
        BY <1>1, <1>3, <2>2, <3>2 DEF ServeStage, Proceeds, Registering, Coherent
      <3> QED
        BY <3>1, <3>2
    <2> QED
      BY <1>1, <2>1, <2>2, SignupFrame
  <1>4. CASE request[r].stage = "create" /\ Proceeds(r, "store", "none", NoJti) /\ accounts' = accounts
    BY <1>1, <1>4 DEF ServeStage, Proceeds
  <1> QED
    BY <1>1, <1>2, <1>3, <1>4 DEF ServeStage, Proceeds

LEMMA SignupTake ==
  ASSUME TypeInv, SignupInv, NEW r \in Requests, Receive(r), SignedUp(r)
  PROVE  SignupInv'
  <1>1. Becomes(r, Idle) /\ accounts' = accounts
    BY ReceiveEffect
  <1>2. ASSUME NEW u \in Users, NEW s \in Requests, Registering(s, u)'
        PROVE  s # r /\ Registering(s, u)
    BY <1>1, <1>2, IdleIsCall DEF Registering, Becomes, Untouched
  <1>3. CASE request[r].kind = "register" /\ request[r].answer = "ok"
    <2>0. PICK u \in Users : u = request[r].user
      BY <1>3 DEF TypeInv, RequestsOK, Coherent
    <2>1. Registering(r, u)
      BY <1>3, <2>0 DEF Registering
    <2>2. signups[u] = 0 /\ u \in accounts
      BY <2>1 DEF SignupInv
    <2>3. signups' = [signups EXCEPT ![u] = signups[u] + 1] /\ signups \in [Users -> Nat]
      BY <1>3, <2>0 DEF SignedUp, TypeInv, ClientsOK
    <2>4. signups'[u] = 1 /\ \A v \in Users \ {u} : signups'[v] = signups[v]
      BY <2>1, <2>2, <2>3
    <2>5. ASSUME NEW s \in Requests, Registering(s, u)' PROVE FALSE
      BY <1>2, <2>1, <2>5 DEF SignupInv
    <2> QED
      BY <1>1, <1>2, <2>2, <2>4, <2>5 DEF SignupInv
  <1>4. CASE ~(request[r].kind = "register" /\ request[r].answer = "ok")
    BY <1>1, <1>2, <1>4, SignupFrame DEF SignedUp
  <1> QED
    BY <1>3, <1>4

LEMMA SignupStep == TypeInv /\ SignupInv /\ [SessionNext]_sessionVars => SignupInv'
  <1> SUFFICES ASSUME TypeInv, SignupInv, [SessionNext]_sessionVars PROVE SignupInv'
    OBVIOUS
  <1>1. ASSUME NEW r \in Requests, NEW q \in Calls, Becomes(r, q), Starts(q),
               accounts' = accounts, signups' = signups
        PROVE  SignupInv'
    <2>1. ASSUME NEW u \in Users, NEW s \in Requests, Registering(s, u)' PROVE Registering(s, u)
      BY <1>1, <2>1 DEF Becomes, Untouched, Registering, Starts
    <2> QED
      BY <1>1, <2>1, SignupFrame
  <1>2. ASSUME NEW r \in Requests, Fetches(r) \/ Refused(r) \/ \E c \in Programs : Asks(r, c)
        PROVE  SignupInv'
    BY <1>1, <1>2, AsksEffect, FetchesEffect, RefusedEffect DEF clientVars
  <1>3. ASSUME NEW r \in Requests, NEW c \in Programs, Hear(r, c) PROVE SignupInv'
    BY <1>3, SignupTake DEF Hear
  <1>4. ASSUME NEW r \in Requests, Settle(r) PROVE SignupInv'
    BY <1>4, SignupTake DEF Settle
  <1>5. ASSUME NEW r \in Requests, Break(r) PROVE SignupInv'
    <2>1. Becomes(r, Idle) \/ \E a \in {"error", "bye"} : Proceeds(r, "answered", a, NoJti)
      BY <1>5, BreakEffect
    <2>2. ASSUME NEW u \in Users, NEW s \in Requests, Registering(s, u)' PROVE Registering(s, u)
      BY <2>1, <2>2, IdleIsCall DEF Becomes, Proceeds, Untouched, Registering
    <2> QED
      BY <1>5, <2>2, BreakEffect, SignupFrame
  <1>6. ASSUME NEW j \in Jtis, Lapse(j) \/ GoStale(j) PROVE SignupInv'
    BY <1>6, SignupFrame DEF Lapse, GoStale, JtiExpires, AccessExpires, clientVars, Registering
  <1>7. CASE UNCHANGED sessionVars
    BY <1>7, SignupFrame DEF sessionVars, authVars, clientVars, Registering
  <1> QED
    BY <1>1, <1>2, <1>3, <1>4, <1>5, <1>6, <1>7, SignupServe, Steps

\* Of any number of overlapping registrations of an email one succeeds (auth.ts).
THEOREM EmailsAreUnique == SessionSpec => []OneSignupPerEmail
  <1>1. SessionInit => SignupInv
    BY IdleIsCall DEF SessionInit, AuthInit, SignupInv, Registering
  <1>2. TypeInv /\ SignupInv => OneSignupPerEmail
    BY DEF SignupInv, OneSignupPerEmail, TypeInv, ClientsOK
  <1> QED
    BY <1>1, <1>2, TypeInitial, TypeStep, SignupStep, PTL DEF SessionSpec

-----------------------------------------------------------------------------
(* The token in a jar is good. *)

\* A token belongs to one client, and one that the client has not yet heard of
\* is in one answer and nowhere else.
HoldInv ==
  /\ \A c \in Programs : jar[c] # NoJti => holder[jar[c]] = c
  /\ \A r \in Requests :
       /\ request[r].cookie # NoJti => holder[request[r].cookie] = request[r].by
       /\ request[r].token # NoJti => holder[request[r].token] = request[r].by
  /\ \A r \in Requests : request[r].token # NoJti =>
       /\ \A c \in Programs : jar[c] # request[r].token
       /\ \A s \in Requests : request[s].cookie # request[r].token
       /\ \A s \in Requests \ {r} : request[s].token # request[r].token

\* An answer that will change the jar of its client is due.
Replaces(r, c) ==
  /\ request[r].by = c
  /\ request[r].stage = "store" \/ request[r].answer \in {"ok", "bye"}

\* A token that is no longer good is about to be replaced.
GoodInv ==
  /\ \A r \in Requests :
       request[r].by \in Programs \ failed /\ request[r].token # NoJti =>
         request[r].token \in live \cup lapsed
  /\ \A c \in Programs \ failed :
       jar[c] # NoJti /\ jar[c] \notin live \cup lapsed => \E r \in Requests : Replaces(r, c)

\* New owners are of new JTIs.
HoldersStay == \A j \in issued : holder'[j] = holder[j]

LEMMA NewHolders ==
  ASSUME TypeInv, NEW r \in Requests,
         holder' = [j \in Jtis |-> IF j \in issued' \ issued THEN request[r].by ELSE holder[j]]
  PROVE  HoldersStay /\ \A j \in Jtis \cap (issued' \ issued) : holder'[j] = request[r].by
  BY DEF HoldersStay, TypeInv, StoresOK

\* A request moves on without a token, or begins again without both.
LEMMA HoldFrame ==
  ASSUME TypeInv, HoldInv, NEW r \in Requests, Untouched(r), HoldersStay, jar' = jar,
         request'[r].token = NoJti,
         \/ request'[r].cookie = NoJti
         \/ request'[r].cookie = request[r].cookie /\ request'[r].by = request[r].by
         \/ request'[r].cookie = jar[request'[r].by] /\ request'[r].by \in Programs
  PROVE  HoldInv'
  <1>1. /\ \A c \in Programs : jar[c] \in issued \cup {NoJti}
        /\ \A s \in Requests : request[s].cookie \in issued \cup {NoJti}
                                 /\ request[s].token \in issued \cup {NoJti}
    BY DEF TypeInv, ClientsOK, RequestsOK
  <1>2. /\ \A c \in Programs : jar[c] # NoJti => holder'[jar[c]] = c
        /\ \A s \in Requests :
             /\ request'[s].cookie # NoJti => holder'[request'[s].cookie] = request'[s].by
             /\ request'[s].token # NoJti => holder'[request'[s].token] = request'[s].by
    BY <1>1 DEF HoldInv, HoldersStay, Untouched
  <1>3. ASSUME NEW s \in Requests, request'[s].token # NoJti
        PROVE  /\ \A c \in Programs : jar[c] # request'[s].token
               /\ \A t \in Requests : request'[t].cookie # request'[s].token
               /\ \A t \in Requests \ {s} : request'[t].token # request'[s].token
    BY <1>3 DEF HoldInv, Untouched
  <1> QED
    BY <1>2, <1>3 DEF HoldInv

LEMMA HoldServe ==
  ASSUME TypeInv, HoldInv, NEW r \in Requests, Serve(r)
  PROVE  HoldInv'
  <1>1. ServeStage(r) /\ HoldersStay /\ jar' = jar
    BY ServeEffect, NewHolders
  <1>2. CASE \E j \in Jtis \ issued : issued' = issued \cup {j} /\ Proceeds(r, "answered", "ok", j)
    <2>1. PICK j \in Jtis \ issued : issued' = issued \cup {j} /\ Proceeds(r, "answered", "ok", j)
      BY <1>2
    <2>2. holder'[j] = request[r].by
      BY <2>1, ServeEffect, NewHolders
    <2>3. /\ \A c \in Programs : jar[c] \in issued \cup {NoJti}
          /\ \A s \in Requests : request[s].cookie \in issued \cup {NoJti}
                                   /\ request[s].token \in issued \cup {NoJti}
      BY DEF TypeInv, ClientsOK, RequestsOK
    <2>4. j # NoJti
      BY NoJtiAssumption
    <2>5. /\ \A c \in Programs : jar[c] # NoJti => holder'[jar[c]] = c
          /\ \A s \in Requests :
               /\ request'[s].cookie # NoJti => holder'[request'[s].cookie] = request'[s].by
               /\ request'[s].token # NoJti => holder'[request'[s].token] = request'[s].by
      BY <1>1, <2>1, <2>2, <2>3 DEF HoldInv, HoldersStay, Proceeds, Untouched
    <2>6. ASSUME NEW s \in Requests, request'[s].token # NoJti
          PROVE  /\ \A c \in Programs : jar[c] # request'[s].token
                 /\ \A t \in Requests : request'[t].cookie # request'[s].token
                 /\ \A t \in Requests \ {s} : request'[t].token # request'[s].token
      BY <2>1, <2>3, <2>4, <2>6 DEF HoldInv, Proceeds, Untouched
    <2> QED
      BY <1>1, <2>5, <2>6 DEF HoldInv
  <1>3. CASE ~\E j \in Jtis \ issued : issued' = issued \cup {j} /\ Proceeds(r, "answered", "ok", j)
    <2>1. Untouched(r) /\ request'[r].token = NoJti
            /\ request'[r].cookie = request[r].cookie /\ request'[r].by = request[r].by
      BY <1>1, <1>3 DEF ServeStage, Proceeds
    <2> QED
      BY <1>1, <2>1, HoldFrame
  <1> QED
    BY <1>2, <1>3

LEMMA HoldStep == TypeInv /\ HoldInv /\ [SessionNext]_sessionVars => HoldInv'
  <1> SUFFICES ASSUME TypeInv, HoldInv, [SessionNext]_sessionVars PROVE HoldInv'
    OBVIOUS
  <1>1. ASSUME NEW r \in Requests, NEW c \in Programs, Asks(r, c) PROVE HoldInv'
    <2>1. Untouched(r) /\ request'[r].token = NoJti /\ HoldersStay /\ jar' = jar
            /\ request'[r].cookie = jar[request'[r].by] /\ request'[r].by \in Programs
      BY <1>1, AsksEffect DEF Becomes, Starts, HoldersStay
    <2> QED
      BY <2>1, HoldFrame
  <1>2. ASSUME NEW r \in Requests, Fetches(r) \/ Refused(r) PROVE HoldInv'
    <2>1. Untouched(r) /\ request'[r].token = NoJti /\ HoldersStay /\ jar' = jar
            /\ request'[r].cookie = NoJti
      BY <1>2, FetchesEffect, RefusedEffect DEF Becomes, Starts, HoldersStay, clientVars
    <2> QED
      BY <2>1, HoldFrame
  <1>3. ASSUME NEW r \in Requests, NEW c \in Programs, Hear(r, c) PROVE HoldInv'
    <2>1. Becomes(r, Idle) /\ holder' = holder /\ request[r].by = c
      BY <1>3, ReceiveEffect DEF Hear
    <2>2. \A d \in Programs : jar'[d] = jar[d] \/ (d = c /\ jar'[d] \in {request[r].token, NoJti})
      BY <1>3 DEF Hear, TypeInv, ClientsOK
    <2>3. /\ \A d \in Programs : jar'[d] # NoJti => holder[jar'[d]] = d
          /\ \A s \in Requests :
               /\ request'[s].cookie # NoJti => holder[request'[s].cookie] = request'[s].by
               /\ request'[s].token # NoJti => holder[request'[s].token] = request'[s].by
      BY <2>1, <2>2, IdleIsCall DEF HoldInv, Becomes, Untouched
    <2>4. ASSUME NEW s \in Requests, request'[s].token # NoJti
          PROVE  /\ \A d \in Programs : jar'[d] # request'[s].token
                 /\ \A t \in Requests : request'[t].cookie # request'[s].token
                 /\ \A t \in Requests \ {s} : request'[t].token # request'[s].token
      <3>1. s # r /\ request'[s] = request[s]
        BY <2>1, <2>4, IdleIsCall DEF Becomes, Untouched
      <3> QED
        BY <2>1, <2>2, <2>4, <3>1, IdleIsCall DEF HoldInv, Becomes, Untouched
    <2> QED
      BY <2>1, <2>3, <2>4 DEF HoldInv
  <1>4. ASSUME NEW r \in Requests, Settle(r) PROVE HoldInv'
    <2>1. Becomes(r, Idle) /\ HoldersStay /\ jar' = jar
      BY <1>4, ReceiveEffect DEF Settle, HoldersStay
    <2> QED
      BY <2>1, HoldFrame, IdleIsCall DEF Becomes
  <1>5. ASSUME NEW r \in Requests, Break(r) PROVE HoldInv'
    <2>1. HoldersStay /\ jar' = jar
      BY <1>5, BreakEffect, NewHolders
    <2>2. /\ Untouched(r) /\ request'[r].token = NoJti
          /\ \/ request'[r].cookie = NoJti
             \/ request'[r].cookie = request[r].cookie /\ request'[r].by = request[r].by
      BY <1>5, BreakEffect, IdleIsCall DEF Becomes, Proceeds
    <2> QED
      BY <2>1, <2>2, HoldFrame
  <1>6. ASSUME NEW j \in Jtis, Lapse(j) \/ GoStale(j) PROVE HoldInv'
    BY <1>6 DEF Lapse, GoStale, JtiExpires, AccessExpires, clientVars, HoldInv
  <1>7. CASE UNCHANGED sessionVars
    BY <1>7 DEF sessionVars, authVars, clientVars, HoldInv
  <1> QED
    BY <1>1, <1>2, <1>3, <1>4, <1>5, <1>6, <1>7, HoldServe, Steps

Good == live \cup lapsed

\* Nothing becomes bad, and whatever will replace a token still will.
LEMMA GoodFrame ==
  ASSUME TypeInv, GoodInv, jar' = jar, failed \subseteq failed', Good \subseteq Good',
         \A r \in Requests :
           request'[r].by \in Programs \ failed' /\ request'[r].token # NoJti =>
             request'[r].token \in Good' \/ (request'[r].token = request[r].token
                                               /\ request'[r].by = request[r].by),
         \A r \in Requests, c \in Programs \ failed' : Replaces(r, c) => Replaces(r, c)'
  PROVE  GoodInv'
  BY DEF GoodInv, Good

LEMMA GoodServe ==
  ASSUME TypeInv, HoldInv, GoodInv, NEW r \in Requests, Serve(r)
  PROVE  GoodInv'
  <1>1. ServeStage(r) /\ jar' = jar /\ failed' = failed /\ lapsed' = lapsed /\ Coherent(request[r])
    BY ServeEffect DEF TypeInv, RequestsOK
  <1>2. ASSUME NEW s \in Requests, NEW c \in Programs, Replaces(s, c) PROVE Replaces(s, c)'
    <2>1. CASE s = r
      BY <1>1, <1>2, <2>1 DEF Replaces, ServeStage, Proceeds, Coherent
    <2>2. CASE s # r
      BY <1>1, <1>2, <2>2 DEF Replaces, ServeStage, Proceeds, Untouched
    <2> QED
      BY <2>1, <2>2
  <1>3. CASE request[r].stage \in {"revoke", "end"}
    <2>1. /\ live' = live \ {request[r].cookie}
          /\ request'[r].token = NoJti /\ request'[r].by = request[r].by /\ Untouched(r)
          /\ request'[r].stage = "store" \/ request'[r].answer = "bye"
      BY <1>1, <1>3 DEF ServeStage, Proceeds
    <2>2. ASSUME NEW s \in Requests, request'[s].by \in Programs \ failed, request'[s].token # NoJti
          PROVE  request'[s].token \in live' \cup lapsed
      BY <2>1, <2>2 DEF GoodInv, HoldInv, Untouched
    <2>3. ASSUME NEW c \in Programs \ failed, jar[c] # NoJti, jar[c] \notin live' \cup lapsed
          PROVE  \E s \in Requests : Replaces(s, c)'
      <3>1. CASE jar[c] = request[r].cookie
        <4>1. request[r].by = c
          BY <2>3, <3>1 DEF HoldInv
        <4> QED
          BY <2>1, <4>1 DEF Replaces
      <3>2. CASE jar[c] # request[r].cookie
        <4>1. \E s \in Requests : Replaces(s, c)
          BY <2>1, <2>3, <3>2 DEF GoodInv
        <4> QED
          BY <4>1, <1>2
      <3> QED
        BY <3>1, <3>2
    <2> QED
      BY <1>1, <2>2, <2>3 DEF GoodInv
  <1>4. CASE request[r].stage \notin {"revoke", "end"}
    <2>1. Good \subseteq Good'
      BY <1>1, <1>4 DEF ServeStage, Good
    <2>2. /\ Untouched(r) /\ request'[r].by = request[r].by
          /\ request'[r].token # NoJti => request'[r].token \in Good'
      BY <1>1, <1>4 DEF ServeStage, Proceeds, Good
    <2> QED
      BY <1>1, <1>2, <2>1, <2>2, GoodFrame DEF Untouched
  <1> QED
    BY <1>3, <1>4

LEMMA GoodStep == TypeInv /\ HoldInv /\ GoodInv /\ [SessionNext]_sessionVars => GoodInv'
  <1> SUFFICES ASSUME TypeInv, HoldInv, GoodInv, [SessionNext]_sessionVars PROVE GoodInv'
    OBVIOUS
  <1>1. ASSUME NEW r \in Requests, Fetches(r) \/ Refused(r) \/ \E c \in Programs : Asks(r, c)
        PROVE  GoodInv'
    <2>1. /\ Untouched(r) /\ request'[r].token = NoJti
          /\ UNCHANGED <<jar, failed, live, lapsed>>
      BY <1>1, AsksEffect, FetchesEffect, RefusedEffect DEF Becomes, Starts, clientVars
    <2>2. \A c \in Programs : ~Replaces(r, c)
      <3>1. /\ \/ request[r].stage = "idle"
               \/ request[r].stage = "answered" /\ request[r].answer = "refused"
            /\ Coherent(request[r])
        BY <1>1, AsksEffect, FetchesEffect, RefusedEffect DEF TypeInv, RequestsOK
      <3> QED
        BY <3>1 DEF Replaces, Coherent
    <2>3. \A s \in Requests, c \in Programs : Replaces(s, c) => Replaces(s, c)'
      BY <2>1, <2>2 DEF Replaces, Untouched
    <2> QED
      BY <2>1, <2>3, GoodFrame DEF Untouched, Good
  <1>2. ASSUME NEW r \in Requests, NEW c \in Programs, Hear(r, c) PROVE GoodInv'
    <2>1. /\ Becomes(r, Idle) /\ request[r].by = c /\ request[r].stage = "answered"
          /\ UNCHANGED <<live, lapsed, failed>> /\ jar \in [Programs -> issued \cup {NoJti}]
      BY <1>2, ReceiveEffect DEF Hear, TypeInv, ClientsOK
    <2>2. ASSUME NEW s \in Requests, request'[s].by \in Programs \ failed, request'[s].token # NoJti
          PROVE  request'[s].token \in live \cup lapsed
      BY <2>1, <2>2, IdleIsCall DEF GoodInv, Becomes, Untouched
    <2>3. ASSUME NEW d \in Programs \ failed, jar'[d] # NoJti, jar'[d] \notin live \cup lapsed
          PROVE  \E s \in Requests : Replaces(s, d)'
      <3>1. CASE d = c /\ request[r].answer \in {"ok", "bye"}
        <4>1. jar'[d] \in {request[r].token, NoJti}
          BY <1>2, <2>1, <3>1 DEF Hear
        <4> QED
          BY <2>1, <2>3, <3>1, <4>1 DEF GoodInv
      <3>2. CASE ~(d = c /\ request[r].answer \in {"ok", "bye"})
        <4>1. jar'[d] = jar[d]
          BY <1>2, <2>1, <3>2 DEF Hear
        <4>2. PICK s \in Requests : Replaces(s, d)
          BY <2>3, <4>1 DEF GoodInv
        <4>3. s # r
          BY <2>1, <3>2, <4>2 DEF Replaces
        <4> QED
          BY <2>1, <4>2, <4>3 DEF Replaces, Becomes, Untouched
      <3> QED
        BY <3>1, <3>2
    <2> QED
      BY <2>1, <2>2, <2>3 DEF GoodInv
  <1>3. ASSUME NEW r \in Requests, Settle(r) PROVE GoodInv'
    <2>1. /\ Becomes(r, Idle) /\ request[r].by = Browser
          /\ UNCHANGED <<jar, failed, live, lapsed>>
      BY <1>3, ReceiveEffect DEF Settle
    <2>2. \A s \in Requests, c \in Programs : Replaces(s, c) => Replaces(s, c)'
      BY <2>1, BrowserAssumption DEF Replaces, Becomes, Untouched
    <2> QED
      BY <2>1, <2>2, GoodFrame, IdleIsCall DEF Becomes, Untouched, Good
  <1>4. ASSUME NEW r \in Requests, Break(r) PROVE GoodInv'
    <2>1. /\ Untouched(r) /\ jar' = jar /\ lapsed' = lapsed /\ request'[r].token = NoJti
          /\ failed' = IF request[r].by \in Programs THEN failed \cup {request[r].by} ELSE failed
      BY <1>4, BreakEffect, IdleIsCall DEF Becomes, Proceeds
    <2>2. \A s \in Requests, c \in Programs \ failed' : Replaces(s, c) => Replaces(s, c)'
      BY <2>1 DEF Replaces, Untouched
    <2>3. live \subseteq live' \cup {request[r].cookie}
      BY <1>4 DEF Break, RedisFails, LoseRequest
    <2>4. ASSUME NEW s \in Requests, request'[s].by \in Programs \ failed', request'[s].token # NoJti
          PROVE  request'[s].token \in live' \cup lapsed
      BY <2>1, <2>3, <2>4 DEF GoodInv, HoldInv, Untouched
    <2>5. ASSUME NEW c \in Programs \ failed', jar[c] # NoJti, jar[c] \notin live' \cup lapsed
          PROVE  \E s \in Requests : Replaces(s, c)'
      <3>1. jar[c] # request[r].cookie
        BY <2>1, <2>5 DEF HoldInv
      <3>2. \E s \in Requests : Replaces(s, c)
        BY <2>1, <2>3, <2>5, <3>1 DEF GoodInv
      <3> QED
        BY <2>2, <2>5, <3>2
    <2> QED
      BY <2>1, <2>4, <2>5 DEF GoodInv
  <1>5. ASSUME NEW j \in Jtis, Lapse(j) \/ GoStale(j) PROVE GoodInv'
    <2>1. UNCHANGED <<request, jar, failed>> /\ Good \subseteq Good'
      BY <1>5 DEF Lapse, GoStale, JtiExpires, AccessExpires, clientVars, Good
    <2> QED
      BY <2>1, GoodFrame DEF Replaces
  <1>6. CASE UNCHANGED sessionVars
    BY <1>6 DEF sessionVars, authVars, clientVars, GoodInv, Replaces
  <1> QED
    BY <1>1, <1>2, <1>3, <1>4, <1>5, <1>6, GoodServe, Steps

\* A jar at rest holds a token that can be exchanged (auth.ts).
THEOREM JarsAreGood == SessionSpec => []JarIsGood
  <1>1. SessionInit => HoldInv /\ GoodInv
    BY IdleIsCall DEF SessionInit, AuthInit, HoldInv, GoodInv
  <1>2. TypeInv /\ GoodInv => JarIsGood
    BY DEF TypeInv, RequestsOK, Coherent, GoodInv, Replaces, JarIsGood, Quiet, At
  <1> QED
    BY <1>1, <1>2, TypeInitial, TypeStep, HoldStep, GoodStep, PTL DEF SessionSpec

-----------------------------------------------------------------------------
(* No token is left behind. *)

Under(r, c) == request[r].by = c /\ request[r].stage # "idle"

\* A program that makes one request at a time: the token it sent is the one in
\* its jar, and it is revoked before there is another.
Orderly(c) ==
  /\ \A r, s \in Requests : Under(r, c) /\ Under(s, c) => r = s
  /\ \A r \in Requests : Under(r, c) =>
       /\ request[r].kind # "call"
       /\ request[r].cookie = jar[c]
       /\ request[r].kind \in {"register", "login"} => jar[c] = NoJti
       /\ request[r].stage = "store" \/ request[r].answer \in {"ok", "bye"} => jar[c] \notin live
  /\ \A j \in live : holder[j] = c =>
       j = jar[c] \/ \E r \in Requests : request[r].by = c /\ request[r].token = j

StrayInv == \A c \in Programs \ (busy \cup failed) : Orderly(c)

\* JTIs are new when they are stored.
LiveIsOld == live' \subseteq live \cup (issued' \ issued)

\* A step of another client.
LEMMA OrderlyOther ==
  ASSUME TypeInv, NEW c \in Programs, Orderly(c), NEW r \in Requests, Untouched(r),
         ~Under(r, c), ~Under(r, c)', jar'[c] = jar[c], HoldersStay, LiveIsOld, issued' \subseteq Jtis,
         \A j \in issued' \ issued : j \in live' => holder'[j] # c
  PROVE  Orderly(c)'
  <1>1. \A s \in Requests : Under(s, c)' => s # r /\ Under(s, c) /\ request'[s] = request[s]
    BY DEF Under, Untouched
  <1>2. \A j \in live' : holder'[j] = c => j \in live /\ holder[j] = c
    BY DEF LiveIsOld, HoldersStay, TypeInv, StoresOK
  <1>3. jar[c] \notin live => jar[c] \notin live'
    BY NoJtiAssumption DEF LiveIsOld, TypeInv, StoresOK, ClientsOK
  <1>4. ASSUME NEW j \in live', holder'[j] = c
        PROVE  j = jar'[c] \/ \E s \in Requests : request'[s].by = c /\ request'[s].token = j
    <2>1. CASE j = jar[c]
      BY <2>1
    <2>2. CASE j # jar[c]
      <3>1. PICK s \in Requests : request[s].by = c /\ request[s].token = j
        BY <1>2, <1>4, <2>2 DEF Orderly
      <3>2. j # NoJti
        BY <1>2, <1>4, NoJtiAssumption DEF TypeInv, StoresOK
      <3>3. Under(s, c)
        BY <3>1, <3>2 DEF Under, TypeInv, RequestsOK, Coherent
      <3> QED
        BY <3>1, <3>3 DEF Untouched
    <2> QED
      BY <2>1, <2>2
  <1> QED
    BY <1>1, <1>3, <1>4 DEF Orderly

LEMMA OrderlyServe ==
  ASSUME TypeInv, NEW c \in Programs, Orderly(c), NEW r \in Requests, Serve(r), request[r].by = c
  PROVE  Orderly(c)'
  <1>1. /\ ServeStage(r) /\ jar' = jar /\ Coherent(request[r]) /\ Under(r, c)
        /\ HoldersStay /\ \A j \in Jtis \cap (issued' \ issued) : holder'[j] = c
    BY ServeEffect, NewHolders DEF TypeInv, RequestsOK, Under
  <1>2. /\ request[r].kind # "call" /\ request[r].cookie = jar[c]
        /\ request[r].kind \in {"register", "login"} => jar[c] = NoJti
        /\ request[r].stage = "store" => jar[c] \notin live
    BY <1>1 DEF Orderly
  <1>3. \A s \in Requests : Under(s, c)' => s = r
    BY <1>1 DEF Orderly, Under, ServeStage, Proceeds, Untouched
  <1>4. request'[r].kind = request[r].kind /\ request'[r].cookie = jar[c]
          /\ request'[r].by = c /\ Untouched(r)
    BY <1>1, <1>2 DEF ServeStage, Proceeds
  <1>5. jar[c] \in issued \cup {NoJti} /\ NoJti \notin Jtis /\ live \subseteq issued /\ issued \subseteq Jtis
    BY NoJtiAssumption DEF TypeInv, StoresOK, ClientsOK
  <1>6. request'[r].stage = "store" \/ request'[r].answer \in {"ok", "bye"} => jar[c] \notin live'
    BY <1>1, <1>2, <1>5 DEF ServeStage, Proceeds, Coherent
  <1>7. ASSUME NEW j \in live', holder'[j] = c
        PROVE  j = jar[c] \/ \E s \in Requests : request'[s].by = c /\ request'[s].token = j
    <2>1. CASE j \in live
      <3>1. holder[j] = c
        BY <1>1, <1>5, <1>7, <2>1 DEF HoldersStay
      <3>2. CASE \E s \in Requests : request[s].by = c /\ request[s].token = j
        <4>1. PICK s \in Requests : request[s].by = c /\ request[s].token = j
          BY <3>2
        <4>2. request[s].stage = "answered"
          BY <1>5, <2>1, <4>1 DEF TypeInv, RequestsOK, Coherent
        <4>3. s # r
          BY <1>1, <4>2 DEF ServeStage
        <4> QED
          BY <1>4, <4>1, <4>3 DEF Untouched
      <3> QED
        BY <2>1, <3>1, <3>2 DEF Orderly
    <2>2. CASE j \notin live
      <3>1. request'[r].token = j
        BY <1>1, <2>2 DEF ServeStage, Proceeds
      <3> QED
        BY <1>4, <3>1
    <2> QED
      BY <2>1, <2>2
  <1> QED
    BY <1>1, <1>2, <1>3, <1>4, <1>6, <1>7 DEF Orderly

LEMMA OrderlyHear ==
  ASSUME TypeInv, NEW c \in Programs, Orderly(c), NEW r \in Requests, Hear(r, c)
  PROVE  Orderly(c)'
  <1>1. /\ Becomes(r, Idle) /\ request[r].by = c /\ Under(r, c) /\ request[r].stage = "answered"
        /\ UNCHANGED <<live, issued, holder>> /\ jar \in [Programs -> issued \cup {NoJti}]
    BY ReceiveEffect DEF Hear, Under, TypeInv, ClientsOK
  <1>2. \A s \in Requests : ~Under(s, c)'
    BY <1>1, IdleIsCall DEF Orderly, Under, Becomes, Untouched
  <1>3. ASSUME NEW j \in live, holder[j] = c
        PROVE  j = jar'[c]
    <2>1. j # NoJti
      BY NoJtiAssumption DEF TypeInv, StoresOK
    <2>2. j = jar[c] \/ j = request[r].token
      <3>1. ASSUME NEW s \in Requests, request[s].by = c, request[s].token = j PROVE s = r
        BY <1>1, <2>1, <3>1 DEF Orderly, Under, TypeInv, RequestsOK, Coherent
      <3> QED
        BY <1>3, <3>1 DEF Orderly
    <2>3. CASE request[r].answer \in {"ok", "bye"}
      <3>1. jar[c] \notin live
        BY <1>1, <2>3 DEF Orderly
      <3>2. j = request[r].token
        BY <2>2, <3>1
      <3>3. request[r].answer = "ok"
        BY <2>1, <3>2 DEF TypeInv, RequestsOK, Coherent
      <3> QED
        BY <1>1, <3>2, <3>3 DEF Hear
    <2>4. CASE request[r].answer \notin {"ok", "bye"}
      <3>1. request[r].token = NoJti
        BY <2>4 DEF TypeInv, RequestsOK, Coherent
      <3> QED
        BY <2>1, <2>2, <2>4, <3>1 DEF Hear
    <2> QED
      BY <2>3, <2>4
  <1> QED
    BY <1>1, <1>2, <1>3 DEF Orderly

LEMMA OrderlyAsk ==
  ASSUME TypeInv, NEW c \in Programs, Orderly(c), NEW r \in Requests, Asks(r, c), c \notin busy'
  PROVE  Orderly(c)'
  <1>1. PICK q \in Calls :
          /\ Becomes(r, q)
          /\ q.by = c /\ q.kind # "call" /\ Proper(q.kind, q.user)
          /\ q.cookie = jar[c] /\ q.bearer = NoJti /\ Starts(q) /\ Coherent(q)
          /\ busy' = IF Quiet(c) /\ (q.kind \in {"register", "login"} => jar[c] = NoJti)
                     THEN busy ELSE busy \cup {c}
    BY AsksEffect
  <1>2. UNCHANGED <<live, holder, jar>> /\ request[r].stage = "idle"
    BY AsksEffect
  <1>3. Quiet(c) /\ (q.kind \in {"register", "login"} => jar[c] = NoJti)
    BY <1>1
  <1>4. \A s \in Requests : Under(s, c)' => s = r
    BY <1>1, <1>3 DEF Quiet, At, Under, Becomes, Untouched
  <1>5. /\ request'[r].kind # "call" /\ request'[r].cookie = jar[c]
        /\ request'[r].kind \in {"register", "login"} => jar[c] = NoJti
        /\ request'[r].stage # "store" /\ request'[r].answer \notin {"ok", "bye"}
    BY <1>1, <1>3 DEF Becomes, Starts
  <1>6. ASSUME NEW j \in live, holder[j] = c
        PROVE  j = jar[c] \/ \E s \in Requests : request'[s].by = c /\ request'[s].token = j
    <2>1. request[r].token = NoJti /\ j # NoJti
      BY <1>2, NoJtiAssumption DEF TypeInv, RequestsOK, StoresOK, Coherent
    <2> QED
      BY <1>1, <1>6, <2>1 DEF Orderly, Becomes, Untouched
  <1> QED
    BY <1>2, <1>4, <1>5, <1>6 DEF Orderly

LEMMA StrayStep == TypeInv /\ StrayInv /\ [SessionNext]_sessionVars => StrayInv'
  <1> SUFFICES ASSUME TypeInv, StrayInv, [SessionNext]_sessionVars,
                      NEW c \in Programs, c \notin busy' \cup failed'
               PROVE  Orderly(c)'
    BY DEF StrayInv
  <1>0. c # Browser /\ (c \notin busy \cup failed => Orderly(c))
    BY BrowserAssumption DEF StrayInv
  <1>1. ASSUME NEW r \in Requests, NEW d \in Programs, Asks(r, d) PROVE Orderly(c)'
    <2>1. c \notin busy \cup failed
      BY <1>1, AsksEffect
    <2>2. CASE d = c
      BY <1>0, <1>1, <2>1, <2>2, OrderlyAsk
    <2>3. CASE d # c
      <3>1. /\ Untouched(r) /\ ~Under(r, c) /\ ~Under(r, c)' /\ jar'[c] = jar[c]
            /\ HoldersStay /\ LiveIsOld /\ issued' = issued
        BY <1>1, <2>3, AsksEffect DEF Becomes, Under, HoldersStay, LiveIsOld
      <3> QED
        BY <1>0, <2>1, <3>1, OrderlyOther DEF TypeInv, StoresOK
    <2> QED
      BY <2>2, <2>3
  <1>2. ASSUME NEW r \in Requests, NEW d \in Programs, Hear(r, d) PROVE Orderly(c)'
    <2>1. c \notin busy \cup failed
      BY <1>2 DEF Hear
    <2>2. CASE d = c
      BY <1>0, <1>2, <2>1, <2>2, OrderlyHear
    <2>3. CASE d # c
      <3>1. /\ Untouched(r) /\ ~Under(r, c) /\ ~Under(r, c)'
            /\ HoldersStay /\ LiveIsOld /\ issued' = issued
        BY <1>2, <2>3, ReceiveEffect, IdleIsCall DEF Hear, Becomes, Under, HoldersStay, LiveIsOld
      <3>2. jar'[c] = jar[c]
        BY <1>2, <2>3 DEF Hear, TypeInv, ClientsOK
      <3> QED
        BY <1>0, <2>1, <3>1, <3>2, OrderlyOther DEF TypeInv, StoresOK
    <2> QED
      BY <2>2, <2>3
  <1>3. ASSUME NEW r \in Requests, Fetches(r) \/ Refused(r) \/ Settle(r) PROVE Orderly(c)'
    <2>1. c \notin busy \cup failed
      BY <1>3, FetchesEffect, RefusedEffect DEF clientVars, Settle
    <2>2. /\ Untouched(r) /\ ~Under(r, c) /\ ~Under(r, c)' /\ jar'[c] = jar[c]
          /\ HoldersStay /\ LiveIsOld /\ issued' = issued
      <3>1. CASE Settle(r)
        BY <1>0, <3>1, ReceiveEffect, IdleIsCall
        DEF Settle, Becomes, Under, HoldersStay, LiveIsOld
      <3>2. CASE Fetches(r) \/ Refused(r)
        BY <1>0, <3>2, FetchesEffect, RefusedEffect
        DEF Becomes, Under, HoldersStay, LiveIsOld, clientVars
      <3> QED
        BY <1>3, <3>1, <3>2
    <2> QED
      BY <1>0, <2>1, <2>2, OrderlyOther DEF TypeInv, StoresOK
  <1>4. ASSUME NEW r \in Requests, Serve(r) PROVE Orderly(c)'
    <2>1. c \notin busy \cup failed
      BY <1>4, ServeEffect
    <2>2. CASE request[r].by = c
      BY <1>0, <1>4, <2>1, <2>2, OrderlyServe
    <2>3. CASE request[r].by # c
      <3>1. /\ Untouched(r) /\ ~Under(r, c) /\ ~Under(r, c)' /\ LiveIsOld
        BY <1>4, <2>3, ServeEffect DEF ServeStage, Proceeds, Under, LiveIsOld
      <3>2. /\ HoldersStay /\ jar'[c] = jar[c]
            /\ \A j \in Jtis \cap (issued' \ issued) : holder'[j] # c
        BY <1>4, <2>3, ServeEffect, NewHolders
      <3>3. issued' \subseteq Jtis
        BY <1>4, TypeServe DEF TypeInv, StoresOK
      <3> QED
        BY <1>0, <2>1, <3>1, <3>2, <3>3, OrderlyOther
    <2> QED
      BY <2>2, <2>3
  <1>5. ASSUME NEW r \in Requests, Break(r) PROVE Orderly(c)'
    <2>1. c \notin busy \cup failed /\ request[r].by # c
      BY <1>5, BreakEffect
    <2>2. Untouched(r) /\ ~Under(r, c) /\ ~Under(r, c)'
      BY <1>5, <2>1, BreakEffect, IdleIsCall DEF Becomes, Proceeds, Under
    <2>3. LiveIsOld
      BY <1>5, BreakEffect DEF LiveIsOld
    <2>4. /\ HoldersStay /\ jar'[c] = jar[c]
          /\ \A j \in Jtis \cap (issued' \ issued) : holder'[j] # c
      BY <1>5, <2>1, BreakEffect, NewHolders
    <2>5. issued' \subseteq Jtis
      BY <1>5, TypeBreak DEF TypeInv, StoresOK
    <2> QED
      BY <1>0, <2>1, <2>2, <2>3, <2>4, <2>5, OrderlyOther
  <1>6. ASSUME NEW j \in Jtis, Lapse(j) \/ GoStale(j) PROVE Orderly(c)'
    <2>1. UNCHANGED <<request, jar, holder, busy, failed>> /\ live' \subseteq live
      BY <1>6 DEF Lapse, GoStale, JtiExpires, AccessExpires, clientVars
    <2> QED
      BY <1>0, <2>1 DEF Orderly, Under
  <1>7. CASE UNCHANGED sessionVars
    BY <1>0, <1>7 DEF sessionVars, authVars, clientVars, Orderly, Under
  <1> QED
    BY <1>1, <1>2, <1>3, <1>4, <1>5, <1>6, <1>7, Steps

\* An orderly client leaves no refresh token behind (auth.ts).
THEOREM TokensAreRetired == SessionSpec => []NoStrayToken
  <1>1. SessionInit => StrayInv
    BY IdleIsCall DEF SessionInit, AuthInit, StrayInv, Orderly, Under
  <1>2. StrayInv => NoStrayToken
    BY DEF StrayInv, Orderly, NoStrayToken, Handed
  <1> QED
    BY <1>1, <1>2, TypeInitial, TypeStep, StrayStep, PTL DEF SessionSpec

-----------------------------------------------------------------------------
(* Who signs the dashboard out. *)

\* A call is refused for an access token that is missing or expired, and it is
\* that token that the refresh after it carries.
CauseInv ==
  \A r \in Requests :
    /\ request[r].kind = "refresh" /\ request[r].user = NoJti =>
         request[r].bearer \in expired \cup {NoJti}
    /\ request[r].kind = "call" /\ request[r].answer = "refused" =>
         request[r].bearer \in expired \cup {NoJti}

LEMMA CauseStep == TypeInv /\ CauseInv /\ [SessionNext]_sessionVars => CauseInv'
  <1> SUFFICES ASSUME TypeInv, CauseInv, [SessionNext]_sessionVars PROVE CauseInv'
    OBVIOUS
  <1>1. ASSUME NEW r \in Requests, NEW c \in Programs, Asks(r, c) PROVE CauseInv'
    <2>1. Untouched(r) /\ request'[r].bearer = NoJti /\ expired' = expired
      BY <1>1, AsksEffect DEF Becomes
    <2> QED
      BY <2>1 DEF CauseInv, Untouched
  <1>2. ASSUME NEW r \in Requests, Fetches(r) PROVE CauseInv'
    <2>1. Untouched(r) /\ request'[r].kind # "refresh" /\ request'[r].answer = "none" /\ expired' = expired
      BY <1>2, FetchesEffect DEF Becomes, Starts
    <2> QED
      BY <2>1 DEF CauseInv, Untouched
  <1>3. ASSUME NEW r \in Requests, Refused(r) PROVE CauseInv'
    <2>1. /\ Untouched(r) /\ expired' = expired
          /\ request'[r].kind = "refresh" /\ request'[r].user = request[r].user
          /\ request'[r].bearer = request[r].bearer
          /\ request[r].kind \in {"call", "login"} /\ request[r].answer = "refused"
      BY <1>3, RefusedEffect DEF Becomes
    <2>2. request[r].kind = "login" => request[r].user # NoJti
      BY NoJtiAssumption DEF TypeInv, RequestsOK, Coherent
    <2> QED
      BY <2>1, <2>2 DEF CauseInv, Untouched
  <1>4. ASSUME NEW r \in Requests, Receive(r), SignedUp(r) PROVE CauseInv'
    <2>1. Becomes(r, Idle) /\ expired' = expired
      BY <1>4, ReceiveEffect
    <2> QED
      BY <2>1, IdleIsCall DEF CauseInv, Becomes, Untouched
  <1>5. ASSUME NEW r \in Requests, Serve(r) PROVE CauseInv'
    <2>1. ServeStage(r) /\ expired' = expired
      BY <1>5, ServeEffect
    <2>2. request[r].bearer \in issued \cup {NoJti} /\ Coherent(request[r])
      BY DEF TypeInv, RequestsOK
    <2>3. request'[r].kind = "call" /\ request'[r].answer = "refused" =>
            request'[r].bearer \in expired \cup {NoJti}
      BY <2>1, <2>2 DEF ServeStage, Proceeds, Coherent
    <2>4. /\ Untouched(r) /\ request'[r].kind = request[r].kind
          /\ request'[r].user = request[r].user /\ request'[r].bearer = request[r].bearer
      BY <2>1 DEF ServeStage, Proceeds
    <2> QED
      BY <2>1, <2>3, <2>4 DEF CauseInv, Untouched
  <1>6. ASSUME NEW r \in Requests, Break(r) PROVE CauseInv'
    <2>1. /\ expired' = expired
          /\ Becomes(r, Idle) \/ \E a \in {"error", "bye"} : Proceeds(r, "answered", a, NoJti)
      BY <1>6, BreakEffect
    <2> QED
      BY <2>1, IdleIsCall DEF CauseInv, Becomes, Proceeds, Untouched
  <1>7. ASSUME NEW j \in Jtis, Lapse(j) \/ GoStale(j) PROVE CauseInv'
    BY <1>7 DEF Lapse, GoStale, JtiExpires, AccessExpires, clientVars, CauseInv
  <1>8. CASE UNCHANGED sessionVars
    BY <1>8 DEF sessionVars, authVars, clientVars, CauseInv
  <1> QED
    BY <1>1, <1>2, <1>3, <1>4, <1>5, <1>6, <1>7, <1>8, Steps DEF Hear, Settle

\* A dashboard with a good access token is signed out for one of the causes
\* named, and by nothing else (lib/api.ts).
THEOREM SignOutsHaveCauses == SessionSpec => SignedOutForCause
  <1> DEFINE Caused ==
        \E r \in Requests :
          /\ request[r].by = Browser
          /\ \/ request[r].kind = "logout"
             \/ request[r].kind = "refresh" /\ (request[r].user # NoJti \/ request[r].bearer # token)
  <1>1. SessionInit => CauseInv
    BY IdleIsCall DEF SessionInit, AuthInit, CauseInv
  <1>2. ASSUME TypeInv, CauseInv, [SessionNext]_sessionVars, token \in issued \ expired, token' = NoJti
        PROVE  Caused
    <2>1. token # NoJti /\ token' # token
      BY <1>2, NoJtiAssumption DEF TypeInv, StoresOK
    <2>2. ASSUME NEW r \in Requests, Settle(r) PROVE Caused
      <3>1. request[r].kind = "logout" \/ request[r].answer = "refused"
        BY <1>2, <2>1, <2>2 DEF Settle
      <3>2. /\ request[r].by = Browser
            /\ ~(request[r].kind \in {"call", "login"} /\ request[r].answer = "refused")
        BY <2>2 DEF Settle
      <3>3. request[r].kind \in {"logout", "refresh"}
        <4>1. Coherent(request[r])
          BY <1>2 DEF TypeInv, RequestsOK
        <4> QED
          BY <3>1, <3>2, <4>1 DEF Coherent
      <3> QED
        BY <1>2, <2>1, <3>2, <3>3 DEF CauseInv
    <2>3. ASSUME NEW r \in Requests, Break(r) PROVE Caused
      BY <1>2, <2>1, <2>3, BreakEffect
    <2>4. ASSUME NEW r \in Requests, Serve(r) \/ Fetches(r) \/ Refused(r) PROVE FALSE
      BY <1>2, <2>1, <2>4, ServeEffect, FetchesEffect, RefusedEffect DEF clientVars
    <2>5. ASSUME NEW r \in Requests, NEW c \in Programs, Asks(r, c) \/ Hear(r, c) PROVE FALSE
      BY <1>2, <2>1, <2>5, AsksEffect DEF Hear
    <2>6. ASSUME NEW j \in Jtis, Lapse(j) \/ GoStale(j) PROVE FALSE
      BY <2>1, <2>6 DEF Lapse, GoStale, clientVars
    <2>7. ~UNCHANGED sessionVars
      BY <2>1 DEF sessionVars, clientVars
    <2> QED
      BY <1>2, <2>2, <2>3, <2>4, <2>5, <2>6, <2>7, Steps
  <1>3. TypeInv /\ CauseInv /\ [SessionNext]_sessionVars =>
          [(token \in issued \ expired /\ token' = NoJti) => Caused]_sessionVars
    BY <1>2
  <1> QED
    BY <1>1, <1>3, TypeInitial, TypeStep, CauseStep, PTL DEF SessionSpec, SignedOutForCause
=============================================================================

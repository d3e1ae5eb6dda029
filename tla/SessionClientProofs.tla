------------------------- MODULE SessionClientProofs -------------------------
(* Theorems about SessionClient for every number of requests, users, sessions *)
(* and tokens: it does nothing AuthService does not do, a browser that sends  *)
(* one request at a time has sound sessions whatever fails, and one without   *)
(* faults besides has nothing on the server but the token in its jar.         *)
EXTENDS SessionClient, AuthServiceProofs

USE ClientAssumption

-----------------------------------------------------------------------------
(* The composition does what the service alone can do. *)

\* Every step of a request in SessionClient is one of the service's own.
LEMMA ServerServes ==
  ASSUME NEW p \in Proc, ServerStep(p)
  PROVE  Serve(p) /\ pc[p] # "idle"
<1>1. \/ RevokeChain(p) \/ RevokeOld(p) \/ Create(p) \/ Sign(p)
      \/ LogoutRevoke(p) \/ RevokeAll(p) \/ Abandon(p)
  BY DEF ServerStep, AnswerReuse, Proceed, AnswerTokens, AnswerLogout, AnswerLogoutAll, AnswerFailure
<1>2. QED
  BY <1>1 DEF Serve, RevokeChain, RevokeOld, Create, Sign, LogoutRevoke, RevokeAll, Abandon

\* What a request the browser sends is to the service: its first step, or
\* nothing when it is refused.
LEMMA SendServes ==
  ASSUME ClientTypeOK, NEW p \in Proc,
         SignIn(p) \/ Rotate(p) \/ SignOut(p) \/ SignOutAll(p)
  PROVE  Send(p) /\ (Serve(p) \/ UNCHANGED vars)
<1>1. CASE SignIn(p)
  BY <1>1 DEF SignIn, Serve
<1>2. CASE Rotate(p)
  BY <1>2 DEF Rotate, Serve, ClientTypeOK
<1>3. CASE SignOut(p)
  BY <1>3 DEF SignOut, Serve, ClientTypeOK
<1>4. CASE SignOutAll(p)
  BY <1>4 DEF SignOutAll, Serve, ClientTypeOK
<1>5. QED
  BY <1>1, <1>2, <1>3, <1>4

\* So every step is one of the service's or leaves it alone.
LEMMA ClientStepsAreSteps == ClientTypeOK /\ [ClientNext]_clientVars => [Next]_vars
<1> SUFFICES ASSUME ClientTypeOK, [ClientNext]_clientVars PROVE [Next]_vars
  OBVIOUS
<1>1. ASSUME NEW p \in Proc, SignIn(p) \/ Rotate(p) \/ SignOut(p) \/ SignOutAll(p)
      PROVE  [Next]_vars
  BY <1>1, SendServes DEF Next
<1>2. ASSUME NEW p \in Proc, ServerStep(p) PROVE [Next]_vars
  BY <1>2, ServerServes DEF Next
<1>3. ASSUME NEW p \in Proc, Deliver(p) \/ GiveUp(p) PROVE [Next]_vars
  BY <1>3 DEF Deliver, GiveUp
<1>4. CASE Reload
  BY <1>4 DEF Reload
<1>5. CASE World
  BY <1>5 DEF World, Next
<1>6. CASE UNCHANGED clientVars
  BY <1>6 DEF clientVars
<1>7. QED
  BY <1>1, <1>2, <1>3, <1>4, <1>5, <1>6 DEF ClientNext

-----------------------------------------------------------------------------
(* Types *)

\* Answers that carry tokens carry tokens some client has been given.
AnswersGiven ==
  \A p \in Proc : answer[p] # None /\ answer[p].code = "tokens" =>
    answer[p].tok \in held /\ answer[p].acc \in access

ClientTypes == Inv /\ ClientTypeOK /\ AnswersGiven

\* A browser that has never visited has nothing.
LEMMA ClientTypesInit == ClientInit => ClientTypes
<1> SUFFICES ASSUME ClientInit PROVE ClientTypes
  OBVIOUS
<1>1. Inv
  BY InvInit DEF ClientInit
<1>2. QED
  BY <1>1 DEF ClientInit, ClientTypes, ClientTypeOK, AnswersGiven, Inv

\* The tokens handed to clients, and the access tokens, are never taken back
\* while the browser looks on.
LEMMA GivenStays ==
  ASSUME ClientTypes, [ClientNext]_clientVars
  PROVE  held \subseteq held' /\ access \subseteq access'
<1>1. ASSUME NEW p \in Proc, Serve(p) \/ UNCHANGED vars
      PROVE  held \subseteq held' /\ access \subseteq access'
  BY <1>1 DEF Serve, vars, clients, Login, Refresh, RevokeChain, RevokeOld, Create, Sign,
              Logout, LogoutRevoke, LogoutAll, RevokeAll, Abandon
<1>2. ASSUME NEW p \in Proc, SignIn(p) \/ Rotate(p) \/ SignOut(p) \/ SignOutAll(p)
      PROVE  held \subseteq held' /\ access \subseteq access'
  BY <1>1, <1>2, SendServes DEF ClientTypes
<1>3. ASSUME NEW p \in Proc, ServerStep(p)
      PROVE  held \subseteq held' /\ access \subseteq access'
  BY <1>1, <1>3, ServerServes
<1>4. ASSUME NEW p \in Proc, Deliver(p) \/ GiveUp(p)
      PROVE  held \subseteq held' /\ access \subseteq access'
  BY <1>4 DEF Deliver, GiveUp, vars, clients
<1>5. CASE Reload
  BY <1>5 DEF Reload, vars, clients
<1>6. CASE World
  BY <1>6 DEF World, TokenExpires, DeleteUser, clients
<1>7. CASE UNCHANGED clientVars
  BY <1>7 DEF clientVars, vars, clients
<1>8. QED
  BY <1>2, <1>3, <1>4, <1>5, <1>6, <1>7 DEF ClientNext

\* A statement of one request leaves the others where they are.
LEMMA OthersStay ==
  ASSUME TypeOK, NEW p \in Proc, Serve(p) \/ UNCHANGED vars
  PROVE  \A q \in Proc \ {p} : pc'[q] = pc[q] /\ job'[q] = job[q]
<1>1. ASSUME NEW l, NEW j, Goto(p, l, j)
      PROVE  \A q \in Proc \ {p} : pc'[q] = pc[q] /\ job'[q] = job[q]
  BY <1>1 DEF Goto, TypeOK
<1>2. \/ \E l, j : Goto(p, l, j)
      \/ UNCHANGED <<pc, job>>
  BY DEF Serve, vars, Login, Refresh, RevokeChain, RevokeOld, Create, Sign, Logout,
         LogoutRevoke, LogoutAll, RevokeAll, Abandon, Return
<1>3. QED
  BY <1>1, <1>2

\* A reply is put down for a browser that waits and dropped otherwise.
LEMMA ReplyTypes ==
  ASSUME ClientTypes, NEW p \in Proc, pc[p] # "idle", NEW r \in Reply, Replies(p, r),
         r.code = "tokens" => r.tok \in held' /\ r.acc \in access'
  PROVE  /\ answer' \in [Proc -> Reply \cup {None}]
         /\ \A q \in Proc \ {p} : answer'[q] = answer[q]
         /\ answer'[p] # None => p \in waiting
         /\ answer'[p] # None /\ answer'[p].code = "tokens" =>
              answer'[p].tok \in held' /\ answer'[p].acc \in access'
BY DEF ClientTypes, ClientTypeOK, Replies

\* What a statement on the server does to the answers and the faults.
LEMMA ServerTypes ==
  ASSUME ClientTypes, NEW p \in Proc, ServerStep(p)
  PROVE  /\ answer' \in [Proc -> Reply \cup {None}]
         /\ \A q \in Proc \ {p} : answer'[q] = answer[q]
         /\ answer'[p] # None => p \in waiting /\ pc'[p] = "idle"
         /\ answer'[p] # None /\ answer'[p].code = "tokens" =>
              answer'[p].tok \in held' /\ answer'[p].acc \in access'
         /\ faults' \in 0..MaxFaults
<1>0. pc[p] # "idle" /\ TypeOK
  BY ServerServes DEF ClientTypes, ClientTypeOK
<1>1. faults' \in 0..MaxFaults
  BY DEF ServerStep, AnswerReuse, Proceed, AnswerTokens, AnswerLogout, AnswerLogoutAll,
         AnswerFailure, Fails, Fault, NoFault, ClientTypes, ClientTypeOK
<1>2. \A c \in {"session_revoked", "no_content", "internal_error"} :
        Plain(c) \in Reply /\ Plain(c).code # "tokens"
  BY DEF Plain, Reply
<1>3. ASSUME Return(p) PROVE pc'[p] = "idle"
  BY <1>0, <1>3, ReturnEffect
<1>4. CASE AnswerReuse(p)
  BY <1>0, <1>1, <1>2, <1>3, <1>4, ReplyTypes DEF AnswerReuse, RevokeChain, Fails
<1>5. CASE Proceed(p)
  <2>1. CASE pc'[p] = "idle"
    BY <1>0, <1>1, <1>2, <1>5, <2>1, ReplyTypes DEF Proceed, Fails
  <2>2. CASE pc'[p] # "idle"
    BY <1>0, <1>1, <1>5, <2>2 DEF Proceed, ClientTypes, ClientTypeOK
  <2>3. QED
    BY <2>1, <2>2
<1>6. CASE AnswerTokens(p)
  <2> DEFINE r == Tokens(job[p].tok, <<job[p].user, job[p].chain>>)
  <2>1. /\ job[p].tok \in Token /\ job[p].user \in User /\ job[p].chain \in Chain
        /\ job[p].tok \in held' /\ <<job[p].user, job[p].chain>> \in access'
    BY <1>6 DEF AnswerTokens, Sign, ClientTypes, Inv, TypeOK, JobsMatchLabels
  <2>2. r \in Reply /\ r.tok \in held' /\ r.acc \in access'
    BY <2>1 DEF Tokens, Reply
  <2>3. Replies(p, r) /\ Return(p)
    BY <1>6 DEF AnswerTokens, Sign
  <2> HIDE DEF r
  <2>4. QED
    BY <1>0, <1>1, <1>3, <2>2, <2>3, ReplyTypes
<1>7. CASE AnswerLogout(p)
  BY <1>0, <1>1, <1>2, <1>3, <1>7, ReplyTypes DEF AnswerLogout, LogoutRevoke
<1>8. CASE AnswerLogoutAll(p)
  BY <1>0, <1>1, <1>2, <1>3, <1>8, ReplyTypes DEF AnswerLogoutAll, RevokeAll, Fails
<1>9. CASE AnswerFailure(p)
  BY <1>0, <1>1, <1>2, <1>3, <1>9, ReplyTypes DEF AnswerFailure, Abandon
<1>10. QED
  BY <1>4, <1>5, <1>6, <1>7, <1>8, <1>9 DEF ServerStep

\* What sending a request does to the answers and the faults: only a refusal
\* answers at once.
LEMMA SendTypes ==
  ASSUME ClientTypes, NEW p \in Proc,
         SignIn(p) \/ Rotate(p) \/ SignOut(p) \/ SignOutAll(p)
  PROVE  /\ answer' \in [Proc -> Reply \cup {None}]
         /\ \A q \in Proc \ {p} : answer'[q] = answer[q]
         /\ answer'[p] # None => pc'[p] = "idle" /\ answer'[p].code # "tokens"
         /\ jar' = jar /\ page' = page
         /\ faults' \in 0..MaxFaults
<1>1. Send(p) /\ Free(p) /\ answer[p] = None
  BY SendServes DEF Send, Free, ClientTypes, ClientTypeOK
<1>2. \A c \in {"unauthorized", "no_content"} : Plain(c) \in Reply /\ Plain(c).code # "tokens"
  BY DEF Plain, Reply
<1>3. CASE SignIn(p)
  BY <1>1, <1>3 DEF SignIn, ClientTypes, ClientTypeOK
<1>4. CASE Rotate(p)
  BY <1>1, <1>2, <1>4 DEF Rotate, ClientTypes, ClientTypeOK, vars, Free
<1>5. CASE SignOut(p)
  BY <1>1, <1>2, <1>5 DEF SignOut, ClientTypes, ClientTypeOK, Fault, NoFault
<1>6. CASE SignOutAll(p)
  BY <1>1, <1>6 DEF SignOutAll, ClientTypes, ClientTypeOK
<1>7. QED
  BY <1>3, <1>4, <1>5, <1>6

\* Every step of the browser and of the service keeps the types.
LEMMA ClientTypesStep == ClientTypes /\ [ClientNext]_clientVars => ClientTypes'
<1> SUFFICES ASSUME ClientTypes, [ClientNext]_clientVars PROVE ClientTypes'
  OBVIOUS
<1>1. Inv'
  BY ClientStepsAreSteps, InvStep DEF ClientTypes
<1>2. TypeOK /\ TypeOK'
  BY <1>1 DEF ClientTypes, Inv
<1>3. held \subseteq held' /\ access \subseteq access'
  BY GivenStays
<1>4. ASSUME NEW p \in Proc, SignIn(p) \/ Rotate(p) \/ SignOut(p) \/ SignOutAll(p)
      PROVE  ClientTypes'
  <2>1. /\ Send(p) /\ waiting' = waiting \cup {p} /\ calm' \in BOOLEAN
        /\ \A q \in Proc \ {p} : pc'[q] = pc[q]
    BY <1>2, <1>4, SendServes, OthersStay DEF Send, ClientTypes, ClientTypeOK
  <2>2. QED
    BY <1>1, <1>2, <1>3, <1>4, <2>1, SendTypes DEF ClientTypes, ClientTypeOK, AnswersGiven
<1>5. ASSUME NEW p \in Proc, ServerStep(p) PROVE ClientTypes'
  <2>1. /\ UNCHANGED <<jar, page, waiting, calm>>
        /\ \A q \in Proc \ {p} : pc'[q] = pc[q]
    BY <1>2, <1>5, ServerServes, OthersStay DEF ServerStep
  <2>2. QED
    BY <1>1, <1>2, <1>3, <1>5, <2>1, ServerTypes DEF ClientTypes, ClientTypeOK, AnswersGiven
<1>6. ASSUME NEW p \in Proc, Deliver(p) PROVE ClientTypes'
  <2>1. answer[p] \in Reply /\ UNCHANGED vars
    BY <1>6 DEF Deliver, ClientTypes, ClientTypeOK
  <2>2. jar' \in held \cup {None} /\ page' \in access \cup {None}
    BY <1>6, <2>1 DEF Deliver, CookieAfter, PageAfter, ClientTypes, ClientTypeOK, AnswersGiven
  <2>3. QED
    BY <1>1, <1>2, <1>6, <2>1, <2>2 DEF Deliver, ClientTypes, ClientTypeOK, AnswersGiven, vars, clients
<1>7. ASSUME NEW p \in Proc, GiveUp(p) PROVE ClientTypes'
  BY <1>1, <1>2, <1>7 DEF GiveUp, Fault, ClientTypes, ClientTypeOK, AnswersGiven, vars, clients
<1>8. CASE Reload
  BY <1>1, <1>2, <1>8 DEF Reload, Fault, ClientTypes, ClientTypeOK, AnswersGiven, vars, clients
<1>9. CASE World
  <2>1. UNCHANGED browser /\ pc' = pc
    BY <1>9 DEF World, TokenExpires, DeleteUser
  <2>2. QED
    BY <1>1, <1>2, <1>3, <2>1 DEF browser, ClientTypes, ClientTypeOK, AnswersGiven
<1>10. CASE UNCHANGED clientVars
  BY <1>1, <1>2, <1>10 DEF clientVars, browser, vars, clients, ClientTypes, ClientTypeOK, AnswersGiven
<1>11. QED
  BY <1>4, <1>5, <1>6, <1>7, <1>8, <1>9, <1>10 DEF ClientNext

\* Types, and answers that carry what was issued, in every reachable state.
LEMMA ClientTypesInvariant == ClientSpec => []ClientTypes
BY ClientTypesInit, ClientTypesStep, PTL DEF ClientSpec

\* The types of the browser's state; the cookie and the page's access token are
\* ones the server has issued (auth_handler.go setRefreshCookie, tokenResponse).
THEOREM ClientTypeCorrect == ClientSpec => []ClientTypeOK
BY ClientTypesInvariant, PTL DEF ClientTypes

\* Whatever browsers of this kind do, the service does only what AuthService
\* allows: its theorems hold of the composition too.
THEOREM ComposesWithService == ClientSpec => Spec
<1>1. ClientInit => Init
  BY DEF ClientInit
<1>2. QED
  BY <1>1, ClientStepsAreSteps, ClientTypesInvariant, PTL DEF ClientSpec, Spec, ClientTypes

-----------------------------------------------------------------------------
(* One request at a time *)

\* As long as no request was sent while another was under way, at most one is,
\* and the invariant AuthServiceProofs has for such requests holds.
CalmInv ==
  calm => /\ \A p, q \in Proc : p # q => Free(p) \/ Free(q)
          /\ SequentialInv

\* A browser that is calm after a step was calm before it.
LEMMA CalmWas ==
  ASSUME ClientTypes, [ClientNext]_clientVars, calm'
  PROVE  calm
<1>1. ASSUME NEW p \in Proc, SignIn(p) \/ Rotate(p) \/ SignOut(p) \/ SignOutAll(p)
      PROVE  calm
  BY <1>1, SendServes DEF Send, ClientTypes
<1>2. QED
  BY <1>1 DEF ClientNext, ServerStep, Deliver, GiveUp, Reload, World, clientVars, browser

\* In a calm step at most one request is under way afterwards, and the request
\* that moved was alone.
LEMMA CalmAlone ==
  ASSUME ClientTypes, CalmInv, [ClientNext]_clientVars, calm'
  PROVE  /\ \A p, q \in Proc : p # q => Free(p)' \/ Free(q)'
         /\ SequentialInv'
<1>0. calm /\ Inv /\ TypeOK
  BY CalmWas DEF ClientTypes, Inv
<1>1. ASSUME NEW p \in Proc, Alone(p), Serve(p) \/ UNCHANGED vars PROVE SequentialInv'
  <2>1. CASE Serve(p)
    BY <1>0, <1>1, <2>1, ServeKeepsSequential DEF CalmInv
  <2>2. CASE UNCHANGED vars
    BY <1>0, <2>2 DEF CalmInv, vars, ledger, SequentialInv, OneActivePerSession, ActiveIn,
                      InChain, Active, Ended, Granted
  <2>3. QED
    BY <1>1, <2>1, <2>2
<1>2. ASSUME NEW p \in Proc, SignIn(p) \/ Rotate(p) \/ SignOut(p) \/ SignOutAll(p)
      PROVE  /\ \A q, r \in Proc : q # r => Free(q)' \/ Free(r)'
             /\ SequentialInv'
  <2>1. /\ waiting' = waiting \cup {p} /\ Alone(p) /\ (Serve(p) \/ UNCHANGED vars)
        /\ \A q \in Proc \ {p} : pc'[q] = pc[q] /\ Free(q)
    BY <1>0, <1>2, SendServes, OthersStay DEF Send, ClientTypes, Alone, Free
  <2>2. QED
    BY <1>1, <2>1 DEF Free
<1>3. ASSUME NEW p \in Proc, ServerStep(p)
      PROVE  /\ \A q, r \in Proc : q # r => Free(q)' \/ Free(r)'
             /\ SequentialInv'
  <2>1. /\ waiting' = waiting /\ Serve(p) /\ pc[p] # "idle"
        /\ \A q \in Proc \ {p} : pc'[q] = pc[q]
    BY <1>0, <1>3, ServerServes, OthersStay DEF ServerStep
  <2>2. \A q \in Proc \ {p} : Free(q)
    BY <1>0, <2>1 DEF CalmInv, Free
  <2>3. QED
    BY <1>1, <2>1, <2>2 DEF Free, Alone
<1>4. ASSUME UNCHANGED vars, waiting' \subseteq waiting
      PROVE  /\ \A q, r \in Proc : q # r => Free(q)' \/ Free(r)'
             /\ SequentialInv'
  BY <1>0, <1>4 DEF CalmInv, vars, ledger, SequentialInv, OneActivePerSession, ActiveIn,
                    InChain, Active, Ended, Granted, Free
<1>5. ASSUME NEW p \in Proc, Deliver(p) \/ GiveUp(p)
      PROVE  UNCHANGED vars /\ waiting' \subseteq waiting
  BY <1>5 DEF Deliver, GiveUp
<1>6. CASE World
  <2>1. UNCHANGED <<pc, waiting>>
    BY <1>6 DEF World, TokenExpires, DeleteUser, browser
  <2>2. QED
    BY <1>0, <1>6, <2>1, SurroundingsKeepSequential DEF World, CalmInv, Free
<1>7. QED
  BY <1>2, <1>3, <1>4, <1>5, <1>6 DEF ClientNext, Reload, clientVars, browser

\* While no requests overlap, every session is in order, whatever fails.
LEMMA CalmInvariant == ClientSpec => []CalmInv
<1>1. ClientInit => CalmInv
  BY SequentialInit DEF ClientInit, CalmInv, Init, Free
<1>2. ClientTypes /\ CalmInv /\ [ClientNext]_clientVars => CalmInv'
  BY CalmAlone DEF CalmInv
<1>3. QED
  BY <1>1, <1>2, ClientTypesInvariant, PTL DEF ClientSpec

\* While no two requests of the browser overlap, whatever fails, is lost or is
\* given up, a session has one active token and the answers that end sessions
\* stay true (README: reuse detection, logout-all).
THEOREM CalmSessionsAreSafe == ClientSpec => []CalmSessions
<1>1. CalmInv => CalmSessions
  BY DEF CalmInv, CalmSessions, SequentialInv, ReuseEndsSession, LogoutAllEndsSessions,
         Ended, ActiveIn
<1>2. QED
  BY <1>1, CalmInvariant, PTL

-----------------------------------------------------------------------------
(* One request at a time and no faults *)

UsableTokens == {t \in Token : Usable(rows, t)}

\* Presenting t is not taken for reuse.
Unspent(t) == t # None => rows[t] = None \/ ~rows[t].revoked

AllOf(u) == \A t \in UsableTokens : rows[t].user = u

\* What a request at statement l with locals j knows of the tokens.
RequestGood(l, j) ==
  /\ l # "revoke_chain"
  /\ l \in {"revoke_old", "logout_revoke", "revoke_all"} => UsableTokens \subseteq {jar} /\ Unspent(jar)
  /\ l \in {"revoke_old", "logout_revoke"} => j.tok = jar
  /\ l = "create" => UsableTokens = {} /\ (j.tok = None => Unspent(jar))
  /\ l \in {"revoke_old", "create"} /\ j.tok # None =>
       j.tok = jar /\ (rows[jar] # None => rows[jar].user = j.user)
  /\ l = "sign" => UsableTokens \subseteq {j.tok} /\ Unspent(j.tok)
  /\ l \in {"sign", "revoke_all"} => AllOf(j.user)

\* What an answer on its way says about them.
AnswerGood(r) ==
  /\ r.code # "session_revoked"
  /\ r.code = "tokens" =>
       r.tok \in Token /\ UsableTokens \subseteq {r.tok} /\ Unspent(r.tok) /\ AllOf(r.acc[1])
  /\ r.code # "tokens" => UsableTokens = {}
  /\ r.code \in {"unauthorized", "internal_error"} => Unspent(jar)

\* When nothing is under way no token is usable but the one in the jar, which
\* belongs to the user the page is signed in as.
QuietGood ==
  /\ UsableTokens \subseteq {jar} /\ Unspent(jar)
  /\ page = None => UsableTokens = {}
  /\ page # None => AllOf(page[1])

AllGood ==
  /\ \A p \in Proc : pc[p] # "idle" => p \in waiting /\ RequestGood(pc[p], job[p])
  /\ \A p \in Proc : pc[p] = "idle" /\ p \in waiting => AnswerGood(answer[p])
  /\ Quiet => QuietGood

SmoothInv == Smooth => AllGood

\* A browser that has never visited has left nothing behind.
LEMMA SmoothInit == ClientInit => SmoothInv
<1> SUFFICES ASSUME ClientInit PROVE AllGood
  BY DEF SmoothInv
<1>1. UsableTokens = {}
  BY EmptyTableRows DEF ClientInit, Init, UsableTokens, Usable, Active
<1>2. QED
  BY <1>1 DEF ClientInit, Init, AllGood, QuietGood, Unspent, AllOf

\* Tokens stop being usable and rows go, but no row is revoked.
Fade ==
  /\ UsableTokens' \subseteq UsableTokens
  /\ \A t \in Token : rows'[t] # None =>
       rows[t] # None /\ rows'[t].user = rows[t].user /\ rows'[t].revoked = rows[t].revoked

\* What is known of the tokens survives that.
LEMMA FadeKeepsGood ==
  ASSUME ClientTypes, AllGood, Fade, UNCHANGED <<browser, pc, job>>
  PROVE  AllGood'
<1> USE DEF browser
<1>0. /\ jar \in Token \cup {None}
      /\ \A p \in Proc : job[p].tok \in Token \cup {None}
  BY DEF ClientTypes, ClientTypeOK, Inv, TypeOK, Job, MaybeToken
<1>1. ASSUME NEW t \in Token \cup {None}, Unspent(t) PROVE Unspent(t)'
  BY <1>1 DEF Unspent, Fade
<1>2. ASSUME NEW u, AllOf(u) PROVE \A t \in UsableTokens' : rows'[t].user = u
  BY <1>2 DEF AllOf, Fade, UsableTokens, Usable, Active
<1>3. ASSUME NEW p \in Proc, pc[p] # "idle"
      PROVE  p \in waiting' /\ RequestGood(pc[p], job[p])'
  <2>1. p \in waiting /\ RequestGood(pc[p], job[p])
    BY <1>3 DEF AllGood
  <2>2. QED
    BY <1>0, <1>1, <1>2, <2>1 DEF RequestGood, AllOf, Fade
<1>4. ASSUME NEW p \in Proc, pc[p] = "idle", p \in waiting PROVE AnswerGood(answer[p])'
  BY <1>0, <1>1, <1>2, <1>4 DEF AllGood, AnswerGood, AllOf, Fade
<1>5. ASSUME Quiet PROVE QuietGood'
  BY <1>0, <1>1, <1>2, <1>5 DEF AllGood, QuietGood, AllOf, Fade
<1>6. QED
  BY <1>3, <1>4, <1>5 DEF AllGood, Quiet, Free

\* The one request under way, and what is known once its statement has run.
LEMMA OneGood ==
  ASSUME NEW p \in Proc, \A q \in Proc \ {p} : Free(q)', ~Free(p)',
         pc'[p] # "idle" => p \in waiting' /\ RequestGood(pc[p], job[p])',
         pc'[p] = "idle" => AnswerGood(answer[p])'
  PROVE  AllGood'
BY DEF AllGood, Free, Quiet

\* A request is sent while nothing is under way.
LEMMA SendKeepsGood ==
  ASSUME ClientTypes, QuietGood, NEW p \in Proc, faults' = faults,
         SignIn(p) \/ Rotate(p) \/ SignOut(p) \/ SignOutAll(p)
  PROVE  /\ pc'[p] # "idle" => RequestGood(pc[p], job[p])'
         /\ pc'[p] = "idle" => AnswerGood(answer[p])'
<1>0. /\ Inv /\ TypeOK /\ jar' = jar /\ rows' = rows
      /\ jar # None => jar \in Token
      /\ pc[p] = "idle"
  BY SendTypes, SendServes
     DEF SignIn, Login, Rotate, Refresh, SignOut, Logout, SignOutAll, LogoutAll, vars,
         ClientTypes, ClientTypeOK, Inv, TypeOK, Send, Free
<1>1. UsableTokens' = UsableTokens
  BY <1>0 DEF UsableTokens
<1>2. \A t : Unspent(t)' <=> Unspent(t)
  BY <1>0 DEF Unspent
<1>3. \A u : AllOf(u) => \A t \in UsableTokens' : rows'[t].user = u
  BY <1>0, <1>1 DEF AllOf
<1>4. ASSUME NEW c, answer' = [answer EXCEPT ![p] = Plain(c)]
      PROVE  answer'[p].code = c
  BY <1>4 DEF Plain, ClientTypes, ClientTypeOK
<1>5. CASE SignIn(p)
  <2> DEFINE j(u) == [NoJob EXCEPT !.user = u]
  <2>1. PICK u \in User : Goto(p, "create", j(u))
    BY <1>5 DEF SignIn, Login
  <2>2. j(u) \in Job /\ j(u).tok = None
    BY DEF NoJob, Job, MaybeToken
  <2> HIDE DEF j
  <2>3. pc'[p] = "create" /\ job'[p].tok = None
    BY <1>0, <2>1, <2>2, GotoEffect DEF Label
  <2>4. UsableTokens = {} /\ Unspent(jar)
    BY <1>5 DEF SignIn, QuietGood
  <2>5. QED
    BY <1>0, <1>1, <1>2, <2>3, <2>4 DEF RequestGood
<1>6. CASE Rotate(p)
  <2>1. jar \in Token /\ UsableTokens \subseteq {jar} /\ Unspent(jar)
    BY <1>0, <1>6 DEF Rotate, QuietGood
  <2>2. CASE Refresh(p, jar)
    <3>1. rows[jar] # None /\ Goto(p, "revoke_old", RowJob(jar))
      BY <2>1, <2>2, NoneAssumption DEF Refresh, Unspent
    <3>2. /\ pc'[p] = "revoke_old" /\ job'[p].tok = jar /\ job'[p].user = rows[jar].user
      BY <1>0, <2>1, <3>1, RowJobFields, GotoEffect DEF Label
    <3>3. QED
      BY <1>0, <1>1, <1>2, <2>1, <3>2 DEF RequestGood
  <2>3. CASE /\ rows[jar] = None \/ (Active(rows, jar) /\ rows[jar].expired)
             /\ answer' = [answer EXCEPT ![p] = Plain("unauthorized")]
             /\ UNCHANGED vars
    <3>1. UsableTokens = {}
      BY <2>1, <2>3 DEF UsableTokens, Usable, Active
    <3>2. pc'[p] = "idle" /\ answer'[p].code = "unauthorized"
      BY <1>0, <1>4, <2>3 DEF vars
    <3>3. QED
      BY <1>0, <1>1, <1>2, <2>1, <3>1, <3>2 DEF AnswerGood
  <2>4. QED
    BY <1>6, <2>2, <2>3 DEF Rotate
<1>7. CASE SignOut(p)
  <2>1. jar \in Token /\ UsableTokens \subseteq {jar} /\ Unspent(jar)
    BY <1>0, <1>7 DEF SignOut, QuietGood
  <2>2. CASE pc'[p] = "idle"
    <3>1. rows[jar] = None /\ answer' = [answer EXCEPT ![p] = Plain("no_content")]
      BY <1>7, <2>2 DEF SignOut, Fault, ClientTypes, ClientTypeOK
    <3>2. UsableTokens = {} /\ answer'[p].code = "no_content"
      BY <1>4, <2>1, <3>1 DEF UsableTokens, Usable, Active
    <3>3. QED
      BY <1>1, <2>2, <3>2 DEF AnswerGood
  <2>3. CASE pc'[p] # "idle"
    <3>1. rows[jar] # None /\ Goto(p, "logout_revoke", RowJob(jar))
      BY <1>0, <1>7, <2>3 DEF SignOut, Logout
    <3>2. pc'[p] = "logout_revoke" /\ job'[p].tok = jar
      BY <1>0, <2>1, <3>1, RowJobFields, GotoEffect DEF Label
    <3>3. QED
      BY <1>0, <1>1, <1>2, <2>1, <3>2 DEF RequestGood
  <2>4. QED
    BY <2>2, <2>3
<1>8. CASE SignOutAll(p)
  <2> DEFINE j == [NoJob EXCEPT !.user = page[1]]
  <2>1. page \in access /\ AllOf(page[1]) /\ UsableTokens \subseteq {jar} /\ Unspent(jar)
    BY <1>8 DEF SignOutAll, QuietGood, ClientTypes, ClientTypeOK
  <2>2. j \in Job /\ j.user = page[1]
    BY <1>0, <2>1 DEF NoJob, Job, MaybeToken, TypeOK
  <2>3. Goto(p, "revoke_all", j)
    BY <1>8 DEF SignOutAll, LogoutAll
  <2> HIDE DEF j
  <2>4. pc'[p] = "revoke_all" /\ job'[p].user = page[1]
    BY <1>0, <2>2, <2>3, GotoEffect DEF Label
  <2>5. QED
    BY <1>0, <1>1, <1>2, <1>3, <2>1, <2>4 DEF RequestGood, AllOf
<1>9. QED
  BY <1>5, <1>6, <1>7, <1>8

\* A statement runs that is neither a failure nor ended by one.
LEMMA ServerKeepsGood ==
  ASSUME ClientTypes, NEW p \in Proc, p \in waiting, RequestGood(pc[p], job[p]),
         ServerStep(p), faults' = faults
  PROVE  /\ pc'[p] # "idle" => RequestGood(pc[p], job[p])'
         /\ pc'[p] = "idle" => AnswerGood(answer[p])'
<1>0. /\ Inv /\ TypeOK /\ jar' = jar /\ pc[p] # "idle" /\ faults \in Nat
      /\ jar # None => jar \in Token
  BY ServerServes DEF ServerStep, ClientTypes, ClientTypeOK, Inv, TypeOK
<1>1. ~Fault
  BY <1>0 DEF Fault
<1>2. ASSUME NEW r, Replies(p, r) PROVE answer'[p] = r
  BY <1>2 DEF Replies, ClientTypes, ClientTypeOK
<1>3. \A c : Plain(c).code = c
  BY DEF Plain
<1>4. ASSUME NEW t \in Token, rows' = Revoke(rows, {t})
      PROVE  UsableTokens' = UsableTokens \ {t}
  BY <1>0, <1>4, RevokeRows DEF UsableTokens, Usable, Active, TypeOK
<1>5. CASE AnswerReuse(p)
  BY <1>5 DEF AnswerReuse, RevokeChain, RequestGood
<1>6. CASE Proceed(p) /\ RevokeOld(p)
  <2>1. Goto(p, "create", job[p]) /\ rows' = Revoke(rows, {job[p].tok}) /\ pc[p] = "revoke_old"
    BY <1>0, <1>1, <1>6, ReturnEffect DEF Proceed, RevokeOld, Fails
  <2>2. pc'[p] = "create" /\ job'[p] = job[p] /\ job[p].tok \in Token
    BY <1>0, <2>1, GotoEffect DEF Label, TypeOK, Inv, JobsMatchLabels
  <2>3. job[p].tok # None /\ job[p].tok = jar /\ UsableTokens \subseteq {jar}
    BY <2>1, <2>2, NoneAssumption DEF RequestGood
  <2>4. UsableTokens' = {}
    BY <1>4, <2>1, <2>2, <2>3
  <2>5. rows'[jar] # None => rows[jar] # None /\ rows'[jar].user = rows[jar].user
    BY <1>0, <2>1, <2>2, <2>3, RevokeRows DEF TypeOK
  <2>6. rows[jar] # None => rows[jar].user = job[p].user
    BY <2>1, <2>3 DEF RequestGood
  <2>7. QED
    BY <1>0, <2>2, <2>3, <2>4, <2>5, <2>6 DEF RequestGood
<1>7. CASE Proceed(p) /\ Create(p)
  <2> DEFINE j(t, c) == [job[p] EXCEPT !.tok = t, !.chain = c]
  <2>1. PICK t \in FreshTokens, c \in JobChains(p) :
          rows' = Insert(rows, t, job[p].user, c) /\ Goto(p, "sign", j(t, c))
    BY <1>0, <1>1, <1>7, ReturnEffect DEF Proceed, Create, Fails
  <2>2. t \in Token /\ c \in Chain /\ job[p] \in Job /\ job[p].user \in User /\ pc[p] = "create"
    BY <1>0, <1>7 DEF FreshTokens, JobChains, Create, TypeOK, Job, Inv, JobsMatchLabels
  <2>3. j(t, c) \in Job /\ j(t, c).tok = t /\ j(t, c).user = job[p].user
    BY <2>2 DEF Job, MaybeToken
  <2> HIDE DEF j
  <2>4. pc'[p] = "sign" /\ job'[p].tok = t /\ job'[p].user = job[p].user
    BY <1>0, <2>1, <2>3, GotoEffect DEF Label
  <2>5. /\ \A s \in Token \ {t} : rows'[s] = rows[s]
        /\ rows'[t].user = job[p].user /\ Usable(rows', t)
    BY <1>0, <2>1, <2>2, InsertRows DEF TypeOK
  <2>6. UsableTokens' \subseteq {t}
    BY <2>2, <2>5 DEF UsableTokens, Usable, Active, RequestGood
  <2>7. QED
    BY <2>4, <2>5, <2>6 DEF RequestGood, Unspent, AllOf, Usable, Active
<1>8. CASE AnswerTokens(p)
  <2> DEFINE r == Tokens(job[p].tok, <<job[p].user, job[p].chain>>)
  <2>1. /\ pc[p] = "sign" /\ rows' = rows /\ job[p].tok \in Token
        /\ answer'[p] = r /\ pc'[p] = "idle"
    BY <1>0, <1>2, <1>8, ReturnEffect DEF AnswerTokens, Sign, Inv, TypeOK, JobsMatchLabels
  <2>2. r.code = "tokens" /\ r.tok = job[p].tok /\ r.acc[1] = job[p].user
    BY DEF Tokens
  <2> HIDE DEF r
  <2>3. QED
    BY <2>1, <2>2 DEF RequestGood, AnswerGood, UsableTokens, Unspent, AllOf
<1>9. CASE AnswerLogout(p)
  <2>1. /\ pc[p] = "logout_revoke" /\ ~Active(rows', job[p].tok) /\ job[p].tok \in Token
        /\ rows' \in {rows, Revoke(rows, {job[p].tok})}
        /\ answer'[p].code = "no_content" /\ pc'[p] = "idle"
    BY <1>0, <1>1, <1>2, <1>3, <1>9, ReturnEffect
       DEF AnswerLogout, LogoutRevoke, Inv, TypeOK, JobsMatchLabels
  <2>2. UsableTokens' \subseteq UsableTokens /\ UsableTokens \subseteq {job[p].tok}
    BY <1>4, <2>1 DEF RequestGood, UsableTokens
  <2>3. UsableTokens' = {}
    BY <2>1, <2>2 DEF UsableTokens, Usable
  <2>4. QED
    BY <2>1, <2>3 DEF AnswerGood
<1>10. CASE AnswerLogoutAll(p)
  <2>1. /\ pc[p] = "revoke_all" /\ rows' = Revoke(rows, OfUser(rows, job[p].user))
        /\ answer'[p].code = "no_content" /\ pc'[p] = "idle"
    BY <1>0, <1>1, <1>2, <1>3, <1>10, ReturnEffect DEF AnswerLogoutAll, RevokeAll, Fails
  <2>2. ASSUME NEW t \in UsableTokens' PROVE FALSE
    <3>1. t \in Token /\ Active(rows, t) /\ t \notin OfUser(rows, job[p].user) /\ ~rows[t].expired
      BY <1>0, <2>1, RevokeRows DEF UsableTokens, Usable, Active, TypeOK
    <3>2. t \in UsableTokens /\ rows[t].user = job[p].user
      BY <2>1, <3>1 DEF UsableTokens, Usable, RequestGood, AllOf
    <3>3. QED
      BY <3>1, <3>2 DEF OfUser, Active
  <2>3. QED
    BY <2>1, <2>2 DEF AnswerGood
<1>11. CASE AnswerFailure(p)
  <2>1. /\ pc[p] = "create" /\ job[p].user \notin users /\ rows' = rows
        /\ answer'[p].code = "internal_error" /\ pc'[p] = "idle"
    BY <1>0, <1>1, <1>2, <1>3, <1>11, ReturnEffect DEF AnswerFailure, Abandon
  <2>2. UsableTokens = {}
    BY <2>1 DEF RequestGood
  <2>3. Unspent(jar)
    BY <1>0, <2>1 DEF RequestGood, Unspent, Inv, SessionsKeepTheirOwner
  <2>4. QED
    BY <1>0, <2>1, <2>2, <2>3 DEF AnswerGood, UsableTokens, Unspent
<1>12. QED
  BY <1>5, <1>6, <1>7, <1>8, <1>9, <1>10, <1>11 DEF ServerStep, Proceed

\* An answer arrives, and nothing else is under way.
LEMMA DeliverKeepsGood ==
  ASSUME ClientTypes, NEW p \in Proc, AnswerGood(answer[p]), Deliver(p),
         \A q \in Proc \ {p} : Free(q)
  PROVE  AllGood'
<1> DEFINE r == answer[p]
<1>1. /\ r \in Reply /\ pc[p] = "idle" /\ rows' = rows /\ pc' = pc
      /\ waiting' = waiting \ {p} /\ jar' = CookieAfter(r) /\ page' = PageAfter(r)
  BY DEF Deliver, ClientTypes, ClientTypeOK, vars
<1>2. \A q \in Proc : Free(q)'
  BY <1>1 DEF Free
<1>3. UsableTokens' = UsableTokens /\ (\A t : Unspent(t)' <=> Unspent(t))
  BY <1>1 DEF UsableTokens, Unspent
<1>4. CASE r.code = "tokens"
  <2>1. jar' = r.tok /\ page' = r.acc /\ r.acc \in User \X Chain
    BY <1>1, <1>4 DEF CookieAfter, PageAfter, Reply
  <2>2. page' # None
    BY <2>1, ClientAssumption
  <2>3. UsableTokens \subseteq {r.tok} /\ Unspent(r.tok) /\ AllOf(r.acc[1])
    BY <1>4 DEF AnswerGood
  <2>4. QuietGood'
    BY <1>1, <1>3, <2>1, <2>2, <2>3 DEF QuietGood, AllOf
  <2>5. QED
    BY <1>2, <2>4 DEF AllGood, Free
<1>5. CASE r.code # "tokens"
  <2>1. UsableTokens = {} /\ r.code \in {"unauthorized", "no_content", "internal_error"}
    BY <1>1, <1>5 DEF AnswerGood, Reply
  <2>2. jar' = None \/ (jar' = jar /\ Unspent(jar))
    BY <1>1, <2>1 DEF AnswerGood, CookieAfter
  <2>3. UsableTokens' = {} /\ Unspent(jar)'
    BY <1>1, <1>3, <2>1, <2>2 DEF Unspent
  <2>4. QuietGood'
    BY <2>3 DEF QuietGood, AllOf
  <2>5. QED
    BY <1>2, <2>4 DEF AllGood, Free
<1>6. QED
  BY <1>4, <1>5

\* Faults are not taken back, so what is smooth after a step was so before it.
LEMMA SmoothWas ==
  ASSUME ClientTypes, [ClientNext]_clientVars, Smooth'
  PROVE  Smooth /\ faults' = faults /\ faults \in Nat
<1>1. faults \in Nat /\ faults' = 0 /\ calm
  BY CalmWas DEF Smooth, ClientTypes, ClientTypeOK
<1>2. \/ Fault
      \/ UNCHANGED faults
  BY DEF ClientNext, SignIn, Rotate, SignOut, SignOutAll, ServerStep, AnswerReuse, Proceed,
         AnswerTokens, AnswerLogout, AnswerLogoutAll, AnswerFailure, Fails, NoFault, Deliver,
         GiveUp, Reload, World, clientVars, browser
<1>3. QED
  BY <1>1, <1>2 DEF Fault, Smooth

\* Time and the deletion of users only make tokens fade.
LEMMA WorldFades ==
  ASSUME ClientTypes, World
  PROVE  Fade
<1>0. TypeOK
  BY DEF ClientTypes, Inv
<1>1. ASSUME NEW t \in Token, TokenExpires(t) PROVE Fade
  <2>1. rows' = Expire(rows, t) /\ rows[t] # None /\ rows \in Table
    BY <1>0, <1>1 DEF TokenExpires, Usable, Active, TypeOK
  <2>2. \A s \in Token : rows'[s] # None => rows'[s].revoked = rows[s].revoked
    <3>1. rows[t] \in Row /\ rows' = [rows EXCEPT ![t] = [rows[t] EXCEPT !.expired = TRUE]]
      BY <2>1 DEF Expire, Table
    <3>2. [rows[t] EXCEPT !.expired = TRUE].revoked = rows[t].revoked
      BY <3>1 DEF Row
    <3>3. QED
      BY <2>1, <3>1, <3>2 DEF Table
  <2>3. QED
    BY <2>1, <2>2, ExpireRows DEF Fade, UsableTokens
<1>2. ASSUME NEW u \in users, DeleteUser(u) PROVE Fade
  BY <1>0, <1>2, CascadeRows DEF DeleteUser, TypeOK, Fade, UsableTokens, Usable, Active
<1>3. QED
  BY <1>1, <1>2 DEF World

\* Each statement, answer and delivery passes the usable token on.
LEMMA SmoothStep == ClientTypes /\ CalmInv /\ SmoothInv /\ [ClientNext]_clientVars => SmoothInv'
<1> SUFFICES ASSUME ClientTypes, CalmInv, SmoothInv, [ClientNext]_clientVars, Smooth'
             PROVE  AllGood'
  BY DEF SmoothInv
<1>0. /\ AllGood /\ calm /\ calm' /\ faults' = faults /\ ~Fault /\ TypeOK
  BY SmoothWas DEF SmoothInv, Smooth, Fault, ClientTypes, Inv
<1>1. ASSUME NEW p \in Proc, SignIn(p) \/ Rotate(p) \/ SignOut(p) \/ SignOutAll(p)
      PROVE  AllGood'
  <2>1. /\ waiting' = waiting \cup {p} /\ Quiet
        /\ \A q \in Proc \ {p} : pc'[q] = pc[q] /\ Free(q)
    BY <1>0, <1>1, SendServes, OthersStay DEF Send, Quiet, ClientTypes
  <2>2. \A q \in Proc \ {p} : Free(q)'
    BY <2>1 DEF Free
  <2>3. QuietGood /\ ~Free(p)' /\ p \in waiting'
    BY <1>0, <2>1 DEF AllGood, Free
  <2>4. QED
    BY <1>0, <1>1, <2>2, <2>3, SendKeepsGood, OneGood
<1>2. ASSUME NEW p \in Proc, ServerStep(p) PROVE AllGood'
  <2>1. /\ waiting' = waiting /\ pc[p] # "idle"
        /\ \A q \in Proc \ {p} : pc'[q] = pc[q]
    BY <1>0, <1>2, ServerServes, OthersStay DEF ServerStep
  <2>2. \A q \in Proc \ {p} : Free(q)
    BY <1>0, <2>1 DEF CalmInv, Free
  <2>3. \A q \in Proc \ {p} : Free(q)'
    BY <2>1, <2>2 DEF Free
  <2>4. p \in waiting /\ RequestGood(pc[p], job[p]) /\ ~Free(p)' /\ p \in waiting'
    BY <1>0, <2>1 DEF AllGood, Free
  <2>5. QED
    BY <1>0, <1>2, <2>3, <2>4, ServerKeepsGood, OneGood
<1>3. ASSUME NEW p \in Proc, Deliver(p) PROVE AllGood'
  <2>1. pc[p] = "idle" /\ p \in waiting
    BY <1>3 DEF Deliver, ClientTypes, ClientTypeOK
  <2>2. AnswerGood(answer[p]) /\ \A q \in Proc \ {p} : Free(q)
    BY <1>0, <2>1 DEF AllGood, CalmInv, Free
  <2>3. QED
    BY <1>3, <2>2, DeliverKeepsGood
<1>4. CASE World
  <2>1. UNCHANGED <<browser, pc, job>>
    BY <1>4 DEF World, TokenExpires, DeleteUser
  <2>2. QED
    BY <1>0, <1>4, <2>1, WorldFades, FadeKeepsGood
<1>5. CASE UNCHANGED clientVars
  <2>1. Fade
    BY <1>5 DEF Fade, UsableTokens, clientVars, vars
  <2>2. QED
    BY <1>0, <1>5, <2>1, FadeKeepsGood DEF clientVars, vars
<1>6. QED
  BY <1>0, <1>1, <1>2, <1>3, <1>4, <1>5 DEF ClientNext, GiveUp, Reload

\* The one usable token of a calm browser without faults is where SmoothInv says.
LEMMA SmoothInvariant == ClientSpec => []SmoothInv
BY SmoothInit, SmoothStep, ClientTypesInvariant, CalmInvariant, PTL DEF ClientSpec

\* A browser whose requests come one at a time and all end well is never told
\* that its session was revoked: rotation takes no honest client for a thief
\* (auth_service.go:111-121).
THEOREM HonestClientsKeepSessions == ClientSpec => []NoFalseAlarm
<1>1. ClientTypes /\ SmoothInv => NoFalseAlarm
  BY DEF ClientTypes, ClientTypeOK, SmoothInv, AllGood, AnswerGood, NoFalseAlarm
<1>2. QED
  BY <1>1, SmoothInvariant, ClientTypesInvariant, PTL

\* Nothing usable is left on the server but the token in such a browser's jar
\* (auth_handler.go Refresh, Logout, LogoutAll).
THEOREM NothingBesideTheJar == ClientSpec => []JarHoldsTheSession
<1>1. SmoothInv => JarHoldsTheSession
  BY DEF SmoothInv, AllGood, QuietGood, UsableTokens, JarHoldsTheSession
<1>2. QED
  BY <1>1, SmoothInvariant, PTL
=============================================================================

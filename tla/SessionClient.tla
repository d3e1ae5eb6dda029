---------------------------- MODULE SessionClient ----------------------------
(***************************************************************************)
(* A browser at the auth endpoints: its cookie jar, the requests it has    *)
(* under way and the answers on their way back, composed with AuthService. *)
(* The handlers' part is which answer each end of a request gets and what  *)
(* the answer does to the refresh_token cookie.  The browser is not part   *)
(* of the repository; it is honest: it presents the cookie it has, keeps   *)
(* what it is given, and logs in when an answer says that it must.         *)
(*                                                                         *)
(* A request and its first lookup are one step: what a delay before the    *)
(* lookup could do, the delays after it do too.  The access token lives in *)
(* the page's memory, and Refresh insists on an Authorization header, so a *)
(* page that was reloaded has to log in.                                   *)
(***************************************************************************)
EXTENDS AuthService, Naturals

CONSTANT MaxFaults  \* bound: failures, lost answers, requests given up, reloads

ASSUME ClientAssumption == MaxFaults \in Nat /\ None \notin User \X Chain

VARIABLES
  jar,       \* the refresh_token cookie, or None
  page,      \* the access token in the page's memory, None when it has to log in
  waiting,   \* the requests whose answer the page still wants
  answer,    \* proc -> the answer on its way, or None
  calm,      \* history: no request was sent while another was under way
  faults     \* history: how many faults there were

browser == <<jar, page, waiting, answer, calm, faults>>
clientVars == <<vars, browser>>

\* 200 with a token, the 401s that ask for a login, 204, and 500.
Reply ==
  [code: {"tokens"}, tok: Token, acc: User \X Chain]
    \cup [code: {"session_revoked", "unauthorized", "no_content", "internal_error"},
          tok: {None}, acc: {None}]

Tokens(t, a) == [code |-> "tokens", tok |-> t, acc |-> a]

Plain(code) == [code |-> code, tok |-> None, acc |-> None]

ClientTypeOK ==
  /\ TypeOK
  /\ jar \in held \cup {None}
  /\ page \in access \cup {None}
  /\ waiting \subseteq Proc
  /\ answer \in [Proc -> Reply \cup {None}]
  /\ \A p \in Proc : answer[p] # None => p \in waiting /\ pc[p] = "idle"
  /\ calm \in BOOLEAN
  /\ faults \in 0..MaxFaults

ClientInit ==
  /\ Init
  /\ jar = None
  /\ page = None
  /\ waiting = {}
  /\ answer = [p \in Proc |-> None]
  /\ calm = TRUE
  /\ faults = 0

-----------------------------------------------------------------------------

Free(p) == pc[p] = "idle" /\ p \notin waiting

Quiet == \A p \in Proc : Free(p)

Smooth == calm /\ faults = 0

Send(p) ==
  /\ Free(p)
  /\ waiting' = waiting \cup {p}
  /\ calm' = (calm /\ \A q \in Proc \ {p} : Free(q))

Fault == faults < MaxFaults /\ faults' = faults + 1

NoFault == UNCHANGED faults

\* An answer nobody waits for is dropped.
Replies(p, r) ==
  IF p \in waiting THEN answer' = [answer EXCEPT ![p] = r] ELSE UNCHANGED answer

-----------------------------------------------------------------------------
(* Requests *)

\* A login form is a page of its own: nothing else is under way in it.
SignIn(p) ==
  /\ page = None /\ waiting = {}
  /\ Send(p)
  /\ \E u \in User : Login(p, u)
  /\ UNCHANGED <<jar, page, answer, faults>>

\* A row that is gone or has expired is refused without a write.
Rotate(p) ==
  /\ page # None /\ jar # None
  /\ Send(p)
  /\ \/ Refresh(p, jar) /\ UNCHANGED answer
     \/ /\ rows[jar] = None \/ (Active(rows, jar) /\ rows[jar].expired)
        /\ answer' = [answer EXCEPT ![p] = Plain("unauthorized")]
        /\ UNCHANGED vars
  /\ UNCHANGED <<jar, page, faults>>

\* Logout answers at once when it finds no row or cannot look.
SignOut(p) ==
  /\ page # None /\ jar # None
  /\ Send(p)
  /\ Logout(p, jar)
  /\ \/ pc'[p] = "logout_revoke" /\ UNCHANGED answer /\ NoFault
     \/ /\ pc'[p] = "idle"
        /\ answer' = [answer EXCEPT ![p] = Plain("no_content")]
        /\ IF rows[jar] = None THEN NoFault ELSE Fault
  /\ UNCHANGED <<jar, page>>

SignOutAll(p) ==
  /\ page # None
  /\ Send(p)
  /\ LogoutAll(p, page)
  /\ UNCHANGED <<jar, page, answer, faults>>

-----------------------------------------------------------------------------
(* The statements of a request and the answer each one may end it with.  A
   write that fails, or whose result is lost, is answered 500. *)

Fails(p) == Replies(p, Plain("internal_error")) /\ Fault

AnswerReuse(p) ==
  /\ RevokeChain(p)
  /\ \/ /\ <<"session_revoked", job[p].chain>> \in told'
        /\ Replies(p, Plain("session_revoked"))
        /\ NoFault
     \/ told' = told /\ Fails(p)

Proceed(p) ==
  /\ RevokeOld(p) \/ Create(p)
  /\ IF pc'[p] = "idle" THEN Fails(p) ELSE (UNCHANGED answer /\ NoFault)

\* Mutant: the handler answers 200 but does not set the new cookie.
AnswerTokensWithoutCookie(p) ==
  /\ Sign(p)
  /\ Replies(p, Tokens(IF parent[job[p].tok] = None THEN job[p].tok ELSE parent[job[p].tok],
                       <<job[p].user, job[p].chain>>))
  /\ NoFault

AnswerTokens(p) ==
  /\ Sign(p)
  /\ Replies(p, Tokens(job[p].tok, <<job[p].user, job[p].chain>>))
  /\ NoFault

\* The handler does not look at the error: 204 in any case.
AnswerLogout(p) ==
  /\ LogoutRevoke(p)
  /\ Replies(p, Plain("no_content"))
  /\ IF Active(rows', job[p].tok) THEN Fault ELSE NoFault

AnswerLogoutAll(p) ==
  /\ RevokeAll(p)
  /\ \/ /\ \A c \in Chain : owner[c] = job[p].user => <<"logged_out_all", c>> \in told'
        /\ Replies(p, Plain("no_content"))
        /\ NoFault
     \/ told' = told /\ Fails(p)

\* No fault is needed to refuse the row of a user who is gone.
AnswerFailure(p) ==
  /\ Abandon(p)
  /\ Replies(p, Plain("internal_error"))
  /\ IF pc[p] = "create" /\ job[p].user \notin users THEN NoFault ELSE Fault

ServerStep(p) ==
  /\ \/ AnswerReuse(p)
     \/ Proceed(p)
     \/ AnswerTokens(p)
     \/ AnswerLogout(p)
     \/ AnswerLogoutAll(p)
     \/ AnswerFailure(p)
  /\ UNCHANGED <<jar, page, waiting, calm>>

-----------------------------------------------------------------------------
(* Answers *)

\* Mutant: the cookie is set on another path than the one the browser has, which
\* is kept and sent first.
CookieAfterOnOtherPath(r) ==
  CASE r.code = "tokens" -> IF jar = None THEN r.tok ELSE jar
    [] r.code = "no_content" -> None
    [] OTHER -> jar

\* setRefreshCookie, clearRefreshCookie, and errors that leave the cookie alone.
CookieAfter(r) ==
  CASE r.code = "tokens" -> r.tok
    [] r.code = "no_content" -> None
    [] OTHER -> jar

PageAfter(r) ==
  CASE r.code = "tokens" -> r.acc
    [] r.code = "internal_error" -> page
    [] OTHER -> None

Deliver(p) ==
  /\ answer[p] # None
  /\ jar' = CookieAfter(answer[p])
  /\ page' = PageAfter(answer[p])
  /\ answer' = [answer EXCEPT ![p] = None]
  /\ waiting' = waiting \ {p}
  /\ UNCHANGED <<vars, calm, faults>>

\* The browser stops waiting, or the connection breaks: the server may still
\* be at work, and an answer on its way is lost.
GiveUp(p) ==
  /\ p \in waiting
  /\ Fault
  /\ answer' = [answer EXCEPT ![p] = None]
  /\ waiting' = waiting \ {p}
  /\ UNCHANGED <<vars, jar, page, calm>>

\* The page is loaded anew: its memory is gone, the cookie is not.
Reload ==
  /\ page # None
  /\ Fault
  /\ page' = None
  /\ answer' = [p \in Proc |-> None]
  /\ waiting' = {}
  /\ UNCHANGED <<vars, jar, calm>>

\* Access tokens do not expire here: only LogoutAll asks for one (AccessTokens).
World ==
  /\ \/ \E t \in Token : TokenExpires(t)
     \/ \E u \in users : DeleteUser(u)
  /\ UNCHANGED browser

ClientNext ==
  \/ \E p \in Proc : \/ SignIn(p) \/ Rotate(p) \/ SignOut(p) \/ SignOutAll(p)
                     \/ ServerStep(p)
                     \/ Deliver(p) \/ GiveUp(p)
  \/ Reload
  \/ World

\* The server works on every request and answers travel; whoever is signed out
\* keeps trying to log in, and a page that is signed in refreshes now and then.
Fairness ==
  /\ \A p \in Proc : WF_clientVars(ServerStep(p)) /\ WF_clientVars(Deliver(p))
  /\ SF_clientVars(\E p \in Proc : SignIn(p))
  /\ SF_clientVars(\E p \in Proc : Rotate(p))

ClientSpec == ClientInit /\ [][ClientNext]_clientVars /\ Fairness

-----------------------------------------------------------------------------
(* Properties *)

\* A browser whose requests come one at a time and all end well is never told
\* session_revoked: rotation punishes no honest client (auth_service.go:111-121).
NoFalseAlarm ==
  Smooth => \A p \in Proc : answer[p] # None => answer[p].code # "session_revoked"

\* Of such a browser, nothing usable is left on the server but the token in its
\* jar: none beside it, none after logout (auth_handler.go Refresh, Logout,
\* LogoutAll).
JarHoldsTheSession ==
  Smooth /\ Quiet => \A t \in Token : Usable(rows, t) => jar = t

\* As long as no two requests overlap, and whatever fails or is lost, a session
\* has one active token and the answers that end sessions are true.
CalmSessions == calm => OneActivePerSession /\ ReuseEndsSession /\ LogoutAllEndsSessions

Healthy == page # None /\ jar # None /\ Usable(rows, jar)

\* A token expires before the answer that brings it arrives.
TooLate ==
  \E p \in Proc : /\ answer[p] # None /\ answer[p].code = "tokens"
                  /\ Active(rows, answer[p].tok) /\ rows[answer[p].tok].expired

\* Races, lost answers, failures, expiry and reuse may cost the browser its
\* session, any number of times, but never leave it stuck: time and again it holds
\* a usable token, unless the user is deleted or tokens keep expiring under
\* way.  It takes fresh tokens and sessions for ever (README: the client must
\* re-authenticate; auth_handler.go respondAuthError, setRefreshCookie).
Recovers == []<>(Healthy \/ TooLate \/ users = {})
=============================================================================

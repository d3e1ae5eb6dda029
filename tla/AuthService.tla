----------------------------- MODULE AuthService -----------------------------
(***************************************************************************)
(* Login, refresh, logout and logout-all: the handlers of                  *)
(* internal/handlers/auth_handler.go with the AuthService methods they     *)
(* call, over the refresh_tokens table.  Each Proc is one goroutine that   *)
(* serves one request at a time, in any instance of the server; the table  *)
(* is all they share.  No transaction spans a request, so a step is one    *)
(* database statement together with the in-memory work next to it, and     *)
(* anything may happen between two statements of a request.                *)
(*                                                                         *)
(* A write that fails is one of two things: it was not applied, and the    *)
(* request ends as in Abandon; or it was applied and only its result was   *)
(* lost, and the request ends with the write in place.  A request that is  *)
(* refused before its first write (bad JSON, no cookie, no such user,      *)
(* wrong password, unknown or expired token) changes nothing: no action.   *)
(***************************************************************************)
EXTENDS RefreshTokens

CONSTANT Proc

VARIABLES
  users,   \* the rows of the users table
  rows,    \* the refresh_tokens table
  owner,   \* chain -> the user who opened it by a login, or None (uuid.New is fresh)
  minted,  \* tokens ever inserted (GenerateRefreshToken is fresh)
  parent,  \* history: token -> the token it was rotated from, or None
  held,    \* refresh tokens some client has received in a cookie
  access,  \* <<user, chain>> of the unexpired access tokens clients hold
  told,    \* history: which <<answer, token or chain>> clients were given
  pc,      \* proc -> the statement its request runs next
  job      \* proc -> the locals of its request

vars == <<users, rows, owner, minted, parent, held, access, told, pc, job>>

MaybeToken == Token \cup {None}

Job == [tok: MaybeToken, user: User \cup {None}, chain: Chain \cup {None}]

NoJob == [tok |-> None, user |-> None, chain |-> None]

Label == {"idle", "revoke_chain", "revoke_old", "create", "sign", "logout_revoke", "revoke_all"}

Answer == ({"session_revoked", "logged_out_all"} \X Chain) \cup ({"logged_out"} \X Token)

TypeOK ==
  /\ users \subseteq User
  /\ rows \in Table
  /\ owner \in [Chain -> User \cup {None}]
  /\ minted \subseteq Token
  /\ parent \in [Token -> MaybeToken]
  /\ held \subseteq minted
  /\ access \subseteq User \X Chain
  /\ told \subseteq Answer
  /\ pc \in [Proc -> Label]
  /\ job \in [Proc -> Job]

Init ==
  /\ users = User
  /\ rows = EmptyTable
  /\ owner = [c \in Chain |-> None]
  /\ minted = {}
  /\ parent = [t \in Token |-> None]
  /\ held = {}
  /\ access = {}
  /\ told = {}
  /\ pc = [p \in Proc |-> "idle"]
  /\ job = [p \in Proc |-> NoJob]

-----------------------------------------------------------------------------
(* Control: where a request goes next, with which locals. *)

Goto(p, l, j) == pc' = [pc EXCEPT ![p] = l] /\ job' = [job EXCEPT ![p] = j]

Return(p) == Goto(p, "idle", NoJob)

RowJob(t) == [tok |-> t, user |-> rows[t].user, chain |-> rows[t].chain]

clients == <<held, access>>
ledger == <<owner, minted, parent>>

-----------------------------------------------------------------------------
(* Login: GetByEmail finds the user and bcrypt accepts the password. *)

Login(p, u) ==
  /\ pc[p] = "idle"
  /\ u \in users
  /\ Goto(p, "create", [NoJob EXCEPT !.user = u])
  /\ UNCHANGED <<users, rows, ledger, clients, told>>

(* Refresh: GetByHash, then the tests of revoked_at and expires_at on the
   row it returned.  The row is not read again. *)

\* Mutant: revoked_at is not looked at.
RefreshIgnoringRevocation(p, t) ==
  /\ pc[p] = "idle"
  /\ rows[t] # None /\ ~rows[t].expired
  /\ Goto(p, "revoke_old", RowJob(t))
  /\ UNCHANGED <<users, rows, ledger, clients, told>>

\* Mutant: expires_at is not looked at.
RefreshIgnoringExpiry(p, t) ==
  /\ pc[p] = "idle"
  /\ rows[t] # None
  /\ \/ rows[t].revoked /\ Goto(p, "revoke_chain", RowJob(t))
     \/ Active(rows, t) /\ Goto(p, "revoke_old", RowJob(t))
  /\ UNCHANGED <<users, rows, ledger, clients, told>>

Refresh(p, t) ==
  /\ pc[p] = "idle"
  /\ rows[t] # None
  /\ \/ rows[t].revoked /\ Goto(p, "revoke_chain", RowJob(t))
     \/ Usable(rows, t) /\ Goto(p, "revoke_old", RowJob(t))
  /\ UNCHANGED <<users, rows, ledger, clients, told>>

\* Mutant: only the presented token is revoked, not its chain.
RevokeTokenOnly(p) ==
  /\ pc[p] = "revoke_chain"
  /\ rows' = Revoke(rows, {job[p].tok})
  /\ told' = told \cup {<<"session_revoked", job[p].chain>>}
  /\ Return(p)
  /\ UNCHANGED <<users, ledger, clients>>

RevokeChain(p) ==
  /\ pc[p] = "revoke_chain"
  /\ rows' = Revoke(rows, InChain(rows, job[p].chain))
  /\ told' \in {told, told \cup {<<"session_revoked", job[p].chain>>}}
  /\ Return(p)
  /\ UNCHANGED <<users, ledger, clients>>

\* Mutant: every error of the UPDATE is swallowed, not only ErrNoRows.
RevokeOldIgnoringErrors(p) ==
  /\ pc[p] = "revoke_old"
  /\ rows' \in {rows, Revoke(rows, {job[p].tok})}
  /\ Goto(p, "create", job[p])
  /\ UNCHANGED <<users, ledger, clients, told>>

\* RevokeRefreshToken swallows ErrNoRows: the request goes on whether or not
\* this UPDATE is the one that revoked the row.
RevokeOld(p) ==
  /\ pc[p] = "revoke_old"
  /\ rows' = Revoke(rows, {job[p].tok})
  /\ Goto(p, "create", job[p]) \/ Return(p)
  /\ UNCHANGED <<users, ledger, clients, told>>

-----------------------------------------------------------------------------
(* issueRefreshAndAccess: a login draws a fresh chain id, a refresh keeps
   the chain of the row it read.  The foreign key refuses a user who is gone. *)

FreshTokens == Token \ minted

\* Mutant: a login may reuse a chain id.
JobChainsReused(p) == IF job[p].chain = None THEN Chain ELSE {job[p].chain}

JobChains(p) == IF job[p].chain = None THEN {c \in Chain : owner[c] = None} ELSE {job[p].chain}

Create(p) ==
  /\ pc[p] = "create"
  /\ job[p].user \in users
  /\ \E t \in FreshTokens, c \in JobChains(p) :
       /\ rows' = Insert(rows, t, job[p].user, c)
       /\ owner' = [owner EXCEPT ![c] = job[p].user]
       /\ minted' = minted \cup {t}
       /\ parent' = [parent EXCEPT ![t] = job[p].tok]
       /\ Goto(p, "sign", [job[p] EXCEPT !.tok = t, !.chain = c]) \/ Return(p)
  /\ UNCHANGED <<users, clients, told>>

\* Sign the access token and answer 200 with the cookie and the body.
Sign(p) ==
  /\ pc[p] = "sign"
  /\ held' = held \cup {job[p].tok}
  /\ access' = access \cup {<<job[p].user, job[p].chain>>}
  /\ Return(p)
  /\ UNCHANGED <<users, rows, ledger, told>>

-----------------------------------------------------------------------------
(* Logout answers 204 whatever its service call returned: a lookup that
   finds no row or fails, an UPDATE that is applied or not. *)

LoggedOut(t) == told' = told \cup {<<"logged_out", t>>}

Logout(p, t) ==
  /\ pc[p] = "idle"
  /\ \/ rows[t] # None /\ Goto(p, "logout_revoke", RowJob(t)) /\ UNCHANGED told
     \/ LoggedOut(t) /\ UNCHANGED <<pc, job>>
  /\ UNCHANGED <<users, rows, ledger, clients>>

LogoutRevoke(p) ==
  /\ pc[p] = "logout_revoke"
  /\ rows' \in {rows, Revoke(rows, {job[p].tok})}
  /\ LoggedOut(job[p].tok)
  /\ Return(p)
  /\ UNCHANGED <<users, ledger, clients>>

(* LogoutAll: the Auth middleware takes the user id from a valid access token. *)

LogoutAll(p, a) ==
  /\ pc[p] = "idle"
  /\ Goto(p, "revoke_all", [NoJob EXCEPT !.user = a[1]])
  /\ UNCHANGED <<users, rows, ledger, clients, told>>

RevokeAll(p) ==
  /\ pc[p] = "revoke_all"
  /\ rows' = Revoke(rows, OfUser(rows, job[p].user))
  /\ told' \in {told, told \cup {<<"logged_out_all", c>> : c \in {d \in Chain : owner[d] = job[p].user}}}
  /\ Return(p)
  /\ UNCHANGED <<users, ledger, clients>>

-----------------------------------------------------------------------------
(* A statement fails unapplied, the context is cancelled, the response is
   lost, the handler panics or the process dies: nothing more is written. *)

Abandon(p) ==
  /\ pc[p] # "idle"
  /\ Return(p)
  /\ UNCHANGED <<users, rows, ledger, clients, told>>

(* What happens around the requests.  The expires_at of a revoked row is
   never asked for, so only a usable row expires. *)

TokenExpires(t) ==
  /\ Usable(rows, t)
  /\ rows' = Expire(rows, t)
  /\ UNCHANGED <<users, ledger, clients, told, pc, job>>

AccessExpires(a) ==
  /\ access' = access \ {a}
  /\ UNCHANGED <<users, rows, ledger, held, told, pc, job>>

DeleteUser(u) ==
  /\ users' = users \ {u}
  /\ rows' = Cascade(rows, u)
  /\ UNCHANGED <<ledger, clients, told, pc, job>>

Serve(p) ==
  \/ \E u \in User : Login(p, u)
  \/ \E t \in held : Refresh(p, t)
  \/ RevokeChain(p)
  \/ RevokeOld(p)
  \/ Create(p)
  \/ Sign(p)
  \/ \E t \in held : Logout(p, t)
  \/ LogoutRevoke(p)
  \/ \E a \in access : LogoutAll(p, a)
  \/ RevokeAll(p)
  \/ Abandon(p)

Next ==
  \/ \E p \in Proc : Serve(p)
  \/ \E t \in Token : TokenExpires(t)
  \/ \E a \in access : AccessExpires(a)
  \/ \E u \in users : DeleteUser(u)

Spec == Init /\ [][Next]_vars

-----------------------------------------------------------------------------
(* The sessions, seen through SessionLedger.  A grant is a refresh that has
   judged its row and not yet inserted the successor. *)

Granted == {"revoke_old", "create"}

SessionLive == [c \in Chain |-> {t \in InChain(rows, c) : Usable(rows, t)}]

SessionGrants ==
  [c \in Chain |-> {<<p, job[p].tok>> : p \in {q \in Proc : pc[q] \in Granted /\ job[q].chain = c}}]

Ledger == INSTANCE SessionLedger
  WITH Client <- Proc, Session <- Chain,
       opened <- {c \in Chain : owner[c] # None},
       live <- SessionLive, grants <- SessionGrants

(* Where the sessions meet the access tokens. *)

OpenSessions == {c \in Chain : ~Ledger!Over(c)}

Signings == {<<p, job[p].chain>> : p \in {q \in Proc : pc[q] = "sign"}}

Accessible == {a[2] : a \in access}

Access == INSTANCE SessionAccess
  WITH Signer <- Proc, Session <- Chain,
       open <- OpenSessions, signing <- Signings, access <- Accessible

-----------------------------------------------------------------------------
(* Properties *)

\* Login, rotation, reuse detection, logout and expiry, however interleaved
\* and wherever they fail, do to each session only what the ledger allows: a
\* successor is minted only for a request that saw its predecessor live, once,
\* and after the predecessor was revoked (auth_service.go Refresh).
ImplementsLedger == Ledger!Spec

\* Once a session has no live token and no refresh past its judgement, no
\* order of late requests brings it back (auth_service.go RevokeChain, Logout,
\* LogoutAll): what revocation does guarantee under concurrency.
OverIsFinal == Ledger!OverIsFinal

\* What AccessTokens takes for granted of sessions is what the service does: it
\* signs only for a session that was open at the INSERT before, and a session
\* that has ended is never signed for anew (auth_service.go:172-197).
ImplementsAccess == Access!Spec

\* Once a session has ended and no request is left between INSERT and Sign, no
\* order of late requests gets a client another access token of it
\* (auth_service.go issueRefreshAndAccess).
QuietIsFinal == Access!QuietIsFinal

\* A rotated token is never active once its successor exists, whatever other
\* requests did to the row in between (auth_service.go:127-133, revoke first).
PredecessorRevoked ==
  \A t \in Token : parent[t] # None => ~Active(rows, parent[t])

\* Rows, access tokens and requests of a chain all carry the user who opened
\* it, so logout-all by user id and revocation by chain id agree on what they
\* cover; and no row outlives its user, even when the user is deleted between
\* a request's lookup and its insert (00002_refresh_tokens.sql:5).
SessionsKeepTheirOwner ==
  /\ \A t \in Token : rows[t] # None =>
       rows[t].user \in users /\ rows[t].user = owner[rows[t].chain]
  /\ \A a \in access : owner[a[2]] = a[1]
  /\ \A p \in Proc : job[p].chain # None => owner[job[p].chain] = job[p].user

\* A session has at most one active token.
OneActivePerSession ==
  \A c \in Chain : \A s, t \in InChain(rows, c) :
    Active(rows, s) /\ Active(rows, t) => s = t

\* After "session_revoked" no token of the chain is active (README: reuse
\* revokes the entire session chain and the client must re-authenticate).
ReuseEndsSession ==
  \A c \in Chain : <<"session_revoked", c>> \in told =>
    \A t \in InChain(rows, c) : ~Active(rows, t)

\* After logout-all answered 204 no token of a session that existed then is
\* active (README: revokes all refresh tokens for the user).
LogoutAllEndsSessions ==
  \A c \in Chain : <<"logged_out_all", c>> \in told =>
    \A t \in InChain(rows, c) : ~Active(rows, t)

\* After logout answered 204 the token in the cookie is not active
\* (auth_handler.go:131, README: revokes the current refresh token).
LogoutEndsToken ==
  \A t \in Token : <<"logged_out", t>> \in told => ~Active(rows, t)

\* A token is rotated into at most one successor (auth_service.go:95-96:
\* revoking the old row, issuing a new one in the same chain).
OneSuccessorPerToken ==
  \A s, t \in Token : parent[s] # None /\ parent[s] = parent[t] => s = t

-----------------------------------------------------------------------------
(* The inductive invariant behind the theorems of AuthServiceProofs. *)

\* Only minted tokens have rows, predecessors or successors.
MintedOnly ==
  \A t \in Token :
    /\ rows[t] # None => t \in minted
    /\ parent[t] # None => t \in minted /\ parent[t] \in minted

\* The locals each statement of a request relies on.  The last conjunct is
\* what makes rotation safe: no row is active again once its UPDATE ran.
JobsMatchLabels ==
  \A p \in Proc :
    /\ pc[p] \in {"revoke_chain", "revoke_old", "logout_revoke", "sign"} =>
         job[p].tok \in minted /\ job[p].chain \in Chain /\ job[p].user \in User
    /\ pc[p] = "create" =>
         /\ job[p].user \in User
         /\ job[p].tok = None <=> job[p].chain = None
         /\ job[p].tok # None => job[p].tok \in minted /\ ~Active(rows, job[p].tok)
    /\ pc[p] = "revoke_all" => job[p].user \in User
    /\ job[p].chain # None => job[p].user # None

\* Every part of the argument together; each step of the service preserves it.
Inv ==
  /\ TypeOK
  /\ MintedOnly
  /\ JobsMatchLabels
  /\ PredecessorRevoked
  /\ SessionsKeepTheirOwner
=============================================================================

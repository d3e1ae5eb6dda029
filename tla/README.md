# Verification of gostartv2

TLA+ models of the gostartv2 API server, checked with TLC on small instances
and proved with TLAPS for every size. The reference is the source at this
commit; paths below are relative to the repository.

## The system

An HTTP API over PostgreSQL: registration and CRUD of users, and sessions made
of JWT access tokens and rotating refresh tokens. Every request is a goroutine
of `net/http`; any number of server processes may share one database. **No
request uses a transaction**: `Repositories.WithTx` has no caller, so each SQL
statement commits on its own and everything may happen between two of them.

| Component | State | Operations | Model |
|---|---|---|---|
| refresh token store (`internal/repositories/refresh_token_repository.go`, sqlc, migration 2) | table `refresh_tokens` | insert, find by hash, revoke one / a chain / a user's, cascade | `RefreshTokens` |
| auth service and handlers (`services/auth_service.go`, `handlers/auth_handler.go`) | locals of each request; the cookie and the tokens at the client | login, refresh, logout, logout-all; which answer, which cookie | `AuthService`, abstract `SessionLedger` and `SessionAccess`; with a browser, `SessionClient` |
| user service and handlers (`services/user_service.go`, `handlers/user_handler.go`, repository, sqlc, migration 1) | table `users` | create, get, list, update, delete | `UserAccounts`, `UserListing` |
| access tokens (`auth/jwt.go`, `middleware/auth.go`) | none on the server but its clock and configuration | sign, verify | `AccessTokens`, joined to the sessions by `SessionAccess` |
| configuration (`config/config.go`) | the environment and `.env` at start | load, validate | `Config`, composed with `AccessTokens` |
| transactions (`repositories/repositories.go`) | a transaction and its connection per call, the pool | `WithTx` | `UnitOfWork`, abstract `AtomicCalls` |
| rate limiter (`middleware/ratelimit.go`) | map address -> token bucket under a mutex | one check per request | `RateLimit`, abstract `AddressBuckets` |
| process (`cmd/api/main.go`, `server/server.go`, `database/database.go`) | goroutines `main` and `gracefulShutdown`, listener, pool, `done` channel | start, serve, drain, close, exit | `Lifecycle` |
| router, other middleware, responses, logging, migrations, generated interfaces, test support | - | - | not modelled, see below |

How they interact: handlers call services, services call repositories, and
these run one statement per call. Refresh tokens refer to users by a foreign
key with `ON DELETE CASCADE`. The rate limiter sits before `POST /auth/login`
and `POST /users`; the auth middleware before logout-all and the user routes.
Access tokens and the rows of `refresh_tokens` meet only at the end of
`issueRefreshAndAccess`, which signs one after inserting the other. Shutdown
ends the process under whatever requests are left.

What is hard, and what correctness means for it:

- *Rotation under concurrency.* Refresh reads a row, judges it, revokes it and
  inserts a successor, in three statements. A token that was rotated must never
  be active again; nobody may get a successor for a token that was not live
  when judged; a session that is over must stay over.
- *Answers that end sessions* (reuse detected, logout, logout-all): what may
  still be active afterwards, with other requests in flight and statements that
  fail.
- *The browser's side of rotation.* A cookie that is one answer behind looks
  like theft. An honest client must not be punished, nothing usable may be left
  beside its cookie, and it must always be able to get back in.
- *Access tokens outlive what they were signed for*: clocks that differ,
  fractions of seconds that are cut, secrets that change with a deployment.
- *Identity.* Rows, access tokens and requests of a session must all name the
  user who logged in, also when users rename, are deleted, or somebody takes
  over an email in the middle of a login.
- *Transactions* whose function fails, panics or exits, whose context ends at
  any time and whose commit may be applied without an answer; and the pool.
- *Partial updates* of one user by several requests.
- *Pagination* over a table that changes between pages.
- *Token buckets* under racing first requests.
- *Shutdown*: two goroutines, a timer, signals at any time, hung requests.

The full list, with the line where each bites and the property for it, is
`hazards` in `PROJECT.json`.

## Modules and how they correspond to the code

A definition's source lines are in `map` of `PROJECT.json`. Operators whose
comment begins with "Mutant:" are plausible bugs used to show that a property
can fail; no specification uses them.

**RefreshTokens.** The table as a function from tokens to rows (or `None`) and
one operator per statement. A token stands for its plaintext, hash and row id
at once. `revoked_at` and `expires_at` become two flags: the code never asks
for more than "is it set" and "has it passed".

**AuthService.** `pc[p]` is the next statement of request `p`, `job[p]` its
locals. A step is one statement and the in-memory work next to it:

| Code | Actions |
|---|---|
| `Login`: lookup and bcrypt; `issueRefreshAndAccess` | `Login`, `Create`, `Sign` |
| `Refresh`: `GetByHash` and the two tests; `RevokeChain` on reuse; `Revoke`; `issueRefreshAndAccess` | `Refresh`, `RevokeChain`, `RevokeOld`, `Create`, `Sign` |
| `Logout` | `Logout`, `LogoutRevoke` |
| `LogoutAll` | `LogoutAll`, `RevokeAll` |
| an error, a cancelled context, a panic, the death of the process | `Abandon`, and the second outcome of each write (applied, but its result lost) |
| clock, user deletion | `TokenExpires`, `AccessExpires`, `DeleteUser` |

`told` records the answers clients were given, `parent` which token was rotated
into which; neither is read by an action's guard. `Sign` may hand the token to
the client or the response may be lost (`Abandon` at `"sign"`). Logout answers
204 whatever happened, because its handler drops the service's error. Requests
that are refused before their first write change nothing and have no action
here; `SessionClient` has their answers.

**SessionLedger** says what rotation promises without requests or rows: a
session is opened once; a live token may be granted successors; each grant is
minted at most once, after its predecessor stopped being live; everything else
only takes away. It deliberately lets two clients be granted a successor of the
same token: that is what the code does (`refresh_race`). `AuthService` maps
onto it with `INSTANCE`: live tokens are the usable rows of a chain, grants the
refreshes between their judgement and their INSERT.

**SessionAccess** is the seam between sessions and access tokens, seen from both
sides. A request that has put a refresh token into an open session goes on to
sign an access token for it, even if the session ends meanwhile; a session that
has ended never opens again. `AuthService` implements it: a session is open
while it is not over in the ledger, and a request at `"sign"` is signing.
`AccessTokens` takes its steps as its environment: `Issue`, `Sign` and the ends
of sessions are conjunctions with those of this module. So what `AccessTokens`
assumes of the service is not an assumption but a theorem.

**SessionClient** EXTENDS `AuthService` and composes it with one browser: the
`refresh_token` cookie (`jar`), the access token in the page's memory (`page`),
the requests it waits for and the answers on their way. Each action conjoins an
action of the service with the handler's answer: `AnswerReuse`, `AnswerTokens`,
`AnswerLogout`, `AnswerLogoutAll`, `AnswerFailure`, and `Rotate` and `SignOut`
for answers given after the first lookup. `CookieAfter` is
`setRefreshCookie`, `clearRefreshCookie` and `respondAuthError`, which leaves
the cookie alone. Answers are delivered in any order, lost, or come when nobody
waits any more; the page may be reloaded. `calm` (no overlapping requests) and
`faults` (failures, lost answers, reloads) are history: the properties say what
holds under which of them. The browser is not in the repository; it is the
client the handlers' comments and the README describe.

**Config** is `Load` and `Validate` as operators on an environment (the
process's variables and those of `.env`): which value wins, when a fallback
applies, what a refused start names. `strings` and `time` conversions are
constants, functions on the texts they accept.

**AccessTokens** EXTENDS `Config`: servers load a configuration, sign and
verify, stop, are repaired by an operator who sets just what the report names,
and are deployed anew, with clocks that differ by a fixed skew. Time goes in
ticks, `Second` of them to a second, because `jwt.NewNumericDate` cuts to
seconds. `Verify(s, t)` is the error of `Verifier.Verify`, `Auth(s, t)` what the Auth
middleware makes of it; as a request with a token changes nothing, they are
operators, and the properties ask them about every server and every token in
every state. Sessions open, end and sign as `SessionAccess` says; the signer is
a whole server, whose stop gives up all it was signing.

**UnitOfWork.** One process per call of `WithTx`: `BeginTx` (waits for the
pool), the function (its statements fail or not; it returns, panics or exits),
`Rollback` or `Commit`, and the goroutine of `database/sql` that rolls back
when the context ends. The function is the caller's, so its end is free. What
`database/sql` and PostgreSQL do is modelled from how `WithTx` uses them: a
transaction in which a statement failed cannot commit, a commit's result may be
lost after it was applied. **AtomicCalls** is the promise: the statements
of a call take effect together or not at all, the answer `nil` only if they
did, and an error, a panic or an exit only if they did not; an error of the commit itself says
nothing. `WithTx` has no caller outside the tests, so this model stands by
itself.

**UserAccounts.** Two steps per request, before and with its last statement;
bcrypt runs in between. The unique index on `email`, `COALESCE` in the UPDATE
and the foreign key are the guards of the statements. `name` behaves like
`password_hash` and is left out.

**UserListing.** The rows by the order of `(created_at, id)`, the WHERE clause,
ORDER BY and LIMIT, `parseLimit`, `parseCursor`, the clamp and `NextCursor`,
and one client that walks the list. Since `created_at` is the start of the
inserting transaction, rows may appear with any stamp. A mangled cursor gives
the first page, as in the code. `pages`, counted up to the bound `MaxPages`, is
history for `PagesPay`.

**RateLimit.** `Get` is the mutex-protected lookup, `Allow` the check after it.
Time goes in ticks of which `Cost` make one token, so that fractions count.
`golang.org/x/time/rate` is external; its `Allow` is taken to be one atomic step
on the bucket at the time of the call. `admitted` is the history the properties
speak about, cumulative, so that a window's count is a difference.
**AddressBuckets** is the limiter as a client sees it, without map, mutex or
limiters: every address has had a bucket from the beginning, it refills every
tick, and it alone answers. `RateLimit` maps onto it: an address without a limiter
is one whose bucket is full, a limiter's bucket holds what `Level` would reckon now.

**Lifecycle.** One action per blocking point of `main` and `gracefulShutdown`.
External: `Shutdown` closes the listener at once and waits for running
requests or its deadline, `ListenAndServe` returns meanwhile; a signal nobody
is registered for kills; a closed pool fails later queries.

The `MC*` modules hold only sets, symmetries and orders for TLC, and
`MCSessionClient` the reuse of identities described under the bounds; the `*Proofs`
modules the theorems.

## Runs

| Run | Shows | Bounds |
|---|---|---|
| `auth_sessions` | a rotated token is never active; rows, access tokens and requests name the session's owner; the inductive invariant of the proofs, types among it; `AuthService` implements `SessionLedger` and `SessionAccess`; a session that is over stays over | 2 requests, 2 users, 1 session, 3 tokens |
| `session_client` | without overlaps and faults no false alarm and nothing usable beside the jar; without overlaps the answers that end sessions are true; a usable session comes back after every loss | 2 requests, 1 user, any number of logins, 3 sessions and 4 tokens at a time, 1 fault |
| `access_tokens` | accepted not past the TTL, served until a second before `expires_in`, over with the session plus TTL and skew, verdicts only age; production trusts no short secret; two repairs suffice | 2 servers, skew 1 tick, 3 environments, 1 token, seconds of 2 ticks, 8 ticks |
| `unit_of_work` | `WithTx` implements `AtomicCalls`; answers agree with the database; connections are accounted for and come back, and every call is answered | 3 calls, 2 connections, 2 calls with contexts that never end |
| `user_walk` | no user twice, nobody missed, no page that brings nobody but the last, the walk ends | 4 users, 2 stamps, limits 1, 3 and an oversized one, 1 mangled cursor, pages counted to 6 |
| `user_accounts` | partial updates do not undo each other; deleted users stay deleted; sessions match credentials | 2 requests, 2 users, 2 emails, 2 passwords |
| `rate_limit` | `RateLimit` implements `AddressBuckets`; the bound of every window; a refusal is justified by some window | 2 addresses, 2 requests, burst 2, 2 ticks per token, 6 ticks |
| `lifecycle` | exit only after close; cuts only when forced; no wake-up is lost; the process ends once signalled | 3 requests, 2 signals |

Runs that find the code to disagree with its documentation:

| Run | The disagreement |
|---|---|
| `refresh_race` | two concurrent refreshes of one token both succeed: `Revoke` swallows "no row changed", so the session forks instead of being revoked as reuse |
| `reuse_race` | a refresh between its UPDATE and its INSERT leaves an active token in a chain whose reuse was just answered with `session_revoked` |
| `logout_failure` | logout answers 204 and clears the cookie when the database failed and the token is still active |
| `client_ip_limit` | the limiter's key includes the port: the limit is per connection, not per client IP |

Why the bounds are enough to be interesting:

- Races in the session service need two requests and show with two (each
  violation above does, within ten steps); three tokens make a rotation, its
  replay and a second rotation. Two users are there so that one may delete or
  log out beside the other.
- In `session_client` one fault is enough for a lost answer, a failed
  statement after the cookie was consumed, or a reload, at any time; races and
  expiry cost sessions without any. Logins must not be counted: if identities
  ran out, `Recovers` would be void from the last login on. So `MCSessionClient` uses
  them again. `Forget` drops a token that neither the jar nor a request
  nor an answer refers to - the browser can never present it again - with its
  row, and a session without rows, from the table and from the histories. A usable
  row of a calm browser is kept, as the invariants ask about it. `Forget` changes
  nothing the browser or a request can see, so it may come first (`ForgetFirst`); with
  one fault three sessions and four tokens are then always enough. Liveness rules
  out `SYMMETRY`, so fresh identities are drawn in numeric order (`DrawLeast`).
  Both action constraints cut only renamings and reorderings of
  behaviours that are kept; the model has no other bound on how long a browser
  goes on.
- The properties of `AccessTokens` speak of one token at a time and tokens
  do not act on each other, so one token of one session is as general as many.
  The three environments hold a short secret, a wildcard, an empty variable
  that hides the file's, a duration that does not parse and one that is no
  whole number of seconds. Eight ticks see the longest TTL run out.
- Three calls over two connections make one wait; with two contexts that never
  end the pool can be lost to exits, and with one that ends it cannot.
- Four rows and limits of one to three give ties, full and partial last pages,
  and cursors whose row is gone. With four users `PagesPay` allows five pages,
  one less than are counted.
- Six ticks are three tokens: buckets run empty, refill in part, and refill up
  to the burst.

Elsewhere sizes bound how many identities are used up in a run, and the theorems
remove them for everything but liveness. `CHECK_DEADLOCK FALSE` stands where a
run really comes to an end: identities used up, users deleted, calls answered,
the process over.

### Fairness

The session service, the user service, the access tokens and the limiter have
safety properties only: their specifications assume no fairness, because a
request may be abandoned at any point. The others:

- `SessionClient`: weak fairness of each request's next step (handlers have no
  waits but statements, which end) and of the delivery of its answer. Strong fairness of `SignIn` and
  of `Rotate`: whoever is signed out keeps trying to log in, and a signed-in
  page refreshes now and then, even if other requests keep getting in between.
  Nothing is assumed of logouts, faults, expiry or deletion. `Recovers` gives up
  only when the user is gone, or when tokens keep expiring before the answers that
  bring them arrive (`TooLate`), as they may with a tiny TTL.
- `UnitOfWork`: weak fairness of a call's own steps and of `database/sql`'s
  rollback goroutine; a request's context ends once it was served, as
  `net/http` cancels it. Strong fairness of `Begin`, because the pool picks
  among its waiters at random, so that nobody is passed over for ever.
- `UserListing`: the client keeps asking for the next page; no more is needed,
  whoever else writes.
- `Lifecycle`: weak fairness of the two goroutines (the Go scheduler) and of
  the five-second timer; nothing of requests, which have no deadline, nor of
  signals.

## Observations without a run

Smaller things the models made visible. The properties that hold are stated so
that these remain allowed.

- *Logout-all races like reuse.* A refresh past its UPDATE inserts its successor
  after the 204 of logout-all. It is the mechanism of `reuse_race`;
  `CalmSessions` says the answer is true when requests do not overlap.
- *A 401 leaves the cookie in the jar* (`auth_handler.go:245-262`): the browser
  goes on presenting a token that is dead until it logs in.
- *A logout that overtakes the answer of a refresh* is undone by it: the older
  answer puts an active token into the cleared jar.
- *A reload* leaves an active token in the jar that the page cannot use, since
  refresh insists on an `Authorization` header and the access token is gone. The
  login that follows strands that session until it expires.
- *Logout-all elsewhere* makes a browser's next refresh look like reuse: it is
  told `session_revoked`. `NoFalseAlarm` is about a client that is alone.
- *`ErrRefreshTokenRevoked`* is documented as covering a revoked row as well
  (`auth/errors.go:18-21`); for one, the code returns `ErrRefreshTokenReuse`.
- *`Validate`* says it reports "every missing required value in a single error"
  (`config.go:130-132`) but returns at the wildcard, dropping what it has
  collected; `TwoRoundsAtMost` is what does hold. Its `DB_*` tests can never
  fire, since `Load` falls back to non-empty defaults.
- *A list of origins that contains `*` next to others* passes in production,
  though `config.go:71` rules the wildcard out; nor is
  `CORS_ALLOW_CREDENTIALS` looked at. TTLs are not validated either: a
  negative one starts a server whose tokens are born expired, which
  `AccessTokens` allows.
- *A transaction whose function calls `runtime.Goexit`* is not rolled back, as
  `recover` returns nil; with a context that never ends its connection is lost,
  and a pool may be lost with it (`CallsReturn` names just this exception). A
  nested `WithTx` dereferences a nil `db` and panics.
- *A last page of exactly `limit` users* carries a `next_cursor`, where
  `user_service.go:112-113` says it is nil when there are no more rows; the
  walk still ends.
- *A signal before `gracefulShutdown` has registered for it* kills the
  process; `Lifecycle` counts it as forced.
- *`Recoverer`* is to be used "as the outermost middleware"
  (`middleware/middleware.go:20`); `routes.go:22-24` puts it inside `RequestID` and
  `Logger`.

## Proofs

Each theorem holds for any values of the constants that satisfy the named
assumptions; those say no more than that `None` is not one of the identities,
that numbers are numbers and bounds positive where the code needs it, and what
is said below.

### The session service

`AuthServiceProofs` has the lemmas on the table's statements and the theorems,
for any sets of requests, users, chains and tokens, finite or not.

- `Invariance`, `TypeCorrect`, `PredecessorsStayRevoked`, `SessionsKeepOwners`:
  the inductive invariant `Inv` and its parts.
- `Refinement`: `Spec => Ledger!Spec`.
- `SessionsEndForGood`: `OverIsFinal`.
- `AccessRefinement`: `ImplementsAccess`, and from it `NobodySignsForQuiet`:
  once a session is over and no request stands between its INSERT and `Sign`,
  what access tokens it has can only expire.
- `OneAtATimeIsSafe`: if there is one request at a time, `OneActivePerSession`,
  `ReuseEndsSession` and `LogoutAllEndsSessions` hold. With `refresh_race` and
  `reuse_race` this says exactly what breaks them: overlapping requests, and not
  the failures, which are all allowed.

The argument. `PredecessorRevoked` is not inductive: whether a successor may be
inserted depends on what a request did two statements ago. `Inv` adds what a
request knows at each label (`JobsMatchLabels`): at `"create"` the token it
presented is minted and no longer active, and no statement ever makes a row
active again - a row becomes active only by being inserted, with a fresh token
(`MintedOnly`). Most actions are instances of two lemmas: `ShrinkKeepsInv`
(rows and grants can only shrink) and `MoveKeepsInv` (one request moves on). The
refinement sends them to `Retire` and `Grant`, `Create` to `Open` or `Mint`.
`OverIsFinal` follows from the ledger alone. `AccessRefinement` stands on both:
while a request is between its judgement and its INSERT its session is not over
in the ledger, so the INSERT is an `Issue` into an open session, and that open
sessions never come back is `OverIsFinal`. `OneAtATimeIsSafe` needs
`SequentialInv` on top: between its UPDATE and its INSERT a refresh leaves its
session without an active token. Its lemmas ask only that the request that moves
is alone at that moment (`Alone`), so that the browser's proofs can use them.

### The browser

`SessionClientProofs`:

- `ComposesWithService`: `ClientSpec => Spec`. Every theorem about the service,
  the refinement and `OverIsFinal` among them, holds of the composition.
- `ClientTypeCorrect`: the cookie and the access token in the page are ones
  the service has issued; answers wait only for requests that have ended.
- `CalmSessionsAreSafe`: `CalmSessions`, whatever fails or is lost. `CalmInv`
  says that while no requests overlap the service's `SequentialInv` holds.
- `HonestClientsKeepSessions` (`NoFalseAlarm`) and `NothingBesideTheJar`
  (`JarHoldsTheSession`). The invariant `SmoothInv` follows the one request of a
  calm browser without faults: at each of its statements and until its answer
  is delivered, it names the only tokens that may be usable and where they are:
  in the jar, in the answer, or in the request's hands.

### Access tokens and configuration

`AccessTokensProofs`, for any numbers of servers and sessions, any skew, length
of a second, TTL (also a negative one) and any environments and texts:

- `TypeCorrect`; `NoneAcceptedLate`, `FreshTokensAccepted`, `AccessEnds`:
  `ClaimsTrue` ties a token's claims to the tick and the clock it was signed by,
  `AliveNow` its session to the last moment it was open or being signed for.
  What is lost in whole seconds is `WholeSeconds`; `TokenTimes` is the
  arithmetic of one token at one server. That sessions behave as supposed here
  is `AccessRefinement`, of the session service.
- `VerdictsAreStable`: clocks do not go back and claims do not change.
- `ProductionSecretsLong`: `ConfValid` - a running server passed `Validate` -
  and that a token is accepted only by the secret it was signed with.
- `TwoRoundsEnough`: the defaults of the database variables are never empty, so
  only two variables can be named (`NamedType`); repairing the wildcard, or the
  secret, is never undone by the other (`RepairWildcard`, `RepairSecret`).
  Assumed of the operator (`RemedyAssumption`): the value set is a good one.

### Transactions

`UnitOfWorkProofs`, for any finite set of calls and any size of the pool:
`TypeCorrect`, `CallsAgree` (`CallsConsistent`, the inductive invariant that ties a
call's place, answer, transaction and statements together), `WithTxKeepsPromise` (the
refinement: `Commit` is `TakeEffect`, the returns are `Return`, all else is
stuttering) and `ConnectionsSafe`, which needs the count of connections.
`PoolNeverStuck` (`NobodyStuck`): a call that waits finds a connection, or
one that holds a connection can move, or the pool is leaked. It writes out the
guards of the fair steps instead of using `ENABLED`. `CallsRunDown`: each step takes
one call nearer its end and no other back, by the measure `Left`. The two
are what the liveness of the pool rests on; only the appeal to fairness
between them is left to TLC.

### The user list

`UserListingProofs`: `ListingTypes`, `NobodyTwice`, `NobodyMissed`, `NoPageWasted`
(`PagesPay`), from the
assumptions that stamps and ids are integers (their order is what counts), that
the limits are positive with the default at most the maximum, and that `None` is
no row. None of the properties is inductive, since the cursor says only where the
last page ended. `WalkInv` adds that what was received lies at the cursor or
before it (`SeenUpToCursor`), that who was there throughout is received or
still after it (`StableSeenOrAhead`), and that the table is finite, so that a
page has a last row. `PageSplits` is the lemma on one page: nothing it leaves
out lies before its cursor. `SeenUpToCursor` is void once a cursor was mangled
and the client started over; completeness holds even then. For `PagesPay` the
pages are counted against the users received up to the cursor (`PagesBySeen`):
the next page moves the cursor to a user who was not among them, whom a client
that started over may have received before.

### The users

`UserAccountsProofs`: `AccountTypes`, `CredentialsDecide` and, as action
properties, `UpdatesCompose` (`NoLostUpdate`) and `DeletionIsFinal`.
`AccountInv` adds what a request knows before its last
statement (`JobsFit`: an update carries just what its client asked, a login
what once was a row) and that ids in the table were given out
(`RowsAreIssued`), so that no INSERT revives one.

### The rate limiter

`RateLimitProofs`: `LimiterTypes`, `WindowsBounded`, `RefusalsAreDue`, for any
burst and rate. A window that has closed says nothing about the bucket, so
`WindowBound` is not inductive. `LevelBound` is what makes it so: for every past
tick, what was admitted since then and what is left in the bucket are together
at most what burst and rate allow since then. `LevelReached` says that for one
tick - the last at which the bucket was full - this is an equality, and so a
refused address has used that window up. Both need that addresses do not share
limiters and that a request asks the limiter its address has in the map
(`OwnLimiters`, `JobsUseTheMap`), which is what the mutex around `get` is for.

`LimiterImplementsBuckets` (`ImplementsBuckets`) rests on the same: making a
limiter changes nothing, since it is as full as the bucket of an address without
one; a tick refills every bucket by one, because reckoning what a limiter holds
at its next request is the same as refilling it tick by tick up to the burst.

### The process

`LifecycleProofs`: `LifecycleTypes`, `ClosedBeforeExit`, `NoUnforcedCuts`, for any number of
requests and signals. `ShutdownOrder` says what each point of the shutdown has
behind it: the listener closed, then no request running unless the time is
over, then the database closed, then `done` told - the chain by which `main`,
which sees only `done`, may rely on all of it. `WakeupsArrive` (`NoLostWakeup`) is
the other direction: when the shutdown has ended, `main` has been told or will
be. `ShutdownRunsDown` says that no step adds to what is left of the process
(`StepsLeft`), and each step of a goroutine or the timer takes from it. Together they are the
safety half of `EndsOnceSignalled`.

### Only model-checked

Liveness - `Recovers`, `CallsReturn`, `ConnectionsReturn`, `WalkEnds`,
`EndsOnceSignalled` - because TLAPS does neither liveness under fairness nor
`ENABLED`, and the violations. For each of the liveness properties but
`Recovers` the safety half is a theorem: `NoPageWasted` bounds a walk by the
users it receives, and for the pool and the shutdown a measure and the absence
of dead ends are proved (`CallsRunDown`, `PoolNeverStuck`; `ShutdownRunsDown`,
`WakeupsArrive`). `Recovers` has no measure: a browser may be interrupted
any number of times, and it is strong fairness that ends it.

Every safety property of a passing run is a theorem. In turn, `ClientTypeOK`,
`CallsConsistent`, `NobodyStuck` and `QuietIsFinal` are proved without a run.

## Not modelled

- *Router, CORS, request ids, recoverer, logging, JSON*: no state, wiring and
  formatting. Which routes need a token, and which are rate-limited, are
  preconditions of the actions concerned.
- *The rest of the configuration*: ports, pool sizes, DSN, schema and the
  remaining CORS settings are values nothing in the models depends on; the
  pool's size is the constant `MaxConns`.
- *Migrations*: a dispatch to goose, which has the state and the locking.
- *Generated interfaces and row types*, *test support*: nothing to say; the SQL
  itself is modelled with its tables.
- *Health and readiness*: reads.
- *Cookie attributes*, `Max-Age` among them (a TTL below a second sends none);
  bytes against characters in passwords; the timing of password checks.
- *Growth of the limiter map*: never purged, by the comment at
  `ratelimit.go:11-15`.

## Plan

Done, in this order: `RefreshTokens`, `SessionLedger`, `AuthService`;
`UserListing`, `RateLimit`, `Lifecycle`, `UserAccounts`; `SessionClient`;
`Config`, `AccessTokens`; `UnitOfWork`, `AtomicCalls`; the proofs of all of them;
`SessionAccess` and `AddressBuckets` with their refinements; the safety halves of
the liveness properties.

What could follow is a design study: refresh inside `WithTx`, and an UPDATE whose
row count is looked at, against `refresh_race` and `reuse_race` under the
database's isolation levels. It would be about code that does not exist yet.

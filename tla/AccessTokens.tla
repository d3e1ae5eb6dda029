----------------------------- MODULE AccessTokens -----------------------------
(***************************************************************************)
(* Access tokens across servers: each server loads its configuration, signs *)
(* with it and verifies with it (internal/auth/jwt.go, the Auth middleware  *)
(* and the end of AuthService.issueRefreshAndAccess).  Servers share no     *)
(* state but the secret, if they were given the same; their clocks differ,  *)
(* and they are stopped, reconfigured and started while tokens are about.   *)
(* Time is counted in ticks, Second of them to a second, the precision      *)
(* NumericDate keeps.  Sessions open, sign and end as SessionAccess says,   *)
(* which AuthService implements.                                            *)
(***************************************************************************)
EXTENDS Config, FiniteSets

CONSTANTS
  Server,
  Session,
  Environments, \* the environments servers are deployed in
  Remedy,       \* variable -> the value an operator gives it when it is named
  Second,       \* ticks to a second
  MaxSkew,      \* how far a server's clock is ahead of the slowest, at most
  MaxTime,      \* bound: the last tick
  MaxTokens     \* bound: tokens signed

ASSUME NumbersAssumption ==
  Second \in Nat \ {0} /\ MaxSkew \in Nat /\ MaxTime \in Nat /\ MaxTokens \in Nat

ASSUME EnvironmentsAssumption ==
  /\ Environments \subseteq Environment
  /\ Remedy \in [Variable -> Text]

ASSUME RemedyAssumption ==
  /\ Length[Remedy["JWT_SECRET"]] >= 16
  /\ Remedy["CORS_ALLOWED_ORIGINS"] \notin WildcardList \cup {""}

VARIABLES
  skew,    \* server -> how far its clock is ahead, fixed
  now,     \* the tick the slowest clock shows
  env,     \* server -> its environment
  conf,    \* server -> the configuration it runs with, or None
  report,  \* server -> the variables its last refused start named
  rounds,  \* history: server -> starts refused since its last deployment
  open,    \* the sessions that have not ended
  signing, \* <<server, session>> of the requests past their INSERT
  alive,   \* history: session -> the last tick it was open or being signed for
  tokens   \* the access tokens signed

servers == <<env, conf, report, rounds>>
sessions == <<open, signing, alive>>
accessVars == <<skew, now, servers, sessions, tokens>>

Running(s) == conf[s] # None

Clock(s) == now + skew[s]

\* Mutant: to the next second.
NumericDateRoundedUp(t) == (t + Second - 1) \div Second

\* jwt.NewNumericDate cuts a time to whole seconds.
NumericDate(t) == t \div Second

\* A token's claims and key; session, by, at and ttl are history.
Token == [secret: Text, issuer: Text \cup Defaults, nbf: Int, exp: Int,
          session: Session, by: Server, at: Nat, ttl: Int]

Settings == [prod: BOOLEAN, secret: Text, issuer: Text \cup Defaults, ttl: Int,
             wildcard: BOOLEAN, db: [DbVariable -> Text \cup Defaults]]

AccessTypeOK ==
  /\ skew \in [Server -> 0..MaxSkew]
  /\ now \in 0..MaxTime
  /\ env \in [Server -> Environment]
  /\ conf \in [Server -> Settings \cup {None}]
  /\ report \in [Server -> SUBSET Variable]
  /\ rounds \in [Server -> Nat]
  /\ open \subseteq Session
  /\ signing \subseteq Server \X Session
  /\ alive \in [Session -> 0..MaxTime]
  /\ tokens \subseteq Token

AccessInit ==
  /\ skew \in [Server -> 0..MaxSkew]
  /\ now = 0
  /\ env \in [Server -> Environments]
  /\ conf = [s \in Server |-> None]
  /\ report = [s \in Server |-> {}]
  /\ rounds = [s \in Server |-> 0]
  /\ open = Session
  /\ signing = {}
  /\ alive = [c \in Session |-> 0]
  /\ tokens = {}

Sessions == INSTANCE SessionAccess
  WITH Signer <- Server, access <- {t.session : t \in tokens}

-----------------------------------------------------------------------------
(* Deployment *)

\* main loads the configuration first and panics with what Validate reports.
Boot(s) ==
  /\ ~Running(s) /\ report[s] = {}
  /\ LET refused == Validate(env[s])
     IN  IF refused = {}
         THEN conf' = [conf EXCEPT ![s] = Load(env[s])] /\ UNCHANGED <<report, rounds>>
         ELSE /\ report' = [report EXCEPT ![s] = refused]
              /\ rounds' = [rounds EXCEPT ![s] = @ + 1]
              /\ UNCHANGED conf
  /\ UNCHANGED <<skew, now, env, sessions, tokens>>

Repaired(e, named) ==
  [process |-> [v \in Variable |-> IF v \in named THEN Remedy[v] ELSE e.process[v]],
   file    |-> e.file]

\* The operator sets what the report named, and only that, for the next start.
Repair(s) ==
  /\ report[s] # {}
  /\ env' = [env EXCEPT ![s] = Repaired(env[s], report[s])]
  /\ report' = [report EXCEPT ![s] = {}]
  /\ UNCHANGED <<skew, now, conf, rounds, sessions, tokens>>

\* The server stops, by a signal or a crash, with whatever it was signing.
Stop(s) ==
  /\ Running(s)
  /\ conf' = [conf EXCEPT ![s] = None]
  /\ UNCHANGED <<skew, now, env, report, rounds, alive, tokens>>
  /\ Sessions!Abandon({s} \X Session)

\* A server that is down is given another environment.
Deploy(s) ==
  /\ ~Running(s)
  /\ env' \in {[env EXCEPT ![s] = e] : e \in Environments}
  /\ report' = [report EXCEPT ![s] = {}]
  /\ rounds' = [rounds EXCEPT ![s] = 0]
  /\ UNCHANGED <<skew, now, conf, sessions, tokens>>

-----------------------------------------------------------------------------
(* Sessions and signing *)

Issue(s, c) ==
  /\ Running(s)
  /\ UNCHANGED <<skew, now, servers, alive, tokens>>
  /\ Sessions!Issue(s, c)

EndSessions(C) ==
  /\ UNCHANGED <<skew, now, servers, alive, tokens>>
  /\ Sessions!End(C)

\* A response is lost, or the handler panics.
Abandon(s, c) ==
  /\ UNCHANGED <<skew, now, servers, alive, tokens>>
  /\ Sessions!Abandon({<<s, c>>})

NewToken(s, c) ==
  [secret |-> conf[s].secret, issuer |-> conf[s].issuer,
   nbf |-> NumericDate(Clock(s)),
   exp |-> NumericDate(Clock(s) + conf[s].ttl),
   session |-> c, by |-> s, at |-> now, ttl |-> conf[s].ttl]

Sign(s, c) ==
  /\ Running(s) /\ Cardinality(tokens) < MaxTokens
  /\ tokens' = tokens \cup {NewToken(s, c)}
  /\ Sessions!Sign(s, c)
  /\ UNCHANGED <<skew, now, servers, alive>>

Tick ==
  /\ now < MaxTime
  /\ now' = now + 1
  /\ alive' = [c \in Session |->
                 IF c \in open \/ \E s \in Server : <<s, c>> \in signing THEN now' ELSE alive[c]]
  /\ UNCHANGED <<skew, servers, open, signing, tokens>>

AccessNext ==
  \/ \E s \in Server :
       \/ Boot(s) \/ Repair(s) \/ Stop(s) \/ Deploy(s)
       \/ \E c \in Session : Issue(s, c) \/ Sign(s, c) \/ Abandon(s, c)
  \/ \E C \in SUBSET Session : EndSessions(C)
  \/ Tick

AccessSpec == AccessInit /\ [][AccessNext]_accessVars

-----------------------------------------------------------------------------
(* Verification.  A request with a token reads no state but the clock: the
   answer is a function of the server and the token. *)

\* Mutant: the claims are parsed but not validated.
VerifySignature(s, t) == IF t.secret = conf[s].secret THEN "nil" ELSE "ErrTokenInvalid"

\* The error of Verifier.Verify.  The signature is verified first; then the
\* claims, all of them, and a token that is expired is reported as such
\* whatever else is wrong with it.
Verify(s, t) ==
  CASE t.secret # conf[s].secret -> "ErrTokenInvalid"
    [] t.secret = conf[s].secret /\ Clock(s) >= t.exp * Second -> "ErrTokenExpired"
    [] OTHER -> IF t.issuer = conf[s].issuer /\ t.nbf * Second <= Clock(s)
                THEN "nil" ELSE "ErrTokenInvalid"

\* Mutant: respondAuthError does not tell ErrTokenExpired from the other errors.
AuthInOneWord(s, t) == IF Verify(s, t) = "nil" THEN "accepted" ELSE "token_invalid"

\* The Auth middleware calls the handler, or answers 401 with a code that clients
\* act upon.
Auth(s, t) ==
  CASE Verify(s, t) = "nil" -> "accepted"
    [] Verify(s, t) = "ErrTokenExpired" -> "token_expired"
    [] OTHER -> "token_invalid"

ExpiresIn(t) == t.ttl \div Second

\* The age of a token by the clock of the server that looks at it.
Age(s, t) == Clock(s) - (t.at + skew[t.by])

-----------------------------------------------------------------------------
(* Properties *)

\* No server accepts a token past its TTL, or before its first second, as its
\* own clock has it: cutting exp and nbf errs on the safe side (jwt.go:61-72).
AcceptedInTime ==
  \A s \in Server, t \in tokens :
    Running(s) /\ Auth(s, t) = "accepted" => -Second < Age(s, t) /\ Age(s, t) < t.ttl

\* A client that uses its token until a second before the expires_in it was
\* told is never refused by a server with the same secret and issuer, restarted
\* or not, whose clock is not behind the signer's (auth_handler.go:90-94).
FreshTokensServe ==
  \A s \in Server, t \in tokens :
    (/\ Running(s) /\ conf[s].secret = t.secret /\ conf[s].issuer = t.issuer
     /\ 0 <= Age(s, t) /\ Age(s, t) <= (ExpiresIn(t) - 1) * Second)
      => Auth(s, t) = "accepted"

\* Ending a session does not end its access tokens, but they are of no use a
\* TTL, and the skew of the clocks, after the last moment the session was open
\* or a request of it was signing (auth_service.go:172-197).
AccessEndsWithSession ==
  \A s \in Server, t \in tokens :
    Running(s) /\ Auth(s, t) = "accepted" => now - alive[t.session] < t.ttl + MaxSkew

\* "token_expired" is the answer clients refresh on: while a server runs, a
\* token it called expired stays so, and one it accepted is never called
\* anything else afterwards (middleware/auth.go:108-115).
VerdictsAge ==
  [][\A s \in Server, t \in tokens : Running(s) /\ conf'[s] = conf[s] =>
       LET before == Auth(s, t)  after == Auth(s, t)'
       IN  /\ before = "token_expired" => after = "token_expired"
           /\ before = "accepted" => after \in {"accepted", "token_expired"}]_accessVars

\* A production server accepts nothing that was signed with a secret of fewer
\* than 16 bytes, whoever signed it and however its environment came about
\* (config.go:148-153).
ProductionSecrets ==
  \A s \in Server, t \in tokens :
    Running(s) /\ conf[s].prod /\ Auth(s, t) = "accepted" => Length[t.secret] >= 16

\* Whoever sets what a refused start named is running after two rounds at most
\* (config.go:130-132 promises one; the wildcard is reported alone).
TwoRoundsAtMost == \A s \in Server : rounds[s] <= 2
=============================================================================

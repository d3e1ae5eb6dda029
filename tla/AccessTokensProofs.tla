-------------------------- MODULE AccessTokensProofs --------------------------
(* Proofs about AccessTokens and Config, for any servers, environments, TTLs, *)
(* clocks and lengths of a second.                                            *)
EXTENDS AccessTokens, TLAPS

-----------------------------------------------------------------------------
(* Lemmas about the operators *)

\* What cutting a time to whole seconds loses is less than a second.
LEMMA WholeSeconds ==
  ASSUME NEW t \in Int
  PROVE  /\ NumericDate(t) \in Int
         /\ NumericDate(t) * Second <= t
         /\ t < NumericDate(t) * Second + Second
<1>1. Second \in Nat \ {0}
  BY NumbersAssumption
<1> QED
  BY <1>1 DEF NumericDate

\* A variable's value is what it was set to, or the fallback.
LEMMA GetenvType ==
  ASSUME NEW e \in Environment, NEW v \in Variable, NEW fallback
  PROVE  Getenv(e, v, fallback) \in Text \cup {fallback}
BY DEF Getenv, IsSet, Lookup, Environment

\* Whatever the environment, Load yields a configuration.
LEMMA LoadType == ASSUME NEW e \in Environment PROVE Load(e) \in Settings
<1>1. Getenv(e, "JWT_SECRET", "") \in Text
  BY GetenvType, ConfigAssumption DEF Variable
<1>2. Getenv(e, "JWT_ISSUER", "gostartv2") \in Text \cup Defaults
  BY GetenvType DEF Variable, Defaults
<1>3. GetenvDuration(e, "JWT_ACCESS_TTL", FifteenMinutes) \in Int
  BY ConfigAssumption DEF GetenvDuration
<1>4. ASSUME NEW v \in DbVariable
      PROVE  Getenv(e, v, DbDefault(v)) \in Text \cup Defaults
  BY GetenvType DEF Variable, DbVariable, DbDefault, Defaults
<1> QED
  BY <1>1, <1>2, <1>3, <1>4 DEF Load, Settings

\* A repaired environment is an environment.
LEMMA RepairedType ==
  ASSUME NEW e \in Environment, NEW named
  PROVE  Repaired(e, named) \in Environment
BY EnvironmentsAssumption DEF Repaired, Environment

\* What Validate names are variables.
LEMMA ValidateType == ASSUME NEW e PROVE Validate(e) \subseteq Variable
BY DEF Validate, Missing, Variable

-----------------------------------------------------------------------------
(* Type correctness *)

\* A server that is signing is running.
SignersRun == \A s \in Server, c \in Session : <<s, c>> \in signing => Running(s)

\* Nobody signs at first.
LEMMA SignersInit == AccessInit => SignersRun
BY DEF AccessInit, SignersRun

\* Signing starts on a running server, and stopping one ends its signing.
LEMMA SignersNext == AccessTypeOK /\ SignersRun /\ [AccessNext]_accessVars => SignersRun'
<1> SUFFICES ASSUME AccessTypeOK, SignersRun, [AccessNext]_accessVars PROVE SignersRun'
  OBVIOUS
<1> USE DEF AccessTypeOK, SignersRun, Running
<1>1. CASE UNCHANGED accessVars
  BY <1>1 DEF accessVars, servers, sessions
<1>2. ASSUME NEW s \in Server, Boot(s) PROVE SignersRun'
  BY <1>2 DEF servers, sessions, Boot
<1>3. ASSUME NEW s \in Server, Repair(s) PROVE SignersRun'
  BY <1>3 DEF servers, sessions, Repair
<1>4. ASSUME NEW s \in Server, Stop(s) PROVE SignersRun'
  BY <1>4 DEF servers, sessions, Stop, Sessions!Abandon
<1>5. ASSUME NEW s \in Server, Deploy(s) PROVE SignersRun'
  BY <1>5 DEF servers, sessions, Deploy
<1>6. ASSUME NEW s \in Server, NEW c \in Session, Issue(s, c) PROVE SignersRun'
  BY <1>6 DEF servers, sessions, Issue, Sessions!Issue
<1>7. ASSUME NEW s \in Server, NEW c \in Session, Sign(s, c) PROVE SignersRun'
  BY <1>7 DEF servers, sessions, Sign, Sessions!Sign
<1>8. ASSUME NEW C \in SUBSET Session, EndSessions(C) PROVE SignersRun'
  BY <1>8 DEF servers, sessions, EndSessions, Sessions!End
<1>9. ASSUME NEW s \in Server, NEW c \in Session, Abandon(s, c) PROVE SignersRun'
  BY <1>9 DEF servers, sessions, Abandon, Sessions!Abandon
<1>10. ASSUME Tick PROVE SignersRun'
  BY <1>10 DEF servers, sessions, Tick
<1> QED
  BY <1>1, <1>2, <1>3, <1>4, <1>5, <1>6, <1>7, <1>8, <1>9, <1>10 DEF AccessNext

\* The initial states are well typed.
LEMMA TypeInit == AccessInit => AccessTypeOK
<1> SUFFICES ASSUME AccessInit PROVE AccessTypeOK
  OBVIOUS
<1>1. 0 \in 0..MaxTime /\ Environments \subseteq Environment
  BY NumbersAssumption, EnvironmentsAssumption
<1>2. env \in [Server -> Environment]
  BY <1>1 DEF AccessInit
<1>3. alive \in [Session -> 0..MaxTime] /\ now \in 0..MaxTime
  BY <1>1 DEF AccessInit
<1> QED
  BY <1>2, <1>3 DEF AccessInit, AccessTypeOK

\* Every step keeps the types; that a token is signed with a configuration
\* needs that its signer is running.
LEMMA TypeNext == AccessTypeOK /\ SignersRun /\ [AccessNext]_accessVars => AccessTypeOK'
<1> SUFFICES ASSUME AccessTypeOK, SignersRun, [AccessNext]_accessVars PROVE AccessTypeOK'
  OBVIOUS
<1> USE DEF AccessTypeOK
<1>1. CASE UNCHANGED accessVars
  BY <1>1 DEF accessVars, servers, sessions
<1>2. ASSUME NEW s \in Server, Boot(s) PROVE AccessTypeOK'
  BY <1>2, LoadType, ValidateType DEF servers, sessions, Boot
<1>3. ASSUME NEW s \in Server, Repair(s) PROVE AccessTypeOK'
  BY <1>3, RepairedType DEF servers, sessions, Repair
<1>4. ASSUME NEW s \in Server, Stop(s) PROVE AccessTypeOK'
  BY <1>4 DEF servers, sessions, Stop, Sessions!Abandon
<1>5. ASSUME NEW s \in Server, Deploy(s) PROVE AccessTypeOK'
  BY <1>5, EnvironmentsAssumption DEF servers, sessions, Deploy
<1>6. ASSUME NEW s \in Server, NEW c \in Session, Issue(s, c) PROVE AccessTypeOK'
  BY <1>6 DEF servers, sessions, Issue, Sessions!Issue
<1>7. ASSUME NEW s \in Server, NEW c \in Session, Sign(s, c) PROVE AccessTypeOK'
  <2>1. conf[s] \in Settings /\ now \in Nat /\ skew[s] \in Nat
    BY <1>7, NumbersAssumption DEF Sign, Sessions!Sign, SignersRun, Running
  <2>2. /\ NumericDate(Clock(s)) \in Int
        /\ NumericDate(Clock(s) + conf[s].ttl) \in Int
    BY <2>1, WholeSeconds DEF Clock, Settings
  <2>3. NewToken(s, c) \in Token
    BY <2>1, <2>2 DEF NewToken, Token, Settings
  <2> QED
    BY <1>7, <2>3 DEF servers, sessions, Sign, Sessions!Sign
<1>8. ASSUME NEW C \in SUBSET Session, EndSessions(C) PROVE AccessTypeOK'
  BY <1>8 DEF servers, sessions, EndSessions, Sessions!End
<1>9. ASSUME NEW s \in Server, NEW c \in Session, Abandon(s, c) PROVE AccessTypeOK'
  BY <1>9 DEF servers, sessions, Abandon, Sessions!Abandon
<1>10. ASSUME Tick PROVE AccessTypeOK'
  <2>1. now' \in 0..MaxTime
    BY <1>10, NumbersAssumption DEF Tick
  <2> QED
    BY <1>10, <2>1 DEF servers, sessions, Tick
<1> QED
  BY <1>1, <1>2, <1>3, <1>4, <1>5, <1>6, <1>7, <1>8, <1>9, <1>10 DEF AccessNext

\* Type correctness of configuration and access tokens.
THEOREM TypeCorrect == AccessSpec => []AccessTypeOK
BY TypeInit, TypeNext, SignersInit, SignersNext, PTL DEF AccessSpec

\* Types and signers, in every reachable state.
LEMMA Typed == AccessSpec => [](AccessTypeOK /\ SignersRun)
BY TypeInit, TypeNext, SignersInit, SignersNext, PTL DEF AccessSpec

-----------------------------------------------------------------------------
(* What the claims of a token say, and when it was signed *)

\* A session is alive until now while it is open or being signed for.
AliveNow ==
  \A c \in Session :
    /\ alive[c] <= now
    /\ c \in open \/ (\E s \in Server : <<s, c>> \in signing) => alive[c] = now

\* Ticks are integers.
LEMMA AliveType ==
  ASSUME AccessTypeOK PROVE now \in Int /\ \A c \in Session : alive[c] \in Int
BY NumbersAssumption DEF AccessTypeOK

\* At tick 0 every session is alive until now.
LEMMA AliveInit == AccessInit => AliveNow
BY DEF AccessInit, AliveNow

\* Tick keeps up with the sessions that are open or being signed for; no other
\* step opens a session.
LEMMA AliveNext == AccessTypeOK /\ AliveNow /\ [AccessNext]_accessVars => AliveNow'
<1> SUFFICES ASSUME AccessTypeOK, AliveNow, [AccessNext]_accessVars PROVE AliveNow'
  OBVIOUS
<1> USE DEF AccessTypeOK, AliveNow
<1>1. CASE UNCHANGED accessVars
  BY <1>1 DEF accessVars, servers, sessions
<1>2. ASSUME NEW s \in Server, Boot(s) PROVE AliveNow'
  BY <1>2 DEF servers, sessions, Boot
<1>3. ASSUME NEW s \in Server, Repair(s) PROVE AliveNow'
  BY <1>3 DEF servers, sessions, Repair
<1>4. ASSUME NEW s \in Server, Stop(s) PROVE AliveNow'
  BY <1>4 DEF servers, sessions, Stop, Sessions!Abandon
<1>5. ASSUME NEW s \in Server, Deploy(s) PROVE AliveNow'
  BY <1>5 DEF servers, sessions, Deploy
<1>6. ASSUME NEW s \in Server, NEW c \in Session, Issue(s, c) PROVE AliveNow'
  BY <1>6 DEF servers, sessions, Issue, Sessions!Issue
<1>7. ASSUME NEW s \in Server, NEW c \in Session, Sign(s, c) PROVE AliveNow'
  BY <1>7 DEF servers, sessions, Sign, Sessions!Sign
<1>8. ASSUME NEW C \in SUBSET Session, EndSessions(C) PROVE AliveNow'
  BY <1>8 DEF servers, sessions, EndSessions, Sessions!End
<1>9. ASSUME NEW s \in Server, NEW c \in Session, Abandon(s, c) PROVE AliveNow'
  BY <1>9 DEF servers, sessions, Abandon, Sessions!Abandon
<1>10. ASSUME Tick PROVE AliveNow'
  <2> SUFFICES ASSUME NEW c \in Session
               PROVE  /\ alive'[c] <= now'
                      /\ c \in open' \/ (\E s \in Server : <<s, c>> \in signing') => alive'[c] = now'
    BY <1>10
  <2>1. /\ alive'[c] = alive[c] \/ alive'[c] = now'
        /\ c \in open' \/ (\E s \in Server : <<s, c>> \in signing') => alive'[c] = now'
    BY <1>10 DEF Tick
  <2>2. now' = now + 1 /\ now \in Int /\ alive[c] \in Int /\ alive[c] <= now
    BY <1>10, AliveType DEF Tick
  <2> QED
    BY <2>1, <2>2
<1> QED
  BY <1>1, <1>2, <1>3, <1>4, <1>5, <1>6, <1>7, <1>8, <1>9, <1>10 DEF AccessNext

Signed(t) == t.at + skew[t.by]

ClaimsTrue ==
  \A t \in tokens :
    /\ t.nbf = NumericDate(Signed(t))
    /\ t.exp = NumericDate(Signed(t) + t.ttl)
    /\ t.at <= alive[t.session]

\* There are no tokens at first.
LEMMA ClaimsInit == AccessInit => ClaimsTrue
BY DEF AccessInit, ClaimsTrue

\* A token's claims are true when it is signed, and time and servers do not
\* change a token.
LEMMA ClaimsNext ==
  AccessTypeOK /\ SignersRun /\ AliveNow /\ ClaimsTrue /\ [AccessNext]_accessVars => ClaimsTrue'
<1> SUFFICES ASSUME AccessTypeOK, SignersRun, AliveNow, ClaimsTrue, [AccessNext]_accessVars
             PROVE  ClaimsTrue'
  OBVIOUS
<1> USE DEF AccessTypeOK, ClaimsTrue, Signed
<1>1. CASE UNCHANGED accessVars
  BY <1>1 DEF accessVars, servers, sessions
<1>2. ASSUME NEW s \in Server, Boot(s) PROVE ClaimsTrue'
  BY <1>2 DEF servers, sessions, Boot
<1>3. ASSUME NEW s \in Server, Repair(s) PROVE ClaimsTrue'
  BY <1>3 DEF servers, sessions, Repair
<1>4. ASSUME NEW s \in Server, Stop(s) PROVE ClaimsTrue'
  BY <1>4 DEF servers, sessions, Stop, Sessions!Abandon
<1>5. ASSUME NEW s \in Server, Deploy(s) PROVE ClaimsTrue'
  BY <1>5 DEF servers, sessions, Deploy
<1>6. ASSUME NEW s \in Server, NEW c \in Session, Issue(s, c) PROVE ClaimsTrue'
  BY <1>6 DEF servers, sessions, Issue, Sessions!Issue
<1>7. ASSUME NEW s \in Server, NEW c \in Session, Sign(s, c) PROVE ClaimsTrue'
  <2>1. alive[c] = now /\ now \in Int
    BY <1>7, AliveType DEF Sign, Sessions!Sign, AliveNow
  <2>2. ASSUME NEW t \in tokens' PROVE t \in tokens \/ t = NewToken(s, c)
    BY <1>7, <2>2 DEF Sign, Sessions!Sign
  <2>3. UNCHANGED <<skew, alive>>
    BY <1>7 DEF Sign, Sessions!Sign, sessions
  <2>4. LET t == NewToken(s, c)
        IN  /\ t.nbf = NumericDate(Signed(t))
            /\ t.exp = NumericDate(Signed(t) + t.ttl)
            /\ t.at <= alive[t.session]
    BY <2>1 DEF NewToken, Clock
  <2> QED
    BY <2>2, <2>3, <2>4
<1>8. ASSUME NEW C \in SUBSET Session, EndSessions(C) PROVE ClaimsTrue'
  BY <1>8 DEF servers, sessions, EndSessions, Sessions!End
<1>9. ASSUME NEW s \in Server, NEW c \in Session, Abandon(s, c) PROVE ClaimsTrue'
  BY <1>9 DEF servers, sessions, Abandon, Sessions!Abandon
<1>10. ASSUME Tick PROVE ClaimsTrue'
  <2>1. ASSUME NEW c \in Session
        PROVE  alive[c] <= alive'[c] /\ alive[c] \in Int /\ alive'[c] \in Int
    <3>1. now' = now + 1 /\ now \in Int /\ alive[c] \in Int /\ alive[c] <= now
      BY <1>10, AliveType DEF Tick, AliveNow
    <3>2. alive'[c] = alive[c] \/ alive'[c] = now'
      BY <1>10 DEF Tick
    <3> QED
      BY <3>1, <3>2
  <2>2. \A t \in tokens : t.session \in Session /\ t.at \in Int
    BY DEF Token
  <2>3. UNCHANGED <<tokens, skew>>
    BY <1>10 DEF Tick
  <2> QED
    BY <2>1, <2>2, <2>3
<1> QED
  BY <1>1, <1>2, <1>3, <1>4, <1>5, <1>6, <1>7, <1>8, <1>9, <1>10 DEF AccessNext

\* Types, living sessions and true claims, in every reachable state.
LEMMA Claims == AccessSpec => [](AccessTypeOK /\ AliveNow /\ ClaimsTrue)
BY Typed, AliveInit, AliveNext, ClaimsInit, ClaimsNext, PTL DEF AccessSpec

-----------------------------------------------------------------------------
(* Accepted in time, and fresh tokens accepted *)

\* The arithmetic of one token at one server.
LEMMA TokenTimes ==
  ASSUME AccessTypeOK, ClaimsTrue, NEW s \in Server, NEW t \in tokens
  PROVE  /\ Clock(s) \in Int /\ Signed(t) \in Int /\ t.ttl \in Int
         /\ t.nbf \in Int /\ t.exp \in Int
         /\ Age(s, t) = Clock(s) - Signed(t)
         /\ t.nbf * Second <= Signed(t)
         /\ Signed(t) < t.nbf * Second + Second
         /\ t.exp * Second <= Signed(t) + t.ttl
         /\ Signed(t) + t.ttl < t.exp * Second + Second
<1>1. t \in Token /\ t.by \in Server /\ t.at \in Int /\ t.ttl \in Int
  BY DEF AccessTypeOK, Token
<1>2. now \in Int /\ skew[s] \in Int /\ skew[t.by] \in Int
  BY <1>1, NumbersAssumption DEF AccessTypeOK
<1>3. Clock(s) \in Int /\ Signed(t) \in Int /\ Signed(t) + t.ttl \in Int
  BY <1>1, <1>2 DEF Clock, Signed
<1>4. t.nbf = NumericDate(Signed(t)) /\ t.exp = NumericDate(Signed(t) + t.ttl)
  BY DEF ClaimsTrue
<1>5. Age(s, t) = Clock(s) - Signed(t)
  BY DEF Age, Signed
<1> QED
  BY <1>1, <1>3, <1>4, <1>5, WholeSeconds

\* What a server has checked when it accepts a token.
LEMMA AcceptedMeans ==
  ASSUME NEW s, NEW t, Auth(s, t) = "accepted"
  PROVE  /\ t.secret = conf[s].secret
         /\ ~(Clock(s) >= t.exp * Second)
         /\ t.nbf * Second <= Clock(s)
BY DEF Verify, Auth

\* True claims and the check of exp and nbf bound the age of an accepted token.
LEMMA InTime == AccessTypeOK /\ ClaimsTrue => AcceptedInTime
<1> SUFFICES ASSUME AccessTypeOK, ClaimsTrue, NEW s \in Server, NEW t \in tokens,
                    Auth(s, t) = "accepted"
             PROVE  -Second < Age(s, t) /\ Age(s, t) < t.ttl
  BY DEF AcceptedInTime
<1>1. Second \in Int /\ t.exp * Second \in Int /\ t.nbf * Second \in Int
  BY TokenTimes, NumbersAssumption
<1> QED
  BY <1>1, TokenTimes, AcceptedMeans

\* For any clocks, TTLs and length of a second, no server accepts a token past
\* its TTL or a second before it was signed (jwt.go:61-72, :88-109).
THEOREM NoneAcceptedLate == AccessSpec => []AcceptedInTime
BY Claims, InTime, PTL

\* A token whose age is below expires_in, less a second for what exp lost, passes
\* every check.
LEMMA Fresh == AccessTypeOK /\ ClaimsTrue => FreshTokensServe
<1> SUFFICES ASSUME AccessTypeOK, ClaimsTrue, NEW s \in Server, NEW t \in tokens,
                    conf[s].secret = t.secret, conf[s].issuer = t.issuer,
                    0 <= Age(s, t), Age(s, t) <= (ExpiresIn(t) - 1) * Second
             PROVE  Auth(s, t) = "accepted"
  BY DEF FreshTokensServe
<1>1. Second \in Int /\ t.exp * Second \in Int /\ t.nbf * Second \in Int
  BY TokenTimes, NumbersAssumption
<1>2. ExpiresIn(t) \in Int /\ ExpiresIn(t) * Second <= t.ttl
  BY TokenTimes, WholeSeconds DEF ExpiresIn, NumericDate
<1>3. (ExpiresIn(t) - 1) * Second = ExpiresIn(t) * Second - Second
  BY <1>1, <1>2
<1>4. ExpiresIn(t) * Second \in Int
  BY <1>1, <1>2
<1>5. Clock(s) < t.exp * Second
  BY <1>1, <1>2, <1>3, <1>4, TokenTimes
<1>6. t.nbf * Second <= Clock(s)
  BY <1>1, TokenTimes
<1> QED
  BY <1>1, <1>5, <1>6, TokenTimes DEF Verify, Auth

\* For any clocks, TTLs and length of a second, a token serves until a second
\* before the expires_in its client was told (auth_handler.go:90-94).
THEOREM FreshTokensAccepted == AccessSpec => []FreshTokensServe
BY Claims, Fresh, PTL

\* A token was signed while its session was alive, and dies with its TTL.
LEMMA EndsWithSession == AccessTypeOK /\ ClaimsTrue => AccessEndsWithSession
<1> SUFFICES ASSUME AccessTypeOK, ClaimsTrue, NEW s \in Server, NEW t \in tokens,
                    Auth(s, t) = "accepted"
             PROVE  now - alive[t.session] < t.ttl + MaxSkew
  BY DEF AccessEndsWithSession
<1>1. t.by \in Server /\ t.session \in Session /\ t.at \in Int
  BY DEF AccessTypeOK, Token
<1>2. /\ now \in Int /\ alive[t.session] \in Int /\ t.at <= alive[t.session]
      /\ skew[s] \in 0..MaxSkew /\ skew[t.by] \in 0..MaxSkew
  BY <1>1, NumbersAssumption DEF AccessTypeOK, ClaimsTrue
<1>3. t.exp * Second \in Int
  BY TokenTimes, NumbersAssumption
<1>4. Clock(s) < Signed(t) + t.ttl
  BY <1>3, TokenTimes, AcceptedMeans
<1> QED
  BY <1>1, <1>2, <1>4, TokenTimes, NumbersAssumption DEF Clock, Signed

\* The access tokens of a session are refused a TTL and the skew of the clocks
\* after its end, for any number of sessions (auth_service.go:172-197).
THEOREM AccessEnds == AccessSpec => []AccessEndsWithSession
BY Claims, EndsWithSession, PTL

-----------------------------------------------------------------------------
(* Verdicts grow old *)

\* Clocks do not go back.
LEMMA ClockNext ==
  ASSUME AccessTypeOK, [AccessNext]_accessVars, NEW s \in Server
  PROVE  Clock(s) \in Int /\ Clock(s)' \in Int /\ Clock(s) <= Clock(s)'
<1>1. now \in Int /\ skew[s] \in Int
  BY NumbersAssumption DEF AccessTypeOK
<1>2. (now' = now \/ now' = now + 1) /\ skew' = skew
  BY DEF AccessNext, accessVars, servers, Boot, Repair, Stop, Deploy, Issue, EndSessions,
         Abandon, Sign, Tick
<1> QED
  BY <1>1, <1>2 DEF Clock

\* While a server keeps its configuration, only the clock moves a verdict.
LEMMA VerdictStep ==
  ASSUME AccessTypeOK, [AccessNext]_accessVars, NEW s \in Server, NEW t \in tokens,
         conf'[s] = conf[s]
  PROVE  /\ Auth(s, t) = "token_expired" => Auth(s, t)' = "token_expired"
         /\ Auth(s, t) = "accepted" => Auth(s, t)' \in {"accepted", "token_expired"}
<1>1. t.exp * Second \in Int /\ t.nbf * Second \in Int
  BY NumbersAssumption DEF AccessTypeOK, Token
<1> QED
  BY <1>1, ClockNext DEF Verify, Auth

\* So every step is one VerdictsAge allows.
LEMMA VerdictsNext ==
  ASSUME AccessTypeOK, [AccessNext]_accessVars
  PROVE  \A s \in Server, t \in tokens : Running(s) /\ conf'[s] = conf[s] =>
           LET before == Auth(s, t)  after == Auth(s, t)'
           IN  /\ before = "token_expired" => after = "token_expired"
               /\ before = "accepted" => after \in {"accepted", "token_expired"}
BY VerdictStep

\* What a running server called expired stays expired, and what it accepted it
\* does not later call invalid (jwt.go:88-109).
THEOREM VerdictsAreStable == AccessSpec => VerdictsAge
BY Typed, VerdictsNext, PTL DEF AccessSpec, VerdictsAge

-----------------------------------------------------------------------------
(* Configurations *)

\* A running server has what its environment says, and nothing was missing.
ConfValid ==
  \A s \in Server :
    /\ conf[s] # None => conf[s] = Load(env[s]) /\ Validate(env[s]) = {} /\ report[s] = {}
    /\ report[s] # {} => report[s] = Validate(env[s])

\* No server has a configuration or a report at first.
LEMMA ConfInit == AccessInit => ConfValid
BY DEF AccessInit, ConfValid

\* A server gets its configuration only from Boot, after Validate found nothing;
\* its environment changes only when it has none.
LEMMA ConfNext == AccessTypeOK /\ ConfValid /\ [AccessNext]_accessVars => ConfValid'
<1> SUFFICES ASSUME AccessTypeOK, ConfValid, [AccessNext]_accessVars PROVE ConfValid'
  OBVIOUS
<1> USE DEF AccessTypeOK, ConfValid, Running
<1>1. CASE UNCHANGED accessVars
  BY <1>1 DEF accessVars, servers, sessions
<1>2. ASSUME NEW s \in Server, Boot(s) PROVE ConfValid'
  BY <1>2 DEF servers, sessions, Boot
<1>3. ASSUME NEW s \in Server, Repair(s) PROVE ConfValid'
  BY <1>3 DEF servers, sessions, Repair
<1>4. ASSUME NEW s \in Server, Stop(s) PROVE ConfValid'
  BY <1>4 DEF servers, sessions, Stop
<1>5. ASSUME NEW s \in Server, Deploy(s) PROVE ConfValid'
  BY <1>5 DEF servers, sessions, Deploy
<1>6. ASSUME NEW s \in Server, NEW c \in Session, Issue(s, c) PROVE ConfValid'
  BY <1>6 DEF servers, sessions, Issue
<1>7. ASSUME NEW s \in Server, NEW c \in Session, Sign(s, c) PROVE ConfValid'
  BY <1>7 DEF servers, sessions, Sign
<1>8. ASSUME NEW C \in SUBSET Session, EndSessions(C) PROVE ConfValid'
  BY <1>8 DEF servers, sessions, EndSessions
<1>9. ASSUME NEW s \in Server, NEW c \in Session, Abandon(s, c) PROVE ConfValid'
  BY <1>9 DEF servers, sessions, Abandon
<1>10. ASSUME Tick PROVE ConfValid'
  BY <1>10 DEF servers, sessions, Tick
<1> QED
  BY <1>1, <1>2, <1>3, <1>4, <1>5, <1>6, <1>7, <1>8, <1>9, <1>10 DEF AccessNext

\* A running production server has a long secret, and accepts what that secret signed.
LEMMA Secrets == AccessTypeOK /\ ConfValid => ProductionSecrets
<1> SUFFICES ASSUME AccessTypeOK, ConfValid, NEW s \in Server, NEW t \in tokens,
                    Running(s), conf[s].prod, Auth(s, t) = "accepted"
             PROVE  Length[t.secret] >= 16
  BY DEF ProductionSecrets
<1>1. conf[s] = Load(env[s]) /\ Validate(env[s]) = {}
  BY DEF ConfValid, Running
<1>2. Missing(env[s], conf[s]) = {}
  BY <1>1 DEF Validate
<1>3. ~(Length[conf[s].secret] < 16)
  BY <1>2 DEF Missing
<1>4. t.secret = conf[s].secret /\ t.secret \in Text
  BY AcceptedMeans DEF AccessTypeOK, Token
<1>5. Length[t.secret] \in Nat
  BY <1>4, ConfigAssumption
<1> QED
  BY <1>3, <1>4, <1>5

\* No production server accepts what a short secret signed, for any environments
\* it and the signer were given (config.go:148-153).
THEOREM ProductionSecretsLong == AccessSpec => []ProductionSecrets
BY Typed, ConfInit, ConfNext, Secrets, PTL DEF AccessSpec

-----------------------------------------------------------------------------
(* Rounds of repair *)

\* The defaults of the database variables are never empty, so only two
\* variables can be named, one at a time.
LEMMA NamedType ==
  ASSUME NEW e
  PROVE  Validate(e) \in {{}, {"JWT_SECRET"}, {"CORS_ALLOWED_ORIGINS"}}
<1>1. ASSUME NEW v \in DbVariable, ~IsSet(e, v) PROVE Load(e).db[v] # ""
  BY <1>1 DEF Load, Getenv, DbVariable, DbDefault
<1>2. Missing(e, Load(e)) \in {{}, {"JWT_SECRET"}}
  BY <1>1 DEF Missing
<1> QED
  BY <1>2 DEF Validate

\* Once the origins are set as named, the wildcard is not named again.
LEMMA RepairWildcard ==
  ASSUME NEW e \in Environment, Validate(e) = {"CORS_ALLOWED_ORIGINS"}
  PROVE  Validate(Repaired(e, Validate(e))) # {"CORS_ALLOWED_ORIGINS"}
<1> DEFINE f == Repaired(e, Validate(e))
<1>1. Lookup(f, "CORS_ALLOWED_ORIGINS") = Remedy["CORS_ALLOWED_ORIGINS"]
  <2>1. f.process["CORS_ALLOWED_ORIGINS"] = Remedy["CORS_ALLOWED_ORIGINS"]
    BY DEF Repaired, Variable
  <2>2. Remedy["CORS_ALLOWED_ORIGINS"] # None
    BY EnvironmentsAssumption, ConfigAssumption DEF Variable
  <2> QED
    BY <2>1, <2>2 DEF Lookup
<1>2. IsSet(f, "CORS_ALLOWED_ORIGINS") /\ Lookup(f, "CORS_ALLOWED_ORIGINS") \notin WildcardList
  BY <1>1, RemedyAssumption, EnvironmentsAssumption, ConfigAssumption DEF IsSet, Variable
<1>3. ~Load(f).wildcard
  BY <1>2 DEF Load
<1>4. Validate(f) = Missing(f, Load(f))
  BY <1>3 DEF Validate
<1> QED
  BY <1>4 DEF Missing, DbVariable

\* When only the secret was named, setting it leaves nothing to name.
LEMMA RepairSecret ==
  ASSUME NEW e \in Environment, Validate(e) = {"JWT_SECRET"}
  PROVE  Validate(Repaired(e, Validate(e))) = {}
<1> DEFINE f == Repaired(e, Validate(e))
<1>1. Lookup(f, "JWT_SECRET") = Remedy["JWT_SECRET"]
  <2>1. f.process["JWT_SECRET"] = Remedy["JWT_SECRET"]
    BY DEF Repaired, Variable
  <2>2. Remedy["JWT_SECRET"] # None
    BY EnvironmentsAssumption, ConfigAssumption DEF Variable
  <2> QED
    BY <2>1, <2>2 DEF Lookup
<1>2. ~(Length[Load(f).secret] < 16)
  <2>1. Remedy["JWT_SECRET"] \in Text
    BY EnvironmentsAssumption DEF Variable
  <2>2. Remedy["JWT_SECRET"] # None
    BY <2>1, ConfigAssumption
  <2>3. Remedy["JWT_SECRET"] # ""
    <3>1. Length[""] = 0
      BY ConfigAssumption
    <3>2. ~(0 >= 16)
      OBVIOUS
    <3>3. Length[Remedy["JWT_SECRET"]] >= 16
      BY RemedyAssumption
    <3> QED
      BY <3>1, <3>2, <3>3
  <2>4. Load(f).secret = Remedy["JWT_SECRET"]
    BY <1>1, <2>2, <2>3 DEF Load, Getenv, IsSet
  <2>5. Length[Remedy["JWT_SECRET"]] \in Nat
    BY <2>1, ConfigAssumption
  <2>6. Length[Remedy["JWT_SECRET"]] >= 16
    BY RemedyAssumption
  <2> QED
    BY <2>4, <2>5, <2>6
<1>3. ASSUME NEW v \in Variable, v # "JWT_SECRET" PROVE Lookup(f, v) = Lookup(e, v)
  BY <1>3 DEF Repaired, Lookup
<1>4. Load(f).prod = Load(e).prod /\ Load(f).wildcard = Load(e).wildcard
  BY <1>3 DEF Load, Getenv, IsSet, Variable
<1>5. ~(Load(e).prod /\ Load(e).wildcard)
  BY DEF Validate
<1>6. Validate(f) = Missing(f, Load(f))
  BY <1>4, <1>5 DEF Validate
<1>7. "JWT_SECRET" \notin Missing(f, Load(f)) /\ "CORS_ALLOWED_ORIGINS" \notin Missing(f, Load(f))
  BY <1>2 DEF Missing, DbVariable
<1> QED
  BY <1>6, <1>7, NamedType

\* After one refusal only the secret can be missing, after two nothing.
RoundsLeft ==
  \A s \in Server :
    /\ rounds[s] \in 0..2
    /\ rounds[s] = 0 => report[s] = {}
    /\ rounds[s] = 1 /\ report[s] = {} => Validate(env[s]) \in {{}, {"JWT_SECRET"}}
    /\ rounds[s] = 2 /\ report[s] = {} => Validate(env[s]) = {}
    /\ rounds[s] = 2 /\ report[s] # {} => report[s] = {"JWT_SECRET"}

\* No start was refused at first.
LEMMA RoundsInit == AccessInit => RoundsLeft
BY DEF AccessInit, RoundsLeft

\* Each refusal and repair leaves a variable less to name.
LEMMA RoundsNext ==
  AccessTypeOK /\ ConfValid /\ RoundsLeft /\ [AccessNext]_accessVars => RoundsLeft'
<1> SUFFICES ASSUME AccessTypeOK, ConfValid, RoundsLeft, [AccessNext]_accessVars
             PROVE  RoundsLeft'
  OBVIOUS
<1> USE DEF AccessTypeOK, RoundsLeft
<1>1. CASE UNCHANGED accessVars
  BY <1>1 DEF accessVars, servers, sessions
<1>2. ASSUME NEW s \in Server, Boot(s) PROVE RoundsLeft'
  <2>1. \A r \in Server : r # s => rounds'[r] = rounds[r] /\ report'[r] = report[r]
    BY <1>2 DEF Boot
  <2>2. env' = env /\ report[s] = {}
    BY <1>2 DEF Boot
  <2>3. \/ rounds'[s] = rounds[s] /\ report'[s] = {}
        \/ /\ Validate(env[s]) # {} /\ report'[s] = Validate(env[s])
           /\ rounds'[s] = rounds[s] + 1
    BY <1>2, <2>2 DEF Boot
  <2> QED
    BY <2>1, <2>2, <2>3
<1>3. ASSUME NEW s \in Server, Repair(s) PROVE RoundsLeft'
  <2>1. env'[s] = Repaired(env[s], Validate(env[s])) /\ report[s] = Validate(env[s])
    BY <1>3 DEF Repair, ConfValid
  <2>2. report'[s] = {} /\ rounds' = rounds
    BY <1>3 DEF Repair
  <2>3. \A r \in Server : r # s => env'[r] = env[r] /\ report'[r] = report[r]
    BY <1>3 DEF Repair
  <2>4. env[s] \in Environment /\ rounds[s] # 0
    BY <1>3 DEF Repair
  <2>5. /\ report[s] = {"CORS_ALLOWED_ORIGINS"} => Validate(env'[s]) # {"CORS_ALLOWED_ORIGINS"}
        /\ report[s] = {"JWT_SECRET"} => Validate(env'[s]) = {}
    BY <2>1, <2>4, RepairWildcard, RepairSecret
  <2>6. /\ report[s] \in {{"JWT_SECRET"}, {"CORS_ALLOWED_ORIGINS"}}
        /\ Validate(env'[s]) \in {{}, {"JWT_SECRET"}, {"CORS_ALLOWED_ORIGINS"}}
    BY <1>3, <2>1, NamedType DEF Repair
  <2> QED
    BY <2>2, <2>3, <2>4, <2>5, <2>6
<1>4. ASSUME NEW s \in Server, Stop(s) PROVE RoundsLeft'
  BY <1>4 DEF servers, sessions, Stop
<1>5. ASSUME NEW s \in Server, Deploy(s) PROVE RoundsLeft'
  BY <1>5 DEF servers, sessions, Deploy
<1>6. ASSUME NEW s \in Server, NEW c \in Session, Issue(s, c) PROVE RoundsLeft'
  BY <1>6 DEF servers, sessions, Issue
<1>7. ASSUME NEW s \in Server, NEW c \in Session, Sign(s, c) PROVE RoundsLeft'
  BY <1>7 DEF servers, sessions, Sign
<1>8. ASSUME NEW C \in SUBSET Session, EndSessions(C) PROVE RoundsLeft'
  BY <1>8 DEF servers, sessions, EndSessions
<1>9. ASSUME NEW s \in Server, NEW c \in Session, Abandon(s, c) PROVE RoundsLeft'
  BY <1>9 DEF servers, sessions, Abandon
<1>10. ASSUME Tick PROVE RoundsLeft'
  BY <1>10 DEF servers, sessions, Tick
<1> QED
  BY <1>1, <1>2, <1>3, <1>4, <1>5, <1>6, <1>7, <1>8, <1>9, <1>10 DEF AccessNext

\* The invariant bounds the rounds.
LEMMA RoundsBound == RoundsLeft => TwoRoundsAtMost
BY DEF RoundsLeft, TwoRoundsAtMost

\* Whatever the environment, setting what is named takes two rounds at most
\* (config.go:130-165).
THEOREM TwoRoundsEnough == AccessSpec => []TwoRoundsAtMost
BY Typed, ConfInit, ConfNext, RoundsInit, RoundsNext, RoundsBound, PTL DEF AccessSpec
=============================================================================

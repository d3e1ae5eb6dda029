-------------------------------- MODULE Config --------------------------------
(***************************************************************************)
(* config.Load and config.Validate: what an environment means to a server. *)
(* A variable holds a text; the conversions of the standard library are    *)
(* constants, functions on the texts they accept.  Kept are the variables  *)
(* that bear on access tokens or that Validate looks at.                   *)
(***************************************************************************)
EXTENDS Integers

CONSTANTS
  Text,           \* the texts a variable may be set to, "" among them
  Length,         \* len, in bytes
  ParseDuration,  \* time.ParseDuration: its texts -> ticks of the clock
  WildcardList,   \* the texts that strings.Split and TrimSpace turn into ["*"]
  FifteenMinutes, \* the default of JWT_ACCESS_TTL, in ticks
  None            \* an unset variable

ASSUME ConfigAssumption ==
  /\ "" \in Text /\ None \notin Text
  /\ Length \in [Text -> Nat] /\ Length[""] = 0
  /\ DOMAIN ParseDuration \subseteq Text \ {""}
  /\ \A x \in DOMAIN ParseDuration : ParseDuration[x] \in Int
  /\ WildcardList \subseteq Text \ {""}
  /\ FifteenMinutes \in Int

DbVariable == {"DB_HOST", "DB_NAME", "DB_USER"}

\* What Load falls back to.
DbDefault(v) == CASE v = "DB_HOST" -> "localhost" [] v = "DB_NAME" -> "gostartv2" [] v = "DB_USER" -> "postgres"

Defaults == {"local", "gostartv2", "postgres", "localhost"}

Variable == DbVariable \cup {"APP_ENV", "JWT_SECRET", "JWT_ISSUER", "JWT_ACCESS_TTL", "CORS_ALLOWED_ORIGINS"}

\* The variables the process was started with, and those of its .env file.
Environment == [process: [Variable -> Text \cup {None}], file: [Variable -> Text \cup {None}]]

\* Mutant: godotenv.Overload instead of Load.
LookupOverloaded(env, v) == IF env.file[v] # None THEN env.file[v] ELSE env.process[v]

\* godotenv.Load sets only what is not set: an empty variable hides the file's.
Lookup(env, v) == IF env.process[v] # None THEN env.process[v] ELSE env.file[v]

IsSet(env, v) == Lookup(env, v) \notin {None, ""}

\* Mutant: without the fallback.
GetenvUnset(env, v, fallback) == Lookup(env, v)

Getenv(env, v, fallback) == IF IsSet(env, v) THEN Lookup(env, v) ELSE fallback

GetenvDuration(env, v, fallback) ==
  IF Lookup(env, v) \in DOMAIN ParseDuration THEN ParseDuration[Lookup(env, v)] ELSE fallback

Load(env) ==
  [prod     |-> Getenv(env, "APP_ENV", "local") = "production",
   secret   |-> Getenv(env, "JWT_SECRET", ""),
   issuer   |-> Getenv(env, "JWT_ISSUER", "gostartv2"),
   ttl      |-> GetenvDuration(env, "JWT_ACCESS_TTL", FifteenMinutes),
   wildcard |-> IsSet(env, "CORS_ALLOWED_ORIGINS") => Lookup(env, "CORS_ALLOWED_ORIGINS") \in WildcardList,
   db       |-> [v \in DbVariable |-> Getenv(env, v, DbDefault(v))]]

\* Mutant: the length of a secret that is there is not looked at.
MissingWithoutLength(env, c) ==
  {v \in DbVariable : ~IsSet(env, v) /\ c.db[v] = ""}
    \cup {v \in {"JWT_SECRET"} : c.prod /\ c.secret = ""}

Missing(env, c) ==
  {v \in DbVariable : ~IsSet(env, v) /\ c.db[v] = ""}
    \cup {v \in {"JWT_SECRET"} : c.prod /\ Length[c.secret] < 16}

\* The variables the error of Validate names: none when it returns nil.  A
\* wildcard is reported at once, and alone.
Validate(env) ==
  LET c == Load(env)
  IN  IF c.prod /\ c.wildcard THEN {"CORS_ALLOWED_ORIGINS"} ELSE Missing(env, c)
=============================================================================

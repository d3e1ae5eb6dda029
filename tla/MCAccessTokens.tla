---------------------------- MODULE MCAccessTokens ----------------------------
(* AccessTokens for TLC: seconds of two ticks, and environments whose         *)
(* variables come from the process or from its .env file.                     *)
EXTENDS AccessTokens, TLC

Texts == {"", "production", "secret", "0123456789abcdef", "other", "*",
          "https://a.example", "soon", "1500ms", "2s"}

Lengths == [x \in Texts |->
  CASE x = "" -> 0 [] x = "0123456789abcdef" -> 16 [] OTHER -> 6]

Durations == [x \in {"1500ms", "2s"} |-> IF x = "2s" THEN 4 ELSE 3]

Of(vars) == [v \in Variable |-> IF v \in DOMAIN vars THEN vars[v] ELSE None]

Production == "APP_ENV" :> "production"

\* A file with a short secret and the wildcard, and what overrides it.
Template == Of(Production @@ "JWT_SECRET" :> "secret" @@ "CORS_ALLOWED_ORIGINS" :> "*" @@
               "JWT_ACCESS_TTL" :> "2s")

Remedies == [v \in Variable |->
  IF v = "CORS_ALLOWED_ORIGINS" THEN "https://a.example" ELSE "0123456789abcdef"]

Deployments == {
  [process |-> Of(<<>>), file |-> Template],
  [process |-> Of("APP_ENV" :> "" @@ "JWT_ACCESS_TTL" :> "soon"), file |-> Template],
  [process |-> Of("JWT_SECRET" :> "secret" @@ "JWT_ACCESS_TTL" :> "1500ms" @@ "JWT_ISSUER" :> "other"),
   file |-> Of(<<>>)]}

Servers == Permutations(Server)
=============================================================================

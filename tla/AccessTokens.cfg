\* Two servers whose clocks may be a tick apart, and one token of one session.
SPECIFICATION AccessSpec
CONSTANTS
  Text <- Texts
  Length <- Lengths
  ParseDuration <- Durations
  WildcardList = {"*"}
  FifteenMinutes = 2
  None = None
  Server = {s1, s2}
  Session = {c1}
  Environments <- Deployments
  Remedy <- Remedies
  Second = 2
  MaxSkew = 1
  MaxTime = 8
  MaxTokens = 1
SYMMETRY Servers
INVARIANT AccessTypeOK
INVARIANT AcceptedInTime
INVARIANT FreshTokensServe
INVARIANT AccessEndsWithSession
INVARIANT ProductionSecrets
INVARIANT TwoRoundsAtMost
PROPERTY VerdictsAge

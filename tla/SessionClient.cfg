\* A browser with two requests at a time and one fault, logging in again and
\* again; three sessions and four tokens at a time.
SPECIFICATION MCSpec
CONSTANTS
  Proc = {p1, p2}
  User = {u1}
  Chain = {1, 2, 3}
  Token = {1, 2, 3, 4}
  None = None
  MaxFaults = 1
ACTION_CONSTRAINT ForgetFirst
ACTION_CONSTRAINT DrawLeast
INVARIANT NoFalseAlarm
INVARIANT JarHoldsTheSession
INVARIANT CalmSessions
PROPERTY Recovers
\* The model stops when its user is deleted.
CHECK_DEADLOCK FALSE

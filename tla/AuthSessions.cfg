\* Two users and two requests at a time, over the tokens of one session.
SPECIFICATION Spec
CONSTANTS
  Proc = {p1, p2}
  User = {u1, u2}
  Chain = {c1}
  Token = {t1, t2, t3}
  None = None
SYMMETRY Identities
INVARIANT PredecessorRevoked
INVARIANT SessionsKeepTheirOwner
INVARIANT Inv
PROPERTY ImplementsLedger
PROPERTY OverIsFinal
PROPERTY ImplementsAccess
\* The model stops when its users are deleted or its identities are used up.
CHECK_DEADLOCK FALSE

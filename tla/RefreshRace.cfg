\* Two refreshes of one token at a time.
SPECIFICATION Spec
CONSTANTS
  Proc = {p1, p2}
  User = {u1}
  Chain = {c1}
  Token = {t1, t2, t3}
  None = None
SYMMETRY Identities
INVARIANT OneSuccessorPerToken
\* The model stops when its user is deleted or its identities are used up.
CHECK_DEADLOCK FALSE

\* A refresh in flight while reuse of its chain is answered.
SPECIFICATION Spec
CONSTANTS
  Proc = {p1, p2}
  User = {u1}
  Chain = {c1}
  Token = {t1, t2, t3}
  None = None
SYMMETRY Identities
INVARIANT ReuseEndsSession
\* The model stops when its user is deleted or its identities are used up.
CHECK_DEADLOCK FALSE

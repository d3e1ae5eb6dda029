\* Logout whose UPDATE fails.
SPECIFICATION Spec
CONSTANTS
  Proc = {p1, p2}
  User = {u1}
  Chain = {c1}
  Token = {t1, t2}
  None = None
SYMMETRY Identities
INVARIANT LogoutEndsToken
\* The model stops when its user is deleted or its identities are used up.
CHECK_DEADLOCK FALSE

\* Two requests at a time on two users, two emails and two passwords.
SPECIFICATION Spec
CONSTANTS
  Id = {i1, i2}
  Email = {e1, e2}
  Password = {w1, w2}
  Proc = {p1, p2}
  None = None
SYMMETRY Symmetry
INVARIANT TypeOK
INVARIANT SessionsMatchCredentials
PROPERTY NoLostUpdate
PROPERTY DeletedStaysDeleted

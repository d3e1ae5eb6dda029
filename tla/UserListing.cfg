\* A walk over at most four users, with a malformed cursor on the way.
SPECIFICATION Spec
CONSTANTS
  Stamp <- TwoStamps
  Id <- Ids
  Query <- Limits
  DefaultLimit = 2
  MaxLimit = 3
  MaxMangled = 1
  MaxPages = 6
  None = None
INVARIANT TypeOK
INVARIANT NoUserTwice
INVARIANT WalkIsComplete
INVARIANT PagesPay
PROPERTY WalkEnds
\* The model stops when every id is used, every user deleted and the walk over.
CHECK_DEADLOCK FALSE

\* Three calls and two connections; the contexts of two of them never end.
SPECIFICATION Spec
CONSTANTS
  Call = {c1, c2, c3}
  Background = {c2, c3}
  MaxConns = 2
  None = None
INVARIANT TypeOK
INVARIANT ConnectionsAccounted
PROPERTY KeepsPromise
PROPERTY CallsReturn
PROPERTY ConnectionsReturn
\* The model stops when every call has been answered.
CHECK_DEADLOCK FALSE

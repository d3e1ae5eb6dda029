\* Two addresses, two requests at a time, a burst of two.
SPECIFICATION Spec
CONSTANTS
  Ip = {i1}
  Port = {q1, q2}
  Limiter = {l1, l2}
  Proc = {p1, p2}
  None = None
  Burst = 2
  Cost = 2
  MaxTick = 6
SYMMETRY Symmetry
INVARIANT TypeOK
INVARIANT WindowBound
INVARIANT RefusedOnlyOverLimit
PROPERTY ImplementsBuckets

\* Two connections of one client IP.
SPECIFICATION Spec
CONSTANTS
  Ip = {i1}
  Port = {q1, q2}
  Limiter = {l1, l2}
  Proc = {p1, p2}
  None = None
  Burst = 2
  Cost = 2
  MaxTick = 4
SYMMETRY Symmetry
INVARIANT EachClientIPLimited

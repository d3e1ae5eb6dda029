\* A process from its start to its end, with three requests and two signals.
SPECIFICATION Spec
CONSTANTS
  Conn <- Conns
  MaxSignals = 2
INVARIANT TypeOK
INVARIANT ExitsAfterClose
INVARIANT OnlyForcedCuts
INVARIANT NoLostWakeup
PROPERTY EndsOnceSignalled
\* The process ends.
CHECK_DEADLOCK FALSE
